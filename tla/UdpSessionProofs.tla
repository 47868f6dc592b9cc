-------------------------- MODULE UdpSessionProofs --------------------------
(***************************************************************************)
(* Proofs about UdpSession, for any timeouts, windows and bounds.          *)
(***************************************************************************)
EXTENDS UdpSession, TLAPS

USE SessionAssumption DEF Packets, Messages, NoPacket

LEMMA LaterRange ==
    ASSUME NEW a \in 0..MaxPkt, NEW b \in 0..MaxPkt
    PROVE  Later(a, b) \in 0..MaxPkt
BY DEF Later

LEMMA NextGenRange ==
    ASSUME gen \in 0..NumPorts
    PROVE  NextGen \in 1..NumPorts /\ NextGen # gen
BY DEF NextGen

\* A message sent changes nothing but msgs, which gains it at most.
LEMMA TellsMessage ==
    ASSUME NEW p, NEW n, NEW heard, Tells(p, n, heard)
    PROVE  msgs' = msgs \/ msgs' = msgs \cup {[port |-> p, last |-> n]}
BY DEF Tells

LEMMA SendsPacket ==
    ASSUME NEW g, NEW n, NEW before, NEW missing, Sends(g, n, before, missing)
    PROVE  /\ data' \subseteq before \cup {[gen |-> g, n |-> n]}
           /\ lost' \subseteq missing \cup {n}
BY DEF Sends

LEMMA InitTypeOK == Init => TypeOK
BY DEF Init, TypeOK

LEMMA NextTypeOK == TypeOK /\ [Next]_vars => TypeOK'
<1> SUFFICES ASSUME TypeOK, [Next]_vars
             PROVE  TypeOK'
  OBVIOUS
<1> USE DEF TypeOK
<1>1. ASSUME NEW p \in data, Arrives(p)
      PROVE  TypeOK'
  BY <1>1 DEF Arrives, sessionVars
<1>2. ASSUME NEW heard \in BOOLEAN, HandleReceive(heard)
      PROVE  TypeOK'
  <2>1. last' \in 0..MaxPkt
    BY <1>2, LaterRange DEF HandleReceive
  <2>2. msgs' \subseteq Messages
    BY <1>2, <2>1, TellsMessage DEF HandleReceive
  <2> QED
    BY <1>2, <2>1, <2>2 DEF HandleReceive, sessionVars
<1>3. ASSUME NEW heard \in BOOLEAN, HandleTimeout(heard)
      PROVE  TypeOK'
  <2>1. port' \in 0..NumPorts /\ last' \in 0..MaxPkt
    BY <1>3 DEF HandleTimeout, NextPort, NextLast
  <2>2. msgs' \subseteq Messages
    BY <1>3, <2>1, TellsMessage DEF HandleTimeout
  <2>3. silence' \in 0..(SvrTimeout + 1) /\ counter' \in 0..Fall
    BY <1>3 DEF HandleTimeout
  <2> QED
    BY <1>3, <2>1, <2>2, <2>3 DEF HandleTimeout
<1>4. CASE Send
  <2>1. cur' \in 1..MaxPkt
    BY <1>4 DEF Send
  <2>2. gen \in 1..NumPorts
    BY <1>4 DEF Send
  <2>3. Sends(gen, cur', data, lost)
    BY <1>4 DEF Send
  <2>4. [gen |-> gen, n |-> cur'] \in Packets
    BY <2>1, <2>2
  <2>5. data' \subseteq data \cup {[gen |-> gen, n |-> cur']}
    BY <2>3 DEF Sends
  <2>6. lost' \subseteq lost \cup {cur'}
    BY <2>3 DEF Sends
  <2>7. data' \subseteq Packets /\ lost' \subseteq 1..MaxPkt
    BY <2>1, <2>4, <2>5, <2>6
  <2> QED
    BY <1>4, <2>1, <2>2, <2>7 DEF Send, clientVars
<1>5. CASE ServerTimeout
  BY <1>5 DEF ServerTimeout, clientVars
<1>6. ASSUME NEW w \in Windows, UpdateRate(w)
      PROVE  TypeOK'
  BY <1>6 DEF UpdateRate, clientVars
<1>7. ASSUME NEW m \in msgs, Receive(m)
      PROVE  TypeOK'
  <2>1. m.last \in 0..MaxPkt /\ msgs' \subseteq Messages
    BY <1>7 DEF Receive
  <2>2. CASE NewSession(m)
    <3>1. Sends(NextGen, 1, data, {})
      BY <2>2 DEF NewSession
    <3>2. data' \subseteq Packets /\ lost' \subseteq 1..MaxPkt
      BY <3>1, NextGenRange DEF Sends
    <3> QED
      BY <1>7, <2>1, <2>2, <3>2, NextGenRange DEF NewSession, Receive, clientVars
  <2>3. CASE DataReceived(m) /\ svr = "live"
    <3>1. last_ack' \in 0..MaxPkt
      BY <2>1, <2>3 DEF DataReceived, Later
    <3>2. UNCHANGED <<svr, gen, cur, window, lost, data, checked, port, last, counter, got>>
      BY <1>7, <2>3 DEF DataReceived, Receive, clientVars
    <3>3. silence' = 0
      BY <2>3 DEF DataReceived
    <3> QED
      BY <2>1, <3>1, <3>2, <3>3
  <2>4. CASE Ignored
    BY <1>7, <2>1, <2>4 DEF Ignored, Receive, clientVars, sessionVars
  <2> QED
    BY <1>7, <2>2, <2>3, <2>4 DEF Receive
<1>8. CASE UNCHANGED vars
  BY <1>8 DEF vars, sessionVars, clientVars
<1> QED
  BY <1>1, <1>2, <1>3, <1>4, <1>5, <1>6, <1>7, <1>8 DEF Next

\* Server, client and network stay within their ranges (server.h:104-136,
\* client.cpp:86-134).
THEOREM TypeCorrect == Spec => []TypeOK
<1>1. Init => TypeOK
  BY InitTypeOK
<1>2. TypeOK /\ [Next]_vars => TypeOK'
  BY NextTypeOK
<1> QED
  BY <1>1, <1>2, PTL DEF Spec
-----------------------------------------------------------------------------
\* What a new session finds when it begins: nothing of the one before.
Settled ==
    /\ data = {} /\ got = NoPacket
    /\ port \in {0, gen}
    /\ \A m \in msgs : m.port \in {0, gen} /\ (m.port = 0 => last = 0)

\* Nothing under way is ahead of what the session has sent.
InStep ==
    /\ last_ack <= cur /\ last <= cur
    /\ port \in {0, gen}
    /\ \A p \in data : p.gen = gen /\ p.n <= cur
    /\ got # NoPacket => got.gen = gen /\ got.n <= cur
    /\ \A m \in msgs : m.port = gen => m.last <= cur

\* The client's number is that of the session whose port it talks to.
PortAndNumber ==
    /\ got # NoPacket => port = got.gen
    /\ got = NoPacket => (port = 0 <=> last = 0)
    /\ \A m \in msgs : m.port = 0 => m.last = 0

AckInv ==
    /\ PortAndNumber
    /\ svr # "none" => InStep
    /\ svr = "none" \/ (svr = "marked" /\ ~ checked) => Settled

LEMMA InitAckInv == Init => AckInv
BY DEF Init, AckInv, PortAndNumber, Settled

LEMMA ArrivesAckInv ==
    ASSUME TypeOK, AckInv, NEW p \in data, Arrives(p)
    PROVE  AckInv'
<1>1. p \in Packets /\ p # NoPacket
  BY DEF TypeOK
<1>2. svr # "none" /\ ~ (svr = "marked" /\ ~ checked)
  BY DEF AckInv, Settled
<1>3. InStep'
  BY <1>2 DEF AckInv, InStep, Arrives, sessionVars
<1>4. PortAndNumber'
  BY <1>1 DEF AckInv, PortAndNumber, Arrives
<1> QED
  BY <1>2, <1>3, <1>4 DEF AckInv, Arrives, sessionVars

LEMMA ReceivesAckInv ==
    ASSUME TypeOK, AckInv, NEW heard \in BOOLEAN, HandleReceive(heard)
    PROVE  AckInv'
<1>1. svr # "none" /\ ~ (svr = "marked" /\ ~ checked)
  BY DEF AckInv, Settled, HandleReceive
<1>2. InStep /\ got \in Packets /\ got.gen = gen /\ got.n <= cur /\ port = gen
  BY <1>1 DEF AckInv, InStep, PortAndNumber, HandleReceive, TypeOK
<1>3. last' \in 1..cur /\ gen # 0
  BY <1>1, <1>2 DEF InStep, HandleReceive, Later, TypeOK
<1>4. msgs' = msgs \/ msgs' = msgs \cup {[port |-> port, last |-> last']}
  BY TellsMessage DEF HandleReceive
<1>5. InStep'
  BY <1>2, <1>3, <1>4 DEF InStep, HandleReceive, sessionVars
<1>6. PortAndNumber'
  BY <1>2, <1>3, <1>4 DEF AckInv, PortAndNumber, HandleReceive
<1> QED
  BY <1>1, <1>5, <1>6 DEF AckInv, HandleReceive, sessionVars

\* Without ShortTrips messages of earlier periods would be left in msgs, and
\* without Prompt a packet in got.
LEMMA TimeoutAckInv ==
    ASSUME Prompt, ShortTrips, TypeOK, AckInv, NEW heard \in BOOLEAN, HandleTimeout(heard)
    PROVE  AckInv'
<1>1. got = NoPacket /\ data = {} /\ msgs = {}
  BY DEF HandleTimeout
<1>2. (port' = 0 <=> last' = 0) /\ (port' = port \/ port' = 0) /\ (last' = last \/ last' = 0)
  BY <1>1 DEF AckInv, PortAndNumber, HandleTimeout, NextPort, NextLast
<1>3. msgs' = {} \/ msgs' = {[port |-> port', last |-> last']}
  BY <1>1, TellsMessage DEF HandleTimeout
<1>4. port \in {0, gen}
  BY DEF AckInv, InStep, Settled
<1>5. PortAndNumber'
  BY <1>1, <1>2, <1>3 DEF PortAndNumber, HandleTimeout
<1>6. Settled'
  BY <1>1, <1>2, <1>3, <1>4 DEF Settled, HandleTimeout
<1>7. ASSUME svr # "none"
      PROVE  InStep'
  BY <1>1, <1>2, <1>3, <1>4, <1>7 DEF AckInv, InStep, HandleTimeout, TypeOK
<1> QED
  BY <1>5, <1>6, <1>7 DEF AckInv, HandleTimeout

LEMMA SendAckInv ==
    ASSUME TypeOK, AckInv, Send
    PROVE  AckInv'
<1>1. svr = "live" /\ svr' = svr /\ cur' = cur + 1 /\ gen' = gen
  BY DEF Send
<1>2. data' \subseteq data \cup {[gen |-> gen, n |-> cur']}
  BY SendsPacket DEF Send
<1>3. InStep'
  BY <1>1, <1>2 DEF AckInv, InStep, Send, TypeOK, clientVars
<1>4. PortAndNumber'
  BY DEF AckInv, PortAndNumber, Send, clientVars
<1> QED
  BY <1>1, <1>3, <1>4 DEF AckInv

LEMMA ServerTimeoutAckInv ==
    ASSUME TypeOK, AckInv, ServerTimeout
    PROVE  AckInv'
<1>1. UNCHANGED <<gen, cur, last_ack, port, last, got, data, msgs>>
  BY DEF ServerTimeout, clientVars
<1>2. checked' /\ ~ checked
  BY DEF ServerTimeout
<1>3. svr' # "none" => svr # "none"
  BY DEF ServerTimeout
<1>4. svr' = "none" => svr = "none" \/ svr = "marked"
  BY DEF ServerTimeout
<1>5. PortAndNumber' /\ (InStep => InStep') /\ (Settled => Settled')
  BY <1>1 DEF AckInv, PortAndNumber, InStep, Settled
<1> QED
  BY <1>2, <1>3, <1>4, <1>5 DEF AckInv

LEMMA ReceiveAckInv ==
    ASSUME TypeOK, AckInv, NEW m \in msgs, Receive(m)
    PROVE  AckInv'
<1>1. msgs' \subseteq msgs /\ m \in Messages /\ UNCHANGED <<checked, port, last, counter, got>>
  BY DEF Receive, TypeOK, clientVars
<1>2. PortAndNumber'
  BY <1>1 DEF AckInv, PortAndNumber
<1>3. CASE svr = "none" /\ m.port = 0 /\ NewSession(m)
  <2>1. Settled /\ last = 0 /\ port = 0 /\ m.last = 0
    BY <1>3 DEF AckInv, Settled, PortAndNumber
  <2>2. gen' # gen /\ gen' \in 1..NumPorts /\ cur' = 1 /\ svr' = "live" /\ last_ack' = 0
    BY <1>3, <2>1, NextGenRange DEF NewSession, TypeOK
  <2>3. data' \subseteq {[gen |-> gen', n |-> 1]}
    BY <1>3, <2>1, SendsPacket DEF NewSession, Settled
  <2>4. InStep'
    BY <1>1, <2>1, <2>2, <2>3 DEF InStep, Settled, TypeOK
  <2> QED
    BY <1>2, <2>2, <2>4 DEF AckInv
<1>4. CASE svr = "live" /\ m.port \in {0, gen} /\ DataReceived(m)
  <2>1. m.last <= cur
    BY <1>4, <1>1 DEF AckInv, InStep, PortAndNumber, TypeOK
  <2>2. InStep'
    BY <1>1, <1>4, <2>1 DEF AckInv, InStep, DataReceived, Later, TypeOK
  <2> QED
    BY <1>2, <1>4, <2>2 DEF AckInv, DataReceived
<1>5. CASE Ignored
  <2>1. InStep => InStep'
    BY <1>1, <1>5 DEF InStep, Ignored, sessionVars
  <2>2. Settled => Settled'
    BY <1>1, <1>5 DEF Settled, Ignored, sessionVars
  <2> QED
    BY <1>1, <1>2, <1>5, <2>1, <2>2 DEF AckInv, Ignored, sessionVars
<1> QED
  BY <1>3, <1>4, <1>5 DEF Receive

LEMMA UnchangedAckInv ==
    ASSUME AckInv, UNCHANGED <<svr, gen, cur, last_ack, checked, port, last, got, data, msgs>>
    PROVE  AckInv'
BY DEF AckInv, PortAndNumber, InStep, Settled

LEMMA NextAckInv ==
    ASSUME Prompt, ShortTrips, TypeOK, AckInv, [Next]_vars
    PROVE  AckInv'
<1>1. ASSUME NEW w \in Windows, UpdateRate(w)
      PROVE  AckInv'
  BY <1>1, UnchangedAckInv DEF UpdateRate, clientVars
<1>2. CASE UNCHANGED vars
  BY <1>2, UnchangedAckInv DEF vars, sessionVars, clientVars
<1> QED
  BY <1>1, <1>2, ArrivesAckInv, ReceivesAckInv, TimeoutAckInv, SendAckInv,
     ServerTimeoutAckInv, ReceiveAckInv DEF Next

\* Acknowledgements stay within what the session has sent, whatever is lost or
\* overtakes other messages within a period of the server's timer: that is what
\* deleting a session only a period after stopping it (server.h:694-703) and falling
\* back with number 0 (client.cpp:130) achieve together.
THEOREM AcksSafe ==
    ASSUME Prompt, ShortTrips
    PROVE  Spec => []AckSafe
<1>1. Init => AckInv
  BY InitAckInv
<1>2. TypeOK /\ AckInv /\ [Next]_vars => AckInv'
  BY NextAckInv
<1>3. AckInv => AckSafe
  BY DEF AckInv, InStep, AckSafe
<1> QED
  BY <1>1, <1>2, <1>3, TypeCorrect, PTL DEF Spec
=============================================================================
