-------------------------- MODULE SdnManagerProofs --------------------------
(***************************************************************************)
(* Proofs about SdnManager, for any set of hosts and any bound.            *)
(***************************************************************************)
EXTENDS SdnManager, FiniteSetTheorems, TLAPS

-----------------------------------------------------------------------------
(* Sequences.                                                              *)

LEMMA TailOf ==
    ASSUME NEW S, NEW s \in Seq(S), s # <<>>
    PROVE  /\ Tail(s) \in Seq(S) /\ Len(Tail(s)) = Len(s) - 1
           /\ \A i \in 1..Len(Tail(s)) : i + 1 \in 1..Len(s) /\ Tail(s)[i] = s[i + 1]
           /\ Len(s) \in Nat \ {0} /\ s[1] \in S /\ Head(s) = s[1]
OBVIOUS

LEMMA SubSeqOf ==
    ASSUME NEW S, NEW s \in Seq(S), NEW m \in Nat \ {0}, NEW n \in Nat, n <= Len(s)
    PROVE  /\ SubSeq(s, m, n) \in Seq(S)
           /\ Len(SubSeq(s, m, n)) = IF m <= n THEN n - m + 1 ELSE 0
OBVIOUS

LEMMA SmallSeqs ==
    ASSUME NEW S, NEW e \in S
    PROVE  <<e>> \in Seq(S) /\ <<>> \in Seq(S)
OBVIOUS

LEMMA HalfOf ==
    ASSUME NEW n \in Nat, NEW i \in 1..2 * n
    PROVE  (i + 1) \div 2 \in 1..n /\ 2 * n \in Nat
OBVIOUS

LEMMA PiecesType ==
    ASSUME NEW reqs \in Seq(Request)
    PROVE  Pieces(reqs) \in Seq(Piece)
<1>1. \A i \in 1..2 * Len(reqs) : (i + 1) \div 2 \in 1..Len(reqs)
  BY HalfOf
<1>2. \A i \in 1..2 * Len(reqs) :
        [req |-> reqs[(i + 1) \div 2], part |-> IF i % 2 = 1 THEN "head" ELSE "body"] \in Piece
  BY <1>1 DEF Piece
<1>3. 2 * Len(reqs) \in Nat
  OBVIOUS
<1> QED
  BY <1>2, <1>3 DEF Pieces

\* A round has a request for every direction of every host.
LEMMA RoundType ==
    ASSUME clients \subseteq Addresses, NEW f \in Orders(clients)
    PROVE  /\ Round(f) \in Seq(Request)
           /\ clients # {} => Round(f) # <<>>
<1>1. IsFiniteSet(clients)
  BY ManagerAssumption, FS_Subset
<1>2. Cardinality(clients) \in Nat /\ (clients # {} => Cardinality(clients) # 0)
  BY <1>1, FS_CardinalityType, FS_EmptySet
<1>3. f \in [1..Cardinality(clients) -> clients]
  BY DEF Orders
<1>4. f \in Seq(clients) /\ Len(f) = Cardinality(clients)
  BY <1>2, <1>3
<1>5. \A i \in 1..2 * Len(f) : (i + 1) \div 2 \in 1..Len(f)
  BY <1>2, <1>4, HalfOf
<1>6. \A i \in 1..2 * Len(f) :
        [addr |-> f[(i + 1) \div 2], forward |-> i % 2 = 1] \in Request
  BY <1>3, <1>4, <1>5 DEF Request
<1>7. 2 * Len(f) \in Nat
  BY <1>2, <1>4
<1>8. Round(f) \in Seq(Request) /\ Len(Round(f)) = 2 * Len(f)
  BY <1>6, <1>7 DEF Round
<1> QED
  BY <1>2, <1>4, <1>8
-----------------------------------------------------------------------------
(* Type correctness.                                                       *)

LEMMA HandlerKinds ==
    /\ \A ok \in BOOLEAN : Connect(ok) \in Handler
    /\ Timeout \in Handler /\ Eof \in Handler /\ Error \in Handler
    /\ \A s \in Seq(Piece) : Received(s) \in Handler
<1>1. <<>> \in Seq(Piece)
  OBVIOUS
<1> QED
  BY <1>1 DEF Handler, Connect, Timeout, Eof, Error, Received

LEMMA HandlerShapes ==
    ASSUME NEW h \in Handler
    PROVE  /\ h.kind = "receive" => h.pieces \in Seq(Piece)
           /\ h.kind = "receive" /\ h.result = "eof" => h = Eof
           /\ h.kind = "timeout" => h = Timeout
<1>1. <<>> \in Seq(Piece)
  OBVIOUS
<1> DEFINE Data == [kind : {"receive"}, result : {"data"}, pieces : Seq(Piece)]
<1>2. CASE h \in Data
  BY <1>2
<1>3. CASE h \in [kind : {"connect"}, ok : BOOLEAN]
  BY <1>3
<1>4. CASE h = Timeout
  BY <1>4 DEF Timeout
<1>5. CASE h = Eof
  BY <1>1, <1>5 DEF Eof
<1>6. CASE h = Error
  BY <1>1, <1>6 DEF Error
<1> QED
  BY <1>2, <1>3, <1>4, <1>5, <1>6 DEF Handler

LEMMA AbortedType ==
    ASSUME rx \in Nat
    PROVE  Aborted \in Seq(Handler)
<1>1. Error \in Handler /\ Connect(FALSE) \in Handler
  BY HandlerKinds
<1> DEFINE errors == [i \in 1..rx |-> Error]
           rest == IF sock = "connecting" THEN <<Connect(FALSE)>> ELSE <<>>
<1>2. errors \in Seq(Handler)
  BY <1>1
<1>3. <<Connect(FALSE)>> \in Seq(Handler) /\ <<>> \in Seq(Handler)
  <2> HIDE DEF errors, rest
  <2> QED
    BY <1>1, SmallSeqs, Zenon
<1>4. rest \in Seq(Handler)
  BY <1>3
<1>5. Aborted = errors \o rest
  BY DEF Aborted
<1> HIDE DEF errors, rest
<1> QED
  BY <1>2, <1>4, <1>5

LEMMA TryConnectType ==
    ASSUME TypeOK, queue # <<>>, TryConnect, UNCHANGED <<clients, alive>>
    PROVE  TypeOK'
<1>1. Others \in Seq(Handler)
  BY TailOf DEF TypeOK, Others
<1>2. Aborted \in Seq(Handler) /\ queue' = Others \o Aborted
  BY AbortedType DEF TypeOK, TryConnect
<1>3. queue' \in Seq(Handler)
  BY <1>1, <1>2
<1>4. requests' = <<>> /\ ebuf' = <<>> /\ wire' = <<>> /\ rx' = 0
      /\ connected' = FALSE /\ timer' = TRUE /\ sock' = "connecting"
  BY DEF TryConnect
<1>5. requests' \in Seq(Request) /\ ebuf' \in Seq(Piece) /\ wire' \in Seq(Piece)
  BY <1>4
<1>6. Len(ebuf') <= 1 /\ rx' \in Nat
  BY <1>4
<1>7. replaced' \in BOOLEAN
  BY DEF TryConnect
<1> QED
  BY <1>3, <1>4, <1>5, <1>6, <1>7 DEF TypeOK

LEMMA RequestWaitType ==
    ASSUME TypeOK, RequestWait
    PROVE  /\ requests' \in Seq(Request) /\ wire' \in Seq(Piece) /\ rx' \in Nat
           /\ timer' = TRUE
<1>1. CASE SendRound
  <2>1. requests' \in Seq(Request)
    BY <1>1, RoundType DEF SendRound, TypeOK
  <2>2. Pieces(requests') \in Seq(Piece)
    BY <2>1, PiecesType
  <2> QED
    BY <1>1, <2>1, <2>2 DEF SendRound, TypeOK, RequestWait
<1>2. CASE UNCHANGED <<requests, wire, rx>>
  BY <1>2 DEF TypeOK, RequestWait
<1> QED
  BY <1>1, <1>2 DEF RequestWait

LEMMA RepliesType ==
    ASSUME TypeOK, NEW data \in Seq(Piece), ProcessReplies(AddData(data))
    PROVE  /\ requests' \in Seq(Request)
           /\ ebuf' \in Seq(Piece) /\ Len(ebuf') <= 1 /\ alive' \in BOOLEAN
<1> DEFINE all == ebuf \o data
           n == Len(all) \div 2
<1>1. all \in Seq(Piece) /\ Len(all) \in Nat
  BY DEF TypeOK
<1>2. n \in Nat /\ 2 * n <= Len(all) /\ Len(all) <= 2 * n + 1
  BY <1>1
<1> HIDE DEF all, n
<1>3. /\ requests' = SubSeq(requests, n + 1, Len(requests))
      /\ ebuf' = SubSeq(all, 2 * n + 1, Len(all))
      /\ alive' \in IF n <= Len(requests)
                     THEN AssertionHolds(SubSeq(requests, 1, n)) ELSE {FALSE}
  BY DEF ProcessReplies, HandleReplies, AddData, RemoveData, all, n
<1>4. requests' \in Seq(Request)
  BY <1>2, <1>3, SubSeqOf DEF TypeOK
<1>5. ebuf' \in Seq(Piece) /\ Len(ebuf') <= 1
  <2>1. 2 * n + 1 \in Nat \ {0}
    BY <1>2
  <2> QED
    BY <1>1, <1>2, <1>3, <2>1, SubSeqOf
<1>6. alive' \in BOOLEAN
  BY <1>3 DEF AssertionHolds
<1> QED
  BY <1>4, <1>5, <1>6

LEMMA NextTypeOK == TypeOK /\ [Next]_vars => TypeOK'
<1> SUFFICES ASSUME TypeOK, [Next]_vars
             PROVE  TypeOK'
  OBVIOUS
<1>0. ASSUME NEW h \in Handler, queue' = Append(queue, h)
      PROVE  queue' \in Seq(Handler)
  BY <1>0 DEF TypeOK
<1>1. ASSUME NEW ok \in BOOLEAN, ConnectEnds(ok)
      PROVE  TypeOK'
  <2>1. queue' \in Seq(Handler)
    BY <1>0, <1>1, HandlerKinds DEF ConnectEnds, Completes
  <2> QED
    BY <1>1, <2>1 DEF ConnectEnds, TypeOK
<1>2. CASE TimerExpires
  <2>1. queue' \in Seq(Handler)
    BY <1>0, <1>2, HandlerKinds DEF TimerExpires, Completes
  <2> QED
    BY <1>2, <2>1 DEF TimerExpires, TypeOK, envVars
<1>3. CASE DataArrives
  <2>1. PICK n \in 1..Len(wire) :
            /\ Completes(Received(SubSeq(wire, 1, n)))
            /\ wire' = SubSeq(wire, n + 1, Len(wire))
    BY <1>3 DEF DataArrives
  <2>2. SubSeq(wire, 1, n) \in Seq(Piece) /\ wire' \in Seq(Piece)
    BY <2>1, SubSeqOf DEF TypeOK
  <2>3. queue' \in Seq(Handler)
    BY <1>0, <2>1, <2>2, HandlerKinds DEF Completes
  <2>4. rx' \in Nat
    BY <1>3 DEF DataArrives, TypeOK
  <2> QED
    BY <1>3, <2>2, <2>3, <2>4 DEF DataArrives, TypeOK
<1>4. CASE PeerCloses
  <2>1. PICK n \in 0..Len(wire) : wire' = SubSeq(wire, 1, n)
    BY <1>4 DEF PeerCloses
  <2>2. wire' \in Seq(Piece)
    BY <2>1, SubSeqOf DEF TypeOK
  <2> QED
    BY <1>4, <2>2 DEF PeerCloses, TypeOK
<1>5. CASE ReceiveEnds
  <2>1. queue' \in Seq(Handler)
    BY <1>0, <1>5, HandlerKinds DEF ReceiveEnds, Completes
  <2> QED
    BY <1>5, <2>1 DEF ReceiveEnds, TypeOK
<1>7. ASSUME NEW a \in Addresses, Register(a) \/ Remove(a)
      PROVE  TypeOK'
  BY <1>7 DEF Register, Remove, TypeOK, envVars
<1>8. ASSUME queue # <<>>
      PROVE  Others \in Seq(Handler) /\ Head(queue) \in Handler
  BY <1>8, TailOf DEF TypeOK, Others
<1>9. CASE HandleConnect
  <2>1. CASE Head(queue).ok
    BY <1>8, <1>9, <2>1, RequestWaitType DEF HandleConnect, Runs, TypeOK
  <2>2. CASE ~ Head(queue).ok
    BY <1>9, <2>2, TryConnectType DEF HandleConnect, Runs
  <2> QED
    BY <2>1, <2>2
<1>10. CASE HandleTimeout
  <2>1. CASE connected
    BY <1>8, <1>10, <2>1, RequestWaitType DEF HandleTimeout, Runs, TypeOK
  <2>2. CASE ~ connected
    BY <1>10, <2>2, TryConnectType DEF HandleTimeout, Runs
  <2> QED
    BY <2>1, <2>2
<1>11. CASE HandleReceive
  <2>1. CASE Head(queue).result = "eof"
    BY <1>11, <2>1, TryConnectType DEF HandleReceive, Runs
  <2>2. CASE Head(queue).result # "eof"
    <3>1. Head(queue).pieces \in Seq(Piece)
      BY <1>8, <1>11, HandlerShapes DEF HandleReceive, Runs
    <3>2. /\ requests' \in Seq(Request)
          /\ ebuf' \in Seq(Piece) /\ Len(ebuf') <= 1 /\ alive' \in BOOLEAN
      BY <1>11, <2>2, <3>1, RepliesType DEF HandleReceive
    <3>3. rx' \in Nat
      BY <1>11, <2>2 DEF HandleReceive, TypeOK
    <3> QED
      BY <1>8, <1>11, <2>2, <3>2, <3>3 DEF HandleReceive, Runs, TypeOK
  <2> QED
    BY <2>1, <2>2
<1>12. CASE UNCHANGED vars
  BY <1>12 DEF vars, envVars, TypeOK
<1> QED
  BY <1>1, <1>2, <1>3, <1>4, <1>5, <1>7, <1>9, <1>10, <1>11, <1>12
     DEF Next, Environment, Registry, Run

\* Whatever arrives in whatever pieces, what process_replies leaves in the
\* buffer is less than an answer (sdn_manager.cpp:23-65).
THEOREM TypeCorrect == Spec => []TypeOK
<1>1. Init => TypeOK
  <2> SUFFICES ASSUME Init
               PROVE  TypeOK
    OBVIOUS
  <2>1. requests = <<>> /\ ebuf = <<>> /\ wire = <<>> /\ queue = <<>>
    BY DEF Init
  <2>2. requests \in Seq(Request) /\ ebuf \in Seq(Piece) /\ wire \in Seq(Piece)
        /\ queue \in Seq(Handler)
    BY <2>1
  <2>3. Len(ebuf) <= 1
    BY <2>1
  <2> QED
    BY <2>2, <2>3 DEF Init, TypeOK
<1>2. TypeOK /\ [Next]_vars => TypeOK'
  BY NextTypeOK
<1> QED
  BY <1>1, <1>2, PTL DEF Spec
-----------------------------------------------------------------------------
(* What the queue holds.                                                   *)

LEMMA QueuedAppend ==
    ASSUME queue \in Seq(Handler), NEW h, queue' = Append(queue, h), NEW kind
    PROVE  /\ Queued(kind)' = Queued(kind)
                  \cup (IF h.kind = kind THEN {Len(queue) + 1} ELSE {})
           /\ Queued(kind) \subseteq 1..Len(queue)
           /\ \A i \in 1..Len(queue) : queue'[i] = queue[i]
           /\ queue'[Len(queue) + 1] = h
<1>1. Len(queue') = Len(queue) + 1 /\ Len(queue) \in Nat
  OBVIOUS
<1>2. \A i \in 1..Len(queue) : queue'[i] = queue[i]
  OBVIOUS
<1>3. queue'[Len(queue) + 1] = h
  OBVIOUS
<1> QED
  BY <1>1, <1>2, <1>3 DEF Queued

\* The kinds that are not appended.
LEMMA QueuedOther ==
    ASSUME queue \in Seq(Handler), NEW h, queue' = Append(queue, h), NEW kind, h.kind # kind
    PROVE  Queued(kind)' = Queued(kind)
<1>1. Queued(kind)' = Queued(kind) \cup (IF h.kind = kind THEN {Len(queue) + 1} ELSE {})
  BY QueuedAppend
<1> QED
  BY <1>1

LEMMA QueuedTail ==
    ASSUME queue \in Seq(Handler), queue # <<>>, queue' = Others, NEW kind
    PROVE  /\ \A i \in Queued(kind)' : i + 1 \in Queued(kind) /\ queue'[i] = queue[i + 1]
           /\ \A i \in Queued(kind) : i # 1 => i - 1 \in Queued(kind)'
           /\ Queued(kind)' \subseteq Nat \ {0}
           /\ Queued(kind) \subseteq Nat \ {0}
           /\ 1 \in Queued(kind) <=> Head(queue).kind = kind
           /\ queue[1] = Head(queue)
<1>1. /\ Len(Others) = Len(queue) - 1 /\ Len(queue) \in Nat \ {0} /\ Head(queue) = queue[1]
      /\ \A i \in 1..Len(Others) : i + 1 \in 1..Len(queue) /\ Others[i] = queue[i + 1]
  BY TailOf DEF Others
<1>2. \A i \in Queued(kind)' : i + 1 \in Queued(kind) /\ queue'[i] = queue[i + 1]
  BY <1>1 DEF Queued
<1>3. ASSUME NEW i \in Queued(kind), i # 1
      PROVE  i - 1 \in Queued(kind)'
  <2>1. i - 1 \in 1..Len(Others) /\ (i - 1) + 1 = i
    BY <1>1, <1>3 DEF Queued
  <2>2. Others[i - 1] = queue[i]
    BY <1>1, <2>1
  <2> QED
    BY <1>3, <2>1, <2>2 DEF Queued
<1> QED
  BY <1>1, <1>2, <1>3 DEF Queued
-----------------------------------------------------------------------------
(* The timer.                                                              *)

\* A handler that is not of the timer leaves the handlers of the timer queued.
LEMMA OthersKeepTimer ==
    ASSUME queue \in Seq(Handler), queue # <<>>, Head(queue).kind # "timeout",
           queue' = Others, Queued("timeout") # {}
    PROVE  Queued("timeout")' # {}
BY QueuedTail

LEMMA AppendKeepsTimer ==
    ASSUME queue \in Seq(Handler), NEW h, queue' = Append(queue, h),
           Queued("timeout") # {} \/ h = Timeout
    PROVE  Queued("timeout")' # {}
<1>1. h = Timeout => h.kind = "timeout"
  BY DEF Timeout
<1> QED
  BY <1>1, QueuedAppend

LEMMA NextTimer == TypeOK /\ TimerAlive /\ [Next]_vars => TimerAlive'
<1> SUFFICES ASSUME TypeOK, TimerAlive, [Next]_vars
             PROVE  TimerAlive'
  OBVIOUS
<1>0. queue \in Seq(Handler)
  BY DEF TypeOK
<1>1. ASSUME NEW h, Completes(h), UNCHANGED timer
      PROVE  TimerAlive'
  BY <1>0, <1>1, AppendKeepsTimer DEF Completes, TimerAlive
<1>2. ASSUME UNCHANGED <<timer, queue>>
      PROVE  TimerAlive'
  BY <1>2 DEF TimerAlive, Queued
<1>3. CASE Environment
  <2>1. CASE TimerExpires
    BY <1>0, <2>1, AppendKeepsTimer DEF TimerExpires, Completes, TimerAlive
  <2>2. CASE DataArrives
    BY <1>1, <2>2 DEF DataArrives
  <2>3. CASE PeerCloses
    BY <1>2, <2>3 DEF PeerCloses
  <2>4. ASSUME NEW ok \in BOOLEAN, ConnectEnds(ok)
        PROVE  TimerAlive'
    BY <1>1, <2>4 DEF ConnectEnds
  <2> QED
    BY <1>1, <1>3, <2>1, <2>2, <2>3, <2>4 DEF Environment, ReceiveEnds
<1>4. CASE Registry
  BY <1>2, <1>4 DEF Registry, Register, Remove, envVars
<1>5. CASE TryConnect \/ RequestWait
  BY <1>5 DEF TryConnect, RequestWait, TimerAlive
<1>6. CASE HandleConnect \/ HandleTimeout
  BY <1>5, <1>6 DEF HandleConnect, HandleTimeout
<1>7. CASE HandleReceive
  <2>1. CASE Head(queue).result = "eof"
    BY <1>5, <1>7, <2>1 DEF HandleReceive
  <2>2. CASE Head(queue).result # "eof"
    BY <1>0, <1>7, <2>2, OthersKeepTimer DEF HandleReceive, Runs, TimerAlive
  <2> QED
    BY <2>1, <2>2
<1>8. CASE UNCHANGED vars
  BY <1>2, <1>8 DEF vars
<1> QED
  BY <1>3, <1>4, <1>6, <1>7, <1>8 DEF Next, Run

\* handle_timeout will run again in every state: a wait is pending on the timer
\* or its handler is queued, however connects, answers, lost connections and
\* expiries follow each other (sdn_manager.h:411-506).  Nothing is assumed
\* about how fast the network is.
THEOREM TimerNeverStops == Spec => []TimerAlive
<1>1. Init => TimerAlive
  BY DEF Init, TimerAlive
<1>2. TypeOK /\ TimerAlive /\ [Next]_vars => TimerAlive'
  BY NextTimer
<1> QED
  BY <1>1, <1>2, TypeCorrect, PTL DEF Spec
-----------------------------------------------------------------------------
(* The connection, until an attempt to connect is given up before its       *)
(* handler has run.                                                        *)

\* While not connected nothing is asked or received, and an attempt is under
\* way or its handler queued.
Idle ==
    ~ connected => /\ requests = <<>> /\ rx = 0 /\ Queued("receive") = {}
                   /\ sock = "connecting" \/ Queued("connect") # {}

\* The handler of an attempt comes once and finds the manager not connected.
OneAttempt ==
    /\ sock = "connecting" => ~ connected /\ Queued("connect") = {}
    /\ connected => Queued("connect") = {}
    /\ \A i, j \in Queued("connect") : i = j
    /\ \A i \in Queued("connect") : queue[i].ok => sock \in {"up", "closed"}

\* At most one receive is pending or has its handler queued.
Receives ==
    /\ rx <= 1
    /\ rx = 1 => Queued("receive") = {}
    /\ \A i, j \in Queued("receive") : i = j

\* Nothing is received when nothing was asked.
Asked == requests = <<>> => rx = 0 /\ Queued("receive") = {}

ConnInv == ConnectedUsable /\ Idle /\ OneAttempt /\ Receives /\ Asked

\* A handler that connects again after the last handler of the old connection
\* leaves nothing behind but handlers of the timer.
LEMMA TryConnectConn ==
    ASSUME TypeOK, queue # <<>>, TryConnect, rx = 0, ~ Attempting,
           Queued("receive") \subseteq {1}
    PROVE  ConnInv'
<1>1. Aborted = <<>>
  BY DEF Aborted, Attempting
<1>2. Others \in Seq(Handler)
  BY TailOf DEF TypeOK, Others
<1>3. queue' = Others
  BY <1>1, <1>2 DEF TryConnect
<1>4. Queued("receive")' = {}
  <2>1. \A i \in Queued("receive")' : i + 1 = 1 /\ i \in Nat \ {0}
    BY <1>3, QueuedTail DEF TypeOK
  <2> QED
    BY <2>1
<1>5. Queued("connect")' = {}
  BY <1>3 DEF Attempting, Queued
<1> QED
  BY <1>4, <1>5 DEF TryConnect, ConnInv, ConnectedUsable, Idle, OneAttempt, Receives, Asked

\* What try_connect finds when it is called and no attempt waits.
LEMMA HeadIsLast ==
    ASSUME queue \in Seq(Handler), queue # <<>>, NEW kind,
           \A i \in Queued(kind) : i = 1
    PROVE  \A i \in 1..Len(Others) : Others[i].kind # kind
<1>1. /\ Len(Others) = Len(queue) - 1 /\ Len(queue) \in Nat \ {0}
      /\ \A i \in 1..Len(Others) : i + 1 \in 1..Len(queue) /\ Others[i] = queue[i + 1]
  BY TailOf DEF Others
<1> SUFFICES ASSUME NEW i \in 1..Len(Others), Others[i].kind = kind
             PROVE  FALSE
  OBVIOUS
<1>2. i + 1 \in Queued(kind)
  BY <1>1 DEF Queued
<1> QED
  BY <1>1, <1>2

\* A round starts a receive only when none is pending.
LEMMA RequestWaitConn ==
    ASSUME TypeOK, ConnInv, RequestWait
    PROVE  \/ requests' = requests /\ rx' = rx
           \/ /\ requests = <<>> /\ rx = 0 /\ Queued("receive") = {}
              /\ requests' # <<>> /\ rx' = 1
<1>1. CASE SendRound
  <2>1. requests = <<>> /\ rx = 0 /\ Queued("receive") = {}
    BY <1>1 DEF SendRound, ConnInv, Asked
  <2>2. requests' # <<>> /\ rx' = 1
    BY <1>1, <2>1, RoundType DEF SendRound, TypeOK
  <2> QED
    BY <2>1, <2>2
<1> QED
  BY <1>1 DEF RequestWait

\* The handlers of the kind that is next: what is left of each kind.
LEMMA OthersConn ==
    ASSUME TypeOK, ConnInv, queue # <<>>, queue' = Others
    PROVE  /\ \A kind \in {"connect", "receive"} :
                 /\ \A i, j \in Queued(kind)' : i = j
                 /\ Head(queue).kind = kind => Queued(kind)' = {}
           /\ \A kind \in {"connect", "receive"} :
                 Queued(kind) = {} => Queued(kind)' = {}
           /\ \A i \in Queued("connect")' : i + 1 \in Queued("connect")
                                            /\ queue'[i] = queue[i + 1]
<1>0. queue \in Seq(Handler)
  BY DEF TypeOK
<1>1. ASSUME NEW kind \in {"connect", "receive"}
      PROVE  /\ \A i, j \in Queued(kind)' : i = j
             /\ Head(queue).kind = kind => Queued(kind)' = {}
  <2>1. \A i, j \in Queued(kind) : i = j
    BY DEF ConnInv, OneAttempt, Receives
  <2>2. \A i, j \in Queued(kind)' : i + 1 = j + 1 /\ i \in Nat /\ j \in Nat
    BY <1>0, <2>1, QueuedTail
  <2>3. ASSUME Head(queue).kind = kind, NEW i \in Queued(kind)'
        PROVE  FALSE
    <3>1. 1 \in Queued(kind) /\ i + 1 \in Queued(kind) /\ i \in Nat \ {0}
      BY <1>0, <2>3, QueuedTail
    <3> QED
      BY <2>1, <3>1
  <2> QED
    BY <2>2, <2>3
<1>2. ASSUME NEW kind \in {"connect", "receive"}, Queued(kind) = {}
      PROVE  Queued(kind)' = {}
  BY <1>0, <1>2, QueuedTail
<1>3. \A i \in Queued("connect")' : i + 1 \in Queued("connect") /\ queue'[i] = queue[i + 1]
  BY <1>0, QueuedTail
<1> QED
  BY <1>1, <1>2, <1>3

LEMMA EnvironmentConn ==
    ASSUME TypeOK, ConnInv, Environment
    PROVE  ConnInv'
<1>0. queue \in Seq(Handler) /\ rx \in Nat /\ Len(queue) \in Nat
  BY DEF TypeOK
<1>1. ASSUME NEW ok \in BOOLEAN, ConnectEnds(ok)
      PROVE  ConnInv'
  <2> DEFINE h == Connect(ok)
  <2>1. /\ ~ connected /\ requests = <<>> /\ rx = 0 /\ Queued("connect") = {}
        /\ Queued("receive") = {}
    BY <1>1 DEF ConnectEnds, ConnInv, OneAttempt, Idle
  <2>2. queue' = Append(queue, h) /\ h.kind = "connect" /\ h.ok = ok
    BY <1>1 DEF ConnectEnds, Completes, Connect
  <2> HIDE DEF h
  <2>3. /\ Queued("connect")' = {Len(queue) + 1} /\ queue'[Len(queue) + 1] = h
        /\ Queued("receive")' = {}
    BY <1>0, <2>1, <2>2, QueuedAppend
  <2> QED
    BY <1>1, <2>1, <2>2, <2>3
       DEF ConnectEnds, ConnInv, ConnectedUsable, Idle, OneAttempt, Receives, Asked
<1>2. CASE TimerExpires
  <2>1. queue' = Append(queue, Timeout) /\ Timeout.kind = "timeout"
    BY <1>2 DEF TimerExpires, Completes, Timeout
  <2>2. /\ Queued("connect")' = Queued("connect") /\ Queued("receive")' = Queued("receive")
        /\ Queued("receive") \subseteq 1..Len(queue) /\ Queued("connect") \subseteq 1..Len(queue)
        /\ \A i \in 1..Len(queue) : queue'[i] = queue[i]
    <3>1. Timeout.kind # "connect" /\ Timeout.kind # "receive"
      BY DEF Timeout
    <3>2. Queued("connect")' = Queued("connect")
      BY <1>0, <2>1, <3>1, QueuedOther
    <3>3. Queued("receive")' = Queued("receive")
      BY <1>0, <2>1, <3>1, QueuedOther
    <3>4. \A i \in 1..Len(queue) : queue'[i] = queue[i]
      BY <1>0, <2>1
    <3> QED
      BY <3>2, <3>3, <3>4 DEF Queued
  <2> QED
    BY <1>2, <2>2
       DEF TimerExpires, envVars, ConnInv, ConnectedUsable, Idle, OneAttempt, Receives, Asked
<1>3. ASSUME rx > 0, rx' = rx - 1, NEW h, h.kind = "receive", Completes(h),
             UNCHANGED <<requests, connected, sock>>
      PROVE  ConnInv'
  <2>1. /\ rx = 1 /\ rx' = 0 /\ Queued("receive") = {} /\ connected /\ requests # <<>>
    BY <1>0, <1>3 DEF ConnInv, Receives, Idle, Asked
  <2>2. queue' = Append(queue, h)
    BY <1>3 DEF Completes
  <2>3. /\ Queued("receive")' = {Len(queue) + 1}
        /\ Queued("connect")' = Queued("connect")
    <3>1. Queued("receive")' = {Len(queue) + 1}
      BY <1>0, <1>3, <2>1, <2>2, QueuedAppend
    <3>2. Queued("connect")' = Queued("connect")
      BY <1>0, <1>3, <2>2, QueuedOther
    <3> QED
      BY <3>1, <3>2
  <2>4. Queued("connect") = {}
    BY <2>1 DEF ConnInv, OneAttempt
  <2> QED
    BY <1>3, <2>1, <2>3, <2>4
       DEF ConnInv, ConnectedUsable, Idle, OneAttempt, Receives, Asked
<1>4. CASE DataArrives
  <2>1. PICK n \in 1..Len(wire) : Completes(Received(SubSeq(wire, 1, n)))
    BY <1>4 DEF DataArrives
  <2>2. ASSUME NEW data
        PROVE  Received(data).kind = "receive"
    BY DEF Received
  <2> QED
    BY <1>3, <1>4, <2>1, <2>2 DEF DataArrives
<1>5. CASE ReceiveEnds
  <2>1. Eof.kind = "receive" /\ Error.kind = "receive"
    BY DEF Eof, Error
  <2> QED
    BY <1>3, <1>5, <2>1 DEF ReceiveEnds
<1>7. CASE PeerCloses
  BY <1>7
     DEF PeerCloses, ConnInv, ConnectedUsable, Idle, OneAttempt, Receives, Asked, Queued
<1> QED
  BY <1>1, <1>2, <1>4, <1>5, <1>7 DEF Environment

LEMMA RunConn ==
    ASSUME TypeOK, ConnInv, Run
    PROVE  replaced' \/ ConnInv'
<1>0. queue \in Seq(Handler) /\ rx \in Nat /\ queue # <<>> /\ Head(queue) \in Handler
  BY TailOf DEF Run, HandleConnect, HandleTimeout, HandleReceive, Runs, TypeOK
<1>1. \A kind : /\ 1 \in Queued(kind) <=> Head(queue).kind = kind
                /\ queue[1] = Head(queue)
                /\ Queued(kind) \subseteq Nat \ {0}
  <2>1. queue[1] = Head(queue) /\ Len(queue) \in Nat \ {0}
    BY <1>0, TailOf
  <2> QED
    BY <2>1 DEF Queued
<1>2. CASE HandleConnect
  <2>1. 1 \in Queued("connect") /\ queue[1] = Head(queue)
    BY <1>1, <1>2 DEF HandleConnect, Runs
  <2>2. /\ ~ connected /\ requests = <<>> /\ rx = 0 /\ sock # "connecting"
        /\ Queued("receive") = {}
        /\ \A i \in Queued("connect") : i = 1
        /\ Head(queue).ok => sock \in {"up", "closed"}
    BY <2>1 DEF ConnInv, OneAttempt, Idle
  <2>3. CASE Head(queue).ok
    <3>1. connected' = TRUE /\ RequestWait /\ queue' = Others /\ sock' = sock
      BY <1>2, <2>3 DEF HandleConnect
    <3>2. Queued("connect")' = {} /\ Queued("receive")' = {}
      BY <1>0, <1>2, <2>2, <3>1, OthersConn DEF HandleConnect, Runs
    <3>3. rx' \in {0, 1} /\ (requests' = <<>> => rx' = 0)
      BY <2>2, <3>1, RequestWaitConn
    <3> QED
      BY <2>2, <2>3, <3>1, <3>2, <3>3
         DEF ConnInv, ConnectedUsable, Idle, OneAttempt, Receives, Asked
  <2>4. CASE ~ Head(queue).ok
    <3>1. ~ Attempting
      BY <1>0, <2>2, HeadIsLast DEF Attempting
    <3> QED
      BY <1>0, <1>2, <2>2, <2>4, <3>1, TryConnectConn DEF HandleConnect
  <2> QED
    BY <2>3, <2>4
<1>3. CASE HandleTimeout /\ connected
  <2>1. 1 \in Queued("timeout")
    BY <1>1, <1>3 DEF HandleTimeout, Runs
  <2>2. /\ connected /\ sock \in {"up", "closed"} /\ Queued("connect") = {}
    BY <1>3 DEF ConnInv, ConnectedUsable, OneAttempt
  <2>3. RequestWait /\ queue' = Others /\ connected' = connected /\ sock' = sock
    BY <1>3, <2>2 DEF HandleTimeout
  <2>4. /\ Queued("connect")' = {}
        /\ \A i, j \in Queued("receive")' : i = j
        /\ Queued("receive") = {} => Queued("receive")' = {}
    BY <1>0, <2>2, <2>3, OthersConn
  <2>5. CASE requests' = requests /\ rx' = rx
    BY <1>0, <2>2, <2>3, <2>4, <2>5
       DEF ConnInv, ConnectedUsable, Idle, OneAttempt, Receives, Asked
  <2>6. CASE Queued("receive") = {} /\ requests' # <<>> /\ rx' = 1
    BY <2>2, <2>3, <2>4, <2>6
       DEF ConnInv, ConnectedUsable, Idle, OneAttempt, Receives, Asked
  <2> QED
    BY <2>3, <2>5, <2>6, RequestWaitConn
<1>4. CASE HandleTimeout /\ ~ connected
  \* The attempt that is under way is given up.
  <2>1. TryConnect /\ Head(queue).kind = "timeout"
    BY <1>4 DEF HandleTimeout, Runs
  <2>2. Attempting
    <3>1. CASE sock = "connecting"
      BY <3>1 DEF Attempting
    <3>2. CASE Queued("connect") # {}
      <4>1. PICK i \in Queued("connect") : i # 1
        BY <1>1, <2>1, <3>2
      <4>2. /\ i \in 1..Len(queue) /\ queue[i].kind = "connect" /\ Len(queue) \in Nat
            /\ Len(Others) = Len(queue) - 1
            /\ \A j \in 1..Len(Others) : Others[j] = queue[j + 1]
        BY <1>0, TailOf DEF Queued, Others
      <4>3. i - 1 \in 1..Len(Others) /\ (i - 1) + 1 = i
        BY <4>1, <4>2
      <4>4. Others[i - 1].kind = "connect"
        BY <4>2, <4>3
      <4> QED
        BY <4>3, <4>4 DEF Attempting
    <3> QED
      BY <1>4, <3>1, <3>2 DEF ConnInv, Idle
  <2> QED
    BY <2>1, <2>2 DEF TryConnect
<1>5. CASE HandleReceive
  <2>1. 1 \in Queued("receive") /\ queue[1] = Head(queue) /\ Head(queue).kind = "receive"
    BY <1>1, <1>5 DEF HandleReceive, Runs
  <2>2. /\ connected /\ sock \in {"up", "closed"} /\ Queued("connect") = {} /\ rx = 0
        /\ \A i \in Queued("receive") : i = 1
    BY <1>0, <2>1 DEF ConnInv, Idle, ConnectedUsable, OneAttempt, Receives
  <2>3. CASE Head(queue).result = "eof"
    <3>1. ~ Attempting
      BY <1>0, <2>2, HeadIsLast DEF Attempting
    <3> QED
      BY <1>0, <1>5, <2>2, <2>3, <3>1, TryConnectConn DEF HandleReceive
  <2>4. CASE Head(queue).result # "eof"
    <3>1. /\ queue' = Others /\ UNCHANGED <<connected, sock>>
          /\ rx' = IF requests' # <<>> THEN rx + 1 ELSE rx
      BY <1>5, <2>4 DEF HandleReceive
    <3>2. Queued("connect")' = {} /\ Queued("receive")' = {}
      BY <1>0, <2>1, <2>2, <3>1, OthersConn
    <3> QED
      BY <2>2, <3>1, <3>2
         DEF ConnInv, ConnectedUsable, Idle, OneAttempt, Receives, Asked
  <2> QED
    BY <2>3, <2>4
<1> QED
  BY <1>2, <1>3, <1>4, <1>5 DEF Run

\* What is known of the connection until an attempt is given up.
Conn == replaced \/ ConnInv

LEMMA ReplacedStays == replaced /\ [Next]_vars => replaced'
<1> SUFFICES ASSUME replaced, [Next]_vars
             PROVE  replaced'
  OBVIOUS
<1>1. TryConnect => replaced'
  BY DEF TryConnect
<1>2. HandleConnect \/ HandleTimeout \/ HandleReceive => replaced'
  BY <1>1 DEF HandleConnect, HandleTimeout, HandleReceive
<1>3. Environment \/ Registry => replaced'
  BY DEF Environment, ConnectEnds, TimerExpires, DataArrives, PeerCloses, ReceiveEnds,
         Registry, Register, Remove
<1> QED
  BY <1>2, <1>3 DEF Next, Run, vars

LEMMA NextConn == TypeOK /\ Conn /\ [Next]_vars => Conn'
<1> SUFFICES ASSUME TypeOK, ConnInv, [Next]_vars
             PROVE  replaced' \/ ConnInv'
  BY ReplacedStays DEF Conn
<1>1. ASSUME UNCHANGED <<requests, connected, sock, rx, queue>>
      PROVE  ConnInv'
  BY <1>1 DEF ConnInv, ConnectedUsable, Idle, OneAttempt, Receives, Asked, Queued
<1>2. CASE Registry
  BY <1>1, <1>2 DEF Registry, Register, Remove, envVars
<1>3. CASE UNCHANGED vars
  BY <1>1, <1>3 DEF vars, envVars
<1> QED
  BY <1>2, <1>3, EnvironmentConn, RunConn DEF Next

LEMMA Connection == Spec => []Conn
<1>1. Init => Conn
  BY DEF Init, Conn, ConnInv, ConnectedUsable, Idle, OneAttempt, Receives, Asked, Queued
<1>2. TypeOK /\ Conn /\ [Next]_vars => Conn'
  BY NextConn
<1> QED
  BY <1>1, <1>2, TypeCorrect, PTL DEF Spec

\* All receives share one buffer: whatever the order of rounds, answers, expiries,
\* lost and new connections, at most one is pending or has its handler queued,
\* although request_wait and handle_receive both start one (sdn_manager.h:458,
\* 502), until the timer makes try_connect give up an attempt whose handler has
\* not run (sdn_manager.h:483).
THEOREM SingleReceive == Spec => []OneReceive
<1>1. Conn => OneReceive
  BY DEF Conn, ConnInv, Receives, OneReceive
<1> QED
  BY <1>1, Connection, PTL
-----------------------------------------------------------------------------
(* Answers and requests.                                                   *)

\* The pieces of s are those that come after the first k of the answers to reqs.
Continues(s, k, reqs) ==
    \A i \in 1..Len(s) : k + i \in 1..2 * Len(reqs) /\ s[i] = Pieces(reqs)[k + i]

\* What is in the buffer, in the queue and on the wire are, in this order, the
\* first pieces of the answers to the requests that wait.
InOrder ==
    /\ Continues(ebuf, 0, requests)
    /\ Queued("receive") = {} => Continues(wire, Len(ebuf), requests)
    /\ \A k \in Queued("receive") :
          /\ Continues(queue[k].pieces, Len(ebuf), requests)
          /\ Continues(wire, Len(ebuf) + Len(queue[k].pieces), requests)

\* The same, until an attempt to connect is given up.
Ordered == replaced \/ InOrder

LEMMA InOrderMatches == TypeOK /\ Ordered => RepliesMatch
<1> SUFFICES ASSUME TypeOK, InOrder, NEW k \in Queued("receive")
             PROVE  LET all == ebuf \o queue[k].pieces
                    IN  \A i \in 1..2 * (Len(all) \div 2) :
                            i <= 2 * Len(requests) /\ all[i] = Pieces(requests)[i]
  BY DEF Ordered, RepliesMatch
<1> DEFINE s == queue[k].pieces
           all == ebuf \o s
<1>1. ebuf \in Seq(Piece) /\ s \in Seq(Piece)
  BY HandlerShapes DEF TypeOK, Queued
<1>2. Continues(ebuf, 0, requests) /\ Continues(s, Len(ebuf), requests)
  BY DEF InOrder
<1> HIDE DEF s
<1>3. /\ Len(all) = Len(ebuf) + Len(s) /\ Len(ebuf) \in Nat /\ Len(s) \in Nat
      /\ \A i \in 1..Len(ebuf) : all[i] = ebuf[i]
      /\ \A i \in 1..Len(s) : all[Len(ebuf) + i] = s[i]
  BY <1>1
<1>4. ASSUME NEW i \in 1..Len(all)
      PROVE  i \in 1..2 * Len(requests) /\ all[i] = Pieces(requests)[i]
  <2>1. CASE i <= Len(ebuf)
    <3>1. i \in 1..Len(ebuf) /\ 0 + i = i
      BY <1>3, <2>1
    <3> QED
      BY <1>2, <1>3, <3>1 DEF Continues
  <2>2. CASE i > Len(ebuf)
    <3>1. i - Len(ebuf) \in 1..Len(s) /\ Len(ebuf) + (i - Len(ebuf)) = i
      BY <1>3, <2>2
    <3> QED
      BY <1>2, <1>3, <3>1 DEF Continues
  <2> QED
    BY <1>3, <2>1, <2>2
<1>5. 2 * (Len(all) \div 2) <= Len(all) /\ Len(all) \in Nat
  BY <1>3
<1>6. \A i \in 1..2 * (Len(all) \div 2) : i \in 1..Len(all)
  BY <1>5
<1>7. \A i \in 1..2 * (Len(all) \div 2) :
          i <= 2 * Len(requests) /\ all[i] = Pieces(requests)[i]
  BY <1>4, <1>6
<1> QED
  BY <1>7 DEF s

\* A sequence is cut after n elements.
LEMMA CutSeq ==
    ASSUME NEW S, NEW s \in Seq(S), NEW n \in 0..Len(s)
    PROVE  /\ n \in Nat /\ Len(s) \in Nat
           /\ SubSeq(s, 1, n) \in Seq(S) /\ Len(SubSeq(s, 1, n)) = n
           /\ \A i \in 1..n : SubSeq(s, 1, n)[i] = s[i]
           /\ SubSeq(s, n + 1, Len(s)) \in Seq(S)
           /\ Len(SubSeq(s, n + 1, Len(s))) = Len(s) - n
           /\ \A i \in 1..(Len(s) - n) : SubSeq(s, n + 1, Len(s))[i] = s[n + i]
<1>1. n \in Nat /\ Len(s) \in Nat /\ n <= Len(s) /\ \A i \in 1..Len(s) : s[i] \in S
  OBVIOUS
<1>2. (\A i \in 1..n : s[i] \in S) /\ (\A i \in n + 1..Len(s) : s[i] \in S)
  BY <1>1
<1>3. /\ SubSeq(s, 1, n) \in Seq(S) /\ Len(SubSeq(s, 1, n)) = n
      /\ \A i \in 1..n : SubSeq(s, 1, n)[i] = s[i]
  BY <1>1, <1>2
<1>4. /\ SubSeq(s, n + 1, Len(s)) \in Seq(S)
      /\ Len(SubSeq(s, n + 1, Len(s))) = Len(s) - n
      /\ \A i \in 1..(Len(s) - n) : SubSeq(s, n + 1, Len(s))[i] = s[n + i]
  BY <1>1, <1>2
<1> QED
  BY <1>1, <1>3, <1>4

\* The answers to the requests after the first n are the pieces after 2n.
LEMMA PiecesDrop ==
    ASSUME NEW reqs \in Seq(Request), NEW n \in 0..Len(reqs), NEW j \in 1..2 * Len(reqs),
           j > 2 * n
    PROVE  LET rest == SubSeq(reqs, n + 1, Len(reqs))
           IN  j - 2 * n \in 1..2 * Len(rest) /\ Pieces(rest)[j - 2 * n] = Pieces(reqs)[j]
<1> DEFINE rest == SubSeq(reqs, n + 1, Len(reqs))
           m == j - 2 * n
<1>0. /\ Len(rest) = Len(reqs) - n
      /\ \A i \in 1..(Len(reqs) - n) : rest[i] = reqs[n + i]
  BY CutSeq
<1> HIDE DEF rest
<1>1. /\ Len(reqs) \in Nat /\ n \in Nat /\ j \in Nat /\ m \in Nat /\ m >= 1
      /\ Len(rest) = Len(reqs) - n
      /\ \A i \in 1..Len(rest) : rest[i] = reqs[n + i]
  BY <1>0
<1>2. m \in 1..2 * Len(rest)
  BY <1>1
<1>3. (m + 1) \div 2 \in 1..Len(rest) /\ n + (m + 1) \div 2 = (j + 1) \div 2 /\ m % 2 = j % 2
  BY <1>1, <1>2
<1>4. Pieces(rest)[m] = [req |-> rest[(m + 1) \div 2],
                         part |-> IF m % 2 = 1 THEN "head" ELSE "body"]
  BY <1>2 DEF Pieces
<1>5. Pieces(reqs)[j] = [req |-> reqs[(j + 1) \div 2],
                         part |-> IF j % 2 = 1 THEN "head" ELSE "body"]
  BY DEF Pieces
<1>6. Pieces(rest)[m] = Pieces(reqs)[j]
  BY <1>1, <1>3, <1>4, <1>5
<1> QED
  BY <1>2, <1>6 DEF rest

\* process_replies takes the answers in the buffer and as many requests.
LEMMA RepliesInOrder ==
    ASSUME TypeOK, NEW data \in Seq(Piece), ProcessReplies(AddData(data)),
           Continues(ebuf, 0, requests), Continues(data, Len(ebuf), requests),
           Continues(wire, Len(ebuf) + Len(data), requests), UNCHANGED wire
    PROVE  Continues(ebuf', 0, requests') /\ Continues(wire', Len(ebuf'), requests')
<1> DEFINE all == ebuf \o data
           n == Len(all) \div 2
<1>1. /\ all \in Seq(Piece) /\ Len(all) = Len(ebuf) + Len(data) /\ Len(all) \in Nat
      /\ Len(ebuf) \in Nat /\ Len(data) \in Nat /\ Len(requests) \in Nat
      /\ \A i \in 1..Len(ebuf) : all[i] = ebuf[i]
      /\ \A i \in 1..Len(data) : all[Len(ebuf) + i] = data[i]
  BY DEF TypeOK
<1>2. n \in Nat /\ 2 * n <= Len(all) /\ Len(all) <= 2 * n + 1
  BY <1>1
<1>3. /\ requests' = SubSeq(requests, n + 1, Len(requests))
      /\ ebuf' = SubSeq(all, 2 * n + 1, Len(all))
  BY DEF ProcessReplies, HandleReplies, AddData, RemoveData
<1>4. ASSUME NEW i \in 1..Len(all)
      PROVE  i \in 1..2 * Len(requests) /\ all[i] = Pieces(requests)[i]
  <2>1. CASE i <= Len(ebuf)
    <3>1. i \in 1..Len(ebuf) /\ 0 + i = i
      BY <1>1, <2>1
    <3> QED
      BY <1>1, <3>1 DEF Continues
  <2>2. CASE i > Len(ebuf)
    <3>1. i - Len(ebuf) \in 1..Len(data) /\ Len(ebuf) + (i - Len(ebuf)) = i
      BY <1>1, <2>2
    <3> QED
      BY <1>1, <3>1 DEF Continues
  <2> QED
    BY <1>1, <2>1, <2>2
<1> HIDE DEF all, n
<1>5. n \in 0..Len(requests)
  <2>1. CASE Len(all) = 0
    BY <1>1, <1>2, <2>1
  <2>2. CASE Len(all) # 0
    <3>1. Len(all) \in 1..2 * Len(requests)
      BY <1>1, <1>4, <2>2
    <3> QED
      BY <1>1, <1>2, <3>1
  <2> QED
    BY <2>1, <2>2
<1>6. /\ Len(ebuf') = Len(all) - 2 * n
      /\ \A i \in 1..Len(ebuf') : ebuf'[i] = all[2 * n + i]
  <2>1. 2 * n \in 0..Len(all)
    BY <1>1, <1>2
  <2>2. /\ Len(SubSeq(all, 2 * n + 1, Len(all))) = Len(all) - 2 * n
        /\ \A i \in 1..(Len(all) - 2 * n) :
              SubSeq(all, 2 * n + 1, Len(all))[i] = all[2 * n + i]
    <3> DEFINE k == 2 * n
    <3>1. k \in 0..Len(all)
      BY <2>1
    <3> HIDE DEF k
    <3>2. /\ Len(SubSeq(all, k + 1, Len(all))) = Len(all) - k
          /\ \A i \in 1..(Len(all) - k) : SubSeq(all, k + 1, Len(all))[i] = all[k + i]
      BY <1>1, <3>1, CutSeq
    <3> QED
      BY <3>2 DEF k
  <2> QED
    BY <1>3, <2>2
<1>7. ASSUME NEW j \in 1..2 * Len(requests), j > 2 * n
      PROVE  j - 2 * n \in 1..2 * Len(requests') /\ Pieces(requests')[j - 2 * n] = Pieces(requests)[j]
  BY <1>3, <1>5, <1>7, PiecesDrop DEF TypeOK
<1>8. Continues(ebuf', 0, requests')
  <2> SUFFICES ASSUME NEW i \in 1..Len(ebuf')
               PROVE  0 + i \in 1..2 * Len(requests') /\ ebuf'[i] = Pieces(requests')[0 + i]
    BY DEF Continues
  <2>1. 2 * n + i \in 1..Len(all) /\ 2 * n + i > 2 * n /\ (2 * n + i) - 2 * n = 0 + i
    BY <1>1, <1>2, <1>6
  <2> QED
    BY <1>4, <1>6, <1>7, <2>1
<1>9. Continues(wire', Len(ebuf'), requests')
  <2> SUFFICES ASSUME NEW i \in 1..Len(wire)
               PROVE  /\ Len(ebuf') + i \in 1..2 * Len(requests')
                      /\ wire[i] = Pieces(requests')[Len(ebuf') + i]
    BY DEF Continues
  <2>1. /\ Len(all) + i \in 1..2 * Len(requests) /\ wire[i] = Pieces(requests)[Len(all) + i]
    BY <1>1 DEF Continues
  <2>2. Len(all) + i > 2 * n /\ (Len(all) + i) - 2 * n = Len(ebuf') + i
    BY <1>1, <1>2, <1>6
  <2> QED
    BY <1>7, <2>1, <2>2
<1> QED
  BY <1>8, <1>9

\* A handler that is none of a receive is put into the queue or taken from it.
LEMMA QueueInOrder ==
    ASSUME TypeOK, InOrder, UNCHANGED <<requests, ebuf, wire>>,
           \/ UNCHANGED queue
           \/ \E h : queue' = Append(queue, h) /\ h.kind # "receive"
           \/ queue # <<>> /\ Head(queue).kind # "receive" /\ queue' = Others
    PROVE  InOrder'
<1>0. queue \in Seq(Handler)
  BY DEF TypeOK
<1>1. CASE UNCHANGED queue
  BY <1>1 DEF InOrder, Queued
<1>2. ASSUME NEW h, queue' = Append(queue, h), h.kind # "receive"
      PROVE  InOrder'
  <2>1. Queued("receive")' = Queued("receive")
    BY <1>0, <1>2, QueuedOther
  <2>2. \A k \in Queued("receive") : queue'[k] = queue[k]
    BY <1>0, <1>2 DEF Queued
  <2> QED
    BY <2>1, <2>2 DEF InOrder
<1>3. CASE queue # <<>> /\ Head(queue).kind # "receive" /\ queue' = Others
  <2>1. /\ \A k \in Queued("receive")' :
              k + 1 \in Queued("receive") /\ queue'[k] = queue[k + 1]
        /\ Queued("receive")' = {} => Queued("receive") = {}
    BY <1>0, <1>3, QueuedTail
  <2>2. Continues(ebuf', 0, requests')
    BY DEF InOrder
  <2>3. Queued("receive")' = {} => Continues(wire', Len(ebuf'), requests')
    BY <2>1 DEF InOrder
  <2>4. ASSUME NEW k \in Queued("receive")'
        PROVE  /\ Continues(queue'[k].pieces, Len(ebuf'), requests')
               /\ Continues(wire', Len(ebuf') + Len(queue'[k].pieces), requests')
    BY <2>1 DEF InOrder
  <2> QED
    BY <2>2, <2>3, <2>4 DEF InOrder
<1> QED
  BY <1>1, <1>2, <1>3

\* One receive brings the next pieces.
LEMMA ArrivesInOrder ==
    ASSUME TypeOK, Receives, InOrder, rx > 0, NEW h \in Handler, NEW n \in 0..Len(wire),
           queue' = Append(queue, h), h.kind = "receive", h.pieces = SubSeq(wire, 1, n),
           wire' = SubSeq(wire, n + 1, Len(wire)), UNCHANGED <<requests, ebuf>>
    PROVE  InOrder'
<1>0. queue \in Seq(Handler) /\ rx = 1 /\ wire \in Seq(Piece) /\ Len(ebuf) \in Nat
  BY DEF TypeOK, Receives
<1>1. Queued("receive") = {}
  BY <1>0 DEF Receives
<1>2. Queued("receive")' = {Len(queue) + 1} /\ queue'[Len(queue) + 1] = h
  BY <1>0, <1>1, QueuedAppend
<1>3. Continues(ebuf, 0, requests) /\ Continues(wire, Len(ebuf), requests)
  BY <1>1 DEF InOrder
<1>4. /\ Len(h.pieces) = n /\ \A i \in 1..n : h.pieces[i] = wire[i]
      /\ Len(wire') = Len(wire) - n /\ \A i \in 1..Len(wire') : wire'[i] = wire[n + i]
      /\ n \in Nat /\ Len(wire) \in Nat
  <2>1. /\ Len(SubSeq(wire, 1, n)) = n /\ \A i \in 1..n : SubSeq(wire, 1, n)[i] = wire[i]
        /\ Len(SubSeq(wire, n + 1, Len(wire))) = Len(wire) - n
        /\ \A i \in 1..(Len(wire) - n) : SubSeq(wire, n + 1, Len(wire))[i] = wire[n + i]
        /\ n \in Nat /\ Len(wire) \in Nat
    BY <1>0, CutSeq
  <2> QED
    BY <2>1
<1>5. Continues(h.pieces, Len(ebuf), requests)
  BY <1>3, <1>4 DEF Continues
<1>6. Continues(wire', Len(ebuf) + n, requests)
  <2> SUFFICES ASSUME NEW i \in 1..Len(wire')
               PROVE  /\ Len(ebuf) + n + i \in 1..2 * Len(requests)
                      /\ wire'[i] = Pieces(requests)[Len(ebuf) + n + i]
    BY DEF Continues
  <2>1. n + i \in 1..Len(wire) /\ Len(ebuf) + (n + i) = Len(ebuf) + n + i
    BY <1>0, <1>4
  <2> QED
    BY <1>3, <1>4, <2>1 DEF Continues
<1> QED
  BY <1>2, <1>3, <1>4, <1>5, <1>6 DEF InOrder

\* A round is only sent when nothing is left of the last one.
LEMMA RequestWaitInOrder ==
    ASSUME TypeOK, ConnInv, InOrder, queue # <<>>, Head(queue).kind # "receive",
           queue' = Others, RequestWait, UNCHANGED ebuf
    PROVE  InOrder'
<1>1. CASE SendRound
  <2>1. requests = <<>> /\ Queued("receive") = {}
    BY <1>1 DEF SendRound, ConnInv, Asked
  <2>2. Len(ebuf) \in Nat /\ Len(wire) \in Nat /\ wire \in Seq(Piece)
    BY DEF TypeOK
  <2>3. Continues(ebuf, 0, requests) /\ Continues(wire, Len(ebuf), requests)
    BY <2>1 DEF InOrder
  <2>4. Len(requests) = 0 /\ 2 * Len(requests) = 0
    BY <2>1
  <2>5. Len(ebuf) = 0 /\ wire = <<>>
    <3>1. ASSUME NEW s, NEW k \in Nat, Len(s) \in Nat, Continues(s, k, requests)
          PROVE  Len(s) = 0
      <4>1. 1 \notin 1..Len(s)
        BY <2>4, <3>1 DEF Continues
      <4> QED
        BY <3>1, <4>1
    <3> QED
      BY <2>2, <2>3, <3>1
  <2>6. requests' \in Seq(Request)
    BY RequestWaitType
  <2>7. wire' = Pieces(requests') \/ wire' = <<>>
    <3>1. Pieces(requests') \in Seq(Piece)
      BY <2>6, PiecesType
    <3>2. <<>> \o Pieces(requests') = Pieces(requests')
      BY <3>1
    <3> QED
      BY <1>1, <2>5, <3>2 DEF SendRound
  <2>8. Queued("receive")' = {}
    BY <2>1, OthersConn
  <2>9. Continues(wire', 0, requests')
    <3>1. CASE wire' = <<>>
      BY <3>1 DEF Continues
    <3>2. CASE wire' = Pieces(requests')
      <4>1. Len(wire') = 2 * Len(requests') /\ 2 * Len(requests') \in Nat
        BY <2>6, <3>2 DEF Pieces
      <4> QED
        BY <3>2, <4>1 DEF Continues
    <3> QED
      BY <2>7, <3>1, <3>2
  <2>10. Continues(ebuf', 0, requests')
    BY <2>5 DEF Continues
  <2> QED
    BY <2>5, <2>8, <2>9, <2>10 DEF InOrder
<1>2. CASE UNCHANGED <<requests, wire, rx>>
  BY <1>2, QueueInOrder
<1> QED
  BY <1>1, <1>2 DEF RequestWait

LEMMA NextInOrder ==
    TypeOK /\ Conn /\ Conn' /\ Ordered /\ [Next]_vars => Ordered'
<1> SUFFICES ASSUME TypeOK, ConnInv, ConnInv', InOrder, [Next]_vars
             PROVE  InOrder'
  BY ReplacedStays DEF Conn, Ordered
<1>1. ASSUME NEW ok \in BOOLEAN, ConnectEnds(ok)
      PROVE  InOrder'
  <2>1. queue' = Append(queue, Connect(ok)) /\ Connect(ok).kind # "receive"
    BY <1>1 DEF ConnectEnds, Completes, Connect
  <2> QED
    BY <1>1, <2>1, QueueInOrder DEF ConnectEnds
<1>2. CASE TimerExpires
  <2>1. queue' = Append(queue, Timeout) /\ Timeout.kind # "receive"
    BY <1>2 DEF TimerExpires, Completes, Timeout
  <2> QED
    BY <1>2, <2>1, QueueInOrder DEF TimerExpires, envVars
<1>3. CASE DataArrives
  <2>1. PICK n \in 1..Len(wire) :
            /\ Completes(Received(SubSeq(wire, 1, n)))
            /\ wire' = SubSeq(wire, n + 1, Len(wire))
    BY <1>3 DEF DataArrives
  <2> DEFINE h == Received(SubSeq(wire, 1, n))
  <2>2. n \in 0..Len(wire) /\ h \in Handler
    <3>1. n \in 0..Len(wire) /\ SubSeq(wire, 1, n) \in Seq(Piece)
      BY SubSeqOf DEF TypeOK
    <3> QED
      BY <3>1, HandlerKinds
  <2>3. h.kind = "receive" /\ h.pieces = SubSeq(wire, 1, n) /\ queue' = Append(queue, h)
    BY <2>1 DEF Completes, Received
  <2> HIDE DEF h
  <2> QED
    BY <1>3, <2>1, <2>2, <2>3, ArrivesInOrder DEF DataArrives, ConnInv
<1>4. CASE ReceiveEnds
  <2> DEFINE h == IF sock = "closed" THEN Eof ELSE Error
  <2>1. /\ h \in Handler /\ h.kind = "receive" /\ h.pieces = <<>>
        /\ queue' = Append(queue, h)
    BY <1>4, HandlerKinds DEF ReceiveEnds, Completes, Eof, Error
  <2> HIDE DEF h
  <2>2. 0 \in 0..Len(wire) /\ SubSeq(wire, 1, 0) = <<>> /\ SubSeq(wire, 0 + 1, Len(wire)) = wire
    BY DEF TypeOK
  <2> QED
    BY <1>4, <2>1, <2>2, ArrivesInOrder DEF ReceiveEnds, ConnInv
<1>5. CASE PeerCloses
  <2>1. PICK n \in 0..Len(wire) : wire' = SubSeq(wire, 1, n)
    BY <1>5 DEF PeerCloses
  <2>2. Len(wire') = n /\ n <= Len(wire) /\ \A i \in 1..n : wire'[i] = wire[i]
    BY <2>1 DEF TypeOK
  <2>3. UNCHANGED <<requests, ebuf, queue>>
    BY <1>5 DEF PeerCloses
  <2>4. ASSUME NEW k, Continues(wire, k, requests)
        PROVE  Continues(wire', k, requests')
    <3>1. \A i \in 1..Len(wire') : i \in 1..Len(wire)
      BY <2>2 DEF TypeOK
    <3> QED
      BY <2>2, <2>3, <2>4, <3>1 DEF Continues
  <2> QED
    BY <2>3, <2>4 DEF InOrder, Queued
<1>6. CASE Registry
  BY <1>6, QueueInOrder DEF Registry, Register, Remove, envVars
<1>7. ASSUME TryConnect
      PROVE  InOrder'
  <2>1. Queued("receive")' = {} /\ requests' = <<>> /\ ebuf' = <<>> /\ wire' = <<>>
    BY <1>7 DEF TryConnect, ConnInv, Idle
  <2> QED
    BY <2>1 DEF InOrder, Continues
<1>8. CASE HandleConnect
  <2>1. queue # <<>> /\ Head(queue).kind # "receive"
    BY <1>8 DEF HandleConnect, Runs
  <2> QED
    BY <1>7, <1>8, <2>1, RequestWaitInOrder DEF HandleConnect
<1>9. CASE HandleTimeout
  <2>1. queue # <<>> /\ Head(queue).kind # "receive"
    BY <1>9 DEF HandleTimeout, Runs
  <2> QED
    BY <1>7, <1>9, <2>1, RequestWaitInOrder DEF HandleTimeout
<1>10. CASE HandleReceive
  <2>1. CASE Head(queue).result = "eof"
    BY <1>7, <1>10, <2>1 DEF HandleReceive
  <2>2. CASE Head(queue).result # "eof"
    <3>0. queue \in Seq(Handler) /\ queue # <<>> /\ Head(queue).kind = "receive"
      BY <1>10 DEF HandleReceive, Runs, TypeOK
    <3>1. Head(queue) = queue[1] /\ Len(queue) \in Nat \ {0} /\ Head(queue) \in Handler
      BY <3>0, TailOf
    <3>2. 1 \in Queued("receive") /\ Head(queue).pieces \in Seq(Piece)
      BY <3>0, <3>1, HandlerShapes DEF Queued
    <3>3. /\ Continues(ebuf, 0, requests)
          /\ Continues(Head(queue).pieces, Len(ebuf), requests)
          /\ Continues(wire, Len(ebuf) + Len(Head(queue).pieces), requests)
      BY <3>1, <3>2 DEF InOrder
    <3>4. /\ ProcessReplies(AddData(Head(queue).pieces))
          /\ queue' = Others /\ wire' = wire
      BY <1>10, <2>2 DEF HandleReceive
    <3>5. Continues(ebuf', 0, requests') /\ Continues(wire', Len(ebuf'), requests')
      BY <3>2, <3>3, <3>4, RepliesInOrder
    <3>6. Queued("receive")' = {}
      BY <3>0, <3>4, OthersConn
    <3> QED
      BY <3>5, <3>6 DEF InOrder
  <2> QED
    BY <2>1, <2>2
<1>11. CASE UNCHANGED vars
  BY <1>11, QueueInOrder DEF vars, envVars
<1> QED
  BY <1>1, <1>2, <1>3, <1>4, <1>5, <1>6, <1>8, <1>9, <1>10, <1>11
     DEF Next, Environment, Run

\* Each answer is taken for the request it answers, although answers carry
\* nothing that says so and come in any pieces: over rounds, hosts that come
\* and go and connections that are lost in the middle of an answer, because a
\* new connection starts with no requests, no receive and an empty buffer
\* (sdn_manager.h:411-506, sdn_manager.cpp:23-65), until the timer makes
\* try_connect give up an attempt whose handler has not run.
THEOREM AnswersMatch == Spec => []RepliesMatch
<1>1. Init => Ordered
  BY DEF Init, Ordered, InOrder, Continues, Queued
<1>2. TypeOK /\ Conn /\ Conn' /\ Ordered /\ [Next]_vars => Ordered'
  BY NextInOrder
<1>3. TypeOK /\ Ordered => RepliesMatch
  BY InOrderMatches
<1> QED
  BY <1>1, <1>2, <1>3, TypeCorrect, Connection, PTL DEF Spec
=============================================================================
