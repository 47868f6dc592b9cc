----------------------------- MODULE UdpSession -----------------------------
(***************************************************************************)
(* One UDP client (client_server/client.cpp) and its sessions at the       *)
(* server (client_server/server.h, server.cpp) over a network that loses   *)
(* and reorders datagrams: the window of unacknowledged packets, the       *)
(* numbers the client acknowledges, the time-outs of both sides.           *)
(*                                                                         *)
(* The sessions of one client follow each other.  Each has a port, which   *)
(* names it here; the port of the server itself, where every client        *)
(* starts, is port 0.  Nothing is sent again: a number the client reports  *)
(* acknowledges all the packets up to it.                                  *)
(*                                                                         *)
(* Time is counted in periods of the server's timer (1 s in the program).  *)
(* on_off_transitions is off.                                              *)
(***************************************************************************)
EXTENDS Integers, FiniteSets

CONSTANTS SvrTimeout,  \* periods without a message before a session is stopped (2)
          Fall,        \* periods without a packet before the client falls back (10)
          Windows,     \* the windows update_rate sets, in packets
          Prompt,      \* does the client handle a packet before its next time-out?
          ShortTrips,  \* does what is sent in a period arrive in it, if ever?
          NumPorts,    \* ports of sessions; the kernel gives them out in turn
          MaxPkt,      \* bound: packets of a session
          MaxMsgs      \* bound: messages to the server under way

ASSUME SessionAssumption ==
    /\ SvrTimeout \in Nat /\ Fall \in Nat \ {0}
    /\ Windows \subseteq Nat \ {0}
    /\ Prompt \in BOOLEAN /\ ShortTrips \in BOOLEAN
    /\ NumPorts \in Nat \ {0, 1} /\ MaxPkt \in Nat \ {0} /\ MaxMsgs \in Nat

VARIABLES
    svr,        \* clients_map: "none", "live" or "marked" (marked_for_deletion)
    gen,        \* port of the latest session, 0 before the first
    cur,        \* its cur_message, the packets it has sent
    last_ack,   \* the last one it knows to have arrived
    window,     \* tx_window, as the packets that may be unacknowledged
    silence,    \* periods since last_msg_time
    checked,    \* has the server's timer expired in this period?
    port,       \* client: port of dest_endpoint
    last,       \* client: send_buf.last_message_number
    counter,    \* client: timeout_counter, in periods
    got,        \* client: packet received for which handle_receive has not run
    data,       \* packets under way to the client
    msgs,       \* messages under way to the server
    lost        \* history: packets of the latest session that the network lost

sessionVars == <<svr, gen, cur, last_ack, window, silence, lost>>
clientVars == <<port, last, counter, got>>
vars == <<sessionVars, checked, clientVars, data, msgs>>

Packets  == [gen : 1..NumPorts, n : 1..MaxPkt]
Messages == [port : 0..NumPorts, last : 0..MaxPkt]
NoPacket == [gen |-> 0, n |-> 0]

\* Type correctness of server, client and network.
TypeOK ==
    /\ svr \in {"none", "live", "marked"} /\ gen \in 0..NumPorts
    /\ svr # "none" => gen # 0
    /\ cur \in 0..MaxPkt /\ last_ack \in 0..MaxPkt /\ lost \subseteq 1..MaxPkt
    /\ window \in Windows \cup {1}
    /\ silence \in 0..(SvrTimeout + 1) /\ checked \in BOOLEAN
    /\ port \in 0..NumPorts /\ last \in 0..MaxPkt /\ counter \in 0..Fall
    /\ got \in Packets \cup {NoPacket}
    /\ data \subseteq Packets /\ msgs \subseteq Messages

\* The client has just sent its first message, to the server's port.
Init ==
    /\ svr = "none" /\ gen = 0 /\ cur = 0 /\ last_ack = 0 /\ window = 1
    /\ silence = 0 /\ checked = TRUE /\ lost = {}
    /\ port = 0 /\ last = 0 /\ counter = 0 /\ got = NoPacket
    /\ data = {} /\ msgs = {[port |-> 0, last |-> 0]}
-----------------------------------------------------------------------------
(* The client.                                                             *)

Later(a, b) == IF a > b THEN a ELSE b

\* send() of the client; the message is lost or comes through in the end.
Tells(p, n, heard) ==
    IF heard
    THEN /\ msgs' = msgs \cup {[port |-> p, last |-> n]}
         /\ Cardinality(msgs') <= MaxMsgs
    ELSE msgs' = msgs

\* async_receive_from stores the packet and, over dest_endpoint, its sender.
Arrives(p) ==
    /\ p \in data /\ got = NoPacket
    /\ got' = p /\ port' = p.gen /\ data' = data \ {p}
    /\ UNCHANGED <<sessionVars, checked, last, counter, msgs>>

HandleReceive(heard) ==
    /\ got # NoPacket
    /\ last' = Later(got.n, last)
    /\ counter' = 0 /\ got' = NoPacket
    /\ Tells(port, last', heard)
    /\ UNCHANGED <<sessionVars, checked, port, data>>

\* MUTANT of FallsBack: the client does not wait for the server to give up.
FallsBackEarly == counter = 0

\* After so long without a packet the client starts again at the server's port.
FallsBack == counter + 1 = Fall

\* MUTANT of NextPort: the client keeps to the port of the session it has lost.
NextPortKept == port

\* What the time-out leaves of dest_endpoint's port and last_message_number.
NextPort == IF FallsBack THEN 0 ELSE port

\* MUTANT of NextLast: the number of the lost session is kept.
NextLastKept == last

NextLast == IF FallsBack THEN 0 ELSE last

\* A period passes, and the client's timer expires.
HandleTimeout(heard) ==
    /\ checked /\ checked' = FALSE
    /\ Prompt => got = NoPacket
    /\ ShortTrips => data = {} /\ msgs = {}
    /\ silence' = IF silence > SvrTimeout THEN silence ELSE silence + 1
    /\ counter' = IF counter < Fall THEN counter + 1 ELSE counter
    /\ port' = NextPort /\ last' = NextLast
    /\ Tells(port', last', heard)
    /\ UNCHANGED <<svr, gen, cur, last_ack, window, lost, got, data>>
-----------------------------------------------------------------------------
(* The server.                                                             *)

\* Packet n of session g: lost, or under way to the client.
Sends(g, n, before, missing) ==
    \/ data' = before \cup {[gen |-> g, n |-> n]} /\ lost' = missing
    \/ data' = before /\ lost' = missing \cup {n}

\* The loop of udp_svr_client::send, one packet at a time.
Admits == cur - last_ack < window

Send ==
    /\ svr = "live" /\ Admits /\ cur < MaxPkt
    /\ cur' = cur + 1
    /\ Sends(gen, cur', data, lost)
    /\ UNCHANGED <<svr, gen, last_ack, window, silence, checked, clientVars, msgs>>

\* update_rate.
UpdateRate(w) ==
    /\ svr = "live" /\ window' = w
    /\ UNCHANGED <<svr, gen, cur, last_ack, silence, lost, checked, clientVars, data, msgs>>

\* MUTANT of DataReceived: takes the number for that of packets since the last
\* message.
DataReceivedAdds(m) ==
    /\ last_ack' = last_ack + m.last
    /\ silence' = 0
    /\ UNCHANGED <<svr, gen, cur, window, lost, data>>

DataReceived(m) ==
    /\ last_ack' = Later(m.last, last_ack)
    /\ silence' = 0
    /\ UNCHANGED <<svr, gen, cur, window, lost, data>>

NextGen == IF gen = NumPorts THEN 1 ELSE gen + 1

\* A client that is not in clients_map: the new session sends its first packet
\* and then looks at the acknowledgement.
NewSession(m) ==
    /\ svr' = "live" /\ gen' = NextGen /\ cur' = 1 /\ window' = 1
    /\ last_ack' = m.last /\ silence' = 0
    /\ Sends(NextGen, 1, data, {})

Ignored == UNCHANGED <<sessionVars, data>>

\* A message arrives at the server's port, at that of the session, or at one
\* that is closed.
Receive(m) ==
    /\ m \in msgs /\ msgs' = msgs \ {m}
    /\ \/ svr = "none" /\ m.port = 0 /\ NewSession(m)
       \/ svr = "none" /\ m.port # 0 /\ Ignored
       \/ svr = "live" /\ m.port \in {0, gen} /\ DataReceived(m)
       \/ svr = "live" /\ m.port \notin {0, gen} /\ Ignored
       \/ svr = "marked" /\ Ignored
    /\ UNCHANGED <<checked, clientVars>>

TimedOut == svr # "none" /\ silence > SvrTimeout

\* udp_server::handle_timeout: stop a silent session, delete a stopped one.
ServerTimeout ==
    /\ ~ checked /\ checked' = TRUE
    /\ \/ ~ TimedOut /\ svr' = svr
       \/ TimedOut /\ svr = "live" /\ svr' = "marked"
       \/ TimedOut /\ svr = "marked" /\ svr' = "none"
    /\ UNCHANGED <<gen, cur, last_ack, window, silence, lost, clientVars, data, msgs>>
-----------------------------------------------------------------------------
Next ==
    \/ \E p \in data : Arrives(p)
    \/ \E heard \in BOOLEAN : HandleReceive(heard) \/ HandleTimeout(heard)
    \/ Send \/ ServerTimeout
    \/ \E w \in Windows : UpdateRate(w)
    \/ \E m \in msgs : Receive(m)

Spec == Init /\ [][Next]_vars

\* Timers expire, handlers are run, a packet that is not lost arrives.  The
\* client repeats its message in every period; not all of them are lost.
Fairness ==
    /\ WF_vars(\E p \in data : Arrives(p))
    /\ WF_vars(\E heard \in BOOLEAN : HandleReceive(heard))
    /\ WF_vars(\E heard \in BOOLEAN : HandleTimeout(heard))
    /\ SF_vars(HandleTimeout(TRUE))
    /\ WF_vars(Send) /\ WF_vars(ServerTimeout)
    /\ \A m \in Messages : WF_vars(Receive(m))

FairSpec == Spec /\ Fairness
-----------------------------------------------------------------------------
(* Properties.                                                             *)

\* A session never takes a number that it has not sent for acknowledged
\* (server.h:109): its window would not bound the packets under way any more.
\* Numbers start again with every session, and the client carries its own over
\* lost sessions until it falls back (client.cpp:127).
AckSafe == svr # "none" => last_ack <= cur

\* A whole window is lost, or all that the bound lets the session send.
Stalled ==
    /\ last_ack < cur
    /\ ~ Admits \/ cur = MaxPkt
    /\ (last_ack + 1)..cur \subseteq lost

\* Every packet sent is in the end acknowledged or its session given up, unless
\* the network loses all the packets of a window (server.h:554): lost messages,
\* a window that shrinks and the client's forgetting its number (client.cpp:130)
\* stop no session.
Progress ==
    \A g \in 1..NumPorts, n \in 1..MaxPkt :
        (svr = "live" /\ gen = g /\ cur = n)
            ~> (svr # "live" \/ gen # g \/ last_ack >= n \/ Stalled)

\* A client whose session the server has deleted gets another one
\* (client.cpp:127-132, server.cpp:21).
Reconnects == svr = "none" ~> svr = "live"
=============================================================================
