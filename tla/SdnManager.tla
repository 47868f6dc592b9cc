----------------------------- MODULE SdnManager -----------------------------
(***************************************************************************)
(* The connection of the UDP server to its controller                      *)
(* (client_server/sdn_manager.h, sdn_manager.cpp): connecting, requesting  *)
(* the statistics of all registered hosts in rounds, and giving each       *)
(* answer to the host it was requested for, by the order alone.            *)
(*                                                                         *)
(* One thread; a completed or cancelled operation queues its handler, and  *)
(* the handlers run first in, first out (see UdpServer).  A handler that   *)
(* is queued is not taken back when the socket is closed or the timer set  *)
(* again.  Handlers of sends and of cancelled waits return at once and are *)
(* left out.  An answer is two pieces, head and body, and what one receive *)
(* brings ends anywhere between pieces.                                    *)
(***************************************************************************)
EXTENDS Integers, Sequences, FiniteSets

CONSTANTS Addresses,    \* hosts that clients may come from
          Texts,        \* does the controller answer some requests with a text?
          MaxQueue      \* bound: handlers queued and receives pending when an
                        \* attempt ends or the timer expires

ASSUME ManagerAssumption ==
    /\ IsFiniteSet(Addresses)
    /\ Texts \in BOOLEAN /\ MaxQueue \in Nat

VARIABLES
    clients,      \* registered hosts
    requests,     \* requests not answered yet, oldest first
    ebuf,         \* pieces received and not used yet
    connected,
    timer,        \* is a wait pending on the timer?
    sock,         \* "connecting", "failed", "up", or "closed" by the controller
    rx,           \* receives pending on the socket
    wire,         \* pieces the controller will send or has sent
    queue,        \* handlers to run
    alive,        \* FALSE when the program has ended
    replaced      \* history: has try_connect given up an attempt whose handler
                  \* had not run?

envVars == <<sock, rx, wire>>
vars == <<clients, requests, ebuf, connected, timer, envVars, queue, alive, replaced>>

Request == [addr : Addresses, forward : BOOLEAN]
Piece   == [req : Request, part : {"head", "body"}]

\* The pieces of the answers to a sequence of requests.
Pieces(reqs) ==
    [i \in 1..2 * Len(reqs) |->
        [req |-> reqs[(i + 1) \div 2], part |-> IF i % 2 = 1 THEN "head" ELSE "body"]]

Connect(ok)      == [kind |-> "connect", ok |-> ok]
Timeout          == [kind |-> "timeout"]
Received(pieces) == [kind |-> "receive", result |-> "data", pieces |-> pieces]
Eof              == [kind |-> "receive", result |-> "eof", pieces |-> <<>>]
\* operation_aborted, not_connected and all the other errors
Error            == [kind |-> "receive", result |-> "error", pieces |-> <<>>]

Handler == [kind : {"connect"}, ok : BOOLEAN] \cup {Timeout, Eof, Error}
    \cup [kind : {"receive"}, result : {"data"}, pieces : Seq(Piece)]

\* The constructor calls try_connect.
Init ==
    /\ clients = {} /\ requests = <<>> /\ ebuf = <<>>
    /\ connected = FALSE /\ timer = TRUE
    /\ sock = "connecting" /\ rx = 0 /\ wire = <<>>
    /\ queue = <<>> /\ alive = TRUE /\ replaced = FALSE
-----------------------------------------------------------------------------
(* The network, the controller and the timer.                              *)

\* Nothing happens any more when the program has ended.
Completes(h) ==
    /\ alive
    /\ queue' = Append(queue, h)

\* The bound.
Room == Len(queue) + rx <= MaxQueue

ConnectEnds(ok) ==
    /\ sock = "connecting" /\ Room
    /\ Completes(Connect(ok))
    /\ sock' = IF ok THEN "up" ELSE "failed"
    /\ UNCHANGED <<clients, requests, ebuf, connected, timer, rx, wire, alive, replaced>>

TimerExpires ==
    /\ timer /\ Room
    /\ Completes(Timeout)
    /\ timer' = FALSE
    /\ UNCHANGED <<clients, requests, ebuf, connected, envVars, alive, replaced>>

DataArrives ==
    /\ sock \in {"up", "closed"} /\ rx > 0
    /\ \E n \in 1..Len(wire) :
          /\ Completes(Received(SubSeq(wire, 1, n)))
          /\ wire' = SubSeq(wire, n + 1, Len(wire))
    /\ rx' = rx - 1
    /\ UNCHANGED <<clients, requests, ebuf, connected, timer, sock, alive, replaced>>

\* The controller closes the connection or dies; what it has sent may be lost.
PeerCloses ==
    /\ alive
    /\ sock = "up"
    /\ sock' = "closed"
    /\ \E n \in 0..Len(wire) : wire' = SubSeq(wire, 1, n)
    /\ UNCHANGED <<clients, requests, ebuf, connected, timer, rx, queue, alive, replaced>>

\* A receive on a connection that has ended, or on a socket whose connect has
\* failed (started when connected is wrong, see ConnectedUsable).
ReceiveEnds ==
    /\ sock \in {"closed", "failed"} /\ rx > 0
    /\ sock = "closed" => wire = <<>>
    /\ Completes(IF sock = "closed" THEN Eof ELSE Error)
    /\ rx' = rx - 1
    /\ UNCHANGED <<clients, requests, ebuf, connected, timer, sock, wire, alive, replaced>>
-----------------------------------------------------------------------------
(* The UDP server registers and removes hosts (see UdpServer).             *)

Register(a) ==
    /\ alive
    /\ clients' = clients \cup {a}
    /\ UNCHANGED <<requests, ebuf, connected, timer, envVars, queue, alive, replaced>>

Remove(a) ==
    /\ alive
    /\ clients' = clients \ {a}
    /\ UNCHANGED <<requests, ebuf, connected, timer, envVars, queue, alive, replaced>>
-----------------------------------------------------------------------------
(* What the handlers do.                                                   *)

Others == Tail(queue)
Runs(kind) == alive /\ queue # <<>> /\ Head(queue).kind = kind

\* The handlers of what closing the socket aborts.
Aborted == [i \in 1..rx |-> Error]
               \o (IF sock = "connecting" THEN <<Connect(FALSE)>> ELSE <<>>)

\* An attempt to connect is under way or its handler is still to run.
Attempting ==
    sock = "connecting" \/ \E i \in 1..Len(Others) : Others[i].kind = "connect"

\* MUTANT of TryConnect: the rest of the last answer stays in the buffer.
TryConnectKeepsBuffer ==
    /\ connected' = FALSE
    /\ requests' = <<>> /\ UNCHANGED ebuf
    /\ queue' = Others \o Aborted
    /\ sock' = "connecting" /\ rx' = 0 /\ wire' = <<>>
    /\ timer' = TRUE
    /\ replaced' = (replaced \/ Attempting)

\* MUTANT of TryConnect: what was asked on the old connection is still awaited.
TryConnectKeepsRequests ==
    /\ connected' = FALSE
    /\ UNCHANGED requests /\ ebuf' = <<>>
    /\ queue' = Others \o Aborted
    /\ sock' = "connecting" /\ rx' = 0 /\ wire' = <<>>
    /\ timer' = TRUE
    /\ replaced' = (replaced \/ Attempting)

TryConnect ==
    /\ connected' = FALSE
    /\ requests' = <<>> /\ ebuf' = <<>>
    /\ queue' = Others \o Aborted
    /\ sock' = "connecting" /\ rx' = 0 /\ wire' = <<>>
    /\ timer' = TRUE
    /\ replaced' = (replaced \/ Attempting)

\* The orders in which the map may hold the hosts of a set.
Orders(S) == {f \in [1..Cardinality(S) -> S] :
                 \A i, j \in DOMAIN f : f[i] = f[j] => i = j}

\* One request for either direction of every host.
Round(f) == [i \in 1..2 * Len(f) |-> [addr |-> f[(i + 1) \div 2], forward |-> i % 2 = 1]]

SendRound ==
    /\ clients # {} /\ requests = <<>>
    /\ \E f \in Orders(clients) : requests' = Round(f)
    /\ wire' = IF sock \in {"up", "connecting"} THEN wire \o Pieces(requests') ELSE wire
    /\ rx' = rx + 1

\* MUTANT of RequestWait: the timer is only set again when a round is sent.
RequestOrNothing ==
    \/ SendRound /\ timer' = TRUE
    \/ /\ clients = {} \/ requests # <<>>
       /\ UNCHANGED <<requests, wire, rx, timer>>

\* A new round only when all answers to the last one are in.
RequestWait ==
    /\ \/ SendRound
       \/ (clients = {} \/ requests # <<>>) /\ UNCHANGED <<requests, wire, rx>>
    /\ timer' = TRUE

HandleConnect ==
    /\ Runs("connect")
    /\ IF Head(queue).ok
       THEN connected' = TRUE /\ RequestWait /\ queue' = Others
            /\ UNCHANGED <<ebuf, sock, replaced>>
       ELSE TryConnect
    /\ UNCHANGED <<clients, alive>>

HandleTimeout ==
    /\ Runs("timeout")
    /\ IF connected
       THEN RequestWait /\ queue' = Others
            /\ UNCHANGED <<connected, ebuf, sock, replaced>>
       ELSE TryConnect
    /\ UNCHANGED <<clients, alive>>

\* An answer that is no list fails the assertion in process_message, unless
\* its host is not registered any more.
AssertionHolds(reqs) ==
    {TRUE} \cup IF Texts /\ \E i \in 1..Len(reqs) : reqs[i].addr \in clients
                THEN {FALSE} ELSE {}

\* expandable_buffer::add_data and remove_data
AddData(data) == ebuf \o data
RemoveData(buf, n) == SubSeq(buf, n + 1, Len(buf))

\* The first n answers of the buffer are handled and removed.  Without a request
\* left, requests.front() and erase are undefined: the list frees the node that
\* is part of itself, which ends the program.
HandleReplies(n, buf) ==
    /\ requests' = SubSeq(requests, n + 1, Len(requests))
    /\ ebuf' = RemoveData(buf, 2 * n)
    /\ alive' \in IF n <= Len(requests)
                  THEN AssertionHolds(SubSeq(requests, 1, n)) ELSE {FALSE}

\* MUTANT of ProcessReplies: "if" instead of "while".
ProcessReply(buf) == HandleReplies(IF Len(buf) >= 2 THEN 1 ELSE 0, buf)

\* process_replies: the i-th complete answer is taken for the one to
\* requests[i].
ProcessReplies(buf) == HandleReplies(Len(buf) \div 2, buf)

\* MUTANT of HandleReceive: the end of the connection is an error like others.
ReceiveIgnoresEof ==
    /\ Runs("receive")
    /\ ProcessReplies(AddData(Head(queue).pieces))
    /\ rx' = IF requests' # <<>> THEN rx + 1 ELSE rx
    /\ queue' = Others
    /\ UNCHANGED <<clients, connected, timer, sock, wire, replaced>>

\* MUTANT of HandleReceive, to the letter of the comment at sdn_manager.h:536:
\* the receive lingers when all answers are in.
ReceiveLingers ==
    /\ Runs("receive")
    /\ IF Head(queue).result = "eof"
       THEN TryConnect /\ UNCHANGED alive
       ELSE /\ ProcessReplies(AddData(Head(queue).pieces))
            /\ rx' = rx + 1
            /\ queue' = Others
            /\ UNCHANGED <<connected, timer, sock, wire, replaced>>
    /\ UNCHANGED clients

HandleReceive ==
    /\ Runs("receive")
    /\ IF Head(queue).result = "eof"
       THEN TryConnect /\ UNCHANGED alive
       ELSE /\ ProcessReplies(AddData(Head(queue).pieces))
            /\ rx' = IF requests' # <<>> THEN rx + 1 ELSE rx
            /\ queue' = Others
            /\ UNCHANGED <<connected, timer, sock, wire, replaced>>
    /\ UNCHANGED clients
-----------------------------------------------------------------------------
Environment ==
    \/ \E ok \in BOOLEAN : ConnectEnds(ok)
    \/ TimerExpires \/ DataArrives \/ PeerCloses \/ ReceiveEnds

Registry == \E a \in Addresses : Register(a) \/ Remove(a)

Run == HandleConnect \/ HandleTimeout \/ HandleReceive

Next == Environment \/ Registry \/ Run

Spec == Init /\ [][Next]_vars

\* The thread runs, the timer expires, the controller answers what it is asked
\* and the network delivers; of ever new attempts to connect some succeed.
FairSpec ==
    /\ Spec
    /\ WF_vars(Run) /\ WF_vars(TimerExpires)
    /\ WF_vars(DataArrives) /\ WF_vars(ReceiveEnds)
    /\ WF_vars(\E ok \in BOOLEAN : ConnectEnds(ok))
    /\ SF_vars(ConnectEnds(TRUE))
-----------------------------------------------------------------------------
\* What process_replies leaves in the buffer is less than an answer.
TypeOK ==
    /\ clients \subseteq Addresses
    /\ requests \in Seq(Request)
    /\ ebuf \in Seq(Piece) /\ Len(ebuf) <= 1
    /\ wire \in Seq(Piece)
    /\ connected \in BOOLEAN /\ timer \in BOOLEAN /\ alive \in BOOLEAN
    /\ sock \in {"connecting", "failed", "up", "closed"}
    /\ rx \in Nat
    /\ queue \in Seq(Handler)
    /\ replaced \in BOOLEAN

Queued(kind) == {i \in 1..Len(queue) : queue[i].kind = kind}

\* All receives read into the one recv_buf: at most one is pending or has its
\* handler queued, although request_wait and handle_receive both start one.
\* This and RepliesMatch hold until try_connect gives up an attempt: from then
\* on handlers of one connection meet the next one (see ConnectedUsable).
OneReceive ==
    ~ replaced =>
        /\ rx <= 1
        /\ rx = 1 => Queued("receive") = {}
        /\ \A i, j \in Queued("receive") : i = j

\* Answers are given to the host and direction they were requested for, over
\* any number of lost connections and hosts that come and go, and for each
\* there is a request (requests.front() exists).
RepliesMatch ==
    ~ replaced =>
        \A k \in Queued("receive") :
            LET all == ebuf \o queue[k].pieces
            IN  \A i \in 1..2 * (Len(all) \div 2) :
                    i <= 2 * Len(requests) /\ all[i] = Pieces(requests)[i]

\* In every state the timer will run handle_timeout again, which sends the next
\* round or tries to connect.
TimerAlive == timer \/ Queued("timeout") # {}

\* sdn_manager.h:546 "true when the connection is established and usable" (as
\* far as the server can know: the controller may have closed it).  It is not
\* always so: a handle_connect queued as successful may run when handle_timeout
\* has replaced its socket.
ConnectedUsable == connected => sock \in {"up", "closed"}

\* As long as there are hosts to ask about, a connection the controller has
\* closed is found out about and replaced, whichever read or round meets it,
\* unless an assertion has ended the program or attempts abort each other.
Reconnects ==
    (clients # {} /\ sock # "up") ~>
        (clients = {} \/ sock = "up" \/ ~ alive \/ replaced)

\* A round is sent with a request about the host.
AsksAbout(a) ==
    requests = <<>> /\ \E i \in 1..Len(requests') : requests'[i].addr = a

\* A host that stays registered is asked about in round after round, also when
\* it came in the middle of one, unless an assertion has ended the program or
\* attempts abort each other.
AskedAgain ==
    \A a \in Addresses :
        []<>(a \notin clients \/ ~ alive \/ replaced) \/ []<><<AsksAbout(a)>>_vars
=============================================================================
