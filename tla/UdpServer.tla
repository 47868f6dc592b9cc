----------------------------- MODULE UdpServer -----------------------------
(***************************************************************************)
(* The sessions of the UDP server (client_server/server.h, server.cpp) and *)
(* their registration with the SDN manager (sdn_manager.h).                *)
(*                                                                         *)
(* The program has one thread.  A completed or cancelled asynchronous      *)
(* operation puts its handler into the queue of the io_service, which runs *)
(* the handlers one after the other, first in first out.  A session is     *)
(* removed in two steps: one timeout of the server stops it, a later one   *)
(* deletes it, while handlers that use the object may be in the queue.     *)
(* There is at most one session per client endpoint, so that the endpoint  *)
(* names the object.                                                       *)
(***************************************************************************)
EXTENDS Integers, Sequences, FiniteSets

CONSTANTS NumEndpoints,   \* UDP endpoints of clients, numbered in map order
          Addresses,      \* their hosts
          AddressOf,      \* [1..NumEndpoints -> Addresses]
          OnOff,          \* on_off_transitions, an argument of the server
          SendersOf,      \* hosts of which datagrams come to a session's port
          OtherSizes,     \* do datagrams of another length arrive?
          MaxBurst,       \* bound: packets one call of send() sends
          MaxRx,          \* bound: receives pending on the socket of a session
          MaxQueue        \* bound: queued handlers when an operation completes

Endpoints == 1..NumEndpoints

ASSUME ServerAssumption ==
    /\ NumEndpoints \in Nat
    /\ AddressOf \in [Endpoints -> Addresses]
    /\ SendersOf \in [Endpoints -> SUBSET Addresses]
    /\ OnOff \in BOOLEAN /\ OtherSizes \in BOOLEAN
    /\ MaxBurst \in Nat \ {0} /\ MaxRx \in Nat /\ MaxQueue \in Nat

VARIABLES
    session,      \* clients_map: "none", "live" or "marked" (marked_for_deletion)
    data_exist,   \* has the session data to send?
    rx,           \* receives pending on the session's socket
    timer,        \* is a wait pending on the session's timer?
    tick,         \* is a wait pending on the server's timer?
    main,         \* is the receive pending on the server's socket?
    queue,        \* handlers to run
    it,           \* where udp_server::handle_timeout is in clients_map,
                  \* 0 while it is not running
    count,        \* sdn_manager.clients: [address -> count], 0 if there is none
    cli_ep,       \* the host of cli_ep of each session
    alive         \* no assert has ended the program

sessionVars == <<session, data_exist, rx, timer>>
hostVars == <<count, cli_ep, alive>>
vars == <<sessionVars, tick, main, queue, it, hostVars>>

\* ok is FALSE for operation_aborted.
Handler == [kind : {"main", "short", "rx", "other", "timer", "send"}, who : Endpoints, ok : BOOLEAN]
                \cup [kind : {"tick"}]
H(kind, e, ok) == [kind |-> kind, who |-> e, ok |-> ok]
Tick == [kind |-> "tick"]

\* Handler h runs a method of the session of e.
Uses(h, e) == h.kind \in {"rx", "other", "timer", "send"} /\ h.who = e

Init ==
    /\ session = [e \in Endpoints |-> "none"]
    /\ data_exist = [e \in Endpoints |-> FALSE]
    /\ rx = [e \in Endpoints |-> 0]
    /\ timer = [e \in Endpoints |-> FALSE]
    /\ tick = TRUE /\ main = TRUE
    /\ queue = <<>> /\ it = 0
    /\ count = [a \in Addresses |-> 0]
    /\ cli_ep = AddressOf /\ alive = TRUE
-----------------------------------------------------------------------------
(* Between two handlers the io_service completes operations.  The network  *)
(* loses datagrams freely: only those that arrive appear here.             *)

Completes(h) == alive /\ it = 0 /\ Len(queue) < MaxQueue /\ queue' = Append(queue, h)

\* A datagram of client e at the server's port; a short one has less than five
\* bytes.
MainArrives(e) ==
    /\ main /\ rx[e] < MaxRx
    /\ \E kind \in IF OtherSizes THEN {"main", "short"} ELSE {"main"} :
          Completes(H(kind, e, TRUE))
    /\ main' = FALSE
    /\ UNCHANGED <<sessionVars, tick, it, hostVars>>

\* A datagram at the port of the session, of the length of rcv_data or another.
\* async_receive_from puts its sender into cli_ep, whoever that is.
SessionArrives(e) ==
    /\ rx[e] > 0
    /\ \E kind \in IF OtherSizes THEN {"rx", "other"} ELSE {"rx"} :
          Completes(H(kind, e, TRUE))
    /\ rx' = [rx EXCEPT ![e] = @ - 1]
    /\ \E a \in SendersOf[e] : cli_ep' = [cli_ep EXCEPT ![e] = a]
    /\ UNCHANGED <<session, data_exist, timer, tick, main, it, count, alive>>

SessionTimer(e) ==
    /\ timer[e]
    /\ Completes(H("timer", e, TRUE))
    /\ timer' = [timer EXCEPT ![e] = FALSE]
    /\ UNCHANGED <<session, data_exist, rx, tick, main, it, hostVars>>

ServerTimer ==
    /\ tick
    /\ Completes(Tick)
    /\ tick' = FALSE
    /\ UNCHANGED <<sessionVars, main, it, hostVars>>
-----------------------------------------------------------------------------
(* What the handlers do.                                                   *)

Others == Tail(queue)
Runs(kind) == alive /\ it = 0 /\ queue # <<>> /\ Head(queue).kind = kind

\* The handlers udp_svr_client::send queues for session e: those of the n
\* packets that window and rate admit, and the one of the pending wait that
\* expires_at cancels.  It leaves a wait pending.
SendHandlers(e, n, pending) ==
    [i \in 1..n |-> H("send", e, TRUE)]
        \o (IF pending THEN <<H("timer", e, FALSE)>> ELSE <<>>)

Send(e) ==
    /\ \E n \in 0..MaxBurst : queue' = Others \o SendHandlers(e, n, timer[e])
    /\ timer' = [timer EXCEPT ![e] = TRUE]

NothingSent == queue' = Others /\ UNCHANGED timer

\* MUTANT of DataReceived, to the letter of the comment at server.h:120 ("will
\* not send anything, but should be ready at the next timeout").
ReceiveWithoutSend(e) ==
    /\ \E toggle \in {FALSE, OnOff} :
          data_exist' = [data_exist EXCEPT ![e] = IF toggle THEN ~ @ ELSE @]
    /\ NothingSent
    /\ rx' = [rx EXCEPT ![e] = @ + 1]

\* MUTANT of DataReceived: a datagram that switches the data off returns
\* before the next receive.
ReceiveReturnsEarly(e) ==
    \E toggle \in {FALSE, OnOff} :
        /\ data_exist' = [data_exist EXCEPT ![e] = IF toggle THEN ~ @ ELSE @]
        /\ IF toggle /\ ~ data_exist[e] THEN Send(e) ELSE NothingSent
        /\ rx' = [rx EXCEPT ![e] = IF toggle /\ data_exist[e] THEN @ ELSE @ + 1]

\* udp_svr_client::data_received: a client's tick may switch data on or off;
\* switching it on sends.  Then the session receives again.
DataReceived(e) ==
    /\ \E toggle \in {FALSE, OnOff} :
          /\ data_exist' = [data_exist EXCEPT ![e] = IF toggle THEN ~ @ ELSE @]
          /\ IF toggle /\ ~ data_exist[e] THEN Send(e) ELSE NothingSent
    /\ rx' = [rx EXCEPT ![e] = @ + 1]

\* A session that is marked ignores what it receives.
Ignore == NothingSent /\ UNCHANGED <<data_exist, rx>>

\* register_client, and the constructor of udp_svr_client with its send() and
\* data_received().
NewSession(e) ==
    /\ count' = [count EXCEPT ![AddressOf[e]] = @ + 1]
    /\ cli_ep' = [cli_ep EXCEPT ![e] = AddressOf[e]]
    /\ session' = [session EXCEPT ![e] = "live"]
    /\ \E toggle \in {FALSE, OnOff} : data_exist' = [data_exist EXCEPT ![e] = ~ toggle]
    /\ \E n \in 1..MaxBurst : queue' = Others \o SendHandlers(e, n, FALSE)
    /\ timer' = [timer EXCEPT ![e] = TRUE]
    /\ rx' = [rx EXCEPT ![e] = 1]

\* udp_server::handle_receive
RunMain ==
    /\ Runs("main")
    /\ LET e == Head(queue).who
       IN  \/ session[e] = "none" /\ NewSession(e)
           \/ session[e] = "live" /\ DataReceived(e) /\ UNCHANGED <<session, count, cli_ep>>
           \/ session[e] = "marked" /\ Ignore /\ UNCHANGED <<session, count, cli_ep>>
    /\ main' = TRUE
    /\ UNCHANGED <<tick, it, alive>>

\* The same for a short datagram: assert(length >= 5) in data_received, which
\* the constructor of a new session calls too.
RunShort ==
    /\ Runs("short")
    /\ IF session[Head(queue).who] = "marked"
       THEN Ignore /\ main' = TRUE /\ UNCHANGED alive
       ELSE alive' = FALSE /\ UNCHANGED <<data_exist, rx, timer, main, queue>>
    /\ UNCHANGED <<session, tick, it, count, cli_ep>>

\* udp_svr_client::handle_receive
RunReceive ==
    /\ Runs("rx")
    /\ LET e == Head(queue).who
       IN  IF session[e] = "live" THEN DataReceived(e) ELSE Ignore
    /\ UNCHANGED <<session, tick, main, it, hostVars>>

\* The same for a datagram of another length: no receive takes the place of
\* the one it used up.
RunReceiveOther ==
    /\ Runs("other")
    /\ Ignore
    /\ UNCHANGED <<session, tick, main, it, hostVars>>

\* udp_svr_client::handle_timeout
RunTimer ==
    /\ Runs("timer")
    /\ LET e == Head(queue).who
       IN  IF Head(queue).ok /\ session[e] = "live" /\ data_exist[e]
           THEN Send(e) ELSE NothingSent
    /\ UNCHANGED <<session, data_exist, rx, tick, main, it, hostVars>>

\* udp_svr_client::handle_send only looks at marked_for_deletion.
RunSend ==
    /\ Runs("send")
    /\ Ignore
    /\ UNCHANGED <<session, tick, main, it, hostVars>>
-----------------------------------------------------------------------------
(* udp_server::handle_timeout goes through clients_map.                    *)

RunTick ==
    /\ Runs("tick")
    /\ queue' = Others
    /\ it' = 1
    /\ UNCHANGED <<sessionVars, tick, main, hostVars>>

At(e) == alive /\ it = e

\* A session whose client has been silent for 2 s; here any.  One that is
\* marked takes no messages and stays timed out.
KeepSession(e) ==
    /\ At(e) /\ session[e] # "marked"
    /\ it' = e + 1
    /\ UNCHANGED <<sessionVars, tick, main, queue, hostVars>>

\* The handlers of the operations that stop() cancels.
Aborted(e) ==
    [i \in 1..rx[e] |-> H("rx", e, FALSE)]
        \o (IF timer[e] THEN <<H("timer", e, FALSE)>> ELSE <<>>)

\* sdn_manager.remove_client for the host of cli_ep, with its assert(0).
RemoveClient(e) ==
    /\ count' = [count EXCEPT ![cli_ep[e]] = IF @ > 0 THEN @ - 1 ELSE @]
    /\ alive' = (count[cli_ep[e]] > 0)

\* MUTANT of StopSession: one step instead of two, the session is deleted at once.
StopAndDelete(e) ==
    /\ At(e) /\ session[e] = "live"
    /\ queue' = queue \o Aborted(e)
    /\ rx' = [rx EXCEPT ![e] = 0]
    /\ timer' = [timer EXCEPT ![e] = FALSE]
    /\ session' = [session EXCEPT ![e] = "none"]
    /\ data_exist' = [data_exist EXCEPT ![e] = FALSE]
    /\ RemoveClient(e)
    /\ it' = e + 1
    /\ UNCHANGED <<tick, main, cli_ep>>

\* MUTANT of StopSession: the host is removed from the manager already here.
StopAndRemove(e) ==
    /\ At(e) /\ session[e] = "live"
    /\ queue' = queue \o Aborted(e)
    /\ rx' = [rx EXCEPT ![e] = 0]
    /\ timer' = [timer EXCEPT ![e] = FALSE]
    /\ session' = [session EXCEPT ![e] = "marked"]
    /\ RemoveClient(e)
    /\ it' = e + 1
    /\ UNCHANGED <<data_exist, tick, main, cli_ep>>

StopSession(e) ==
    /\ At(e) /\ session[e] = "live"
    /\ queue' = queue \o Aborted(e)
    /\ rx' = [rx EXCEPT ![e] = 0]
    /\ timer' = [timer EXCEPT ![e] = FALSE]
    /\ session' = [session EXCEPT ![e] = "marked"]
    /\ it' = e + 1
    /\ UNCHANGED <<data_exist, tick, main, hostVars>>

\* MUTANT of DeleteSession: "++it" after "erase(it++)".
DeleteAndSkip(e) ==
    /\ At(e) /\ session[e] = "marked"
    /\ session' = [session EXCEPT ![e] = "none"]
    /\ data_exist' = [data_exist EXCEPT ![e] = FALSE]
    /\ RemoveClient(e)
    /\ it' = e + 2
    /\ UNCHANGED <<rx, timer, tick, main, queue, cli_ep>>

DeleteSession(e) ==
    /\ At(e) /\ session[e] = "marked"
    /\ session' = [session EXCEPT ![e] = "none"]
    /\ data_exist' = [data_exist EXCEPT ![e] = FALSE]
    /\ RemoveClient(e)
    /\ it' = e + 1
    /\ UNCHANGED <<rx, timer, tick, main, queue, cli_ep>>

\* MUTANT of NextTick: the wait is only renewed when no session was stopped.
NextTickUnlessMarked ==
    /\ alive /\ it = NumEndpoints + 1
    /\ it' = 0
    /\ tick' = \A e \in Endpoints : session[e] # "marked"
    /\ UNCHANGED <<sessionVars, main, queue, hostVars>>

\* The end of the map: wait for the next second.
NextTick ==
    /\ alive /\ it = NumEndpoints + 1
    /\ it' = 0
    /\ tick' = TRUE
    /\ UNCHANGED <<sessionVars, main, queue, hostVars>>
-----------------------------------------------------------------------------
Arrive(e) == MainArrives(e) \/ SessionArrives(e)

Run == RunMain \/ RunShort \/ RunReceive \/ RunReceiveOther \/ RunTimer \/ RunSend \/ RunTick

Scan(e) == KeepSession(e) \/ StopSession(e) \/ DeleteSession(e)

\* An assert has failed: nothing runs any more.
Ended == ~ alive /\ UNCHANGED vars

Next ==
    \/ \E e \in Endpoints : Arrive(e) \/ SessionTimer(e) \/ Scan(e)
    \/ ServerTimer \/ Run \/ NextTick \/ Ended

Spec == Init /\ [][Next]_vars

\* The thread runs the queued handlers, handle_timeout comes to its end, and
\* the timer of the server expires.  Datagrams need not arrive.  The timer is
\* never shut out for good by the bound on the queue, which the real one has
\* not: hence the strong fairness.
FairSpec ==
    /\ Spec
    /\ WF_vars(Run \/ NextTick \/ \E e \in Endpoints : Scan(e))
    /\ SF_vars(ServerTimer)
-----------------------------------------------------------------------------
TypeOK ==
    /\ session \in [Endpoints -> {"none", "live", "marked"}]
    /\ data_exist \in [Endpoints -> BOOLEAN]
    /\ rx \in [Endpoints -> Nat]
    /\ timer \in [Endpoints -> BOOLEAN]
    /\ tick \in BOOLEAN /\ main \in BOOLEAN
    /\ queue \in Seq(Handler)
    /\ it \in 0..NumEndpoints + 1
    /\ count \in [Addresses -> Nat]
    /\ cli_ep \in [Endpoints -> Addresses] /\ alive \in BOOLEAN

\* server.h:688-691 "two steps are needed ... Not sure if this can cause a
\* problem": no handler that uses a session is still queued when it is deleted.
NoUseAfterDelete ==
    \A e \in Endpoints : session[e] = "none" =>
        \A k \in 1..Len(queue) : ~ Uses(queue[k], e)

\* Each host is registered as often as sessions will remove it, so that
\* remove_client finds it (assert(0) is not reached) and its statistics are
\* requested as long as one of its sessions exists: provided that only its own
\* host sends to a session's port, for cli_ep is who sent last.
SessionsAt(a) == {e \in Endpoints : session[e] # "none" /\ cli_ep[e] = a}
CountMatches == \A a \in Addresses : count[a] = Cardinality(SessionsAt(a))

\* The asserts of server.h:109 and sdn_manager.h:402.
AssertsHold == alive

\* Queued handlers of this kind for session e.
Queued(kind, e, ok) == \E k \in 1..Len(queue) : queue[k] = H(kind, e, ok)

\* A live session with data to send always has a wait coming that sends, in
\* whatever order datagrams, expiries and switches of the data happen.
SendAlive ==
    \A e \in Endpoints : session[e] = "live" /\ data_exist[e] =>
        timer[e] \/ Queued("timer", e, TRUE)

\* Session e listens on its own port, or a handler that should see to it is
\* queued.
Listens(e) == rx[e] > 0 \/ Queued("rx", e, TRUE) \/ Queued("other", e, TRUE)

\* Nothing but a datagram of another length makes a live session deaf
\* (server.h:571-577): neither the two ways data_received is reached, nor the
\* switches of the data, nor the timers.
OnlyOthersDeafen ==
    [][\A e \in Endpoints :
          session[e] = "live" /\ Listens(e) /\ session'[e] = "live" /\ ~ Listens(e)'
              => Runs("other") /\ Head(queue).who = e]_vars

\* server.h:576 says that such a datagram "will be ignored"; then a live session
\* would always listen.  It does where no such datagram comes.
RxArmed == \A e \in Endpoints : session[e] = "live" => Listens(e)

\* A session that was stopped is deleted in the end, unless the program ends.
MarkedFreed ==
    \A e \in Endpoints : session[e] = "marked" ~> session[e] = "none" \/ ~ alive
-----------------------------------------------------------------------------
(* The inductive invariant of NoUseAfterDelete.                            *)

\* A session that is not live has no operation pending.
Stopped == \A e \in Endpoints : session[e] # "live" => rx[e] = 0 /\ ~ timer[e]

\* The wait of the server is pending, its handler is queued once or it runs.
OneTick ==
    /\ tick => it = 0
    /\ tick \/ it # 0 => \A k \in 1..Len(queue) : queue[k] # Tick
    /\ \A j, k \in 1..Len(queue) : queue[j] = Tick /\ queue[k] = Tick => j = k

\* Every handler of a marked session is queued before the next tick ...
TickLast ==
    \A e \in Endpoints : session[e] = "marked" =>
        \A j, k \in 1..Len(queue) : queue[j] = Tick /\ j < k => ~ Uses(queue[k], e)

\* ... so that the tick finds none when it comes to the session.
ScanClean ==
    \A e \in Endpoints : session[e] = "marked" /\ it # 0 /\ it <= e =>
        \A k \in 1..Len(queue) : ~ Uses(queue[k], e)

HandlerInv == TypeOK /\ Stopped /\ OneTick /\ TickLast /\ ScanClean /\ NoUseAfterDelete
=============================================================================
