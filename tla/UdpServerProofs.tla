-------------------------- MODULE UdpServerProofs --------------------------
(* Theorems about UdpServer, for every number of clients and every bound.  *)
EXTENDS UdpServer, FiniteSetTheorems, TLAPS

\* Handler h belongs to session e, and is not the server's.
Of(h, e) == h \in Handler /\ h # Tick /\ \A f \in Endpoints : Uses(h, f) => f = e

OnlyOf(s, e) == s \in Seq(Handler) /\ \A k \in 1..Len(s) : Of(s[k], e)

LEMMA CopiesOf ==
    ASSUME NEW e, NEW h, Of(h, e), NEW n \in Nat
    PROVE  OnlyOf([i \in 1..n |-> h], e)
<1> DEFINE s == [i \in 1..n |-> h]
<1>1. h \in Handler
  BY DEF Of
<1>2. s \in Seq(Handler) /\ Len(s) = n
  BY <1>1
<1>3. \A k \in 1..n : s[k] = h
  OBVIOUS
<1> QED
  BY <1>2, <1>3 DEF OnlyOf

LEMMA ConcatOf ==
    ASSUME NEW e, NEW a, NEW b, OnlyOf(a, e), OnlyOf(b, e)
    PROVE  OnlyOf(a \o b, e)
<1>1. a \in Seq(Handler) /\ b \in Seq(Handler)
  BY DEF OnlyOf
<1>2. a \o b \in Seq(Handler) /\ Len(a \o b) = Len(a) + Len(b)
  BY <1>1
<1>3. ASSUME NEW k \in 1..Len(a \o b)
      PROVE  Of((a \o b)[k], e)
  <2>1. CASE k <= Len(a)
    <3>1. k \in 1..Len(a) /\ (a \o b)[k] = a[k]
      BY <2>1, <1>1, <1>2
    <3> QED
      BY <3>1 DEF OnlyOf
  <2>2. CASE k > Len(a)
    <3>1. k - Len(a) \in 1..Len(b) /\ (a \o b)[k] = b[k - Len(a)]
      BY <2>2, <1>1, <1>2
    <3> QED
      BY <3>1 DEF OnlyOf
  <2> QED
    BY <2>1, <2>2, <1>1, <1>2
<1> QED
  BY <1>2, <1>3 DEF OnlyOf

\* A handler that H makes for session e.
LEMMA HandlerOf ==
    ASSUME NEW e \in Endpoints, NEW kind \in {"main", "short", "rx", "other", "timer", "send"},
           NEW ok \in BOOLEAN
    PROVE  Of(H(kind, e, ok), e) /\ OnlyOf(<<H(kind, e, ok)>>, e) /\ OnlyOf(<<>>, e)
<1>1. H(kind, e, ok) \in Handler
  BY DEF H, Handler
<1>2. H(kind, e, ok) # Tick
  BY DEF H, Tick
<1>3. \A f \in Endpoints : Uses(H(kind, e, ok), f) => f = e
  BY DEF H, Uses
<1>4. Of(H(kind, e, ok), e)
  BY <1>1, <1>2, <1>3 DEF Of
<1> HIDE DEF H
<1> QED
  BY <1>1, <1>4 DEF OnlyOf

\* What send() queues belongs to its session.
LEMMA SendHandlersOf ==
    ASSUME NEW e \in Endpoints, NEW n \in Nat, NEW pending \in BOOLEAN
    PROVE  OnlyOf(SendHandlers(e, n, pending), e)
<1>1. OnlyOf([i \in 1..n |-> H("send", e, TRUE)], e)
  BY HandlerOf, CopiesOf
<1>2. OnlyOf(IF pending THEN <<H("timer", e, FALSE)>> ELSE <<>>, e)
  BY HandlerOf
<1> QED
  BY <1>1, <1>2, ConcatOf DEF SendHandlers

\* So does what stop() queues.
LEMMA AbortedOf ==
    ASSUME TypeOK, NEW e \in Endpoints
    PROVE  OnlyOf(Aborted(e), e)
<1>0. rx[e] \in Nat /\ timer[e] \in BOOLEAN
  BY DEF TypeOK
<1>1. OnlyOf([i \in 1..rx[e] |-> H("rx", e, FALSE)], e)
  BY <1>0, HandlerOf, CopiesOf
<1>2. OnlyOf(IF timer[e] THEN <<H("timer", e, FALSE)>> ELSE <<>>, e)
  BY HandlerOf
<1> QED
  BY <1>1, <1>2, ConcatOf DEF Aborted
-----------------------------------------------------------------------------
(* What the steps do to the queue.                                         *)

QueueInv == queue \in Seq(Handler) /\ OneTick /\ TickLast /\ ScanClean /\ NoUseAfterDelete

\* A handler of the session of e, or of one that is not there, may queue
\* handlers for e as long as e is live.
LEMMA RunKeeps ==
    ASSUME HandlerInv, it = 0, queue # <<>>,
           NEW e \in Endpoints, NEW s, OnlyOf(s, e),
           s = <<>> \/ session'[e] = "live",
           \A f \in Endpoints : session'[f] = session[f] \/ session'[f] = "live",
           queue' = Tail(queue) \o s, it' = it, tick' = tick
    PROVE  QueueInv'
<1> USE DEF HandlerInv
<1>1. queue \in Seq(Handler) /\ s \in Seq(Handler)
  BY DEF TypeOK, OnlyOf
<1>2. queue' \in Seq(Handler) /\ Len(queue') = Len(queue) - 1 + Len(s)
  BY <1>1
<1>3. \A k \in 1..Len(queue) - 1 : queue'[k] = queue[k + 1] /\ k + 1 \in 1..Len(queue)
  BY <1>1
<1>4. ASSUME NEW k \in 1..Len(queue'), k > Len(queue) - 1
      PROVE  Of(queue'[k], e) /\ session'[e] = "live"
  <2>1. k - (Len(queue) - 1) \in 1..Len(s) /\ queue'[k] = s[k - (Len(queue) - 1)]
    BY <1>1, <1>2, <1>4
  <2> QED
    BY <2>1, <1>1 DEF OnlyOf
<1>5. OneTick'
  <2>1. ASSUME NEW k \in 1..Len(queue'), queue'[k] = Tick
        PROVE  k \in 1..Len(queue) - 1 /\ queue[k + 1] = Tick
    BY <2>1, <1>1, <1>2, <1>3, <1>4 DEF Of
  <2>2. ASSUME tick \/ it # 0, NEW k \in 1..Len(queue')
        PROVE  queue'[k] # Tick
    BY <2>1, <2>2, <1>3 DEF OneTick
  <2>3. ASSUME NEW j \in 1..Len(queue'), NEW k \in 1..Len(queue'),
               queue'[j] = Tick, queue'[k] = Tick
        PROVE  j = k
    <3>1. j + 1 = k + 1
      BY <2>1, <2>3, <1>3 DEF OneTick
    <3> QED
      BY <3>1
  <2> QED
    BY <2>2, <2>3 DEF OneTick
<1>6. TickLast'
  <2> SUFFICES ASSUME NEW f \in Endpoints, session'[f] = "marked",
                      NEW j \in 1..Len(queue'), NEW k \in 1..Len(queue'),
                      queue'[j] = Tick, j < k
               PROVE  ~ Uses(queue'[k], f)
    BY DEF TickLast
  <2>1. CASE k <= Len(queue) - 1
    <3>1. j \in 1..Len(queue) - 1 /\ k \in 1..Len(queue) - 1
      BY <2>1, <1>1
    <3>2. session[f] = "marked"
      OBVIOUS
    <3> QED
      BY <3>1, <3>2, <1>1, <1>3 DEF TickLast
  <2>2. CASE k > Len(queue) - 1
    BY <2>2, <1>4 DEF Of
  <2> QED
    BY <2>1, <2>2, <1>1, <1>2
<1>7. ScanClean'
  BY DEF ScanClean
<1>8. NoUseAfterDelete'
  <2> SUFFICES ASSUME NEW f \in Endpoints, session'[f] = "none", NEW k \in 1..Len(queue')
               PROVE  ~ Uses(queue'[k], f)
    BY DEF NoUseAfterDelete
  <2>1. CASE k <= Len(queue) - 1
    <3>1. k \in 1..Len(queue) - 1 /\ session[f] = "none"
      BY <2>1, <1>1
    <3> QED
      BY <3>1, <1>3 DEF NoUseAfterDelete
  <2>2. CASE k > Len(queue) - 1
    BY <2>2, <1>4 DEF Of
  <2> QED
    BY <2>1, <2>2, <1>1, <1>2
<1> QED
  BY <1>2, <1>5, <1>6, <1>7, <1>8 DEF QueueInv

\* A completed operation queues its handler; only live sessions have pending
\* operations.
LEMMA CompletionKeeps ==
    ASSUME HandlerInv, NEW h \in Handler, Completes(h),
           \A f \in Endpoints : Uses(h, f) => session[f] = "live",
           h = Tick => tick /\ ~ tick',
           h # Tick => tick' = tick,
           session' = session, it' = it
    PROVE  QueueInv'
<1> USE DEF HandlerInv
<1>1. queue \in Seq(Handler) /\ queue' = Append(queue, h) /\ it = 0
  BY DEF TypeOK, Completes
<1>2. queue' \in Seq(Handler) /\ Len(queue') = Len(queue) + 1 /\ queue'[Len(queue) + 1] = h
  BY <1>1
<1>3. \A k \in 1..Len(queue) : queue'[k] = queue[k] /\ k \in 1..Len(queue')
  BY <1>1
<1>4. \A k \in 1..Len(queue') : k \in 1..Len(queue) \/ k = Len(queue) + 1
  BY <1>1, <1>2
<1>5. OneTick'
  <2>1. CASE h = Tick
    <3>1. \A k \in 1..Len(queue) : queue[k] # Tick
      BY <2>1 DEF OneTick
    <3> QED
      BY <3>1, <2>1, <1>1, <1>2, <1>3, <1>4 DEF OneTick
  <2>2. CASE h # Tick
    <3>1. \A k \in 1..Len(queue') : queue'[k] = Tick => k \in 1..Len(queue) /\ queue[k] = Tick
      BY <2>2, <1>2, <1>3, <1>4
    <3> QED
      BY <3>1, <2>2, <1>1 DEF OneTick
  <2> QED
    BY <2>1, <2>2
<1>6. TickLast'
  <2> SUFFICES ASSUME NEW f \in Endpoints, session[f] = "marked",
                      NEW j \in 1..Len(queue'), NEW k \in 1..Len(queue'),
                      queue'[j] = Tick, j < k
               PROVE  ~ Uses(queue'[k], f)
    BY DEF TickLast
  <2>1. CASE k \in 1..Len(queue)
    <3>1. j \in 1..Len(queue)
      BY <2>1, <1>1
    <3> QED
      BY <3>1, <2>1, <1>3 DEF TickLast
  <2>2. CASE k = Len(queue) + 1
    BY <2>2, <1>2
  <2> QED
    BY <2>1, <2>2, <1>4
<1>7. ScanClean'
  BY <1>1 DEF ScanClean
<1>8. NoUseAfterDelete'
  <2> SUFFICES ASSUME NEW f \in Endpoints, session[f] = "none", NEW k \in 1..Len(queue')
               PROVE  ~ Uses(queue'[k], f)
    BY DEF NoUseAfterDelete
  <2>1. CASE k \in 1..Len(queue)
    BY <2>1, <1>3 DEF NoUseAfterDelete
  <2>2. CASE k = Len(queue) + 1
    BY <2>2, <1>2
  <2> QED
    BY <2>1, <2>2, <1>4
<1> QED
  BY <1>2, <1>5, <1>6, <1>7, <1>8 DEF QueueInv
-----------------------------------------------------------------------------
(* The invariant holds for ever.                                           *)

\* Send, and what stands for it when nothing is sent, in a handler for e.
LEMMA SendStep ==
    ASSUME HandlerInv, queue # <<>>, NEW e \in Endpoints, Send(e) \/ NothingSent
    PROVE  /\ \E s : OnlyOf(s, e) /\ queue' = Tail(queue) \o s /\ (NothingSent => s = <<>>)
           /\ timer' \in [Endpoints -> BOOLEAN]
           /\ \A f \in Endpoints : f # e => timer'[f] = timer[f]
           /\ NothingSent => timer' = timer
<1> USE DEF HandlerInv
<1>0. queue \in Seq(Handler) /\ timer \in [Endpoints -> BOOLEAN]
  BY DEF TypeOK
<1>1. CASE NothingSent
  <2>1. queue' = Tail(queue) \o <<>>
    BY <1>1, <1>0 DEF NothingSent, Others
  <2>2. OnlyOf(<<>>, e)
    BY HandlerOf
  <2> QED
    BY <1>0, <1>1, <2>1, <2>2 DEF NothingSent
<1>2. CASE Send(e) /\ ~ NothingSent
  <2>1. PICK n \in 0..MaxBurst : queue' = Tail(queue) \o SendHandlers(e, n, timer[e])
    BY <1>2 DEF Send, Others
  <2>2. OnlyOf(SendHandlers(e, n, timer[e]), e)
    BY <1>0, ServerAssumption, SendHandlersOf
  <2>3. timer' = [timer EXCEPT ![e] = TRUE]
    BY <1>2 DEF Send
  <2> QED
    BY <1>0, <1>2, <2>1, <2>2, <2>3
<1> QED
  BY <1>1, <1>2

\* What the sessions and the manager know of the hosts stays typed.
HostsOK ==
    count \in [Addresses -> Nat] /\ cli_ep \in [Endpoints -> Addresses] /\ alive \in BOOLEAN

LEMMA HostsTyped == TypeOK /\ [Next]_vars => HostsOK'
<1> SUFFICES ASSUME TypeOK, [Next]_vars
             PROVE  HostsOK'
  OBVIOUS
<1>0. /\ count \in [Addresses -> Nat] /\ cli_ep \in [Endpoints -> Addresses]
      /\ alive \in BOOLEAN
  BY Zenon DEF TypeOK
<1>1. ASSUME UNCHANGED <<count, cli_ep>>, alive' \in BOOLEAN
      PROVE  HostsOK'
  BY <1>0, <1>1 DEF HostsOK
<1>2. ASSUME UNCHANGED hostVars
      PROVE  HostsOK'
  BY <1>0, <1>2 DEF HostsOK, hostVars
<1>3. ASSUME NEW e \in Endpoints, SessionArrives(e)
      PROVE  HostsOK'
  <2>1. PICK a \in SendersOf[e] : cli_ep' = [cli_ep EXCEPT ![e] = a]
    BY <1>3 DEF SessionArrives
  <2>2. a \in Addresses
    BY <2>1, ServerAssumption
  <2> QED
    BY <1>0, <1>3, <2>1, <2>2 DEF SessionArrives, HostsOK
<1>4. CASE RunMain
  <2> DEFINE e == Head(queue).who
  <2>1. e \in Endpoints /\ alive' = alive
    BY <1>4 DEF RunMain, Runs, TypeOK, Handler
  <2>2. NewSession(e) \/ UNCHANGED <<count, cli_ep>>
    BY <1>4 DEF RunMain
  <2> HIDE DEF e
  <2>3. CASE NewSession(e)
    <3>1. /\ count' = [count EXCEPT ![AddressOf[e]] = @ + 1]
          /\ cli_ep' = [cli_ep EXCEPT ![e] = AddressOf[e]]
      BY <2>3 DEF NewSession
    <3>2. AddressOf[e] \in Addresses
      BY <2>1, ServerAssumption
    <3> QED
      BY <1>0, <2>1, <3>1, <3>2 DEF HostsOK
  <2> QED
    BY <1>0, <1>1, <2>1, <2>2, <2>3
<1>5. CASE RunShort
  <2>1. UNCHANGED <<count, cli_ep>> /\ (alive' = FALSE \/ alive' = alive)
    BY <1>5 DEF RunShort
  <2> QED
    BY <1>0, <1>1, <2>1
<1>6. ASSUME NEW e \in Endpoints, DeleteSession(e)
      PROVE  HostsOK'
  <2>1. /\ count' = [count EXCEPT ![cli_ep[e]] = IF @ > 0 THEN @ - 1 ELSE @]
        /\ alive' = (count[cli_ep[e]] > 0) /\ cli_ep' = cli_ep
    BY <1>6 DEF DeleteSession, RemoveClient
  <2>2. cli_ep[e] \in Addresses /\ count[cli_ep[e]] \in Nat
    BY <1>0
  <2>3. count' \in [Addresses -> Nat]
    BY <1>0, <2>1, <2>2
  <2>4. alive' \in BOOLEAN
    BY <2>1, <2>2
  <2> QED
    BY <1>0, <2>1, <2>3, <2>4 DEF HostsOK
<1>7. CASE \E e \in Endpoints : MainArrives(e) \/ SessionTimer(e) \/ KeepSession(e) \/ StopSession(e)
  BY <1>2, <1>7 DEF MainArrives, SessionTimer, KeepSession, StopSession
<1>8. CASE \/ ServerTimer \/ RunReceive \/ RunReceiveOther \/ RunTimer \/ RunSend \/ RunTick
           \/ NextTick \/ UNCHANGED vars
  BY <1>2, <1>8 DEF ServerTimer, RunReceive, RunReceiveOther, RunTimer, RunSend, RunTick,
                    NextTick, vars
<1> QED
  BY <1>3, <1>4, <1>5, <1>6, <1>7, <1>8 DEF Next, Arrive, Run, Scan, Ended

\* A short datagram ends the program, or is ignored for a session that is
\* marked.
LEMMA ShortStep ==
    ASSUME TypeOK, RunShort
    PROVE  /\ queue # <<>> /\ Head(queue).kind = "short" /\ it = 0
           /\ Head(queue).who \in Endpoints
           /\ UNCHANGED <<session, data_exist, rx, tick, it>> /\ main' \in BOOLEAN
           /\ \/ queue' = queue /\ timer' = timer
              \/ NothingSent
<1>1. queue \in Seq(Handler) /\ main \in BOOLEAN
  BY DEF TypeOK
<1>2. queue # <<>> /\ Head(queue).kind = "short" /\ it = 0
  BY DEF RunShort, Runs
<1>3. Head(queue).who \in Endpoints
  BY <1>1, <1>2 DEF Handler
<1>4. UNCHANGED <<session, tick, it>>
  BY DEF RunShort
<1>5. CASE session[Head(queue).who] = "marked"
  BY <1>2, <1>3, <1>4, <1>5 DEF RunShort, Ignore
<1>6. CASE session[Head(queue).who] # "marked"
  BY <1>1, <1>2, <1>3, <1>4, <1>6 DEF RunShort
<1> QED
  BY <1>5, <1>6

LEMMA Inductive == HandlerInv /\ [Next]_vars => HandlerInv'
<1> SUFFICES ASSUME HandlerInv, [Next]_vars
             PROVE  TypeOK' /\ Stopped' /\ QueueInv'
  BY DEF HandlerInv, QueueInv
<1> USE DEF HandlerInv
<1>t. TypeOK
  OBVIOUS
<1>u. HostsOK'
  BY HostsTyped
<1>a. ASSUME NEW e \in Endpoints, MainArrives(e)
      PROVE  TypeOK' /\ Stopped' /\ QueueInv'
  <2>0. PICK kind \in {"main", "short"} : Completes(H(kind, e, TRUE))
    BY <1>a DEF MainArrives
  <2> DEFINE h == H(kind, e, TRUE)
  <2>1. h \in Handler /\ h # Tick
    BY HandlerOf DEF Of
  <2>2. \A f \in Endpoints : ~ Uses(h, f)
    BY DEF H, Uses
  <2>3. Completes(h) /\ session' = session /\ it' = it /\ tick' = tick
    BY <1>a, <2>0 DEF MainArrives, sessionVars
  <2> HIDE DEF h
  <2>4. QueueInv'
    BY <2>1, <2>2, <2>3, CompletionKeeps
  <2> QED
    BY <1>u, <1>a, <2>4 DEF HostsOK, MainArrives, sessionVars, TypeOK, Stopped, QueueInv
<1>b. ASSUME NEW e \in Endpoints, SessionArrives(e)
      PROVE  TypeOK' /\ Stopped' /\ QueueInv'
  <2>0. PICK kind \in {"rx", "other"} : Completes(H(kind, e, TRUE))
    BY <1>b DEF SessionArrives
  <2> DEFINE h == H(kind, e, TRUE)
  <2>1. Of(h, e)
    BY HandlerOf
  <2>2. session[e] = "live"
    BY <1>b DEF SessionArrives, Stopped
  <2>3. session' = session /\ it' = it /\ tick' = tick
    BY <1>b DEF SessionArrives
  <2> HIDE DEF h
  <2>4. QueueInv'
    BY <2>0, <2>1, <2>2, <2>3, CompletionKeeps DEF Of, h
  <2>5. rx[e] \in Nat /\ rx[e] > 0 /\ rx' = [rx EXCEPT ![e] = @ - 1]
    BY <1>b DEF SessionArrives, TypeOK
  <2> QED
    BY <1>u, <1>b, <2>2, <2>4, <2>5 DEF HostsOK, SessionArrives, TypeOK, Stopped, QueueInv
<1>c. ASSUME NEW e \in Endpoints, SessionTimer(e)
      PROVE  TypeOK' /\ Stopped' /\ QueueInv'
  <2> DEFINE h == H("timer", e, TRUE)
  <2>1. Of(h, e)
    BY HandlerOf
  <2>2. session[e] = "live"
    BY <1>c DEF SessionTimer, Stopped
  <2>3. Completes(h) /\ session' = session /\ it' = it /\ tick' = tick
    BY <1>c DEF SessionTimer
  <2> HIDE DEF h
  <2>4. QueueInv'
    BY <2>1, <2>2, <2>3, CompletionKeeps DEF Of
  <2> QED
    BY <1>u, <1>c, <2>2, <2>4 DEF HostsOK, SessionTimer, TypeOK, Stopped, QueueInv
<1>d. ASSUME ServerTimer
      PROVE  TypeOK' /\ Stopped' /\ QueueInv'
  <2>1. Tick \in Handler /\ \A f \in Endpoints : ~ Uses(Tick, f)
    BY DEF Tick, Handler, Uses
  <2>2. QueueInv'
    BY <1>d, <2>1, CompletionKeeps DEF ServerTimer, sessionVars
  <2> QED
    BY <1>u, <1>d, <2>2 DEF HostsOK, ServerTimer, sessionVars, TypeOK, Stopped, QueueInv
<1>e. ASSUME RunMain
      PROVE  TypeOK' /\ Stopped' /\ QueueInv'
  <2> DEFINE e == Head(queue).who
  <2>1. e \in Endpoints /\ queue # <<>> /\ it = 0 /\ it' = it /\ tick' = tick
    BY <1>e DEF RunMain, Runs, TypeOK, Handler
  <2>2. CASE session[e] = "none" /\ NewSession(e)
    <3>1. PICK n \in 1..MaxBurst : queue' = Tail(queue) \o SendHandlers(e, n, FALSE)
      BY <2>2 DEF NewSession, Others
    <3>3. session' = [session EXCEPT ![e] = "live"]
      BY <2>2 DEF NewSession
    <3>a. /\ data_exist' \in [Endpoints -> BOOLEAN]
          /\ timer' = [timer EXCEPT ![e] = TRUE] /\ rx' = [rx EXCEPT ![e] = 1]
          /\ main' = TRUE
      BY <1>e, <2>1, <2>2 DEF RunMain, NewSession, TypeOK
    <3> HIDE DEF e
    <3>b. n \in Nat
      BY ServerAssumption
    <3>2. OnlyOf(SendHandlers(e, n, FALSE), e)
      BY <2>1, <3>b, SendHandlersOf
    <3>4. QueueInv'
      BY <2>1, <3>1, <3>2, <3>3, RunKeeps DEF TypeOK
    <3>6. TypeOK'
      BY <1>u, <2>1, <3>3, <3>4, <3>a DEF TypeOK, HostsOK, QueueInv
    <3>7. Stopped'
      BY <2>1, <3>3, <3>a DEF Stopped, TypeOK
    <3> QED
      BY <3>4, <3>6, <3>7
  <2>3. CASE session[e] = "live" /\ DataReceived(e) /\ UNCHANGED <<session, count, cli_ep>>
    <3>1. Send(e) \/ NothingSent
      BY <2>3 DEF DataReceived
    <3>2. rx' = [rx EXCEPT ![e] = @ + 1]
      BY <2>3 DEF DataReceived
    <3>3. data_exist' \in [Endpoints -> BOOLEAN]
      BY <2>1, <2>3 DEF DataReceived, TypeOK
    <3> HIDE DEF e
    <3>4. /\ \E s : OnlyOf(s, e) /\ queue' = Tail(queue) \o s
          /\ timer' \in [Endpoints -> BOOLEAN]
          /\ \A f \in Endpoints : f # e => timer'[f] = timer[f]
      BY <2>1, <3>1, SendStep
    <3>5. QueueInv'
      BY <2>1, <2>3, <3>4, RunKeeps
    <3>6. main' = TRUE
      BY <1>e, <2>3 DEF RunMain
    <3>r. rx' \in [Endpoints -> Nat]
      BY <2>1, <3>2 DEF TypeOK
    <3>q. queue' \in Seq(Handler)
      BY <3>5 DEF QueueInv
    <3>7. TypeOK'
      BY <1>u, <2>1, <2>3, <3>r, <3>q, <3>3, <3>4, <3>6 DEF HostsOK, TypeOK
    <3>8. Stopped'
      BY <2>1, <2>3, <3>2, <3>4 DEF TypeOK, Stopped
    <3> QED
      BY <3>5, <3>7, <3>8
  <2>4. CASE session[e] = "marked" /\ Ignore /\ UNCHANGED <<session, count, cli_ep>>
    <3>1. NothingSent /\ UNCHANGED <<data_exist, rx>>
      BY <2>4 DEF Ignore
    <3> HIDE DEF e
    <3>2. (\E s : OnlyOf(s, e) /\ queue' = Tail(queue) \o s /\ s = <<>>) /\ timer' = timer
      BY <2>1, <3>1, SendStep
    <3>3. QueueInv'
      BY <2>1, <2>4, <3>2, RunKeeps
    <3>4. TypeOK' /\ Stopped'
      BY <1>u, <1>e, <2>1, <2>4, <3>1, <3>2, <3>3 DEF HostsOK, RunMain, TypeOK, Stopped, QueueInv
    <3> QED
      BY <3>3, <3>4
  <2> QED
    BY <1>e, <2>2, <2>3, <2>4 DEF RunMain
<1>f. ASSUME RunReceive
      PROVE  TypeOK' /\ Stopped' /\ QueueInv'
  <2> DEFINE e == Head(queue).who
  <2>1. e \in Endpoints /\ queue # <<>> /\ it = 0 /\ it' = it /\ tick' = tick /\ session' = session
    BY <1>f DEF RunReceive, Runs, TypeOK, Handler
  <2>2. CASE session[e] = "live" /\ DataReceived(e)
    <3>1. Send(e) \/ NothingSent
      BY <2>2 DEF DataReceived
    <3>2. rx' = [rx EXCEPT ![e] = @ + 1]
      BY <2>2 DEF DataReceived
    <3>3. data_exist' \in [Endpoints -> BOOLEAN]
      BY <2>1, <2>2 DEF DataReceived, TypeOK
    <3> HIDE DEF e
    <3>4. /\ \E s : OnlyOf(s, e) /\ queue' = Tail(queue) \o s
          /\ timer' \in [Endpoints -> BOOLEAN]
          /\ \A f \in Endpoints : f # e => timer'[f] = timer[f]
      BY <2>1, <3>1, SendStep
    <3>5. QueueInv'
      BY <2>1, <2>2, <3>4, RunKeeps
    <3>6. main' = main
      BY <1>f, <2>2 DEF RunReceive
    <3>r. rx' \in [Endpoints -> Nat]
      BY <2>1, <3>2 DEF TypeOK
    <3>q. queue' \in Seq(Handler)
      BY <3>5 DEF QueueInv
    <3>7. TypeOK'
      BY <1>u, <2>1, <2>2, <3>r, <3>q, <3>3, <3>4, <3>6 DEF HostsOK, TypeOK
    <3>8. Stopped'
      BY <2>1, <2>2, <3>2, <3>4 DEF TypeOK, Stopped
    <3> QED
      BY <3>5, <3>7, <3>8
  <2>3. CASE Ignore
    <3>1. NothingSent /\ UNCHANGED <<data_exist, rx>>
      BY <2>3 DEF Ignore
    <3> HIDE DEF e
    <3>2. (\E s : OnlyOf(s, e) /\ queue' = Tail(queue) \o s /\ s = <<>>) /\ timer' = timer
      BY <2>1, <3>1, SendStep
    <3>3. QueueInv'
      BY <2>1, <3>2, RunKeeps
    <3>4. TypeOK' /\ Stopped'
      BY <1>u, <1>f, <2>1, <3>1, <3>2, <3>3 DEF HostsOK, RunReceive, TypeOK, Stopped, QueueInv
    <3> QED
      BY <3>3, <3>4
  <2> QED
    BY <1>f, <2>2, <2>3 DEF RunReceive
<1>g. ASSUME RunReceiveOther \/ RunSend
      PROVE  TypeOK' /\ Stopped' /\ QueueInv'
  <2> DEFINE e == Head(queue).who
  <2>0. queue # <<>> /\ queue \in Seq(Handler) /\ Head(queue).kind \in {"other", "send"}
    BY <1>g DEF RunReceiveOther, RunSend, Runs, TypeOK
  <2>a. e \in Endpoints
    BY <2>0 DEF Handler
  <2>1. e \in Endpoints /\ queue # <<>> /\ it = 0 /\ it' = it /\ tick' = tick /\ session' = session
    BY <2>0, <2>a, <1>g DEF RunReceiveOther, RunSend, Runs
  <2>2. NothingSent /\ UNCHANGED <<data_exist, rx, main>>
    BY <1>g DEF RunReceiveOther, RunSend, Ignore
  <2> HIDE DEF e
  <2>3. (\E s : OnlyOf(s, e) /\ queue' = Tail(queue) \o s /\ s = <<>>) /\ timer' = timer
    BY <2>1, <2>2, SendStep
  <2>4. QueueInv'
    BY <2>1, <2>3, RunKeeps
  <2> QED
    BY <1>u, <2>1, <2>2, <2>3, <2>4 DEF HostsOK, TypeOK, Stopped, QueueInv
<1>h. ASSUME RunTimer
      PROVE  TypeOK' /\ Stopped' /\ QueueInv'
  <2> DEFINE e == Head(queue).who
  <2>1. e \in Endpoints /\ queue # <<>> /\ it = 0 /\ it' = it /\ tick' = tick /\ session' = session
    BY <1>h DEF RunTimer, Runs, TypeOK, Handler
  <2>2. NothingSent \/ (Send(e) /\ session[e] = "live")
    BY <1>h DEF RunTimer
  <2>3. UNCHANGED <<data_exist, rx, main>>
    BY <1>h DEF RunTimer
  <2> HIDE DEF e
  <2>4. /\ \E s : OnlyOf(s, e) /\ queue' = Tail(queue) \o s /\ (NothingSent => s = <<>>)
        /\ timer' \in [Endpoints -> BOOLEAN]
        /\ \A f \in Endpoints : f # e => timer'[f] = timer[f]
        /\ NothingSent => timer' = timer
    BY <2>1, <2>2, SendStep
  <2>5. QueueInv'
    BY <2>1, <2>2, <2>4, RunKeeps
  <2>6. TypeOK'
    BY <1>u, <2>1, <2>3, <2>4, <2>5 DEF HostsOK, TypeOK, QueueInv
  <2>7. Stopped'
    <3>1. ASSUME NEW f \in Endpoints, session[f] # "live"
          PROVE  timer'[f] = timer[f]
      BY <2>2, <2>4, <3>1
    <3>2. /\ \A f \in Endpoints : session[f] # "live" => rx[f] = 0 /\ ~ timer[f]
          /\ session' = session /\ rx' = rx
      BY <2>1, <2>3 DEF Stopped
    <3>3. ASSUME NEW f \in Endpoints, session'[f] # "live"
          PROVE  rx'[f] = 0 /\ ~ timer'[f]
      <4>1. session[f] # "live" /\ rx'[f] = rx[f]
        BY <3>2, <3>3
      <4>2. rx[f] = 0 /\ ~ timer[f] /\ timer'[f] = timer[f]
        BY <3>1, <3>2, <4>1
      <4> QED
        BY <4>1, <4>2
    <3> QED
      BY <3>3 DEF Stopped
  <2> QED
    BY <2>5, <2>6, <2>7
<1>i. ASSUME RunTick
      PROVE  TypeOK' /\ Stopped' /\ QueueInv'
  <2>1. queue \in Seq(Handler) /\ queue # <<>> /\ queue[1] = Tick /\ it = 0
    <3>1. queue \in Seq(Handler) /\ queue # <<>> /\ Head(queue).kind = "tick" /\ it = 0
      BY <1>i DEF RunTick, Runs, TypeOK
    <3>2. \A h \in Handler : h.kind = "tick" => h = Tick
      BY DEF Handler, Tick
    <3>3. queue[1] \in Handler /\ queue[1].kind = "tick"
      BY <3>1
    <3> QED
      BY <3>1, <3>2, <3>3
  <2>2. queue' = Tail(queue) /\ it' = 1 /\ session' = session /\ tick' = tick
    BY <1>i DEF RunTick, Others, sessionVars
  <2>3. ~ tick
    BY <2>1 DEF OneTick
  <2>4. /\ queue' \in Seq(Handler)
        /\ \A k \in 1..Len(queue') : queue'[k] = queue[k + 1] /\ k + 1 \in 1..Len(queue) /\ 1 < k + 1
    BY <2>1, <2>2
  <2>5. \A k \in 1..Len(queue') : queue'[k] # Tick
    <3> SUFFICES ASSUME NEW k \in 1..Len(queue'), queue'[k] = Tick PROVE FALSE
      OBVIOUS
    <3>1. queue[k + 1] = Tick /\ k + 1 \in 1..Len(queue) /\ 1 \in 1..Len(queue) /\ k + 1 # 1
      BY <2>1, <2>4
    <3> QED
      BY <3>1, <2>1 DEF OneTick
  <2>6. OneTick'
    BY <2>2, <2>3, <2>5 DEF OneTick
  <2>7. TickLast'
    BY <2>5 DEF TickLast
  <2>8. ScanClean'
    <3> SUFFICES ASSUME NEW f \in Endpoints, session[f] = "marked", NEW k \in 1..Len(queue')
                 PROVE  ~ Uses(queue'[k], f)
      BY <2>2 DEF ScanClean
    <3>1. 1 \in 1..Len(queue) /\ k + 1 \in 1..Len(queue) /\ 1 < k + 1 /\ queue'[k] = queue[k + 1]
      BY <2>1, <2>4
    <3> QED
      BY <3>1, <2>1 DEF TickLast
  <2>9. NoUseAfterDelete'
    BY <2>2, <2>4 DEF NoUseAfterDelete
  <2>10. TypeOK' /\ Stopped'
    BY <1>u, <1>i, <2>2, <2>4, ServerAssumption DEF HostsOK, RunTick, sessionVars, TypeOK, Stopped
  <2> QED
    BY <2>4, <2>6, <2>7, <2>8, <2>9, <2>10 DEF QueueInv
<1>j. ASSUME NEW e \in Endpoints, KeepSession(e)
      PROVE  TypeOK' /\ Stopped' /\ QueueInv'
  <2>1. /\ session[e] # "marked" /\ it = e /\ it' = e + 1 /\ e \in Nat /\ e + 1 \in 0..NumEndpoints + 1
        /\ UNCHANGED <<session, data_exist, rx, timer, tick, main, queue>>
    BY <1>j, ServerAssumption DEF KeepSession, At, sessionVars, Endpoints
  <2>2. \A f \in Endpoints : it' <= f => it <= f
    BY <2>1 DEF Endpoints
  <2>3. it # 0
    BY <2>1 DEF Endpoints
  <2> QED
    BY <1>u, <2>1, <2>2, <2>3 DEF HostsOK, TypeOK, Stopped, QueueInv, OneTick, TickLast, ScanClean, NoUseAfterDelete
<1>k. ASSUME NEW e \in Endpoints, StopSession(e)
      PROVE  TypeOK' /\ Stopped' /\ QueueInv'
  <2>1. /\ session[e] = "live" /\ it = e /\ it' = e + 1 /\ e + 1 \in 0..NumEndpoints + 1 /\ it # 0 /\ it' # 0
        /\ session' = [session EXCEPT ![e] = "marked"]
        /\ rx' = [rx EXCEPT ![e] = 0] /\ timer' = [timer EXCEPT ![e] = FALSE]
        /\ UNCHANGED <<data_exist, tick, main>>
    BY <1>k, ServerAssumption DEF StopSession, At, Endpoints
  <2> DEFINE s == Aborted(e)
  <2>2. OnlyOf(s, e) /\ queue' = queue \o s
    BY <1>k, AbortedOf DEF StopSession
  <2>3. queue \in Seq(Handler) /\ s \in Seq(Handler)
    BY <2>2 DEF TypeOK, OnlyOf
  <2> HIDE DEF s
  <2>4. queue' \in Seq(Handler) /\ Len(queue') = Len(queue) + Len(s)
    BY <2>2, <2>3
  <2>5. \A k \in 1..Len(queue) : queue'[k] = queue[k]
    BY <2>2, <2>3
  <2>6. ASSUME NEW k \in 1..Len(queue'), k > Len(queue)
        PROVE  Of(queue'[k], e)
    <3>1. k - Len(queue) \in 1..Len(s) /\ queue'[k] = s[k - Len(queue)]
      BY <2>2, <2>3, <2>4, <2>6
    <3> QED
      BY <2>2, <3>1 DEF OnlyOf
  <2>7. \A k \in 1..Len(queue') : k \in 1..Len(queue) \/ k > Len(queue)
    BY <2>3, <2>4
  <2>8. \A k \in 1..Len(queue') : queue'[k] # Tick
    BY <2>1, <2>5, <2>6, <2>7 DEF OneTick, Of
  <2>9. OneTick'
    BY <2>1, <2>8 DEF OneTick
  <2>10. TickLast'
    BY <2>8 DEF TickLast
  <2>11. ScanClean'
    <3> SUFFICES ASSUME NEW f \in Endpoints, session'[f] = "marked", e + 1 <= f, NEW k \in 1..Len(queue')
                 PROVE  ~ Uses(queue'[k], f)
      BY <2>1 DEF ScanClean
    <3>1. f # e /\ it <= f
      BY <2>1 DEF Endpoints
    <3>2. session[f] = "marked"
      BY <2>1, <3>1 DEF TypeOK
    <3>3. CASE k \in 1..Len(queue)
      BY <2>1, <2>5, <3>1, <3>2, <3>3 DEF ScanClean
    <3>4. CASE k > Len(queue)
      BY <2>6, <3>1, <3>4 DEF Of
    <3> QED
      BY <2>7, <3>3, <3>4
  <2>12. NoUseAfterDelete'
    <3> SUFFICES ASSUME NEW f \in Endpoints, session'[f] = "none", NEW k \in 1..Len(queue')
                 PROVE  ~ Uses(queue'[k], f)
      BY DEF NoUseAfterDelete
    <3>1. f # e /\ session[f] = "none"
      BY <2>1 DEF TypeOK
    <3>2. CASE k \in 1..Len(queue)
      BY <2>5, <3>1, <3>2 DEF NoUseAfterDelete
    <3>3. CASE k > Len(queue)
      BY <2>6, <3>1, <3>3 DEF Of
    <3> QED
      BY <2>7, <3>2, <3>3
  <2>13. TypeOK' /\ Stopped'
    BY <1>u, <2>1, <2>4 DEF HostsOK, TypeOK, Stopped
  <2> QED
    BY <2>4, <2>9, <2>10, <2>11, <2>12, <2>13 DEF QueueInv
<1>l. ASSUME NEW e \in Endpoints, DeleteSession(e)
      PROVE  TypeOK' /\ Stopped' /\ QueueInv'
  <2>1. /\ session[e] = "marked" /\ it = e /\ it' = e + 1 /\ e + 1 \in 0..NumEndpoints + 1 /\ it # 0 /\ it' # 0
        /\ session' = [session EXCEPT ![e] = "none"]
        /\ data_exist' = [data_exist EXCEPT ![e] = FALSE]
        /\ UNCHANGED <<rx, timer, tick, main, queue>>
    BY <1>l, ServerAssumption DEF DeleteSession, At, Endpoints
  <2>2. \A f \in Endpoints : it' <= f => it <= f
    BY <2>1 DEF Endpoints
  <2>3. \A k \in 1..Len(queue) : ~ Uses(queue[k], e)
    BY <2>1 DEF ScanClean, Endpoints
  <2>4. \A f \in Endpoints : f # e => session'[f] = session[f]
    BY <2>1 DEF TypeOK
  <2>5. session'[e] = "none"
    BY <2>1 DEF TypeOK
  <2>6. NoUseAfterDelete'
    BY <2>1, <2>3, <2>4 DEF NoUseAfterDelete
  <2>7. OneTick' /\ TickLast' /\ ScanClean'
    BY <2>1, <2>2, <2>4, <2>5 DEF OneTick, TickLast, ScanClean
  <2>9. TypeOK'
    BY <1>u, <2>1 DEF TypeOK, HostsOK
  <2>10. Stopped'
    BY <2>1, <2>4 DEF Stopped
  <2> QED
    BY <2>6, <2>7, <2>9, <2>10 DEF TypeOK, QueueInv
<1>m. ASSUME NextTick
      PROVE  TypeOK' /\ Stopped' /\ QueueInv'
  <2>1. /\ it = NumEndpoints + 1 /\ it # 0 /\ it' = 0 /\ tick'
        /\ tick' = TRUE /\ UNCHANGED <<session, data_exist, rx, timer, main, queue>>
    BY <1>m, ServerAssumption DEF NextTick, sessionVars
  <2>2. \A k \in 1..Len(queue) : queue[k] # Tick
    BY <2>1 DEF OneTick
  <2>3. OneTick' /\ TickLast' /\ ScanClean' /\ NoUseAfterDelete'
    BY <2>1, <2>2 DEF OneTick, TickLast, ScanClean, NoUseAfterDelete
  <2> QED
    BY <1>u, <2>1, <2>3, ServerAssumption DEF HostsOK, TypeOK, Stopped, QueueInv
<1>n. ASSUME UNCHANGED vars
      PROVE  TypeOK' /\ Stopped' /\ QueueInv'
  BY <1>u, <1>n DEF HostsOK, vars, sessionVars, TypeOK, Stopped, QueueInv, OneTick, TickLast, ScanClean,
              NoUseAfterDelete
<1>o. ASSUME RunShort
      PROVE  TypeOK' /\ Stopped' /\ QueueInv'
  <2> DEFINE e == Head(queue).who
  <2>1. /\ e \in Endpoints /\ queue # <<>> /\ it = 0
        /\ UNCHANGED <<session, data_exist, rx, tick, it>> /\ main' \in BOOLEAN
        /\ (queue' = queue /\ timer' = timer) \/ NothingSent
    BY <1>o, ShortStep
  <2> HIDE DEF e
  <2>2. CASE queue' = queue /\ timer' = timer
    BY <1>u, <2>1, <2>2 DEF HostsOK, TypeOK, Stopped, QueueInv, OneTick, TickLast, ScanClean,
                            NoUseAfterDelete
  <2>3. CASE NothingSent
    <3>1. (\E s : OnlyOf(s, e) /\ queue' = Tail(queue) \o s /\ s = <<>>) /\ timer' = timer
      BY <2>1, <2>3, SendStep
    <3>2. QueueInv'
      BY <2>1, <3>1, RunKeeps
    <3> QED
      BY <1>u, <2>1, <3>1, <3>2 DEF HostsOK, TypeOK, Stopped, QueueInv
  <2> QED
    BY <2>1, <2>2, <2>3
<1> QED
  BY <1>a, <1>b, <1>c, <1>d, <1>e, <1>f, <1>g, <1>h, <1>i, <1>j, <1>k, <1>l, <1>m, <1>n, <1>o
     DEF Next, Arrive, Run, Scan, Ended

LEMMA Initially == Init => HandlerInv
<1> SUFFICES ASSUME Init PROVE HandlerInv
  OBVIOUS
<1>1. queue = <<>> /\ it = 0
  BY DEF Init
<1>2. <<>> \in Seq(Handler) /\ Len(<<>>) = 0
  OBVIOUS
<1>3. TypeOK
  BY <1>2, ServerAssumption DEF Init, TypeOK
<1>4. Stopped
  BY DEF Init, Stopped
<1>5. OneTick /\ TickLast /\ ScanClean /\ NoUseAfterDelete
  BY <1>1, <1>2 DEF OneTick, TickLast, ScanClean, NoUseAfterDelete
<1> QED
  BY <1>3, <1>4, <1>5 DEF HandlerInv

\* The invariant of the handler queue holds in every state, for every number
\* of clients and every length of the queue (server.h, all handlers).
THEOREM Invariance == Spec => []HandlerInv
<1> QED
  BY Initially, Inductive, PTL DEF Spec

\* Type correctness of the server's state.
THEOREM TypeCorrect == Spec => []TypeOK
<1>1. HandlerInv => TypeOK
  BY DEF HandlerInv
<1> QED
  BY <1>1, Invariance, PTL

\* The question the comment of udp_server::handle_timeout (server.h:688-691)
\* leaves open: removing a session in two timeouts is enough, no handler of a
\* deleted session is ever run.
THEOREM SafeDelete == Spec => []NoUseAfterDelete
<1>1. HandlerInv => NoUseAfterDelete
  BY DEF HandlerInv
<1> QED
  BY <1>1, Invariance, PTL
-----------------------------------------------------------------------------
(* Sessions and the counts of the SDN manager.                             *)

LEMMA SessionsFinite ==
    ASSUME NEW a
    PROVE  IsFiniteSet(SessionsAt(a)) /\ Cardinality(SessionsAt(a)) \in Nat
<1>1. IsFiniteSet(Endpoints)
  BY FS_Interval, ServerAssumption DEF Endpoints
<1>2. SessionsAt(a) \subseteq Endpoints
  BY DEF SessionsAt
<1> QED
  BY <1>1, <1>2, FS_Subset, FS_CardinalityType

\* Only its own host sends to the port of a session ...
OwnSenders == \A e \in Endpoints : SendersOf[e] \subseteq {AddressOf[e]}

\* ... so that cli_ep keeps the host that was registered.
OwnEndpoint == \A e \in Endpoints : cli_ep[e] = AddressOf[e]

LEMMA EndpointStep == OwnSenders /\ TypeOK /\ OwnEndpoint /\ [Next]_vars => OwnEndpoint'
<1> SUFFICES ASSUME OwnSenders, TypeOK, OwnEndpoint, [Next]_vars
             PROVE  OwnEndpoint'
  OBVIOUS
<1>0. cli_ep \in [Endpoints -> Addresses]
  BY DEF TypeOK
<1>1. CASE cli_ep' = cli_ep
  BY <1>1 DEF OwnEndpoint
<1>2. ASSUME NEW e \in Endpoints, cli_ep' = [cli_ep EXCEPT ![e] = AddressOf[e]]
      PROVE  OwnEndpoint'
  BY <1>0, <1>2 DEF OwnEndpoint
<1>3. ASSUME NEW e \in Endpoints, SessionArrives(e)
      PROVE  OwnEndpoint'
  BY <1>2, <1>3 DEF SessionArrives, OwnSenders
<1>4. CASE RunMain
  <2>1. Head(queue).who \in Endpoints
    BY <1>4 DEF RunMain, Runs, TypeOK, Handler
  <2> QED
    BY <1>1, <1>2, <1>4, <2>1 DEF RunMain, NewSession
<1>5. CASE \E e \in Endpoints : MainArrives(e) \/ SessionTimer(e) \/ Scan(e)
  BY <1>1, <1>5 DEF MainArrives, SessionTimer, Scan, KeepSession, StopSession, DeleteSession,
                    hostVars
<1>6. CASE \/ ServerTimer \/ RunShort \/ RunReceive \/ RunReceiveOther \/ RunTimer \/ RunSend
           \/ RunTick \/ NextTick \/ UNCHANGED vars
  BY <1>1, <1>6 DEF ServerTimer, RunShort, RunReceive, RunReceiveOther, RunTimer, RunSend,
                    RunTick, NextTick, vars, hostVars
<1> QED
  BY <1>3, <1>4, <1>5, <1>6 DEF Next, Arrive, Run, Ended

LEMMA CountStep ==
    TypeOK /\ OwnEndpoint /\ OwnEndpoint' /\ CountMatches /\ [Next]_vars => CountMatches'
<1> SUFFICES ASSUME TypeOK, OwnEndpoint, OwnEndpoint', CountMatches, [Next]_vars,
                    NEW a \in Addresses
             PROVE  count'[a] = Cardinality(SessionsAt(a)')
  BY DEF CountMatches
<1>0. /\ count[a] = Cardinality(SessionsAt(a)) /\ count \in [Addresses -> Nat]
      /\ session \in [Endpoints -> {"none", "live", "marked"}]
      /\ AddressOf \in [Endpoints -> Addresses]
  BY ServerAssumption DEF CountMatches, TypeOK
<1>s. /\ SessionsAt(a) = {e \in Endpoints : session[e] # "none" /\ AddressOf[e] = a}
      /\ SessionsAt(a)' = {e \in Endpoints : session'[e] # "none" /\ AddressOf[e] = a}
  BY DEF SessionsAt, OwnEndpoint
<1>1. CASE count' = count /\ \A e \in Endpoints : session'[e] = "none" <=> session[e] = "none"
  <2>1. SessionsAt(a)' = SessionsAt(a)
    BY <1>1, <1>s
  <2> QED
    BY <1>0, <1>1, <2>1
<1>2. ASSUME NEW e \in Endpoints, session[e] = "none",
             session' = [session EXCEPT ![e] = "live"],
             count' = [count EXCEPT ![AddressOf[e]] = @ + 1]
      PROVE  count'[a] = Cardinality(SessionsAt(a)')
  <2>1. CASE AddressOf[e] = a
    <3>1. SessionsAt(a)' = SessionsAt(a) \cup {e} /\ e \notin SessionsAt(a)
      BY <1>0, <1>2, <1>s, <2>1
    <3>2. Cardinality(SessionsAt(a)') = Cardinality(SessionsAt(a)) + 1
      BY <3>1, SessionsFinite, FS_AddElement
    <3>3. count'[a] = count[a] + 1
      BY <1>0, <1>2, <2>1
    <3> QED
      BY <1>0, <3>2, <3>3
  <2>2. CASE AddressOf[e] # a
    <3>1. SessionsAt(a)' = SessionsAt(a)
      BY <1>0, <1>2, <1>s, <2>2
    <3>2. count'[a] = count[a]
      BY <1>0, <1>2, <2>2
    <3> QED
      BY <1>0, <3>1, <3>2
  <2> QED
    BY <2>1, <2>2
\* The host of a session that is deleted is there: its session is counted.
<1>3. ASSUME NEW e \in Endpoints, DeleteSession(e)
      PROVE  count'[a] = Cardinality(SessionsAt(a)')
  <2>0. /\ session[e] = "marked" /\ session' = [session EXCEPT ![e] = "none"]
        /\ count' = [count EXCEPT ![AddressOf[e]] = IF @ > 0 THEN @ - 1 ELSE @]
    BY <1>3 DEF DeleteSession, RemoveClient, OwnEndpoint
  <2>1. CASE AddressOf[e] = a
    <3>1. SessionsAt(a)' = SessionsAt(a) \ {e} /\ e \in SessionsAt(a)
      BY <1>0, <1>s, <2>0, <2>1
    <3>2. Cardinality(SessionsAt(a)') = Cardinality(SessionsAt(a)) - 1
      BY <3>1, SessionsFinite, FS_RemoveElement
    <3>3. Cardinality(SessionsAt(a)) # 0
      BY <3>1, SessionsFinite, FS_EmptySet
    <3>4. count[a] \in Nat /\ count[a] > 0
      BY <1>0, <3>3
    <3>5. count'[a] = count[a] - 1
      BY <1>0, <2>0, <2>1, <3>4
    <3> QED
      BY <1>0, <3>2, <3>5
  <2>2. CASE AddressOf[e] # a
    <3>1. SessionsAt(a)' = SessionsAt(a)
      BY <1>0, <1>s, <2>0, <2>2
    <3>2. count'[a] = count[a]
      BY <1>0, <2>0, <2>2
    <3> QED
      BY <1>0, <3>1, <3>2
  <2> QED
    BY <2>1, <2>2
<1>4. CASE RunMain
  <2> DEFINE e == Head(queue).who
  <2>1. e \in Endpoints
    BY <1>4 DEF RunMain, Runs, TypeOK, Handler
  <2>2. \/ /\ session[e] = "none" /\ session' = [session EXCEPT ![e] = "live"]
           /\ count' = [count EXCEPT ![AddressOf[e]] = @ + 1]
        \/ (count' = count /\ session' = session)
    BY <1>4 DEF RunMain, NewSession
  <2> HIDE DEF e
  <2> QED
    BY <1>1, <1>2, <2>1, <2>2
<1>5. CASE \E e \in Endpoints : StopSession(e)
  BY <1>0, <1>1, <1>5 DEF StopSession, hostVars
<1>6. CASE \E e \in Endpoints : DeleteSession(e)
  BY <1>3, <1>6
<1>7. CASE count' = count /\ session' = session
  BY <1>1, <1>7
<1>8. CASE UNCHANGED vars
  BY <1>7, <1>8 DEF vars, sessionVars, hostVars
<1>9. CASE \E e \in Endpoints : Arrive(e) \/ SessionTimer(e) \/ KeepSession(e)
  BY <1>7, <1>9 DEF Arrive, MainArrives, SessionArrives, SessionTimer, KeepSession, sessionVars,
                    hostVars
<1>10. CASE \/ ServerTimer \/ NextTick \/ RunShort \/ RunReceive \/ RunReceiveOther \/ RunTimer
            \/ RunSend \/ RunTick
  BY <1>7, <1>10 DEF ServerTimer, NextTick, RunShort, RunReceive, RunReceiveOther, RunTimer,
                     RunSend, RunTick, sessionVars, hostVars
<1> QED
  BY <1>4, <1>5, <1>6, <1>8, <1>9, <1>10 DEF Next, Run, Scan, Ended

LEMMA CountsBegin == Init => OwnEndpoint /\ CountMatches
<1> SUFFICES ASSUME Init, NEW a \in Addresses
             PROVE  OwnEndpoint /\ count[a] = Cardinality(SessionsAt(a))
  BY DEF OwnEndpoint, CountMatches, Init
<1>1. SessionsAt(a) = {}
  BY DEF Init, SessionsAt
<1> QED
  BY <1>1, FS_EmptySet DEF Init, OwnEndpoint

\* Provided that only its own host sends to the port of a session, a host is
\* registered with the SDN manager exactly as often as it has sessions:
\* remove_client always finds it, and a host with a session is never dropped
\* from the requests (sdn_manager.h:379-403, server.h:128-131 and 696).  Where
\* anybody may send, the run on UdpServerStray.cfg reaches the assert.
THEOREM CountsMatch == ASSUME OwnSenders PROVE Spec => []CountMatches
<1>1. OwnEndpoint /\ TypeOK /\ TypeOK' /\ [Next]_vars => OwnEndpoint'
  BY EndpointStep
<1> QED
  BY <1>1, CountsBegin, CountStep, TypeCorrect, PTL DEF Spec
-----------------------------------------------------------------------------
(* A live session with data keeps sending.                                 *)

\* Only the handler that runs leaves the queue.
LEMMA StaysQueued ==
    ASSUME NEW kind, NEW f, NEW ok, queue \in Seq(Handler), Queued(kind, f, ok),
           \/ queue' = queue
           \/ \E h \in Handler : queue' = Append(queue, h)
           \/ \E s \in Seq(Handler) : queue' = queue \o s
           \/ /\ queue # <<>> /\ Head(queue) # H(kind, f, ok)
              /\ \E s \in Seq(Handler) : queue' = Tail(queue) \o s
    PROVE  Queued(kind, f, ok)'
<1> DEFINE h0 == H(kind, f, ok)
<1>1. PICK k \in 1..Len(queue) : queue[k] = h0
  BY DEF Queued
<1> SUFFICES \E i \in 1..Len(queue') : queue'[i] = h0
  BY DEF Queued, H
<1> HIDE DEF h0
<1>2. CASE queue' = queue
  BY <1>1, <1>2
<1>3. CASE \E h \in Handler : queue' = Append(queue, h)
  <2>1. k \in 1..Len(queue') /\ queue'[k] = queue[k]
    BY <1>3
  <2> QED
    BY <1>1, <2>1
<1>4. CASE \E s \in Seq(Handler) : queue' = queue \o s
  <2>1. k \in 1..Len(queue') /\ queue'[k] = queue[k]
    BY <1>4
  <2> QED
    BY <1>1, <2>1
<1>5. CASE /\ queue # <<>> /\ Head(queue) # h0
           /\ \E s \in Seq(Handler) : queue' = Tail(queue) \o s
  <2>1. k # 1
    BY <1>1, <1>5
  <2>2. k - 1 \in 1..Len(queue') /\ queue'[k - 1] = queue[k]
    BY <1>5, <2>1
  <2> QED
    BY <1>1, <2>2
<1> QED
  BY <1>2, <1>3, <1>4, <1>5 DEF h0

\* Does session f have a wait coming?
Coming(f) == timer[f] \/ Queued("timer", f, TRUE)

LEMMA AliveStep == HandlerInv /\ SendAlive /\ [Next]_vars => SendAlive'
<1> SUFFICES ASSUME HandlerInv, SendAlive, [Next]_vars, NEW f \in Endpoints,
                    session'[f] = "live", data_exist'[f]
             PROVE  Coming(f)'
  BY DEF SendAlive, Coming
<1> USE DEF HandlerInv
<1>0. /\ queue \in Seq(Handler) /\ timer \in [Endpoints -> BOOLEAN]
      /\ data_exist \in [Endpoints -> BOOLEAN]
      /\ session[f] = "live" /\ data_exist[f] => Coming(f)
  BY DEF TypeOK, SendAlive, Coming
\* Nothing happens to the wait.
<1>1. ASSUME session[f] = "live", data_exist[f], timer[f] => timer'[f],
             \/ queue' = queue
             \/ \E h \in Handler : queue' = Append(queue, h)
             \/ \E s \in Seq(Handler) : queue' = queue \o s
             \/ /\ queue # <<>> /\ Head(queue) # H("timer", f, TRUE)
                /\ \E s \in Seq(Handler) : queue' = Tail(queue) \o s
      PROVE  Coming(f)'
  BY <1>0, <1>1, StaysQueued DEF Coming
<1>2. ASSUME NEW h, Completes(h), h \in Handler, UNCHANGED <<session, data_exist>>,
             timer[f] => timer'[f]
      PROVE  Coming(f)'
  BY <1>1, <1>2 DEF Completes
<1>3. ASSUME NEW e \in Endpoints, SessionTimer(e)
      PROVE  Coming(f)'
  <2>1. H("timer", e, TRUE) \in Handler
    BY HandlerOf DEF Of
  <2>2. /\ Completes(H("timer", e, TRUE)) /\ UNCHANGED <<session, data_exist>>
        /\ f # e => timer'[f] = timer[f]
    BY <1>0, <1>3 DEF SessionTimer
  <2>3. CASE f = e
    <3>1. queue' = Append(queue, H("timer", f, TRUE))
      BY <2>2, <2>3 DEF Completes
    <3>a. \A h \in Handler : /\ Len(Append(queue, h)) = Len(queue) + 1
                            /\ Append(queue, h)[Len(queue) + 1] = h
      BY <1>0
    <3>b. H("timer", f, TRUE) \in Handler
      BY <2>1, <2>3
    <3>c. Len(queue') = Len(queue) + 1 /\ queue'[Len(queue) + 1] = H("timer", f, TRUE)
      BY <3>a, <3>b, <3>1
    <3>2. Len(queue) + 1 \in 1..Len(queue') /\ queue'[Len(queue) + 1] = H("timer", f, TRUE)
      BY <1>0, <3>c
    <3> QED
      BY <3>2 DEF Coming, Queued, H
  <2> QED
    BY <1>2, <2>1, <2>2, <2>3
<1>4. CASE \E e \in Endpoints : Arrive(e)
  <2>1. PICK e \in Endpoints : MainArrives(e) \/ SessionArrives(e)
    BY <1>4 DEF Arrive
  <2>2. \A kind \in {"main", "short", "rx", "other"} : H(kind, e, TRUE) \in Handler
    BY HandlerOf DEF Of
  <2>3. UNCHANGED <<session, data_exist, timer>>
    BY <2>1 DEF MainArrives, SessionArrives, sessionVars
  <2>4. \E kind \in {"main", "short", "rx", "other"} : Completes(H(kind, e, TRUE))
    BY <2>1 DEF MainArrives, SessionArrives
  <2> QED
    BY <1>2, <2>2, <2>3, <2>4
<1>5. CASE ServerTimer
  BY <1>2, <1>5 DEF ServerTimer, sessionVars, Handler, Tick
\* The handler of a session runs: what send() does for session e.
<1>6. ASSUME NEW e \in Endpoints, queue # <<>>, Send(e) \/ NothingSent,
             Head(queue).kind # "timer", session' = session,
             data_exist'[f] => data_exist[f] \/ (f = e /\ Send(e))
      PROVE  Coming(f)'
  <2>1. CASE f = e /\ Send(e)
    BY <1>0, <2>1 DEF Send, Coming
  <2>2. CASE ~ (f = e /\ Send(e))
    <3>1. \E s \in Seq(Handler) : queue' = Tail(queue) \o s
      BY <1>6, SendStep DEF OnlyOf
    <3>2. timer[f] => timer'[f]
      BY <1>6, <1>0, <2>2, SendStep
    <3>3. Head(queue) # H("timer", f, TRUE)
      BY <1>6 DEF H
    <3> QED
      BY <1>1, <1>6, <2>2, <3>1, <3>2, <3>3
  <2> QED
    BY <2>1, <2>2
<1>7. ASSUME NEW e \in Endpoints, queue # <<>>, DataReceived(e), session' = session,
             Head(queue).kind # "timer"
      PROVE  Coming(f)'
  <2>1. PICK toggle \in {FALSE, OnOff} :
            /\ data_exist' = [data_exist EXCEPT ![e] = IF toggle THEN ~ @ ELSE @]
            /\ IF toggle /\ ~ data_exist[e] THEN Send(e) ELSE NothingSent
    BY <1>7 DEF DataReceived
  <2>2. data_exist'[f] => data_exist[f] \/ (f = e /\ Send(e))
    BY <1>0, <2>1
  <2> QED
    BY <1>6, <1>7, <2>1, <2>2
<1>8. CASE RunMain
  <2> DEFINE e == Head(queue).who
  <2>1. e \in Endpoints /\ queue # <<>> /\ Head(queue).kind = "main"
    BY <1>8 DEF RunMain, Runs, TypeOK, Handler
  <2>2. CASE session[e] = "none" /\ NewSession(e)
    <3>1. PICK n \in 1..MaxBurst : queue' = Tail(queue) \o SendHandlers(e, n, FALSE)
      BY <2>2 DEF NewSession, Others
    <3>2. /\ timer' = [timer EXCEPT ![e] = TRUE] /\ session' = [session EXCEPT ![e] = "live"]
          /\ \E toggle \in {FALSE, OnOff} : data_exist' = [data_exist EXCEPT ![e] = ~ toggle]
      BY <2>2 DEF NewSession
    <3> HIDE DEF e
    <3>3. n \in Nat
      BY ServerAssumption
    <3>4. SendHandlers(e, n, FALSE) \in Seq(Handler)
      BY <2>1, <3>3, SendHandlersOf DEF OnlyOf
    <3>5. CASE f = e
      BY <1>0, <3>2, <3>5 DEF Coming
    <3>6. CASE f # e
      <4>1. session[f] = "live" /\ data_exist[f] /\ timer'[f] = timer[f]
        BY <1>0, <3>2, <3>6 DEF TypeOK
      <4>2. Head(queue) # H("timer", f, TRUE)
        BY <2>1 DEF H
      <4> QED
        BY <1>1, <2>1, <3>1, <3>4, <4>1, <4>2
    <3> QED
      BY <3>5, <3>6
  <2>3. CASE session[e] = "live" /\ DataReceived(e) /\ UNCHANGED <<session, count, cli_ep>>
    BY <1>7, <2>1, <2>3
  <2>4. CASE session[e] = "marked" /\ Ignore /\ UNCHANGED <<session, count, cli_ep>>
    BY <1>6, <2>1, <2>4 DEF Ignore
  <2> QED
    BY <1>8, <2>2, <2>3, <2>4 DEF RunMain
<1>9. CASE RunReceive
  <2> DEFINE e == Head(queue).who
  <2>1. e \in Endpoints /\ queue # <<>> /\ Head(queue).kind = "rx" /\ session' = session
    BY <1>9 DEF RunReceive, Runs, TypeOK, Handler
  <2>2. DataReceived(e) \/ Ignore
    BY <1>9 DEF RunReceive
  <2> HIDE DEF e
  <2> QED
    BY <1>6, <1>7, <2>1, <2>2 DEF Ignore
<1>10. CASE RunReceiveOther \/ RunSend
  <2>1. queue # <<>> /\ Head(queue).kind \in {"other", "send"} /\ Ignore /\ session' = session
    BY <1>10 DEF RunReceiveOther, RunSend, Runs
  <2> QED
    BY <1>6, <2>1 DEF Ignore
<1>11. CASE RunTimer
  <2> DEFINE e == Head(queue).who
  <2>1. e \in Endpoints /\ queue # <<>> /\ session' = session /\ data_exist' = data_exist
    BY <1>11 DEF RunTimer, Runs, TypeOK, Handler
  <2>2. IF Head(queue).ok /\ session[e] = "live" /\ data_exist[e] THEN Send(e) ELSE NothingSent
    BY <1>11 DEF RunTimer
  <2> HIDE DEF e
  <2>3. CASE f = e /\ Send(e)
    BY <1>0, <2>3 DEF Send, Coming
  <2>4. CASE ~ (f = e /\ Send(e))
    <3>1. \E s \in Seq(Handler) : queue' = Tail(queue) \o s
      BY <2>1, <2>2, SendStep DEF OnlyOf
    <3>2. timer[f] => timer'[f]
      BY <1>0, <2>1, <2>2, <2>4, SendStep
    <3>3. Head(queue) # H("timer", f, TRUE)
      BY <2>1, <2>2, <2>4 DEF H, e
    <3> QED
      BY <1>1, <2>1, <3>1, <3>2, <3>3
  <2> QED
    BY <2>3, <2>4
<1>12. CASE RunTick
  <2>1. /\ queue # <<>> /\ Head(queue).kind = "tick" /\ queue' = Tail(queue)
        /\ UNCHANGED <<session, data_exist, timer>>
    BY <1>12 DEF RunTick, Runs, Others, sessionVars
  <2>2. queue' = Tail(queue) \o <<>> /\ <<>> \in Seq(Handler)
    BY <1>0, <2>1
  <2>3. Head(queue) # H("timer", f, TRUE)
    BY <2>1 DEF H
  <2> QED
    BY <1>1, <2>1, <2>2, <2>3
<1>13. CASE \E e \in Endpoints : KeepSession(e)
  BY <1>1, <1>13 DEF KeepSession, sessionVars
<1>14. ASSUME NEW e \in Endpoints, StopSession(e)
       PROVE  Coming(f)'
  <2>1. /\ session' = [session EXCEPT ![e] = "marked"] /\ timer' = [timer EXCEPT ![e] = FALSE]
        /\ queue' = queue \o Aborted(e) /\ data_exist' = data_exist
    BY <1>14 DEF StopSession
  <2>2. f # e /\ session[f] = "live" /\ timer'[f] = timer[f]
    BY <1>0, <2>1 DEF TypeOK
  <2>3. Aborted(e) \in Seq(Handler)
    BY AbortedOf DEF OnlyOf
  <2> QED
    BY <1>1, <2>1, <2>2, <2>3
<1>15. ASSUME NEW e \in Endpoints, DeleteSession(e)
       PROVE  Coming(f)'
  <2>1. /\ session' = [session EXCEPT ![e] = "none"] /\ data_exist' = [data_exist EXCEPT ![e] = FALSE]
        /\ UNCHANGED <<timer, queue>>
    BY <1>15 DEF DeleteSession
  <2>2. session[f] = "live" /\ data_exist[f]
    BY <1>0, <2>1 DEF TypeOK
  <2> QED
    BY <1>1, <2>1, <2>2
<1>16. CASE NextTick \/ UNCHANGED vars
  BY <1>1, <1>16 DEF NextTick, vars, sessionVars
<1>17. CASE RunShort
  <2>1. /\ queue # <<>> /\ Head(queue).kind = "short" /\ Head(queue).who \in Endpoints
        /\ UNCHANGED <<session, data_exist>>
        /\ (queue' = queue /\ timer' = timer) \/ NothingSent
    BY <1>17, ShortStep
  <2> QED
    BY <1>1, <1>6, <2>1
<1> QED
  BY <1>3, <1>4, <1>5, <1>8, <1>9, <1>10, <1>11, <1>12, <1>13, <1>14, <1>15, <1>16, <1>17
     DEF Next, Run, Scan, Ended

\* The timer of a live session that has data is never lost, whatever order
\* datagrams, expiries, cancellations and on/off switches come in: a session
\* cannot fall silent for want of a wait (send, handle_timeout, data_received).
THEOREM StaysAlive == Spec => []SendAlive
<1>1. Init => SendAlive
  BY DEF Init, SendAlive
<1> QED
  BY <1>1, AliveStep, Invariance, PTL DEF Spec
-----------------------------------------------------------------------------
(* A live session keeps listening.                                         *)

LEMMA ListenStep ==
    ASSUME HandlerInv, [Next]_vars, NEW f \in Endpoints, session[f] = "live",
           Listens(f), session'[f] = "live", ~ (Runs("other") /\ Head(queue).who = f)
    PROVE  Listens(f)'
<1> USE DEF HandlerInv
<1>0. queue \in Seq(Handler) /\ rx \in [Endpoints -> Nat]
  BY DEF TypeOK
\* Nothing happens to the receives of f.
<1>1. ASSUME rx[f] > 0 => rx'[f] > 0,
             \/ queue' = queue
             \/ \E h \in Handler : queue' = Append(queue, h)
             \/ \E s \in Seq(Handler) : queue' = queue \o s
             \/ /\ queue # <<>> /\ Head(queue) # H("rx", f, TRUE)
                /\ Head(queue) # H("other", f, TRUE)
                /\ \E s \in Seq(Handler) : queue' = Tail(queue) \o s
      PROVE  Listens(f)'
  <2>1. CASE rx[f] > 0
    BY <1>1, <2>1 DEF Listens
  <2>2. CASE Queued("rx", f, TRUE)
    BY <1>0, <1>1, <2>2, StaysQueued DEF Listens
  <2>3. CASE Queued("other", f, TRUE)
    BY <1>0, <1>1, <2>3, StaysQueued DEF Listens
  <2> QED
    BY <2>1, <2>2, <2>3 DEF Listens
<1>2. ASSUME NEW h, Completes(h), h \in Handler, rx' = rx
      PROVE  Listens(f)'
  BY <1>1, <1>2 DEF Completes
<1>3. ASSUME NEW e \in Endpoints, MainArrives(e) \/ SessionTimer(e)
      PROVE  Listens(f)'
  <2>1. /\ H("main", e, TRUE) \in Handler /\ H("short", e, TRUE) \in Handler
        /\ H("timer", e, TRUE) \in Handler
    BY HandlerOf DEF Of
  <2> QED
    BY <1>2, <1>3, <2>1 DEF MainArrives, SessionTimer, sessionVars
<1>4. ASSUME NEW e \in Endpoints, SessionArrives(e)
      PROVE  Listens(f)'
  <2>1. PICK kind \in {"rx", "other"} : queue' = Append(queue, H(kind, e, TRUE))
    BY <1>4 DEF SessionArrives, Completes
  <2>2. H(kind, e, TRUE) \in Handler /\ rx' = [rx EXCEPT ![e] = @ - 1]
    BY <1>4, HandlerOf DEF SessionArrives, Of
  <2>3. CASE e = f
    <3>1. \A h \in Handler : /\ Len(Append(queue, h)) = Len(queue) + 1
                             /\ Append(queue, h)[Len(queue) + 1] = h
                             /\ Len(queue) \in Nat
      BY <1>0
    <3>a. H(kind, f, TRUE) \in Handler /\ queue' = Append(queue, H(kind, f, TRUE))
      BY <2>1, <2>2, <2>3
    <3>b. Len(queue') = Len(queue) + 1 /\ queue'[Len(queue) + 1] = H(kind, f, TRUE)
      BY <3>1, <3>a
    <3>2. Len(queue) + 1 \in 1..Len(queue')
      <4>1. Len(queue) \in Nat
        BY <1>0
      <4> QED
        BY <3>b, <4>1
    <3>3. Queued(kind, f, TRUE)'
      BY <3>2, <3>b DEF Queued, H
    <3>4. CASE kind = "rx"
      BY <3>3, <3>4 DEF Listens
    <3>5. CASE kind = "other"
      BY <3>3, <3>5 DEF Listens
    <3> QED
      BY <3>4, <3>5
  <2>4. CASE e # f
    BY <1>0, <1>1, <2>1, <2>2, <2>4
  <2> QED
    BY <2>3, <2>4
<1>5. CASE ServerTimer
  BY <1>2, <1>5 DEF ServerTimer, sessionVars, Handler, Tick
\* A handler that is not of a receive of f runs.
<1>6. ASSUME NEW e \in Endpoints, queue # <<>>, Send(e) \/ NothingSent,
             Head(queue) # H("rx", f, TRUE), Head(queue) # H("other", f, TRUE),
             rx[f] > 0 => rx'[f] > 0
      PROVE  Listens(f)'
  <2>1. \E s \in Seq(Handler) : queue' = Tail(queue) \o s
    BY <1>6, SendStep DEF OnlyOf
  <2> QED
    BY <1>1, <1>6, <2>1
<1>7. ASSUME NEW e \in Endpoints, DataReceived(e)
      PROVE  /\ Send(e) \/ NothingSent
             /\ rx' = [rx EXCEPT ![e] = @ + 1]
  BY <1>7 DEF DataReceived
<1>8. CASE RunMain
  <2> DEFINE e == Head(queue).who
  <2>1. e \in Endpoints /\ queue # <<>> /\ Head(queue).kind = "main"
    BY <1>8 DEF RunMain, Runs, TypeOK, Handler
  <2>2. Head(queue) # H("rx", f, TRUE) /\ Head(queue) # H("other", f, TRUE)
    BY <2>1 DEF H
  <2>3. CASE session[e] = "none" /\ NewSession(e)
    <3>1. PICK n \in 1..MaxBurst : queue' = Tail(queue) \o SendHandlers(e, n, FALSE)
      BY <2>3 DEF NewSession, Others
    <3>2. rx' = [rx EXCEPT ![e] = 1] /\ e # f
      BY <2>3 DEF NewSession
    <3> HIDE DEF e
    <3>3. n \in Nat
      BY ServerAssumption
    <3>4. SendHandlers(e, n, FALSE) \in Seq(Handler)
      BY <2>1, <3>3, SendHandlersOf DEF OnlyOf
    <3>5. rx'[f] = rx[f]
      BY <1>0, <3>2
    <3> QED
      BY <1>1, <2>1, <2>2, <3>1, <3>4, <3>5
  <2>4. CASE session[e] = "live" /\ DataReceived(e)
    <3> HIDE DEF e
    <3>1. rx[f] > 0 => rx'[f] > 0
      BY <1>0, <1>7, <2>1, <2>4
    <3> QED
      BY <1>6, <1>7, <2>1, <2>2, <2>4, <3>1
  <2>5. CASE session[e] = "marked" /\ Ignore
    <3> HIDE DEF e
    <3> QED
      BY <1>6, <2>1, <2>2, <2>5 DEF Ignore
  <2> QED
    BY <1>8, <2>3, <2>4, <2>5 DEF RunMain
<1>9. CASE RunReceive
  <2> DEFINE e == Head(queue).who
  <2>1. e \in Endpoints /\ queue # <<>> /\ Head(queue).kind = "rx"
    BY <1>9 DEF RunReceive, Runs, TypeOK, Handler
  <2>2. IF session[e] = "live" THEN DataReceived(e) ELSE Ignore
    BY <1>9 DEF RunReceive
  <2>3. e # f => Head(queue) # H("rx", f, TRUE) /\ Head(queue) # H("other", f, TRUE)
    BY DEF H
  <2> HIDE DEF e
  <2>4. CASE e = f
    <3>1. rx' = [rx EXCEPT ![f] = @ + 1] /\ rx[f] \in Nat
      BY <1>0, <1>7, <2>2, <2>4
    <3>2. rx'[f] > 0
      BY <1>0, <3>1
    <3> QED
      BY <3>2 DEF Listens
  <2>5. CASE e # f /\ DataReceived(e)
    <3>1. rx'[f] = rx[f]
      BY <1>0, <1>7, <2>1, <2>5
    <3> QED
      BY <1>6, <1>7, <2>1, <2>3, <2>5, <3>1
  <2>6. CASE e # f /\ Ignore
    BY <1>6, <2>1, <2>3, <2>6 DEF Ignore
  <2> QED
    BY <2>2, <2>4, <2>5, <2>6
<1>10. CASE RunReceiveOther
  <2> DEFINE e == Head(queue).who
  <2>1. e \in Endpoints /\ queue # <<>> /\ Head(queue).kind = "other" /\ e # f /\ Ignore
    BY <1>10 DEF RunReceiveOther, Runs, TypeOK, Handler
  <2>2. Head(queue) # H("rx", f, TRUE) /\ Head(queue) # H("other", f, TRUE)
    BY <2>1 DEF H
  <2> HIDE DEF e
  <2> QED
    BY <1>6, <2>1, <2>2 DEF Ignore
<1>11. CASE RunTimer \/ RunSend
  <2> DEFINE e == Head(queue).who
  <2>1. /\ e \in Endpoints /\ queue # <<>> /\ Head(queue).kind \in {"timer", "send"}
        /\ Send(e) \/ NothingSent
        /\ rx' = rx
    BY <1>11 DEF RunTimer, RunSend, Ignore, Runs, TypeOK, Handler
  <2>2. Head(queue) # H("rx", f, TRUE) /\ Head(queue) # H("other", f, TRUE)
    BY <2>1 DEF H
  <2> HIDE DEF e
  <2> QED
    BY <1>6, <2>1, <2>2
<1>12. CASE RunTick
  <2>1. queue # <<>> /\ Head(queue).kind = "tick" /\ queue' = Tail(queue) /\ rx' = rx
    BY <1>12 DEF RunTick, Runs, Others, sessionVars
  <2>2. queue' = Tail(queue) \o <<>> /\ <<>> \in Seq(Handler)
    BY <1>0, <2>1
  <2>3. Head(queue) # H("rx", f, TRUE) /\ Head(queue) # H("other", f, TRUE)
    BY <2>1 DEF H
  <2> QED
    BY <1>1, <2>1, <2>2, <2>3
<1>13. CASE \E e \in Endpoints : KeepSession(e) \/ DeleteSession(e)
  BY <1>1, <1>13 DEF KeepSession, DeleteSession, sessionVars
<1>14. ASSUME NEW e \in Endpoints, StopSession(e)
       PROVE  Listens(f)'
  <2>1. /\ session' = [session EXCEPT ![e] = "marked"] /\ rx' = [rx EXCEPT ![e] = 0]
        /\ queue' = queue \o Aborted(e)
    BY <1>14 DEF StopSession
  <2>2. f # e
    BY <2>1 DEF TypeOK
  <2>3. Aborted(e) \in Seq(Handler)
    BY AbortedOf DEF OnlyOf
  <2> QED
    BY <1>0, <1>1, <2>1, <2>2, <2>3
<1>15. CASE NextTick \/ UNCHANGED vars
  BY <1>1, <1>15 DEF NextTick, vars, sessionVars
<1>16. CASE RunShort
  <2>1. /\ queue # <<>> /\ Head(queue).kind = "short" /\ Head(queue).who \in Endpoints
        /\ rx' = rx /\ (queue' = queue \/ NothingSent)
    BY <1>16, ShortStep
  <2>2. Head(queue) # H("rx", f, TRUE) /\ Head(queue) # H("other", f, TRUE)
    BY <2>1 DEF H
  <2> QED
    BY <1>1, <1>6, <2>1, <2>2
<1> QED
  BY <1>3, <1>4, <1>5, <1>8, <1>9, <1>10, <1>11, <1>12, <1>13, <1>14, <1>15, <1>16
     DEF Next, Run, Scan, Arrive, Ended

\* A live session stops listening on its own port only by a datagram of another
\* length (server.h:571-577), however its receives, timers and switches and the
\* scan of the server interleave.
THEOREM StaysListening == Spec => OnlyOthersDeafen
<1>1. HandlerInv /\ [Next]_vars =>
          [\A e \in Endpoints :
              session[e] = "live" /\ Listens(e) /\ session'[e] = "live" /\ ~ Listens(e)'
                  => Runs("other") /\ Head(queue).who = e]_vars
  BY ListenStep
<1> QED
  BY <1>1, Invariance, PTL DEF Spec, OnlyOthersDeafen
-----------------------------------------------------------------------------
(* Where all datagrams have the length of rcv_data.                        *)

OtherKinds == {"other", "short"}
NoOther(s) == \A k \in 1..Len(s) : s[k].kind \notin OtherKinds

LEMMA NoOtherJoin ==
    ASSUME NEW a \in Seq(Handler), NEW b \in Seq(Handler), NoOther(a), NoOther(b)
    PROVE  NoOther(a \o b)
<1>1. Len(a \o b) = Len(a) + Len(b) /\ Len(a) \in Nat /\ Len(b) \in Nat
  OBVIOUS
<1>2. ASSUME NEW k \in 1..Len(a \o b)
      PROVE  (a \o b)[k].kind \notin OtherKinds
  <2>1. CASE k <= Len(a)
    <3>1. k \in 1..Len(a) /\ (a \o b)[k] = a[k]
      BY <1>1, <2>1
    <3> QED
      BY <3>1 DEF NoOther
  <2>2. CASE k > Len(a)
    <3>1. k - Len(a) \in 1..Len(b) /\ (a \o b)[k] = b[k - Len(a)]
      BY <1>1, <2>2
    <3> QED
      BY <3>1 DEF NoOther
  <2> QED
    BY <1>1, <2>1, <2>2
<1> QED
  BY <1>2 DEF NoOther

\* What is left when a handler is taken.
LEMMA NoOtherTail ==
    ASSUME NEW s \in Seq(Handler), s # <<>>, NoOther(s)
    PROVE  Tail(s) \in Seq(Handler) /\ NoOther(Tail(s)) /\ Head(s).kind \notin OtherKinds
<1>1. /\ Tail(s) \in Seq(Handler) /\ Len(Tail(s)) = Len(s) - 1
      /\ \A k \in 1..Len(s) - 1 : Tail(s)[k] = s[k + 1] /\ k + 1 \in 1..Len(s)
      /\ Head(s) = s[1] /\ 1 \in 1..Len(s)
  OBVIOUS
<1> QED
  BY <1>1 DEF NoOther

LEMMA NoOtherCopies ==
    ASSUME NEW h \in Handler, h.kind \notin OtherKinds, NEW n \in Nat
    PROVE  [i \in 1..n |-> h] \in Seq(Handler) /\ NoOther([i \in 1..n |-> h])
<1> DEFINE s == [i \in 1..n |-> h]
<1>1. s \in Seq(Handler) /\ Len(s) = n
  OBVIOUS
<1>2. \A k \in 1..n : s[k] = h
  OBVIOUS
<1> QED
  BY <1>1, <1>2 DEF NoOther

\* Neither send() nor stop() queues the handler of a datagram of another length.
LEMMA NoOtherQueued ==
    ASSUME TypeOK, NEW e \in Endpoints, NEW n \in Nat, NEW pending \in BOOLEAN
    PROVE  NoOther(SendHandlers(e, n, pending)) /\ NoOther(Aborted(e))
<1> DEFINE sends == [i \in 1..n |-> H("send", e, TRUE)]
           aborts == [i \in 1..rx[e] |-> H("rx", e, FALSE)]
           waits(p) == IF p THEN <<H("timer", e, FALSE)>> ELSE <<>>
<1>1. /\ H("send", e, TRUE) \in Handler /\ H("rx", e, FALSE) \in Handler
      /\ H("timer", e, FALSE) \in Handler
  BY HandlerOf DEF Of
<1>2. H("send", e, TRUE).kind \notin OtherKinds /\ H("rx", e, FALSE).kind \notin OtherKinds
      /\ H("timer", e, FALSE).kind \notin OtherKinds
  BY DEF H, OtherKinds
<1>3. rx[e] \in Nat /\ timer[e] \in BOOLEAN
  BY DEF TypeOK
<1> HIDE DEF H
<1>4. sends \in Seq(Handler) /\ NoOther(sends)
  BY <1>1, <1>2, NoOtherCopies
<1>5. aborts \in Seq(Handler) /\ NoOther(aborts)
  BY <1>1, <1>2, <1>3, NoOtherCopies
<1>6. ASSUME NEW p \in BOOLEAN
      PROVE  waits(p) \in Seq(Handler) /\ NoOther(waits(p))
  <2> DEFINE h == H("timer", e, FALSE)
  <2>1. h \in Handler /\ h.kind \notin OtherKinds
    BY <1>1, <1>2
  <2> HIDE DEF h
  <2>2. <<h>> \in Seq(Handler) /\ Len(<<h>>) = 1 /\ <<h>>[1] = h
    BY <2>1
  <2>3. NoOther(<<h>>)
    BY <2>1, <2>2 DEF NoOther
  <2>4. <<>> \in Seq(Handler) /\ NoOther(<<>>)
    BY DEF NoOther
  <2>5. waits(p) = IF p THEN <<h>> ELSE <<>>
    BY DEF h
  <2> QED
    BY <2>2, <2>3, <2>4, <2>5
<1> HIDE DEF sends, aborts, waits
<1>7. NoOther(sends \o waits(pending)) /\ NoOther(aborts \o waits(timer[e]))
  BY <1>3, <1>4, <1>5, <1>6, NoOtherJoin
<1> QED
  BY <1>7 DEF SendHandlers, Aborted, sends, aborts, waits

LEMMA NoOtherStep ==
    ASSUME ~ OtherSizes, HandlerInv, NoOther(queue), [Next]_vars
    PROVE  NoOther(queue')
<1> USE DEF HandlerInv
<1>0. queue \in Seq(Handler) /\ timer \in [Endpoints -> BOOLEAN]
  BY DEF TypeOK
<1>1. ASSUME NEW h \in Handler, h.kind \notin OtherKinds, Completes(h)
      PROVE  NoOther(queue')
  <2>1. queue' = Append(queue, h)
    BY <1>1 DEF Completes
  <2>2. /\ Len(queue') = Len(queue) + 1 /\ queue'[Len(queue) + 1] = h
        /\ \A k \in 1..Len(queue) : queue'[k] = queue[k]
        /\ \A k \in 1..Len(queue') : k \in 1..Len(queue) \/ k = Len(queue) + 1
    BY <1>0, <2>1
  <2> QED
    BY <1>1, <2>2 DEF NoOther
<1>2. ASSUME NEW e \in Endpoints, NEW kind \in {"main", "rx", "timer"},
             Completes(H(kind, e, TRUE))
      PROVE  NoOther(queue')
  <2>1. H(kind, e, TRUE) \in Handler
    BY HandlerOf DEF Of
  <2>2. H(kind, e, TRUE).kind \notin OtherKinds
    BY DEF H, OtherKinds
  <2> QED
    BY <1>1, <1>2, <2>1, <2>2
<1>3. CASE \E e \in Endpoints : Arrive(e) \/ SessionTimer(e)
  BY <1>2, <1>3 DEF Arrive, MainArrives, SessionArrives, SessionTimer
<1>4. CASE ServerTimer
  <2>1. Tick \in Handler /\ Tick.kind \notin OtherKinds
    BY DEF Tick, Handler, OtherKinds
  <2> QED
    BY <1>1, <1>4, <2>1 DEF ServerTimer
<1>5. ASSUME queue # <<>>, NEW s \in Seq(Handler), NoOther(s), queue' = Tail(queue) \o s
      PROVE  NoOther(queue')
  BY <1>0, <1>5, NoOtherTail, NoOtherJoin
<1>6. ASSUME queue # <<>>, queue' = Tail(queue)
      PROVE  NoOther(queue')
  BY <1>0, <1>6, NoOtherTail
<1>7. ASSUME NEW e \in Endpoints, queue # <<>>, Send(e) \/ NothingSent
      PROVE  NoOther(queue')
  <2>1. CASE NothingSent
    BY <1>6, <1>7, <2>1 DEF NothingSent, Others
  <2>2. CASE Send(e)
    <3>1. PICK n \in 0..MaxBurst : queue' = Tail(queue) \o SendHandlers(e, n, timer[e])
      BY <2>2 DEF Send, Others
    <3>2. n \in Nat /\ timer[e] \in BOOLEAN
      BY <1>0, ServerAssumption
    <3>3. SendHandlers(e, n, timer[e]) \in Seq(Handler)
      BY <3>2, SendHandlersOf DEF OnlyOf
    <3>4. NoOther(SendHandlers(e, n, timer[e]))
      BY <3>2, NoOtherQueued
    <3> QED
      BY <1>5, <1>7, <3>1, <3>3, <3>4
  <2> QED
    BY <1>7, <2>1, <2>2
<1>8. CASE Run
  <2>1. queue # <<>>
    BY <1>8 DEF Run, RunMain, RunShort, RunReceive, RunReceiveOther, RunTimer, RunSend, RunTick,
                Runs
  <2>s. ~ RunShort
    BY <1>0, <2>1, NoOtherTail DEF RunShort, Runs, OtherKinds
  <2>2. CASE RunTick
    BY <1>6, <2>1, <2>2 DEF RunTick, Others
  <2> DEFINE e == Head(queue).who
  <2>3. CASE RunMain /\ NewSession(e)
    <3>1. PICK n \in 1..MaxBurst : queue' = Tail(queue) \o SendHandlers(e, n, FALSE)
      BY <2>3 DEF NewSession, Others
    <3>2. e \in Endpoints /\ n \in Nat
      BY <2>3, ServerAssumption DEF RunMain, Runs, TypeOK, Handler
    <3> HIDE DEF e
    <3>3. SendHandlers(e, n, FALSE) \in Seq(Handler)
      BY <3>2, SendHandlersOf DEF OnlyOf
    <3>4. NoOther(SendHandlers(e, n, FALSE))
      BY <3>2, NoOtherQueued
    <3> QED
      BY <1>5, <2>1, <3>1, <3>3, <3>4
  <2>4. CASE ~ RunTick /\ ~ (RunMain /\ NewSession(e))
    <3>1. e \in Endpoints
      BY <1>8, <2>4, <2>s
         DEF Run, RunMain, RunReceive, RunReceiveOther, RunTimer, RunSend, Runs, TypeOK, Handler
    <3>2. DataReceived(e) \/ Ignore \/ Send(e) \/ NothingSent
      BY <1>8, <2>4, <2>s DEF Run, RunMain, RunReceive, RunReceiveOther, RunTimer, RunSend
    <3> HIDE DEF e
    <3>3. Send(e) \/ NothingSent
      BY <3>2 DEF DataReceived, Ignore
    <3> QED
      BY <1>7, <2>1, <3>1, <3>3
  <2> QED
    BY <2>2, <2>3, <2>4
<1>9. ASSUME NEW e \in Endpoints, StopSession(e)
      PROVE  NoOther(queue')
  <2>1. queue' = queue \o Aborted(e)
    BY <1>9 DEF StopSession
  <2>2. Aborted(e) \in Seq(Handler)
    BY AbortedOf DEF OnlyOf
  <2>3. NoOther(Aborted(e))
    BY NoOtherQueued
  <2> QED
    BY <1>0, <2>1, <2>2, <2>3, NoOtherJoin
<1>10. ASSUME queue' = queue
       PROVE  NoOther(queue')
  BY <1>10
<1>11. CASE \/ \E e \in Endpoints : KeepSession(e) \/ DeleteSession(e)
            \/ NextTick \/ UNCHANGED vars
  BY <1>10, <1>11 DEF KeepSession, DeleteSession, NextTick, vars, sessionVars
<1> QED
  BY <1>3, <1>4, <1>8, <1>9, <1>11 DEF Next, Scan, Ended

\* A session begins with a receive.
LEMMA BornListening ==
    ASSUME HandlerInv, [Next]_vars, NEW f \in Endpoints,
           session[f] # "live", session'[f] = "live"
    PROVE  Listens(f)'
<1> USE DEF HandlerInv
<1>0. session \in [Endpoints -> {"none", "live", "marked"}] /\ rx \in [Endpoints -> Nat]
  BY DEF TypeOK
<1>1. session' # session
  OBVIOUS
<1>2. CASE RunMain
  <2> DEFINE e == Head(queue).who
  <2>1. e \in Endpoints
    BY <1>2 DEF RunMain, Runs, TypeOK, Handler
  <2>2. NewSession(e)
    BY <1>1, <1>2 DEF RunMain
  <2> HIDE DEF e
  <2>3. session' = [session EXCEPT ![e] = "live"] /\ rx' = [rx EXCEPT ![e] = 1]
    BY <2>2 DEF NewSession
  <2>4. rx'[f] = 1
    BY <1>0, <2>1, <2>3
  <2> QED
    BY <2>4 DEF Listens
<1>3. ASSUME NEW e \in Endpoints, StopSession(e) \/ DeleteSession(e)
      PROVE  FALSE
  BY <1>0, <1>3 DEF StopSession, DeleteSession
<1> QED
  BY <1>1, <1>2, <1>3
     DEF Next, Arrive, MainArrives, SessionArrives, SessionTimer, ServerTimer, Run, RunShort,
         RunReceive, RunReceiveOther, RunTimer, RunSend, RunTick, Scan, KeepSession, NextTick,
         Ended, vars, sessionVars

\* Without datagrams of another length every live session listens on its own
\* port at all times: the one message of server.h:576 is about the only thing
\* that can make a session deaf, from its first receive on.
THEOREM ListensUnlessOther == ASSUME ~ OtherSizes PROVE Spec => []RxArmed
<1>1. Init => NoOther(queue) /\ RxArmed
  BY DEF Init, NoOther, RxArmed
<1>2. HandlerInv /\ NoOther(queue) /\ RxArmed /\ [Next]_vars => (NoOther(queue) /\ RxArmed)'
  <2> SUFFICES ASSUME HandlerInv, NoOther(queue), RxArmed, [Next]_vars
               PROVE  NoOther(queue') /\ RxArmed'
    BY DEF NoOther
  <2>1. NoOther(queue')
    BY NoOtherStep
  <2>2. ASSUME NEW f \in Endpoints, session'[f] = "live"
        PROVE  Listens(f)'
    <3>1. CASE session[f] = "live"
      <4>1. queue \in Seq(Handler)
        BY DEF HandlerInv, TypeOK
      <4>2. ~ Runs("other")
        BY <4>1, NoOtherTail DEF Runs, OtherKinds
      <4>3. Listens(f)
        BY <3>1 DEF RxArmed
      <4> QED
        BY <2>2, <3>1, <4>2, <4>3, ListenStep
    <3>2. CASE session[f] # "live"
      BY <2>2, <3>2, BornListening
    <3> QED
      BY <3>1, <3>2
  <2> QED
    BY <2>1, <2>2 DEF RxArmed
<1> QED
  BY <1>1, <1>2, Invariance, PTL DEF Spec
-----------------------------------------------------------------------------
(* When no assert ends the program.                                        *)

LEMMA HoldStep ==
    ASSUME ~ OtherSizes, HandlerInv, NoOther(queue), OwnEndpoint, CountMatches, alive,
           [Next]_vars
    PROVE  alive'
<1> USE DEF HandlerInv
<1>1. ~ RunShort
  <2>1. queue \in Seq(Handler)
    BY DEF TypeOK
  <2> QED
    BY <2>1, NoOtherTail DEF RunShort, Runs, OtherKinds
<1>2. ASSUME NEW e \in Endpoints, DeleteSession(e)
      PROVE  alive'
  <2>1. e \in SessionsAt(cli_ep[e]) /\ cli_ep[e] \in Addresses
    BY <1>2 DEF DeleteSession, SessionsAt, TypeOK
  <2>2. Cardinality(SessionsAt(cli_ep[e])) \in Nat /\ Cardinality(SessionsAt(cli_ep[e])) # 0
    BY <2>1, SessionsFinite, FS_EmptySet
  <2>3. count[cli_ep[e]] > 0
    BY <2>1, <2>2 DEF CountMatches
  <2> QED
    BY <1>2, <2>3 DEF DeleteSession, RemoveClient
<1>3. CASE \E e \in Endpoints : Arrive(e) \/ SessionTimer(e) \/ KeepSession(e) \/ StopSession(e)
  BY <1>3 DEF Arrive, MainArrives, SessionArrives, SessionTimer, KeepSession, StopSession, hostVars
<1>4. CASE \/ ServerTimer \/ NextTick \/ RunMain \/ RunReceive \/ RunReceiveOther \/ RunTimer
           \/ RunSend \/ RunTick \/ UNCHANGED vars
  BY <1>4 DEF ServerTimer, NextTick, RunMain, RunReceive, RunReceiveOther, RunTimer, RunSend,
              RunTick, vars, hostVars
<1> QED
  BY <1>1, <1>2, <1>3, <1>4 DEF Next, Run, Scan, Ended

\* Neither assert ends the server, and its sessions keep being counted, checked
\* and deleted, if all datagrams have the length of rcv_data and only its own
\* host sends to the port of a session.  The runs on UdpServerShort.cfg and
\* UdpServerStray.cfg show that neither condition can be dropped: the code
\* checks neither length nor sender (server.h:109, sdn_manager.h:402).
THEOREM NeverEnds == ASSUME ~ OtherSizes, OwnSenders PROVE Spec => []AssertsHold
<1>1. Init => NoOther(queue) /\ OwnEndpoint /\ CountMatches /\ alive
  <2>1. Init => NoOther(queue) /\ alive
    BY DEF Init, NoOther
  <2> QED
    BY <2>1, CountsBegin
<1>2. HandlerInv /\ HandlerInv' /\ (NoOther(queue) /\ OwnEndpoint /\ CountMatches /\ alive)
          /\ [Next]_vars => (NoOther(queue) /\ OwnEndpoint /\ CountMatches /\ alive)'
  <2> SUFFICES ASSUME HandlerInv, HandlerInv', NoOther(queue), OwnEndpoint, CountMatches, alive,
                      [Next]_vars
               PROVE  NoOther(queue') /\ OwnEndpoint' /\ CountMatches' /\ alive'
    BY DEF NoOther
  <2>1. NoOther(queue')
    BY NoOtherStep
  <2>2. TypeOK
    BY DEF HandlerInv
  <2>3. OwnEndpoint'
    BY <2>2, EndpointStep
  <2>4. CountMatches'
    BY <2>2, <2>3, CountStep
  <2> QED
    BY <2>1, <2>3, <2>4, HoldStep
<1>3. (NoOther(queue) /\ OwnEndpoint /\ CountMatches /\ alive) => AssertsHold
  BY DEF AssertsHold
<1> QED
  BY <1>1, <1>2, <1>3, Invariance, PTL DEF Spec
=============================================================================
