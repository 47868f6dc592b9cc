# Formal models of low_latency_high_throughput

The repository implements congestion control for interactive applications over a chain of SDN-managed subnets
(192.168.11.0 to 14.0). In every subnet a controller, `combined1.py`, measures the queues of its switch every
100 ms, serves the samples over HTTP, fetches those of its neighbours and sets the rate of the interactive
class. A UDP server, `client_server/server.cpp`, asks the controller of its subnet for the state of the path
to each client, and paces the packets of the client's session with it. `client_server/client.cpp` is the
receiver.

The repository has no tests. The models are written from the code; comments count only where a run compares
them with it. File names below are relative to `src/`; `sdn_manager.h`, `server.h` and the others are in
`client_server/`.

- [Inventory](#inventory) and [Plan](#plan)
- Modules: [StatsRelay](#statsrelay), [NeighborClient](#neighborclient), [PathAssembly](#pathassembly),
  [RateControl](#ratecontrol), [UdpServer](#udpserver), [UdpSession](#udpsession), [SdnManager](#sdnmanager),
  [ClientInfo](#clientinfo)
- [Runs](#runs), [What the runs found](#what-the-runs-found), [Theorems](#theorems), [Not
  modelled](#not-modelled)

## Inventory

| Part | State it keeps | Operations | Interacts with |
|---|---|---|---|
| `network_state` (combined1.py:293-629) | `idx`; per path `states` (last 15 samples), `last_entries`, `last_idx` | `run` every 100 ms, `add_path`, `update_reported_bw` | reads `tc`; takes the lists of `neighbor_state`; calls `rate_control.update_flows` |
| `rest_reply` (819-866) | none | `index`: GET /stats/src/dst/oldest_idx/max | reads `network_state.states` on a CherryPy thread, without a lock |
| `neighbor_state`, `client`, `buffer_processor` (20-221) | per path `states` and `last_idx`; per connection `tx_buf`, `rx_buf`, `requests`, `receiving_data` | `run` polls every 100 ms (timer thread); asyncore callbacks (their own thread) | HTTP to `rest_reply` of a neighbour |
| `rate_control`, `set_interactive_rate` (262-290, 635-816) | per port the flow tables with idle counters, short and long rate | `update_flows`, `find_rates` | `ovs-dpctl`, two `tc` classes; `update_reported_bw` |
| `udp_server` (server.h, server.cpp) | `clients_map`, one timer, one receive | `handle_receive`, `handle_timeout`, `stop` | creates, stops and deletes sessions |
| `udp_svr_client` (server.h) | timer, receives, `data_exist`, window, acknowledged and sent message numbers, `marked_for_deletion` | `handle_receive`, `handle_timeout`, `handle_send`, `data_received`, `update_rate` | UDP to its client; `register_client`, `remove_client` |
| `sdn_manager`, `request_info`, `expandable_buffer` (sdn_manager.h, .cpp) | `clients` with counts, `requests`, `ebuf`, `connected`, timer, socket | `register_client`, `remove_client`, `try_connect`, `request_wait`, handlers, `process_replies` | one pipelined HTTP connection to the controller |
| `client_info`, `sdn_switch`, `circular_buf_with_delay` (sdn_manager.h:30-301) | per host `fidx`, `bidx`, filtered queue lengths and rates | `process_message` | called by `process_replies` |
| `udp_client` (client.cpp) | last message, `timeout_counter`, destination | handlers | `udp_server`, then its session |
| Set-up (`one_stage.py`, `*.sh`, `dhcpd*.conf`), prototypes, measurement tools | - | - | - |

What makes each part correct, and what makes that hard:

* **Statistics relay** (`network_state.run` -> `index` -> `handle_read`, `combine_bs` -> `network_state.run`
  of the neighbour). Every sample should be used once, in order, and soon, or be replaced by newer ones. Four
  threads share three lists; the code has locks for them, all of them commented out. The lists are bounded,
  several polls may be under way, and an exception drops an answer.
* **Neighbour connections.** Answers carry no identification: they belong to the oldest request. Connections
  are lost, requests are made by another thread than the one that reads and writes, and answers come in chunks
  that end anywhere.
* **Path assembly.** A path over three subnets is put together by three controllers that never agree on a
  time: each record must be about the right hop, and must not become older or get lost.
* **Rate control.** The idle counters must belong to the right flows while flows come and go; two `tc` classes
  share one link and are changed one after the other.
* **UDP sessions.** The server is single-threaded, but every operation completes through a queue: a handler
  runs in a later state than the one it was started in, possibly when its timer has been set again or its
  session stopped. A session must not be deleted under a handler, must keep its timer and its receive, and its
  host must be registered as long as it exists.
* **SDN manager.** One connection, requests in rounds, answers matched by order only. The controller may be
  slow, close the connection between or inside answers, and hosts come and go meanwhile.
* **Statistics of a host.** Old records must be told from new ones, also after a restart of the controller,
  which numbers them from 1 again.
* **UDP client.** Packets are lost, overtake each other and come from a session the client has left.

`PROJECT.json` lists the hazards line by line, with the properties that watch them.

## Plan

Modules in the order they were written, most important behaviour first:

1. `PyList`, `SampleFeed`, `StatsRelay`, `StatsRelayProofs`: the relay of samples, its abstract specification,
   and the proofs.
2. `UdpServer`, `MCUdpServer`, `UdpServerProofs`: the life cycle of sessions.
3. `SdnManager`, `SdnManagerProofs`: the connection of the server to the controller.
4. `UdpSession`, `UdpSessionProofs`: window, acknowledgements and time-outs between a client and its sessions.
5. `NeighborClient`, `Exchange`, `NeighborClientProofs`: the connection between two controllers, its abstract
   specification, and the proofs.
6. `ClientInfo`, `ClientInfoProofs`: the readings a server keeps of a path, over restarts of the controller.
7. `PathAssembly`, `RateControl`, `PathAssemblyProofs`, `RateControlProofs`: the rest of `combined1.py`.

Every safety property of a passing run is now also a theorem. Still worth doing: `ClientInfo` as a refinement
of `SampleFeed` between restarts; what an answer made of two parts (combined1.py:135) does to
`network_state.run`.

## StatsRelay

One path, one neighbour. The threads and their atomic steps, each one read or one write of a shared list (the
interpreter lock makes a list method atomic, nothing more):

| Thread | Actions | Code |
|---|---|---|
| `network_state.run`, measuring | `AppendEntry`, `TrimStates` | combined1.py:400-522 |
| CherryPy, `rest_reply.index` | `ReadLength`, `ReadOldest`, `ReadNewest` / `NewestMissing`, `SendReply` | 838-864 |
| neighbour: poll, asyncore | `Poll`, `ReadReply`, `Combine`, `CheckState`, `Mark` / `MarkFails` | 182-202, 84-121, 134-152 |
| neighbour: `network_state.run` | `TakeStates`, `ReadLast`, `SkipSeen`, `CombineEntries` | 503-522 |

`lst` says which list object `combine_bs` has in its hand: `nb_state`, the one `run` has meanwhile taken
(`taken`), or one nobody uses any more. `combine_bs` (64-72) is one action: of the lists it changes, `run`
reads and replaces whole objects and slices them from the end, so that an interleaving inside it shows nothing
that one before or after it does not. A sample is its number; what it says of the switches is left out.
Python's slices are modelled by what they do with starts before and after the list, in `PyList` (`s[k:]`, `del
s[:-n]`, `s[-1]`), because the mistakes are in those.

An exception (`MarkFails`) makes a new connection; the answers under way are lost, and the last bytes of the
old one may stay in `rx_buf`, which `handle_error` does not clear (`part`). The next answer would be appended
to them. What that gives depends on the bytes, and the model follows the relay up to there: with a part of an
answer in `rx_buf` it polls no more. That `requests` is out of step after an exception as well is in
`NeighborClient`.

Left out: the answer "Unknown path" (the subnets asked about are fixed), requests with `max` other than 0 (no
caller), and a restart of the measuring controller (`ClientInfo` has it for the server). A failed answer, "No
data yet" or the error page of an exception, is the empty answer; `handle_read` drops it.

*Abstract specification.* `SampleFeed` has two numbers: the newest sample `produced`, and the newest one
`accounted` for. The second follows the first, in order, possibly with gaps (both tables keep 15 samples).
`StatsRelay` implements it with `produced <- End(states)`, `accounted <- last_idx` (`FeedSafety`), and its
liveness (`Freshness`).

*Properties.* `ListsIncreasing`: overlapping answers merge without duplicates. `NumEntriesPositive`:
`s[-num_entries:]` is never `s[0:]` or worse, although three reads of a changing list go into the number.
`PollCovered`: the next poll never starts after a sample that `run` has neither accounted for nor will find.
`FeedSafety` includes that a round does not go back; its reason, `LiNotBehind`, is a theorem. It does not see
a sample that is left out or used twice. `Freshness`: with all four threads, overlapping and lost answers, the
last sample of the instance is accounted for, and so each one before it is by then accounted for or overtaken,
provided answers are read again and again.

*Fairness* (`FairSpec`). Weak for the two `network_state.run` threads, loops driven by timers in which nothing
waits for a lock. Strong for "`combine_bs` finishes on the list it has taken hold of": these are microseconds
in a period of 100 ms. Without it `run` could take the list between `states[p]` and `combine_bs` at every
round for ever and `Freshness` fails: the race loses samples whenever it happens, and the only thing that
repairs it is that it does not always happen. Nothing is assumed of the connection, which may be refused,
closed or stuck: that answers go on being read is a premise of `Freshness`, and `NeighborClient!GoesOn` says
what ends it.

*Bounds.* `NS_QUEUE_SIZE`, `NB_QUEUE_SIZE` (15 in the code): 2, so that both tables overflow; 3 in
`relay_twice`, where the point is that they do not. `MaxIdx`: 3 samples, one more than a table.
`MaxOutstanding`: 2 requests and answers under way, so that answers overlap. With 4 samples (1.8 million
states) the safety properties hold too.

The inductive invariant `IInv` of the proofs has been checked by TLC on the instance of run `relay` too; it is
not part of the run.

## NeighborClient

The connection over which a controller polls one neighbour (class `client`, 56-157), with the two threads that
use it: the timer thread of `neighbor_state.run` and asyncore. An answer carries no identification:
`handle_read` gives it to the oldest element of `requests`. So `requests` has to stay in step with what is
unanswered, across connections, and that is what the module is about.

| Actions | Code |
|---|---|
| `RequestSent`, `RequestKept`, `RequestLost`, `RequestFails`, `RequestRaises` | `request`, 154-157, by what `send` does |
| `LoadTx`, `StoreTx`; `HandleWrite`, `TrimTx`, `TrimmedTx` | the two unlocked assignments of `tx_buf`, 157 and 130-132 |
| `HandleRead`, `ReadLine`, `ReadHeaderOnly`, `Deliver`, `DeliverRaises`, `ReadReturns` | `handle_read`, 84-123, one pass of its loops per action |
| `HandleEof`, `HandleClose`, `WriteFails`; `CallbackRaises`, `HandleError` | 78-82, 127-131, 138-145; 134-136, 148-152 |
| `ConnectionMade`, `ConnectionRefused`, `PeerCloses` | kernel and neighbour |

An answer is five pieces (two of the Content-Length line, the empty line, two of the body), so a `recv` may
end inside a header line, between lines or inside the body. The rest follows asyncore of Python 2.7: a `recv`
of nothing or a lost connection is `handle_close`, any other exception in a callback is `handle_error`; `send`
returns 0 for EWOULDBLOCK, closes on EPIPE, ECONNRESET and EBADF, and raises ECONNREFUSED, which in the timer
thread nobody catches. So the `send` of `request` and the one of `handle_write` (`WriteFails`) may both close
the connection. `handle_close` resets and does not connect again; `handle_error` connects again and does not
reset.

`Faults` says what may go wrong besides; the passing run has `refuse`, `close`, `split`, `raise` and `order`
(a request is sent while `tx_buf` holds older ones, so the neighbour gets them in another order than
`requests` has). `torn`, both threads between reading and assigning `tx_buf`, is in the module but only
checked by hand. `upset` remembers what happened: the properties say what holds until then.

*Abstract specification.* `Exchange` knows neither threads nor buffers nor pieces: a deque of the paths
`asked`, the last answer (`answered`: the list it went to and the path it is about), and whether the
connection is `open` or the order `broken`. An answer is that of the oldest request, takes it from the deque
and goes to its list; closing empties the deque; a closed connection stays closed. `NeighborClient` implements
it with `open <- sock # "closed"`, `broken <- upset # {}`, `asked <- requests`, `answered <- delivered`
(`ExchangeSafety`).

*Properties.* `ExchangeSafety`; with it `Matched`: the answer merged into a list is about the path of the list
(a theorem, not checked on its own, since `Exchange` implies it). `InStep`, the reason: what is in `rx_buf`
and on the way (`coming`) is a stretch of the answers to `requests`, without a hole and beginning in the
oldest; unless the neighbour has ended the connection it ends with a whole answer, and the requests after that
one are, in order, those in `tx_buf` and in the hands of the timer thread. `Answers` are the pieces of the
answers to a list of requests. They hold over any number of refused connections, since requests then wait in
`tx_buf`. `GoesOn`: every path is answered again and again, unless the connection was closed, the timer thread
died, `handle_read` spins on an incomplete line (89-92), or an exception or reordering came between: the list
of `Broken` is complete. `OwnAnswers` is `Matched` without the reservation, and violated (`neighbor_mixed`).

*Fairness.* Weak for both threads; strong for reading and writing, which `select` serves in turn, and for an
attempt to connect that succeeds: a neighbour that is never up is no business of `GoesOn`.

*Bounds.* Two paths, two requests without answer: a round of the smallest controller that asks about more than
one path. Deadlock is not checked, because both threads may really end or spin. Not modelled: a file
descriptor reused between `close` and `select`, and network errors other than those above.

## PathAssembly

All controllers of the chain, one direction at a time (nothing is shared between directions). A controller
measures the link to each neighbour; a longer path is its own record and the neighbour's list (`ListFor`:
`(path[0], lnet)` and so on), in the order of the direction. A record is its link and the round of its
measurement, so that a record in a wrong place, an old one, or one that is lost can be told.

| Definitions | Code |
|---|---|
| `NbPaths`, `NsPaths`, `Lists` | `start_service` 878-897, 914-918; `add_path` 204-221 |
| `Poll` (`Reply`, `Combined`, `Merged`) | 193-198, with `rest_reply.index` (852-862), `combine_bs` (64-72) and `handle_read` (112-121) in one step; `StatsRelay` has the steps |
| `Round` (`Taken`, `Part`, `Measured`, `Entry`, `WithEntry`) | `network_state.run` 460-613, `combine_entries` 349-398 |

*Properties.* `HopOrder`: an entry has a record for each hop of its path and the k-th is about the k-th hop or
still empty, at every controller (the offsets of `combine_entries` and the choice of the list). `NeverOlder`:
what a controller says of a hop never gets older and is never lost, whether or not the neighbour was heard
(one list is taken by several paths, and a missing part is copied from the last entry). `FreshEnough`: with
all controllers in step a record is at most two rounds old per controller it came over; it fails when one of
the ranges of `start_service` leaves out a path.

A neighbour is polled any number of times between two rounds, or not at all: the loops are independent, each
of 100 ms, so an answer may be merged into a list that no round has taken.

*Bounds.* Three subnets, so that one path goes over another controller's list; tables of one entry at a
controller and lists of two records of a neighbour; 5 rounds each, of which one in all may be out of step
(`MaxSlips`). Deadlock is not checked since `MaxIdx` ends the rounds. `PathAssemblyProofs` has the properties
for every length of the chain, of the tables and of the lists.

## RateControl

One port; `TakeDump` and `SeeFlow` go through a dump line by line, `RemoveStale` filters the four lists of a
protocol by the positions of the entries named, `FindRates` computes, `SetInteractive` and `SetOther` are the
two shell commands of `set_interactive_rate`. `Init` includes `reconfig_interfaces`. Rates are integers
rounded down, so comparisons allow for the rounding (`KShort`, `KLong`); counters stop at the value they are
compared with. `history` is computed from the dumps alone and is what the lists are compared with.

*Properties.* `CountsIdle`: whenever rates are computed, the lists say of each flow of the last dump, and no
other, its bytes and for how many dumps they have not changed. `LinkShared`: between the two commands the
classes promise more or less than the link by at most one step of the filter, `Ceil` / `KLong`, and otherwise
the link, or one less where the halves of `reconfig_interfaces` are rounded (the same rounding is why the
lower bound has a 1 and a `KLong` in it). The rates of the classes are set in the order 10, 20 for both
directions of change, so that the sum does exceed the link for a moment; the bound says by how much.
`QueueIdleReported`: with the queue idle the reported rate climbs to the link less the margin.
`IdleSplitsEvenly`: when no flow sends any more both classes go back to half.

*Fairness.* Weak on the whole: `network_state.run` calls it every 100 ms.

*Bounds.* Two TCP flows and one UDP flow, two byte counts, so that flows come, go, send, pause and change
places in the lists; counters of 2 (20 and 3 in the code), every second round skipped (1 in the code, i.e.
none). The safety properties are proved for any flows, byte counts and rates.

## UdpServer

`udp_server` and its sessions on one `io_service`. `queue` holds the handlers of completed or cancelled
operations and runs them first in, first out; `rx`, `timer`, `tick`, `main` are the operations pending.
Closing a socket or setting a timer again queues the handlers of what was pending, as aborted; a handler that
is already queued stays.

| Actions | Code |
|---|---|
| `RunMain` (new client, or data of a known one on the initial port), `RunShort` | `udp_server::handle_receive` |
| `RunReceive`, `RunReceiveOther`, `RunTimer`, `RunSend` | `udp_svr_client::handle_receive`, `handle_timeout`, `handle_send` |
| `RunTick`, `Scan` (`KeepSession`, `StopSession`, `DeleteSession` with `RemoveClient`), `NextTick` | `udp_server::handle_timeout`, one session per step |
| `ServerTimer`, expiries, datagrams | boost::asio and the network |

`is_timed_out` may answer anything for a live session (the clock is not modelled) and is true for a marked
one. The packets one `send()` sends, a matter of rate and window, are 0 to `MaxBurst`. The data of the on-off
source switches at any time (`OnOff`). There is one session per client endpoint, so the endpoint names it; the
scan goes over them in the order of the map.

`cli_ep` is the host that sent the last datagram to the port of the session: `async_receive_from`
(server.h:128-129) writes it there before anybody looks at the datagram, and server.h:696 gives its address to
`remove_client`, while `register_client` was called with the address the session was made for. `SendersOf`
says which hosts send to the port of a session. Two asserts end the program (`alive`): the one of
`remove_client`, which does not find the host (sdn_manager.h:402), and the one of `data_received` for a
datagram of less than five bytes (server.h:109, `RunShort`; with `OtherSizes`).

*Properties.* `NoUseAfterDelete`: the comment at server.h:688-691 is not sure that stopping a session in one
timeout and deleting it in a later one is enough; it is. `SendAlive`: a live session that has data will send,
whatever cancels its wait. `OnlyOthersDeafen`: a step after which a live session does not listen any more is
the handler of a datagram of another length. `CountMatches`: the manager's count of a host is the number of
the sessions it would be removed for (by `cli_ep`), provided that only its own host sends to a session's port.
`AssertsHold`: no assert ends the server; violated when another host does (`udp_server_stray`). `MarkedFreed`:
a stopped session is deleted, unless an assert has ended the server.

*Fairness.* Weak for the handlers (the thread runs them) and the scan; strong for the server's timer, only
because `MaxQueue`, which the real queue has not, may shut it out now and then. No datagram need arrive.

*Bounds.* Two clients of one host with a queue of up to three handlers before an operation completes (an
aborted wait, a receive and a tick in every order) and two receives per session (the one it was born with and
the one `data_received` adds). Tokens of different sessions do not interact except through the queue and the
count of the host, which two sessions show.

## UdpSession

One client and the sessions it has one after the other, each on a port of its own. Packets and messages are
lost or come in any order. Time is counted in periods of the server's timer (1 s): a session is stopped after
2 s of silence and deleted at the next timeout; the client falls back after 101 ticks, 10.1 s. `window` is the
number of packets that may be unacknowledged, `floor(tx_window / 1514) + 1`, chosen anew at any time by
`UpdateRate` (`update_rate`, whose arithmetic is left out). On-off switching is off.

| Actions | Code |
|---|---|
| `Arrives`, `HandleReceive`, `HandleTimeout` (`FallsBack`, `NextPort`, `NextLast`) | client.cpp:86-134, 160-166 |
| `Send` (`Admits`, `Sends`), `UpdateRate` | server.h:544-569, 531-535 |
| `Receive` (`NewSession`, `DataReceived`, `Ignored`) | server.cpp:12-34, server.h:65-132 |
| `ServerTimeout` | server.h:684-711 |

`Arrives` writes the port of the sender, and only `HandleReceive` the number: `async_receive_from` fills
`dest_endpoint` before its handler runs. `Prompt` says that the handler runs before the client's next timeout,
`ShortTrips` that what is sent in a period arrives in it or never. Both are TRUE in the run: they are what a
running process on a network with round trips under a second does. Without either of them `AckSafe` is
violated: a timeout between packet and handler, or a packet delayed by several seconds, brings the number of
the old session to the new one.

*Properties.* `AckSafe`: a session never takes a number it has not sent for acknowledged (it would then send
without a bound). `Progress`: every packet is acknowledged or its session given up, unless a whole window is
lost. That exception is real (`Stalled`): nothing is sent again, the ticks of the client keep the session from
timing out, and it stands still until `update_rate` widens the window. `Reconnects`: a client whose session is
gone gets another.

*Fairness.* Weak for timers, handlers, the arrival of what is not lost, and for `Send`, whose wait `UdpServer`
shows to be pending always; strong for "the message of a timeout is not lost", since the client repeats it for
ever.

*Bounds.* Two ports in turn, four packets, windows of 1 and 3, fall-back after 4 periods, time-out after 1.
With five packets, windows of 1, 2 and 3 and a fall-back after 5 (155 000 states) the result is the same.

## SdnManager

One thread, handlers first in, first out as above. An answer is a head and a body; one receive brings any
number of pieces, so answers end anywhere in what is received. `wire` holds what the controller will still
send; `PeerCloses` may cut it anywhere.

| Actions | Code |
|---|---|
| `Register`, `Remove` | `register_client`, `remove_client` (the counts are in `UdpServer`) |
| `HandleConnect`, `HandleTimeout`, `HandleReceive` | the handlers, sdn_manager.h:466-506 |
| `TryConnect`, `RequestWait`, `SendRound` | 411-465 |
| `ProcessReplies`, `HandleReplies`, `AddData`, `RemoveData` | sdn_manager.cpp:23-65, sdn_manager.h:327-348 |
| `ConnectEnds`, `DataArrives`, `PeerCloses`, `ReceiveEnds`, `TimerExpires` | kernel, controller, boost::asio |

Handlers of sends and of cancelled waits do nothing and are left out. `Texts` lets the controller answer with
something that is not a list; the assertion of `process_message` then ends the server (`alive`), which is why
run `sdn` does not check deadlock.

The timer is set to 50 ms by every `try_connect` and every `request_wait`, so it may expire while an attempt
to connect is under way (a host that does not answer), or be queued together with the end of a connection:
then `try_connect` is called twice and the second call closes the socket of the first attempt. `replaced`
remembers that this has happened: `try_connect` gave up an attempt whose `handle_connect` had not run. From
then on handlers of one connection meet the next one. The aborted `handle_connect` calls `try_connect` again,
which aborts the next attempt, and so on; a `handle_connect` that was queued as successful sets `connected`
for a socket that is still connecting; a stale `handle_receive` adds the data of the old connection to the
buffer of the next; receives multiply; an answer more than there are requests makes `process_replies` take the
front of an empty list (`HandleReplies`, which then ends the program). All of that is in the model and in the
run.

*Properties.* `TimerAlive`: a wait is pending on the timer or its handler is queued; everything the manager
does starts from there, and it holds whatever happens. `OneReceive` (two places start receives into one
buffer, never both at once) and `RepliesMatch` (every answer is given to the host and direction it was
requested for, over lost connections, cut answers and hosts that come and go, and there is a request for each)
hold until an attempt is given up, and not longer. `ConnectedUsable`, that `connected` is set only while the
connect of the present socket has succeeded, is what the comment at sdn_manager.h:546 says and is violated
(`sdn_stale`). `Reconnects`: a connection the controller closes is replaced while there are hosts to ask
about. `AskedAgain`: a host that stays registered is asked about in round after round. Both except a program
that an assertion has ended, and `replaced`: the circle of aborted attempts may go on for ever.

*Fairness.* Weak for the handlers, the timer, the data, the end of a connection and the end of an attempt;
strong for "an attempt succeeds": a controller that is never there is no business of `Reconnects`. A
controller that stays silent without closing the connection is excluded by the fairness of the data:
`requests` then never becomes empty, no timeout looks at it, and the manager would ask for nothing until the
kernel gives the connection up.

*Bounds.* Three hosts, six requests in a round. `MaxQueue` (`Room`) bounds queued handlers plus pending
receives when an attempt ends or the timer expires, by one: enough for an expiry to be queued behind the end
of a connection or of an attempt. It keeps the circle of attempts and the receives finite. Run `sdn_stale` has
one host and 2.

## ClientInfo

`process_message` for one host and one direction, with the table of the controller it asks: entries are
numbers, and each holds a reading for every switch. `Sample`, `Index` are the controller's (518-522, 852-864,
in one step), `Ask`, `ProcessMessage`, `ReadEntry` (one entry of the answer: every switch compares its number
with `fidx`, which is replaced after the last of them), `Rejoin` (the host's last session ends and a new one
registers it), `ConnectionLost` the server's. `Restart` starts the controller again: its numbers begin at 1,
`fidx` and `bidx` stay.

After a restart the number asked from is larger than those in the table, `num_entries` is zero or negative and
`s[-num_entries:]` is a part of its end, or nothing until the new numbers come within a table's length of
`fidx`: up to then the server works with the old rates. The first entry it gets is older than `fidx` and only
replaces it; those after it are used.

*Properties.* `OnceInOrder`: no filter gets a reading twice or out of order, over lost answers, requests that
repeat the entry asked from, and restarts. `NoneSkipped`: between two readings used none was skipped that was
still in the table.

*Bounds.* A table of 3, and three runs of the controller with 4, 8 and 12 entries, so that each passes the
`fidx` of the one before; two switches.

## Runs

| Run | Checks | Instance | Shows |
|---|---|---|---|
| `relay` | `TypeOK`, `ListsIncreasing`, `NumEntriesPositive`, `PollCovered`, `FeedSafety`, `Freshness` | tables 2, 3 samples, 2 under way, fair; 463 000 states | no poll or round passes over the newest sample held, nothing is reordered or goes back, the relay implements `SampleFeed`, and samples arrive in spite of lost answers |
| `relay_twice` | `OnlyUnseen`, violated | tables 3 | a list seen before is used whole |
| `neighbor` | `TypeOK`, `InStep`, `GoesOn`, `ExchangeSafety` | 2 paths, 2 requests, five kinds of faults, fair; 348 000 states | answers go to the path they were asked for, and the connection implements `Exchange`; what ends the polling |
| `neighbor_mixed` | `OwnAnswers`, violated | the same with exceptions only | answers go to the wrong path after an exception |
| `path` | `TypeOK`, `HopOrder`, `FreshEnough`, `NeverOlder` | 3 subnets, 5 rounds, any number of polls; 622 000 states | the records of long paths |
| `rate` | `TypeOK`, `CountsIdle`, `LinkShared`, `QueueIdleReported`, `IdleSplitsEvenly` | 3 flows, fair; 1.1 million states | idle counters and the two classes |
| `udp_server` | `TypeOK`, `NoUseAfterDelete`, `SendAlive`, `CountMatches`, `OnlyOthersDeafen`, `MarkedFreed` | 2 clients of 1 host, on-off, other lengths and short datagrams, fair; 537 000 states | the handlers, in every order |
| `udp_server_stray` | `AssertsHold`, violated | another host sends to the port of a session | the wrong host is removed |
| `udp_session` | `TypeOK`, `AckSafe`, `Progress`, `Reconnects` | 2 ports, 4 packets, fair; 35 000 states | acknowledgements and time-outs |
| `sdn` | `TypeOK`, `OneReceive`, `RepliesMatch`, `TimerAlive`, `Reconnects`, `AskedAgain` | 3 hosts, `Texts`, fair; 177 000 states | answers, connections and rounds |
| `sdn_stale` | `ConnectedUsable`, violated | 1 host | `connected` is set while the new socket is connecting |
| `client_info` | `TypeOK`, `OnceInOrder`, `NoneSkipped` | table 3, 2 switches, 3 runs of the controller; 691 000 states | readings over restarts |

Deadlock is checked except in `neighbor`, `path`, `sdn` and `sdn_stale`, for the reasons given there. The
other programs go on: polling, timers and datagrams do, and `Ended` is a step of the server after an assert
has ended it.

Each property of a passing run has a mutant in the modules (`\* MUTANT of ...`): a plausible mistake in the
code that makes TLC report the property, under the same cfg.

## What the runs found

* `relay_twice`: combined1.py:485 says that the "li - self.last_idx[i] last elements" are used.
  `s[self.last_idx[idx]-li:]` with `li = last_idx` is `s[0:]`, the whole list: samples already in the sums are
  added once more. The same at 512, 540, 573 and 603.
* `udp_server_stray`: the else branch of `remove_client` is `assert(0)` (sdn_manager.h:401-402): the host of a
  session that is deleted is always registered. server.h:696 takes the host from `cli_ep`, which a datagram of
  any other host at the port of the session has overwritten (128-129), also one that is dropped for its
  length. The assert ends the server, or the other host loses its registration.
* `sdn_stale`: sdn_manager.h:546 calls `connected` "true when the connection is established and usable". A
  `handle_connect` that is queued as successful when the timer makes `try_connect` replace its socket sets it
  (470) while the new socket is connecting.
* `neighbor_mixed`: `handle_error` (134-136) connects again but leaves `requests` as it was. From then on
  every answer is given to an older request, and the records of one path go into the list of another: the list
  that 500 takes "from low to this_subnet - 1" need not be about that path.

Met while modelling, described here and not kept as runs:

* `del self.states[i][:-NS_QUEUE_SIZE]` (522) between `l = len(s)` (855) and `s[l-1]` (860) of the REST reply
  raises IndexError (`NewestMissing`). The lock of which 305 speaks is commented out (843, 407).
* `combine_bs` (69) extends the list that `run` has just taken, between the reads of `li` (510) and of the
  slice (512). The slice is counted from the end and misses a sample, which `last_idx` passes.
* `handle_error` (135) leaves a part of an answer in `rx_buf`, to which the bytes of the next connection are
  appended (`part`).
* server.h:576 prints "Incorrect message size was received, and will be ignored" and returns without another
  `async_receive_from`: the session does not listen any more until its client returns to the initial port or
  the server times it out (`OnlyOthersDeafen` says that this is the only way).
* server.h:109 asserts `length >= 5`, while `udp_server::handle_receive` (server.cpp:12-28) looks neither at
  `ec` nor at `length`: a shorter datagram at the port of the server ends it (`RunShort`).
* A `handle_receive` queued with data when `try_connect` clears the buffers (sdn_manager.h:412-416) adds it to
  those of the next connection, and an attempt that the timer aborts (475) starts the next one to be aborted:
  `RepliesMatch`, `OneReceive`, `Reconnects` and `AskedAgain` except both by `replaced`.
* `process_message` asserts that an answer starts with "[" (sdn_manager.h:188-194). The controller has three
  others: "No data yet" (combined1.py:856), "Unknown path" (850) and the error page of an exception, such as
  the IndexError above. The server ends with all its sessions.
* `handle_close` of the neighbour connection (78-82) never connects again, while the docstring at 161 promises
  a state every 50 ms; after the last close asyncore's loop ends.
* sdn_manager.h:536-538 says a receive is left pending "to effectively let it linger after all the data has
  been received"; `handle_receive` starts one only when requests are left (502). The loss of the connection is
  then found by the next round, which `Reconnects` covers. The mutant `ReceiveLingers`, the code the comment
  describes, would break `OneReceive`.

## Theorems

Checked by TLAPS for every value of the constants allowed by the named assumptions (`ConstantsAssumption`:
table sizes positive, bounds natural; `ServerAssumption`: every endpoint has a host, `MaxBurst` positive;
`ManagerAssumption`: finitely many hosts; `ClientAssumption`: at least one path and one request, the faults
among those named; `SessionAssumption`: windows positive, at least two ports; `ClientInfoAssumption`: a table
of at least one entry; `AssemblyAssumption`: at least two subnets, numbered from 1 or more, table sizes
positive; `RateAssumption`: no flow of both protocols, finitely many flows, the margin leaves something of the
link, filters and counters positive).

Modules of proofs begin with the lemmas about lists they need: in `StatsRelayProofs`, `ClientInfoProofs` and
`PathAssemblyProofs` about Python's slices (which elements a slice has, how it ends, that it increases, what
`del s[:-n]` keeps), in `NeighborClientProofs` about `SubSeq`, `Drop` and concatenation.

`StatsRelayProofs`:

* `Invariance`: `Spec => []IInv`. None of the properties is inductive alone. `IInv` orders the newest samples
  along the way: `last_idx` <= the taken list <= `nb_state` <= the answer in hand <= the answers on the way,
  in order <= the table of the measuring controller; with the types and with what is known of a request being
  served (`oldest_idx <= states[l]` if `l` is still a position of the list). The proof has one lemma per
  action, a step per conjunct that the action can disturb.
* `TypeCorrect`, `ServesPositive` (`NumEntriesPositive`), `ListsInOrder` (`ListsIncreasing`), `PollsCovered`
  (`PollCovered`), `NeverBack` (`LiNotBehind`) follow from it.
* `RelayImplementsFeed`: `Spec => FeedSafety`, each action being `Produce`, `Account` or a stutter of
  `SampleFeed`; the only one that needs the invariant is the round that sets `last_idx`.

`UdpServerProofs`:

* `Invariance`: `Spec => []HandlerInv`. The two-step deletion is right because of an order argument, which is
  the strengthening: a stopped session has nothing pending (`Stopped`), so all its handlers are in the queue
  before the next tick is (`OneTick`, `TickLast`), the queue is first in first out, and so the tick that
  deletes it finds none of them (`ScanClean`).
* `TypeCorrect`, `SafeDelete` (`NoUseAfterDelete`), `StaysAlive` (`SendAlive`) and `StaysListening`
  (`OnlyOthersDeafen`, action by action: who takes a receive starts one), for any number of clients and hosts,
  any senders and any bounds.
* `CountsMatch` (`CountMatches`), where only its own host sends to the port of a session (`OwnSenders`): then
  `cli_ep` is the host the session was registered for (`OwnEndpoint`), and the host that is removed is the one
  that was counted. Run `udp_server_stray` shows that it needs this.
* `NeverEnds` (`AssertsHold`), where besides every datagram has the length of `rcv_data` (`OtherSizes` is
  FALSE): `remove_client` finds the host of every session deleted, since by `CountMatches` its count is at
  least one.
* `ListensUnlessOther` (`RxArmed`: a live session always listens), where `OtherSizes` is FALSE: then no
  handler of a datagram of another length is ever queued (`NoOther`: neither `send`, `stop` nor the network
  queues one), a session begins with a receive (`BornListening`), and by `StaysListening` nothing else takes
  it away. The early return at server.h:576 is thus the only way to lose it.

`SdnManagerProofs`:

* `TypeCorrect` (`TypeOK`) and `TimerNeverStops` (`TimerAlive`), in all circumstances: every handler that
  takes the timer's expiry or cancels its wait sets it again on every path.
* `SingleReceive` (`OneReceive`). Nothing is assumed of the network or the timer; the property itself ends
  where an attempt is given up, and so does the strengthening, `Conn == replaced \/ ConnInv`: while an attempt
  is under way or its handler queued the manager is not connected and nothing is asked or received (`Idle`);
  an attempt has one handler (`OneAttempt`); nothing is received when nothing was asked (`Asked`); and
  `ConnectedUsable`. The step that counts is `TryConnect`: if it gives up no attempt, it is called by the last
  handler of the old connection (`HeadIsLast`), and leaves nothing of it behind; if it does, `replaced` is
  set, and stays (`ReplacedStays`). So a call of it with an expiry queued behind is covered.
* `AnswersMatch` (`RepliesMatch`), likewise by `Ordered == replaced \/ InOrder`. `InOrder` says where every
  piece is on its way: the pieces of the answers to `requests` are, one after the other, those in `ebuf`,
  those of the receive that is queued and those on the wire, which may break off anywhere. It rests on
  `ConnInv`: with two receives the order would be lost, and with one queued when `try_connect` clears the
  buffers the new connection would begin with pieces of the old.

`NeighborClientProofs`, for any number of paths and requests and every set of faults, `torn` included:

* `TypeCorrect` (`TypeOK`).
* `AnswersMatched` (`Matched`) and `RequestsInStep` (`InStep`), from `IInv`. `Matched` only looks at the last
  answer, `InStep` hides behind its quantifiers where in an answer the connection is. `IInv` says it:
  `Skipped` is how many pieces of the oldest answer `handle_read` has taken (0, the header's 2, or 3, by
  `data_size` and `receiving_data`); `rx_buf` and then `coming` are the answers to `requests` from there on,
  piece by piece (`Heard`); until the neighbour ends the connection that is the answers to the first `Asked`
  requests, and the others are what is in `tx_buf`, less what `handle_write` has sent and not yet trimmed, and
  in the hands of the timer thread (`Unanswered`); a connection being made has nothing left of the one before
  (`CleanStart`: the reset of `handle_close`, and that only an exception skips it); and a few facts about the
  two program counters (`Positions`). All of it is required until an exception, a reordering or a torn
  assignment (`upset = {}`) and while the connection is not closed. The proof follows the positions of pieces
  through every cut, pop and append: `5 * Len(requests)` pieces, the pop at the body of the oldest taking five
  of them at once.
* `ClientImplementsExchange` (`ExchangeSafety`): a `Deliver` is an `Answer` because by `Heard` the body at
  hand is the one of the oldest request; a request is an `Ask`; `HandleClose` and `HandleEof` are `Close`, or
  a stutter on a connection already closed; each exception sets `broken`; every other step leaves the deque
  alone.

`UdpSessionProofs`:

* `TypeCorrect` (`TypeOK`).
* `AcksSafe` (`AckSafe`), where `Prompt` and `ShortTrips`, for every window, number of ports and time-out.
  `AckInv`: while there is a session nothing under way is ahead of what it has sent (`InStep`); the client's
  number is that of the session whose port it talks to (`PortAndNumber`); and in the period between stopping a
  session and deleting it everything of it has arrived or is lost, so that the next finds nothing of the one
  before (`Settled`).

`ClientInfoProofs`, for any table, number of switches and of restarts:

* `TypeCorrect` (`TypeOK`), `InOrder` (`OnceInOrder`) and `NothingSkipped` (`NoneSkipped`). The invariant
  `IInv`: the table holds the newest numbers of this run without a gap, and all before them have been trimmed
  (`TableInv`); one request or answer is under way, and an answer is a part of the end of some table of this
  run (`ExchangeInv`). What makes the filters right is `CurrentInv`: a switch whose last reading is of this
  run has got exactly the one numbered `fidx`, the request says `fidx`, and the answer begins there or what is
  between has left the table. After a restart its premise is false and
  `fidx` may be anything; an entry that is not newer is not used, but `fidx` becomes its number, and the
  premise holds from the first reading used on.

`RateControlProofs`, for any flows, byte counts and constants of the filters:

* `TypeCorrect` (`TypeOK`), which includes that the four lists of a protocol stay parallel.
* `CountersBelong` (`CountsIdle`). While a dump is processed `IInv` compares the lists with what the dump will
  have said in the end (`DumpInv`): an entry already seen has the bytes and the counter of its flow, and no
  line for it is left (`SeenInv`); a line not yet processed will make its flow's counter what it has to be
  (`UnseenInv`); every flow of the dump has a line or an entry (`CoverInv`); no flow has two entries. When no
  line is left, keeping the positions seen is all there is to do, and it is done alike in each list. That a
  dump names every flow needs a counting argument (`TakesAll`: an injective sequence over a finite set that is
  as long as the set is large takes every element).
* `ClassesShareLink` (`LinkShared`): `ClassInv` says by how much the rates of the two classes are behind at
  each of the two commands.

`PathAssemblyProofs`, for any number of subnets, tables of any size and rounds in any order:

* `Invariance`: `Spec => []IInv`. None of the three properties is inductive: what an entry says was put
  together by the neighbour, from what its neighbour had, and so on. `IInv` has, beside the types: `TableInv`
  (a table is numbered by the rounds, its newest entry that of the last one, each entry in the order of the
  hops and, in step, fresh enough); `ListInv` (the list held of a neighbour is, hop by hop, no newer than the
  neighbour's table, and in step a list just polled reaches to the round before last); `UsedInv` (`last_idx`
  is not ahead of the list it is used on, so that the slice is the whole rest); `BehindInv` (what a controller
  has of a hop is not newer than the list, and the neighbour's table, that its next record of the hop comes
  from); `StepInv` (in step, no controller is two rounds ahead).
* `TypeCorrect` (`TypeOK`), `InHopOrder` (`HopOrder`), `FreshInStep` (`FreshEnough`) follow from it, and so
  does the action property `NeverOlderHolds` (`NeverOlder`): a round replaces a record by one that `BehindInv`
  says is no older, or copies it.

TLC has found each of these invariants to hold on the instances of the runs before it was proved.

Where a proof needs induction over a number it takes the least counterexample (`LeastNat` in
`RateControlProofs` and `NeighborClientProofs`); facts about lists are proved position by position.

Only model-checked:

* All liveness (`Freshness`, `GoesOn`, `MarkedFreed`, `Progress`, `Reconnects`, `AskedAgain`,
  `QueueIdleReported`, `IdleSplitsEvenly`): liveness under fairness is out of the prover's reach.

What does not hold, and is not claimed: `ConnectedUsable` always; `RepliesMatch` and `OneReceive` once an
attempt was given up; `AckSafe` without `Prompt` and `ShortTrips`; `RxArmed` and `AssertsHold` with datagrams
of other lengths; `CountMatches` and `AssertsHold` with other senders; `Matched` and `InStep` after an
exception.

## Not modelled

* The arithmetic of the filters (`sdn_switch`, `circular_buf_with_delay`, METHOD 1 to 3 of `update_rate`):
  floating point, of which the control uses a window and a rate; `UdpSession` lets the window be any of a set.
* The contents of samples, requests and answers, and the parsing of `tc` and `ovs-dpctl` output.
* `one_stage.py`, `cpy_one_stage.py` and the shell scripts: they configure mininet, addresses and queues once,
  straight through, and keep no state.
* `ns_thread.py`, `rate_control.py` and the `test_request` and `http_client_test` scripts: earlier forms of
  what `combined1.py` contains, which nothing starts.
* Measurement tools and recorded results: pure input and output.
