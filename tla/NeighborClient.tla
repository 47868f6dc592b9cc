--------------------------- MODULE NeighborClient ---------------------------
(***************************************************************************)
(* The connection over which a controller polls one neighbour: class       *)
(* client of combined1.py, driven by neighbor_state.run (timer thread) and *)
(* by asyncore.loop (a thread of its own), which share tx_buf, requests    *)
(* and the socket without a lock.  Answers carry no identification; each   *)
(* is given to the oldest element of requests.                             *)
(* An answer is five pieces, so that what one recv returns may end inside  *)
(* a header line, between the lines or inside the body.  A request is one  *)
(* piece (mesg[:512] is all of it).                                        *)
(***************************************************************************)
EXTENDS Integers, Sequences

CONSTANTS NumPaths,     \* paths asked about on this connection
          MaxRequests,  \* bound: requests without answer, messages in tx_buf
          Faults        \* what may happen besides connecting and answering:
                        \*   "refuse"  a connection is refused
                        \*   "close"   the neighbour closes the connection
                        \*   "split"   a recv ends inside a header line
                        \*   "raise"   a callback raises an exception
                        \*   "order"   a request is sent past tx_buf
                        \*   "torn"    two threads assign tx_buf at a time

ASSUME ClientAssumption ==
    /\ NumPaths \in Nat \ {0} /\ MaxRequests \in Nat \ {0}
    /\ Faults \subseteq {"refuse", "close", "split", "raise", "order", "torn"}

Path == 1..NumPaths
Parts == <<"length1", "length2", "blank", "body1", "body2">>
Piece == [part : {Parts[k] : k \in 1..5}, path : Path]

\* The answer of rest_reply for path p: Content-Length, empty line, body.
Answer(p) == [k \in 1..5 |-> [part |-> Parts[k], path |-> p]]

\* The answers for a list of paths, in this order.
Answers(paths) == [k \in 1..5 * Len(paths) |->
                       Answer(paths[(k + 4) \div 5])[((k - 1) % 5) + 1]]

VARIABLES
    sock,            \* "connecting", "connected", "refused", "ended" (by the
                     \* neighbour, not noticed yet) or "closed"
    coming,          \* pieces of answers that recv has not returned yet
    requests, tx_buf, rx_buf, receiving_data, data_size,    \* class client
    polling,         \* neighbor_state.run is alive
    turn, req_pc, unsent, old_tx,     \* its path p and position in request()
    aio_pc, sent, new_tx,             \* position of the asyncore thread
    delivered,       \* history: the last answer handed over, to and of a path
    upset            \* history: which of "raise", "order", "torn" happened

timerVars == <<polling, turn, req_pc, unsent, old_tx>>
aioVars   == <<aio_pc, sent, new_tx>>
readVars  == <<rx_buf, receiving_data, data_size>>
vars == <<sock, coming, requests, tx_buf, readVars, timerVars, aioVars, delivered, upset>>

\* run has called start_connection and started the asyncore thread.
Init ==
    /\ sock = "connecting" /\ coming = <<>>
    /\ requests = <<>> /\ tx_buf = <<>>
    /\ rx_buf = <<>> /\ receiving_data = FALSE /\ data_size = 0
    /\ polling = TRUE /\ turn = 1 /\ req_pc = "send" /\ unsent = <<>> /\ old_tx = <<>>
    /\ aio_pc = "select" /\ sent = 0 /\ new_tx = <<>>
    /\ delivered = [to |-> 0, of |-> 0] /\ upset = {}

Drop(s, k) == SubSeq(s, k + 1, Len(s))

\* MUTANT of HandleClose: reset() is not called.
CloseWithoutReset ==
    /\ sock' = "closed" /\ coming' = <<>>
    /\ UNCHANGED <<requests, tx_buf, rx_buf, receiving_data, data_size>>

\* handle_close: nothing connects again (its start_connection is commented out).
HandleClose ==
    /\ sock' = "closed" /\ coming' = <<>>
    /\ requests' = <<>> /\ tx_buf' = <<>>
    /\ rx_buf' = <<>> /\ receiving_data' = FALSE /\ data_size' = 0

\* MUTANT of HandleError: the requests of the old connection are forgotten.
ErrorResetsRequests ==
    /\ sock' = "connecting" /\ coming' = <<>>
    /\ requests' = <<>>

\* MUTANT of HandleError: only the message.
ErrorOnlyPrints == UNCHANGED <<sock, coming, requests>>

\* handle_error: start_connection without reset.
HandleError ==
    /\ sock' = "connecting" /\ coming' = <<>>
    /\ UNCHANGED requests
-----------------------------------------------------------------------------
(* The timer thread: request() for each path in turn.                      *)

\* What tx_buf holds that has not been sent.
Waiting == CASE aio_pc = "trim"  -> Drop(tx_buf, sent)
             [] aio_pc = "store" -> new_tx
             [] OTHER            -> tx_buf

AtSend == /\ polling /\ req_pc = "send"
          /\ Len(requests) < MaxRequests /\ Len(tx_buf) < MaxRequests

\* What send() leaves over of the message: all of it or nothing.
Left(rest) == req_pc' = "load" /\ unsent' = rest /\ UNCHANGED <<polling, turn, old_tx>>

\* The socket takes the message, although tx_buf may hold older ones.
RequestSent ==
    /\ AtSend /\ sock = "connected"
    /\ Waiting # <<>> => "order" \in Faults
    /\ upset' = IF Waiting = <<>> THEN upset ELSE upset \union {"order"}
    /\ requests' = Append(requests, turn)
    /\ coming' = coming \o Answer(turn)
    /\ Left(<<>>)
    /\ UNCHANGED <<sock, tx_buf, readVars, aioVars, delivered>>

\* EWOULDBLOCK: send returns 0.
RequestKept ==
    /\ AtSend /\ sock = "connecting"
    /\ requests' = Append(requests, turn)
    /\ Left(<<turn>>)
    /\ UNCHANGED <<sock, coming, tx_buf, readVars, aioVars, delivered, upset>>

\* The neighbour is gone, the kernel still takes the message.
RequestLost ==
    /\ AtSend /\ sock = "ended"
    /\ requests' = Append(requests, turn)
    /\ Left(<<>>)
    /\ UNCHANGED <<sock, coming, tx_buf, readVars, aioVars, delivered, upset>>

\* EPIPE, ECONNRESET, EBADF: send calls handle_close and returns 0.
RequestFails ==
    /\ polling /\ req_pc = "send" /\ sock \in {"ended", "closed"}
    /\ HandleClose
    /\ Left(<<turn>>)
    /\ UNCHANGED <<aioVars, delivered, upset>>

\* ECONNREFUSED is raised and nobody catches it; the error of the socket is
\* cleared, and asyncore will find it not connected.
RequestRaises ==
    /\ AtSend /\ sock = "refused"
    /\ requests' = Append(requests, turn)
    /\ sock' = "ended" /\ polling' = FALSE
    /\ UNCHANGED <<coming, tx_buf, readVars, turn, req_pc, unsent, old_tx, aioVars,
                   delivered, upset>>

\* self.tx_buf += mesg[num_sent:] reads the attribute ...
LoadTx ==
    /\ req_pc = "load"
    /\ aio_pc = "store" => "torn" \in Faults
    /\ old_tx' = tx_buf /\ req_pc' = "store"
    /\ UNCHANGED <<sock, coming, requests, tx_buf, readVars, polling, turn, unsent, aioVars,
                   delivered, upset>>

\* MUTANT of StoreTx: no new round starts.
StoreTxForEver ==
    /\ req_pc = "store"
    /\ tx_buf' = old_tx \o unsent
    /\ turn' = turn + 1
    /\ req_pc' = "send" /\ unsent' = <<>> /\ old_tx' = <<>>
    /\ UNCHANGED <<sock, coming, requests, readVars, polling, aioVars, delivered, upset>>

\* ... and assigns it.
StoreTx ==
    /\ req_pc = "store"
    /\ tx_buf' = old_tx \o unsent
    /\ upset' = IF aio_pc = "store" \/ old_tx # tx_buf THEN upset \union {"torn"} ELSE upset
    /\ turn' = (turn % NumPaths) + 1
    /\ req_pc' = "send" /\ unsent' = <<>> /\ old_tx' = <<>>
    /\ UNCHANGED <<sock, coming, requests, readVars, polling, aioVars, delivered>>
-----------------------------------------------------------------------------
(* The asyncore thread: writing.                                           *)

\* writable: tx_buf is not empty.
HandleWrite ==
    /\ aio_pc = "select" /\ tx_buf # <<>> /\ sock \in {"connected", "ended"}
    /\ Len(coming) < 5 * MaxRequests
    /\ coming' = IF sock = "connected" THEN coming \o Answers(tx_buf) ELSE coming
    /\ sent' = Len(tx_buf) /\ aio_pc' = "trim"
    /\ UNCHANGED <<sock, requests, tx_buf, readVars, timerVars, new_tx, delivered, upset>>

\* EPIPE, ECONNRESET: send calls handle_close and returns 0.
WriteFails ==
    /\ aio_pc = "select" /\ tx_buf # <<>> /\ sock = "ended"
    /\ HandleClose
    /\ sent' = 0 /\ aio_pc' = "trim"
    /\ UNCHANGED <<timerVars, new_tx, delivered, upset>>

\* self.tx_buf = self.tx_buf[sent:] reads the attribute ...
TrimTx ==
    /\ aio_pc = "trim"
    /\ req_pc = "store" => "torn" \in Faults
    /\ new_tx' = Drop(tx_buf, sent) /\ sent' = 0 /\ aio_pc' = "store"
    /\ UNCHANGED <<sock, coming, requests, tx_buf, readVars, timerVars, delivered, upset>>

\* ... and assigns it.
TrimmedTx ==
    /\ aio_pc = "store"
    /\ tx_buf' = new_tx /\ new_tx' = <<>> /\ aio_pc' = "select"
    /\ upset' = IF req_pc = "store" THEN upset \union {"torn"} ELSE upset
    /\ UNCHANGED <<sock, coming, requests, readVars, timerVars, sent, delivered>>
-----------------------------------------------------------------------------
(* The asyncore thread: reading.  handle_read is a loop; each action is    *)
(* one pass through it.                                                    *)

\* recv returns any part of what has come.
HandleRead ==
    /\ aio_pc = "select" /\ sock \in {"connected", "ended"}
    /\ \E k \in 1..Len(coming) :
           /\ coming[k].part = "length1" => "split" \in Faults
           /\ rx_buf' = rx_buf \o SubSeq(coming, 1, k)
           /\ coming' = Drop(coming, k)
    /\ aio_pc' = "read"
    /\ UNCHANGED <<sock, requests, tx_buf, receiving_data, data_size, timerVars, sent, new_tx,
                   delivered, upset>>

\* recv returns '' or finds the socket unusable.
HandleEof ==
    /\ aio_pc = "select" /\ sock = "ended" /\ coming = <<>>
    /\ HandleClose
    /\ UNCHANGED <<timerVars, aioVars, delivered, upset>>

\* An event on a refused connection, or another error of recv.
CallbackRaises ==
    /\ aio_pc = "select"
    /\ \/ sock = "refused" /\ UNCHANGED upset
       \/ sock = "connected" /\ "raise" \in Faults /\ upset' = upset \union {"raise"}
    /\ HandleError
    /\ UNCHANGED <<tx_buf, readVars, timerVars, aioVars, delivered>>

\* Where extract_line finds '\r\n'.
LineEnds == {k \in 1..Len(rx_buf) : rx_buf[k].part \in {"length2", "blank"}}
LineEnd  == CHOOSE k \in LineEnds : \A j \in LineEnds : k <= j
HasLine  == LineEnds # {}
IsBlank  == rx_buf[1].part = "blank"
IsLength == rx_buf[1].part = "length1" /\ rx_buf[2].part = "length2"

ReadsLine == aio_pc = "read" /\ ~ receiving_data /\ HasLine

\* A header line; Content-Length is remembered.
ReadLine ==
    /\ ReadsLine /\ ~ IsBlank
    /\ rx_buf' = Drop(rx_buf, LineEnd)
    /\ data_size' = IF IsLength THEN 2 ELSE data_size
    /\ UNCHANGED <<sock, coming, requests, tx_buf, receiving_data, timerVars, aioVars,
                   delivered, upset>>

\* The empty line, and less than the body after it.
ReadHeaderOnly ==
    /\ ReadsLine /\ IsBlank /\ Len(rx_buf) - 1 < data_size
    /\ rx_buf' = Tail(rx_buf)
    /\ receiving_data' = TRUE /\ aio_pc' = "select"
    /\ UNCHANGED <<sock, coming, requests, tx_buf, data_size, timerVars, sent, new_tx,
                   delivered, upset>>

\* The body starts at position k of rx_buf.
BodyAt(k) ==
    \/ ReadsLine /\ IsBlank /\ k = 2 /\ Len(rx_buf) - 1 >= data_size
    \/ aio_pc = "read" /\ receiving_data /\ k = 1 /\ Len(rx_buf) >= data_size
Body(k) == SubSeq(rx_buf, k, k + data_size - 1)

TakesBody(k) ==
    /\ BodyAt(k)
    /\ rx_buf' = Drop(rx_buf, k + data_size - 1)
    /\ receiving_data' = FALSE /\ data_size' = 0

\* MUTANT of WhoseAnswer: the answer is given to the newest request.
WhoseNewest == requests[Len(requests)]

\* requests.popleft()
WhoseAnswer == requests[1]

\* 0 for a text whose parts are of several answers.
OfWhich(body) == IF \E p \in Path : body = SubSeq(Answer(p), 4, 5) THEN body[1].path ELSE 0

\* combine_bs; what does not start as a list does is not looked at.
Deliver(p) ==
    /\ \E k \in 1..2 :
           /\ TakesBody(k)
           /\ requests # <<>> /\ p = WhoseAnswer
           /\ delivered' = IF Body(k) # <<>> /\ Body(k)[1].part = "body1"
                           THEN [to |-> p, of |-> OfWhich(Body(k))] ELSE delivered
    /\ requests' = Tail(requests)
    /\ UNCHANGED <<sock, coming, tx_buf, timerVars, aioVars, upset>>

\* popleft of an empty deque, or states[p][-1] of a list that run has taken.
DeliverRaises ==
    /\ \E k \in 1..2 : TakesBody(k)
    /\ requests = <<>> \/ "raise" \in Faults
    /\ upset' = upset \union {"raise"}
    /\ sock' = "connecting" /\ coming' = <<>>
    /\ requests' = IF requests = <<>> THEN <<>> ELSE Tail(requests)
    /\ aio_pc' = "select"
    /\ UNCHANGED <<tx_buf, timerVars, sent, new_tx, delivered>>

\* All is read, or less than the body.
ReadReturns ==
    /\ aio_pc = "read"
    /\ rx_buf = <<>> \/ (receiving_data /\ Len(rx_buf) < data_size)
    /\ aio_pc' = "select"
    /\ UNCHANGED <<sock, coming, requests, tx_buf, readVars, timerVars, sent, new_tx,
                   delivered, upset>>

\* Without a whole line the loop goes round for ever: nobody adds to rx_buf.
Spinning == aio_pc = "read" /\ ~ receiving_data /\ rx_buf # <<>> /\ ~ HasLine
-----------------------------------------------------------------------------
(* The network and the neighbour.                                          *)

ConnectionMade ==
    /\ sock = "connecting" /\ sock' = "connected"
    /\ UNCHANGED <<coming, requests, tx_buf, readVars, timerVars, aioVars, delivered, upset>>

ConnectionRefused ==
    /\ sock = "connecting" /\ "refuse" \in Faults /\ sock' = "refused"
    /\ UNCHANGED <<coming, requests, tx_buf, readVars, timerVars, aioVars, delivered, upset>>

PeerCloses ==
    /\ sock = "connected" /\ "close" \in Faults /\ sock' = "ended"
    /\ \E k \in 0..Len(coming) : coming' = SubSeq(coming, 1, k)
    /\ UNCHANGED <<requests, tx_buf, readVars, timerVars, aioVars, delivered, upset>>
-----------------------------------------------------------------------------
Poll  == RequestSent \/ RequestKept \/ RequestLost \/ RequestFails \/ RequestRaises
         \/ LoadTx \/ StoreTx
Write == HandleWrite \/ WriteFails \/ TrimTx \/ TrimmedTx
Read  == HandleRead \/ HandleEof \/ CallbackRaises \/ ReadLine \/ ReadHeaderOnly
         \/ (\E p \in Path : Deliver(p)) \/ DeliverRaises \/ ReadReturns
Network == ConnectionMade \/ ConnectionRefused \/ PeerCloses

Next == Poll \/ Write \/ Read \/ Network

Spec == Init /\ [][Next]_vars

\* Both threads go on, select serves reading and writing in turn, and of
\* many attempts to connect one succeeds.
FairSpec == /\ Spec
            /\ WF_vars(Poll) /\ WF_vars(Write) /\ WF_vars(Read)
            /\ SF_vars(HandleWrite) /\ SF_vars(HandleRead) /\ SF_vars(ConnectionMade)
-----------------------------------------------------------------------------
TypeOK ==
    /\ sock \in {"connecting", "connected", "refused", "ended", "closed"}
    /\ coming \in Seq(Piece) /\ rx_buf \in Seq(Piece)
    /\ requests \in Seq(Path) /\ tx_buf \in Seq(Path)
    /\ receiving_data \in BOOLEAN /\ data_size \in {0, 2}
    /\ polling \in BOOLEAN /\ turn \in Path /\ req_pc \in {"send", "load", "store"}
    /\ unsent \in Seq(Path) /\ old_tx \in Seq(Path)
    /\ aio_pc \in {"select", "read", "trim", "store"}
    /\ sent \in Nat /\ new_tx \in Seq(Path)
    /\ delivered \in [to : 0..NumPaths, of : 0..NumPaths]
    /\ upset \subseteq {"raise", "order", "torn"}

\* An answer is merged into the list of the path it was asked for
\* (handle_read), whatever the chunks, over refused and closed connections.
Matched == upset = {} => delivered.to = delivered.of

\* What rx_buf and coming hold are the answers to the first n requests, the
\* oldest of them without the pieces already read, and the other requests
\* are in tx_buf or about to be.  Of a connection that the neighbour ended
\* the rest of the answers is lost.
InStep ==
    upset = {} /\ sock # "closed" =>
        LET all  == Answers(requests)
            come == rx_buf \o coming
        IN \E skip \in 0..4 :
               /\ skip + Len(come) <= Len(all)
               /\ come = SubSeq(all, skip + 1, skip + Len(come))
               /\ sock # "ended" =>
                      \E n \in 0..Len(requests) :
                          /\ skip + Len(come) = 5 * n
                          /\ Drop(requests, n) = Waiting \o unsent

\* The abstract specification: asked is the deque.
Promise == INSTANCE Exchange WITH open <- sock # "closed", broken <- upset # {},
                                  asked <- requests, answered <- delivered

\* Whatever the chunks and whenever the threads run, the connection answers
\* the requests one by one, the oldest first, until it is closed.
ExchangeSafety == Promise!Spec

\* Every path is answered again and again unless the connection was closed,
\* the timer thread has died or handle_read does not end.
Broken == sock = "closed" \/ ~ polling \/ Spinning \/ upset # {}
GoesOn == \A p \in Path : []<><<Deliver(p)>>_vars \/ <>Broken

-----------------------------------------------------------------------------
(* What the comments say and the code does not do.                         *)

\* combined1.py:500 "from low to this_subnet - 1": the list of a path holds
\* what was answered about this path.
OwnAnswers == delivered.to = delivered.of
=============================================================================
