------------------------ MODULE NeighborClientProofs ------------------------
(***************************************************************************)
(* Proofs about NeighborClient, for any number of paths and of requests    *)
(* under way and every set of faults: the deque of requests stays in step  *)
(* with what comes over the connection, in whatever chunks, so that each   *)
(* answer is merged into the list of the path it was asked for.            *)
(***************************************************************************)
EXTENDS NeighborClient, WellFoundedInduction, TLAPS

-----------------------------------------------------------------------------
(* Sequences.                                                              *)

LEMMA TailOf ==
    ASSUME NEW S, NEW s \in Seq(S), s # <<>>
    PROVE  /\ Tail(s) \in Seq(S) /\ Len(Tail(s)) = Len(s) - 1
           /\ \A i \in 1..Len(Tail(s)) : Tail(s)[i] = s[i + 1]
           /\ Len(s) \in Nat \ {0} /\ s[1] \in S
OBVIOUS

LEMMA AppendOf ==
    ASSUME NEW S, NEW s \in Seq(S), NEW x \in S
    PROVE  /\ Append(s, x) \in Seq(S) /\ Len(Append(s, x)) = Len(s) + 1
           /\ \A i \in 1..Len(s) : Append(s, x)[i] = s[i]
           /\ Append(s, x)[Len(s) + 1] = x
OBVIOUS

LEMMA ConcatOf ==
    ASSUME NEW S, NEW s \in Seq(S), NEW t \in Seq(S)
    PROVE  /\ s \o t \in Seq(S) /\ Len(s \o t) = Len(s) + Len(t)
           /\ \A i \in 1..Len(s) : (s \o t)[i] = s[i]
           /\ \A i \in 1..Len(t) : (s \o t)[Len(s) + i] = t[i]
OBVIOUS

LEMMA SmallSeqs ==
    ASSUME NEW S, NEW e \in S
    PROVE  /\ <<e>> \in Seq(S) /\ Len(<<e>>) = 1 /\ <<e>>[1] = e
           /\ <<>> \in Seq(S) /\ Len(<<>>) = 0
OBVIOUS

LEMMA EmptySeq ==
    ASSUME NEW S
    PROVE  <<>> \in Seq(S)
OBVIOUS

LEMMA EmptyConcat ==
    ASSUME NEW S, NEW s \in Seq(S)
    PROVE  /\ s \o <<>> = s /\ <<>> \o s = s
           /\ Len(s) \in Nat /\ (s = <<>> <=> Len(s) = 0)
OBVIOUS

LEMMA SubSeqOf ==
    ASSUME NEW S, NEW s \in Seq(S), NEW m \in Nat \ {0}, NEW n \in Nat, n <= Len(s)
    PROVE  /\ SubSeq(s, m, n) \in Seq(S)
           /\ m <= n + 1 => Len(SubSeq(s, m, n)) = n - m + 1
           /\ \A i \in 1..n - m + 1 : SubSeq(s, m, n)[i] = s[m + i - 1]
OBVIOUS

\* Two sequences with the same elements are one.
LEMMA SameSeq ==
    ASSUME NEW S, NEW s \in Seq(S), NEW t \in Seq(S), Len(s) = Len(t),
           \A i \in 1..Len(s) : s[i] = t[i]
    PROVE  s = t
OBVIOUS

LEMMA DropOf ==
    ASSUME NEW S, NEW s \in Seq(S), NEW k \in Nat
    PROVE  /\ Drop(s, k) \in Seq(S)
           /\ k <= Len(s) =>
                  /\ Len(Drop(s, k)) = Len(s) - k
                  /\ \A i \in 1..Len(Drop(s, k)) : Drop(s, k)[i] = s[k + i]
BY DEF Drop

LEMMA DropConcat ==
    ASSUME NEW S, NEW s \in Seq(S), NEW t \in Seq(S), NEW k \in Nat, k <= Len(s)
    PROVE  Drop(s \o t, k) = Drop(s, k) \o t
<1> DEFINE st == s \o t
           d  == Drop(s, k)
           dt == d \o t
           e  == Drop(st, k)
<1>1. Len(s) \in Nat /\ Len(t) \in Nat
  OBVIOUS
<1>2. /\ st \in Seq(S) /\ Len(st) = Len(s) + Len(t)
      /\ \A i \in 1..Len(s) : st[i] = s[i]
      /\ \A i \in 1..Len(t) : st[Len(s) + i] = t[i]
  BY ConcatOf
<1>3. /\ d \in Seq(S) /\ Len(d) = Len(s) - k
      /\ \A i \in 1..Len(d) : d[i] = s[k + i]
  BY DropOf, Zenon
<1> HIDE DEF st, d
<1>4. k <= Len(st)
  BY <1>1, <1>2
<1>5. /\ e \in Seq(S) /\ Len(e) = Len(st) - k
      /\ \A i \in 1..Len(e) : e[i] = st[k + i]
  <2>1. st \in Seq(S)
    BY <1>2
  <2> QED
    BY <1>4, <2>1, DropOf
<1>6. /\ dt \in Seq(S) /\ Len(dt) = Len(d) + Len(t)
      /\ \A i \in 1..Len(d) : dt[i] = d[i]
      /\ \A i \in 1..Len(t) : dt[Len(d) + i] = t[i]
  <2>1. d \in Seq(S)
    BY <1>3
  <2> QED
    BY <2>1, ConcatOf
<1> HIDE DEF dt, e
<1>7. Len(d) \in Nat /\ Len(e) = Len(d) + Len(t)
  BY <1>1, <1>2, <1>3, <1>5
<1>8. ASSUME NEW i \in 1..Len(e)
      PROVE  e[i] = dt[i]
  <2>1. CASE i <= Len(d)
    <3>1. i \in 1..Len(d) /\ k + i \in 1..Len(s)
      BY <1>1, <1>3, <1>7, <2>1
    <3> QED
      BY <1>2, <1>3, <1>5, <1>6, <3>1
  <2>2. CASE i > Len(d)
    <3> DEFINE m == i - Len(d)
    <3>1. m \in 1..Len(t) /\ i = Len(d) + m /\ k + i = Len(s) + m
      BY <1>1, <1>3, <1>7, <2>2
    <3> HIDE DEF m
    <3> QED
      BY <1>2, <1>5, <1>6, <3>1
  <2> QED
    BY <1>7, <2>1, <2>2
<1>9. e = dt
  BY <1>5, <1>6, <1>7, <1>8, SameSeq
<1> QED
  BY <1>9 DEF e, dt, d, st

\* Every set of natural numbers has a least element.
LEMMA LeastNat ==
    ASSUME NEW T, T \subseteq Nat, T # {}
    PROVE  \E x \in T : \A y \in T : x <= y
<1>1. PICK x \in T : \A y \in T : ~ (<<y, x>> \in OpToRel(<, Nat))
  BY NatLessThanWellFounded, WFMin
<1>2. ASSUME NEW y \in T PROVE x <= y
  <2>1. <<y, x>> \in Nat \X Nat
    OBVIOUS
  <2>2. ~ (y < x)
    BY <1>1, <2>1 DEF OpToRel
  <2> QED
    BY <2>2
<1> QED
  BY <1>2
-----------------------------------------------------------------------------
(* Answers.                                                                *)

LEMMA PartNames ==
    /\ Parts[1] = "length1" /\ Parts[2] = "length2" /\ Parts[3] = "blank"
    /\ Parts[4] = "body1" /\ Parts[5] = "body2"
BY DEF Parts

LEMMA AnswerFacts ==
    ASSUME NEW p \in Path
    PROVE  /\ Answer(p) \in Seq(Piece) /\ Len(Answer(p)) = 5
           /\ \A k \in 1..5 : /\ Answer(p)[k].part = Parts[k]
                              /\ Answer(p)[k].path = p
                              /\ Answer(p)[k] \in Piece
<1>1. \A k \in 1..5 : [part |-> Parts[k], path |-> p] \in Piece
  BY DEF Piece
<1>2. 5 \in Nat
  OBVIOUS
<1> QED
  BY <1>1, <1>2 DEF Answer

\* Piece number k of some answers is piece k modulo 5 of answer k divided by 5.
LEMMA Division ==
    ASSUME NEW n \in Nat, NEW k \in 1..5 * n
    PROVE  /\ (k + 4) \div 5 \in 1..n /\ ((k - 1) % 5) + 1 \in 1..5
           /\ k = 5 * ((k + 4) \div 5 - 1) + ((k - 1) % 5) + 1
OBVIOUS

LEMMA DivisionOf ==
    ASSUME NEW m \in Nat, NEW i \in 1..5
    PROVE  /\ (5 * m + i + 4) \div 5 = m + 1
           /\ ((5 * m + i - 1) % 5) + 1 = i
OBVIOUS

LEMMA AnswersType ==
    ASSUME NEW q \in Seq(Path)
    PROVE  Answers(q) \in Seq(Piece) /\ Len(Answers(q)) = 5 * Len(q)
<1>1. Len(q) \in Nat /\ 5 * Len(q) \in Nat
  OBVIOUS
<1>2. ASSUME NEW k \in 1..5 * Len(q)
      PROVE  Answer(q[(k + 4) \div 5])[((k - 1) % 5) + 1] \in Piece
  <2>1. (k + 4) \div 5 \in 1..Len(q) /\ ((k - 1) % 5) + 1 \in 1..5
    BY <1>1, Division
  <2>2. q[(k + 4) \div 5] \in Path
    BY <2>1
  <2> QED
    BY <2>1, <2>2, AnswerFacts
<1> QED
  BY <1>1, <1>2 DEF Answers

\* The pieces of the answer to request m + 1.
LEMMA AnswersAt ==
    ASSUME NEW q \in Seq(Path), NEW m \in Nat, m < Len(q), NEW i \in 1..5
    PROVE  /\ 5 * m + i \in 1..5 * Len(q)
           /\ Answers(q)[5 * m + i] = Answer(q[m + 1])[i]
<1>1. /\ Len(q) \in Nat /\ 5 * m + i \in 1..5 * Len(q)
  OBVIOUS
<1> QED
  BY <1>1, DivisionOf DEF Answers

\* What is asked for in the middle of a list is answered there.
LEMMA AnswersShift ==
    ASSUME NEW q \in Seq(Path), NEW r \in Seq(Path), NEW n \in Nat, NEW l \in Nat,
           l <= Len(q), n + l <= Len(r),
           \A i \in 1..l : q[i] = r[n + i]
    PROVE  \A j \in 1..5 * l : Answers(q)[j] = Answers(r)[5 * n + j]
<1> TAKE j \in 1..5 * l
<1> DEFINE m == (j + 4) \div 5 - 1
           i == ((j - 1) % 5) + 1
<1>1. m + 1 \in 1..l /\ i \in 1..5 /\ j = 5 * m + i
  BY Division
<1> HIDE DEF m, i
<1>2. /\ m \in Nat /\ m < Len(q) /\ n + m \in Nat /\ n + m < Len(r)
      /\ 5 * n + j = 5 * (n + m) + i
  <2>1. Len(q) \in Nat /\ Len(r) \in Nat /\ m + 1 \in Nat /\ m + 1 >= 1 /\ m + 1 <= l
    BY <1>1
  <2>2. m \in Int
    BY DEF m
  <2>3. m \in Nat /\ m < l
    BY <2>1, <2>2
  <2> QED
    BY <1>1, <2>1, <2>3
<1>3. Answers(q)[j] = Answer(q[m + 1])[i]
  BY <1>1, <1>2, AnswersAt
<1>4. Answers(r)[5 * n + j] = Answer(r[n + m + 1])[i]
  <2> DEFINE k == n + m
  <2>1. k \in Nat /\ k < Len(r) /\ 5 * n + j = 5 * k + i
    BY <1>2
  <2> HIDE DEF k
  <2>2. Answers(r)[5 * k + i] = Answer(r[k + 1])[i]
    BY <1>1, <2>1, AnswersAt
  <2> QED
    BY <2>1, <2>2 DEF k
<1>5. q[m + 1] = r[n + m + 1]
  BY <1>1, <1>2
<1> QED
  BY <1>3, <1>4, <1>5
-----------------------------------------------------------------------------
(* Lines.                                                                  *)

\* extract_line takes the first line.
LEMMA FirstLine ==
    ASSUME rx_buf \in Seq(Piece), HasLine
    PROVE  /\ LineEnd \in LineEnds /\ \A j \in LineEnds : LineEnd <= j
           /\ LineEnd \in 1..Len(rx_buf)
<1>1. LineEnds \subseteq Nat /\ LineEnds # {} /\ LineEnds \subseteq 1..Len(rx_buf)
  BY DEF LineEnds, HasLine
<1>2. \E k \in LineEnds : \A j \in LineEnds : k <= j
  BY <1>1, LeastNat
<1> QED
  BY <1>1, <1>2 DEF LineEnd
-----------------------------------------------------------------------------
(* Type correctness.                                                       *)

\* The body that a pass of handle_read takes starts in rx_buf.
LEMMA BodyWithin ==
    ASSUME TypeOK, NEW k \in 1..2, BodyAt(k)
    PROVE  /\ k + data_size - 1 \in 0..Len(rx_buf)
           /\ Body(k) \in Seq(Piece)
           /\ Drop(rx_buf, k + data_size - 1) \in Seq(Piece)
<1>1. rx_buf \in Seq(Piece) /\ data_size \in {0, 2} /\ Len(rx_buf) \in Nat
  BY DEF TypeOK
<1>2. k + data_size - 1 \in 0..Len(rx_buf)
  <2>1. CASE k = 1
    BY <1>1, <2>1 DEF BodyAt
  <2>2. CASE k = 2
    BY <1>1, <2>2 DEF BodyAt
  <2> QED
    BY <2>1, <2>2
<1>3. k \in Nat \ {0} /\ k + data_size - 1 \in Nat /\ k + data_size - 1 <= Len(rx_buf)
  BY <1>2
<1>4. Body(k) \in Seq(Piece)
  BY <1>1, <1>3, SubSeqOf DEF Body
<1> QED
  BY <1>1, <1>2, <1>3, <1>4, DropOf

LEMMA OfWhichType ==
    ASSUME NEW body
    PROVE  OfWhich(body) \in 0..NumPaths
<1>1. NumPaths \in Nat
  BY ClientAssumption
<1>2. ASSUME NEW p \in Path, body = SubSeq(Answer(p), 4, 5)
      PROVE  body[1].path = p
  <2>1. Answer(p) \in Seq(Piece) /\ Len(Answer(p)) = 5 /\ Answer(p)[4].path = p
    BY AnswerFacts
  <2>2. SubSeq(Answer(p), 4, 5)[1] = Answer(p)[4]
    BY <2>1
  <2> QED
    BY <1>2, <2>1, <2>2
<1> QED
  BY <1>1, <1>2 DEF OfWhich, Path

LEMMA TypeInit ==
    ASSUME Init
    PROVE  TypeOK
<1>1. NumPaths \in Nat \ {0}
  BY ClientAssumption
<1>2. 1 \in Path /\ 0 \in 0..NumPaths
  BY <1>1 DEF Path
<1>3. delivered \in [to : 0..NumPaths, of : 0..NumPaths]
  BY <1>2 DEF Init
<1> QED
  BY <1>2, <1>3, EmptySeq DEF Init, TypeOK

LEMMA TypeStep ==
    ASSUME TypeOK, [Next]_vars
    PROVE  TypeOK'
<1>0. NumPaths \in Nat \ {0}
  BY ClientAssumption
<1> USE DEF timerVars, aioVars, readVars
<1>1. CASE RequestSent
  <2>1. requests' \in Seq(Path) /\ coming' \in Seq(Piece)
    BY <1>1, AppendOf, ConcatOf, AnswerFacts DEF TypeOK, RequestSent
  <2> QED
    BY <1>1, <2>1 DEF TypeOK, RequestSent, Left
<1>2. CASE RequestKept
  <2>1. requests' \in Seq(Path) /\ unsent' \in Seq(Path)
    BY <1>2 DEF TypeOK, RequestKept, Left
  <2> QED
    BY <1>2, <2>1 DEF TypeOK, RequestKept, Left
<1>3. CASE RequestLost
  <2>1. requests' \in Seq(Path) /\ unsent' \in Seq(Path)
    BY <1>3 DEF TypeOK, RequestLost, Left
  <2> QED
    BY <1>3, <2>1 DEF TypeOK, RequestLost, Left
<1>4. CASE RequestFails
  <2>1. unsent' \in Seq(Path)
    BY <1>4 DEF TypeOK, RequestFails, Left
  <2> QED
    BY <1>4, <2>1, EmptySeq DEF TypeOK, RequestFails, Left, HandleClose
<1>5. CASE RequestRaises
  <2>1. requests' \in Seq(Path)
    BY <1>5 DEF TypeOK, RequestRaises
  <2> QED
    BY <1>5, <2>1 DEF TypeOK, RequestRaises
<1>6. CASE LoadTx
  BY <1>6 DEF TypeOK, LoadTx
<1>7. CASE StoreTx
  <2>1. tx_buf' \in Seq(Path)
    BY <1>7, ConcatOf DEF TypeOK, StoreTx
  <2>2. turn' \in Path
    BY <1>0, <1>7 DEF TypeOK, StoreTx, Path
  <2>3. upset' \subseteq {"raise", "order", "torn"}
    BY <1>7 DEF TypeOK, StoreTx
  <2> QED
    BY <1>7, <2>1, <2>2, <2>3 DEF TypeOK, StoreTx
<1>8. CASE HandleWrite
  <2>1. coming' \in Seq(Piece)
    BY <1>8, AnswersType, ConcatOf DEF TypeOK, HandleWrite
  <2>2. sent' \in Nat
    BY <1>8 DEF TypeOK, HandleWrite
  <2> QED
    BY <1>8, <2>1, <2>2 DEF TypeOK, HandleWrite
<1>9. CASE TrimTx
  <2>1. new_tx' \in Seq(Path)
    BY <1>9, DropOf DEF TypeOK, TrimTx
  <2> QED
    BY <1>9, <2>1 DEF TypeOK, TrimTx
<1>10. CASE TrimmedTx
  BY <1>10 DEF TypeOK, TrimmedTx
<1>11. CASE HandleRead
  <2>1. PICK k \in 1..Len(coming) : /\ rx_buf' = rx_buf \o SubSeq(coming, 1, k)
                                    /\ coming' = Drop(coming, k)
    BY <1>11 DEF HandleRead
  <2>2. rx_buf' \in Seq(Piece) /\ coming' \in Seq(Piece)
    <3>1. coming \in Seq(Piece) /\ rx_buf \in Seq(Piece)
      BY DEF TypeOK
    <3>2. SubSeq(coming, 1, k) \in Seq(Piece)
      BY <3>1, SubSeqOf
    <3>3. Drop(coming, k) \in Seq(Piece)
      BY <3>1, DropOf
    <3> QED
      BY <2>1, <3>1, <3>2, <3>3, ConcatOf
  <2> QED
    BY <1>11, <2>2 DEF TypeOK, HandleRead
<1>12. CASE HandleEof \/ WriteFails
  <2>1. CASE HandleEof
    BY <2>1, EmptySeq DEF TypeOK, HandleEof, HandleClose
  <2>2. CASE WriteFails
    BY <2>2, EmptySeq DEF TypeOK, WriteFails, HandleClose
  <2> QED
    BY <1>12, <2>1, <2>2
<1>13. CASE CallbackRaises
  <2>1. upset' \subseteq {"raise", "order", "torn"}
    BY <1>13 DEF TypeOK, CallbackRaises
  <2> QED
    BY <1>13, <2>1, EmptySeq DEF TypeOK, CallbackRaises, HandleError
<1>14. CASE ReadLine
  <2>1. rx_buf' \in Seq(Piece)
    <3>1. rx_buf \in Seq(Piece) /\ HasLine
      BY <1>14 DEF TypeOK, ReadLine, ReadsLine
    <3>2. LineEnd \in Nat
      BY <3>1, FirstLine
    <3> QED
      BY <1>14, <3>1, <3>2, DropOf DEF ReadLine
  <2>2. data_size' \in {0, 2}
    BY <1>14 DEF TypeOK, ReadLine
  <2> QED
    BY <1>14, <2>1, <2>2 DEF TypeOK, ReadLine
<1>15. CASE ReadHeaderOnly
  <2>1. rx_buf' \in Seq(Piece)
    <3>1. rx_buf \in Seq(Piece) /\ HasLine
      BY <1>15 DEF TypeOK, ReadHeaderOnly, ReadsLine
    <3>2. rx_buf # <<>>
      BY <3>1, FirstLine
    <3> QED
      BY <1>15, <3>1, <3>2, TailOf DEF ReadHeaderOnly
  <2> QED
    BY <1>15, <2>1 DEF TypeOK, ReadHeaderOnly
<1>16. ASSUME NEW p \in Path, Deliver(p) PROVE TypeOK'
  <2>1. PICK k \in 1..2 :
            /\ TakesBody(k) /\ requests # <<>> /\ p = WhoseAnswer
            /\ delivered' = IF Body(k) # <<>> /\ Body(k)[1].part = "body1"
                            THEN [to |-> p, of |-> OfWhich(Body(k))] ELSE delivered
    BY <1>16 DEF Deliver
  <2>2. rx_buf' \in Seq(Piece) /\ receiving_data' = FALSE /\ data_size' = 0
    BY <2>1, BodyWithin DEF TakesBody
  <2>3. requests' \in Seq(Path)
    BY <1>16, <2>1, TailOf DEF TypeOK, Deliver
  <2>4. delivered' \in [to : 0..NumPaths, of : 0..NumPaths]
    <3>1. p \in 0..NumPaths /\ OfWhich(Body(k)) \in 0..NumPaths
      BY <1>0, OfWhichType DEF Path
    <3>2. delivered \in [to : 0..NumPaths, of : 0..NumPaths]
      BY DEF TypeOK
    <3> QED
      BY <2>1, <3>1, <3>2
  <2> QED
    BY <1>16, <2>2, <2>3, <2>4 DEF TypeOK, Deliver
<1>17. CASE DeliverRaises
  <2>1. PICK k \in 1..2 : TakesBody(k)
    BY <1>17 DEF DeliverRaises
  <2>2. rx_buf' \in Seq(Piece) /\ receiving_data' = FALSE /\ data_size' = 0
    BY <2>1, BodyWithin DEF TakesBody
  <2>3. requests' \in Seq(Path)
    BY <1>17, TailOf DEF TypeOK, DeliverRaises
  <2>4. upset' \subseteq {"raise", "order", "torn"}
    BY <1>17 DEF TypeOK, DeliverRaises
  <2> QED
    BY <1>17, <2>2, <2>3, <2>4, EmptySeq DEF TypeOK, DeliverRaises
<1>18. CASE ReadReturns
  BY <1>18 DEF TypeOK, ReadReturns
<1>19. CASE ConnectionMade
  BY <1>19 DEF TypeOK, ConnectionMade
<1>20. CASE ConnectionRefused
  BY <1>20 DEF TypeOK, ConnectionRefused
<1>21. CASE PeerCloses
  <2>1. coming' \in Seq(Piece)
    <3>1. coming \in Seq(Piece)
      BY DEF TypeOK
    <3>2. PICK k \in 0..Len(coming) : coming' = SubSeq(coming, 1, k)
      BY <1>21 DEF PeerCloses
    <3> QED
      BY <3>1, <3>2, SubSeqOf
  <2> QED
    BY <1>21, <2>1 DEF TypeOK, PeerCloses
<1>22. CASE UNCHANGED vars
  BY <1>22 DEF TypeOK, vars
<1> QED
  BY <1>1, <1>2, <1>3, <1>4, <1>5, <1>6, <1>7, <1>8, <1>9, <1>10, <1>11, <1>12, <1>13, <1>14,
     <1>15, <1>16, <1>17, <1>18, <1>19, <1>20, <1>21, <1>22 DEF Next, Poll, Write, Read, Network

\* Every variable stays in its type; in particular the path that is asked
\* about next is one of the paths, and data_size is 0 or that of a body.
THEOREM TypeCorrect == Spec => []TypeOK
<1>1. Init => TypeOK
  BY TypeInit
<1>2. TypeOK /\ [Next]_vars => TypeOK'
  BY TypeStep
<1> QED
  BY <1>1, <1>2, PTL DEF Spec
-----------------------------------------------------------------------------
(* The invariant.                                                          *)

\* The requests of which the neighbour has not got the message.
Rest == Waiting \o unsent

\* The answers to the other requests.
Asked == Len(requests) - Len(Rest)

\* Pieces of the oldest answer that are neither in rx_buf nor in coming.
Skipped == IF receiving_data THEN 3 ELSE IF data_size = 2 THEN 2 ELSE 0

\* s is what the answers to the requests contain from piece k + 1 on.
Aligned(s, k) ==
    /\ k + Len(s) <= 5 * Len(requests)
    /\ \A i \in 1..Len(s) : s[i] = Answers(requests)[k + i]

Heard == Aligned(rx_buf, Skipped) /\ Aligned(coming, Skipped + Len(rx_buf))

\* Unless the neighbour has gone, everything asked is answered and everything
\* else is still to be sent, in the order of requests.
Unanswered ==
    sock # "ended" =>
        /\ Skipped + Len(rx_buf) + Len(coming) = 5 * Asked
        /\ \A i \in 1..Len(Rest) : Rest[i] = requests[Asked + i]

\* A connection starts without anything left over by the one before it.
CleanStart ==
    sock \in {"connecting", "refused"} =>
        rx_buf = <<>> /\ coming = <<>> /\ ~ receiving_data /\ data_size = 0

Positions ==
    /\ receiving_data => data_size = 2
    /\ aio_pc = "trim" => sent <= Len(tx_buf)
    /\ req_pc = "send" => unsent = <<>>

InOrder == Heard /\ Unanswered /\ CleanStart /\ Positions

ClosedEmpty == sock = "closed" => requests = <<>> /\ rx_buf = <<>> /\ ~ receiving_data

IInv ==
    /\ TypeOK
    /\ ClosedEmpty
    /\ Matched
    /\ upset = {} /\ sock # "closed" => InOrder

LEMMA InvInit ==
    ASSUME Init
    PROVE  IInv
<1>1. TypeOK
  BY TypeInit
<1>2. Len(rx_buf) = 0 /\ Len(coming) = 0 /\ Len(requests) = 0
  BY DEF Init
<1>3. Waiting = <<>> /\ Rest = <<>> /\ Len(Rest) = 0
  BY EmptyConcat, EmptySeq DEF Init, Waiting, Rest
<1>4. Skipped = 0 /\ Asked = 0
  BY <1>2, <1>3 DEF Init, Skipped, Asked
<1>5. Heard
  BY <1>2, <1>4 DEF Heard, Aligned
<1>6. Unanswered
  BY <1>2, <1>3, <1>4 DEF Unanswered
<1>7. CleanStart /\ Positions
  BY DEF Init, CleanStart, Positions
<1>8. ClosedEmpty /\ Matched
  BY DEF Init, ClosedEmpty, Matched
<1> QED
  BY <1>1, <1>5, <1>6, <1>7, <1>8 DEF IInv, InOrder
-----------------------------------------------------------------------------
(* Facts about a state of which the invariant holds.                       *)

LEMMA RestType ==
    ASSUME TypeOK
    PROVE  /\ Waiting \in Seq(Path) /\ Rest \in Seq(Path)
           /\ Len(Rest) = Len(Waiting) + Len(unsent)
           /\ Len(Rest) \in Nat /\ Len(requests) \in Nat /\ Asked \in Int
<1>1. Waiting \in Seq(Path)
  BY DropOf DEF TypeOK, Waiting
<1>2. unsent \in Seq(Path) /\ requests \in Seq(Path)
  BY DEF TypeOK
<1>3. Rest \in Seq(Path) /\ Len(Rest) = Len(Waiting) + Len(unsent)
  BY <1>1, <1>2, ConcatOf DEF Rest
<1> QED
  BY <1>1, <1>2, <1>3 DEF Asked

LEMMA Lengths ==
    ASSUME TypeOK
    PROVE  /\ Len(rx_buf) \in Nat /\ Len(coming) \in Nat /\ Len(requests) \in Nat
           /\ Len(tx_buf) \in Nat /\ Skipped \in {0, 2, 3}
BY DEF TypeOK, Skipped

\* What has come of the oldest answer.
LEMMA Oldest ==
    ASSUME TypeOK, Heard, rx_buf # <<>>
    PROVE  /\ requests # <<>> /\ requests[1] \in Path
           /\ \A i \in 1..Len(rx_buf) :
                 Skipped + i <= 5 => rx_buf[i] = Answer(requests[1])[Skipped + i]
<1>1. rx_buf \in Seq(Piece) /\ requests \in Seq(Path) /\ Len(rx_buf) \in Nat
  BY DEF TypeOK
<1>2. Len(rx_buf) >= 1 /\ Skipped \in {0, 2, 3} /\ Len(requests) \in Nat
  BY <1>1, Lengths, EmptyConcat
<1>3. Skipped + Len(rx_buf) <= 5 * Len(requests)
  BY DEF Heard, Aligned
<1>4. Len(requests) >= 1
  BY <1>2, <1>3
<1>5. requests # <<>> /\ requests[1] \in Path
  BY <1>1, <1>4
<1>6. ASSUME NEW i \in 1..Len(rx_buf), Skipped + i <= 5
      PROVE  rx_buf[i] = Answer(requests[1])[Skipped + i]
  <2>1. Skipped + i \in 1..5 /\ 0 \in Nat /\ 0 < Len(requests)
    BY <1>1, <1>2, <1>4, <1>6
  <2>2. Answers(requests)[5 * 0 + (Skipped + i)] = Answer(requests[0 + 1])[Skipped + i]
    BY <1>1, <2>1, AnswersAt
  <2>3. rx_buf[i] = Answers(requests)[Skipped + i]
    BY DEF Heard, Aligned
  <2> QED
    BY <2>1, <2>2, <2>3
<1> QED
  BY <1>5, <1>6

\* A header line is read where it has to be: Content-Length first.
LEMMA LengthLine ==
    ASSUME TypeOK, Heard, ReadsLine, ~ IsBlank
    PROVE  Skipped = 0 /\ LineEnd = 2 /\ IsLength /\ 2 \in 1..Len(rx_buf)
<1>1. rx_buf \in Seq(Piece) /\ ~ receiving_data /\ HasLine /\ data_size \in {0, 2}
  BY DEF TypeOK, ReadsLine
<1>2. LineEnd \in LineEnds /\ LineEnd \in 1..Len(rx_buf) /\ \A j \in LineEnds : LineEnd <= j
  BY <1>1, FirstLine
<1>3. rx_buf # <<>> /\ 1 \in 1..Len(rx_buf) /\ Len(rx_buf) \in Nat
  BY <1>1, <1>2
<1>4. /\ requests[1] \in Path
      /\ \A i \in 1..Len(rx_buf) :
            Skipped + i <= 5 => rx_buf[i] = Answer(requests[1])[Skipped + i]
  BY <1>3, Oldest
<1>5. Skipped \in {0, 2}
  BY <1>1 DEF Skipped
<1>6. Skipped # 2
  <2>1. ASSUME Skipped = 2 PROVE FALSE
    <3>1. rx_buf[1] = Answer(requests[1])[3]
      BY <1>3, <1>4, <2>1
    <3>2. rx_buf[1].part = "blank"
      BY <1>4, <3>1, AnswerFacts, PartNames
    <3> QED
      BY <3>2 DEF IsBlank
  <2> QED
    BY <2>1
<1>7. Skipped = 0
  BY <1>5, <1>6
<1>8. rx_buf[1].part = "length1"
  <2>1. rx_buf[1] = Answer(requests[1])[1]
    BY <1>3, <1>4, <1>7
  <2> QED
    BY <1>4, <2>1, AnswerFacts, PartNames
<1>9. LineEnd # 1
  BY <1>2, <1>8 DEF LineEnds
<1>10. 2 \in 1..Len(rx_buf)
  BY <1>2, <1>3, <1>9
<1>11. rx_buf[2].part = "length2"
  <2>1. rx_buf[2] = Answer(requests[1])[2]
    BY <1>4, <1>7, <1>10
  <2> QED
    BY <1>4, <2>1, AnswerFacts, PartNames
<1>12. LineEnd = 2
  <2>1. 2 \in LineEnds
    BY <1>10, <1>11 DEF LineEnds
  <2> QED
    BY <1>2, <1>9, <2>1
<1> QED
  BY <1>7, <1>8, <1>10, <1>11, <1>12 DEF IsLength

\* The empty line comes after Content-Length.
LEMMA BlankLine ==
    ASSUME TypeOK, Heard, ReadsLine, IsBlank
    PROVE  Skipped = 2 /\ data_size = 2 /\ 1 \in 1..Len(rx_buf) /\ rx_buf # <<>>
<1>1. rx_buf \in Seq(Piece) /\ ~ receiving_data /\ HasLine /\ data_size \in {0, 2}
  BY DEF TypeOK, ReadsLine
<1>2. rx_buf # <<>> /\ 1 \in 1..Len(rx_buf)
  BY <1>1, FirstLine
<1>3. /\ requests[1] \in Path
      /\ \A i \in 1..Len(rx_buf) :
            Skipped + i <= 5 => rx_buf[i] = Answer(requests[1])[Skipped + i]
  BY <1>2, Oldest
<1>4. data_size # 0
  <2>1. ASSUME data_size = 0 PROVE FALSE
    <3>1. Skipped = 0
      BY <1>1, <2>1 DEF Skipped
    <3>2. rx_buf[1] = Answer(requests[1])[1]
      BY <1>2, <1>3, <3>1
    <3>3. rx_buf[1].part = "length1"
      BY <1>3, <3>2, AnswerFacts, PartNames
    <3> QED
      BY <3>3 DEF IsBlank
  <2> QED
    BY <2>1
<1> QED
  BY <1>1, <1>2, <1>4 DEF Skipped

\* A body taken is that of the oldest answer, and whole.
LEMMA BodyOfOldest ==
    ASSUME TypeOK, Heard, Positions, NEW k \in 1..2, BodyAt(k)
    PROVE  /\ data_size = 2 /\ Skipped + k = 4 /\ k + 1 \in 1..Len(rx_buf)
           /\ requests # <<>> /\ requests[1] \in Path
           /\ Body(k) # <<>> /\ Body(k)[1].part = "body1"
           /\ OfWhich(Body(k)) = requests[1]
<1>1. rx_buf \in Seq(Piece) /\ Len(rx_buf) \in Nat /\ data_size \in {0, 2}
  BY DEF TypeOK
<1>2. data_size = 2 /\ Skipped + k = 4 /\ k + 1 \in 1..Len(rx_buf)
  <2>1. CASE ReadsLine /\ IsBlank /\ k = 2 /\ Len(rx_buf) - 1 >= data_size
    BY <1>1, <2>1, BlankLine
  <2>2. CASE aio_pc = "read" /\ receiving_data /\ k = 1 /\ Len(rx_buf) >= data_size
    BY <1>1, <2>2 DEF Positions, Skipped
  <2> QED
    BY <2>1, <2>2 DEF BodyAt
<1>3. rx_buf # <<>>
  BY <1>1, <1>2
<1> DEFINE p == requests[1]
<1>4. /\ requests # <<>> /\ p \in Path
      /\ \A i \in 1..Len(rx_buf) : Skipped + i <= 5 => rx_buf[i] = Answer(p)[Skipped + i]
  BY <1>3, Oldest
<1> HIDE DEF p
<1>5. rx_buf[k] = Answer(p)[4] /\ rx_buf[k + 1] = Answer(p)[5]
  <2>1. k \in 1..Len(rx_buf) /\ Skipped + k <= 5 /\ Skipped + (k + 1) = 5
    BY <1>1, <1>2, Lengths
  <2> QED
    BY <1>2, <1>4, <2>1
<1>6. /\ Body(k) \in Seq(Piece) /\ Len(Body(k)) = 2
      /\ Body(k)[1] = rx_buf[k] /\ Body(k)[2] = rx_buf[k + 1]
  <2>1. /\ k \in Nat \ {0} /\ k + 1 \in Nat /\ k + 1 <= Len(rx_buf) /\ k <= (k + 1) + 1
        /\ (k + 1) - k + 1 = 2 /\ k + 1 - 1 = k /\ k + 2 - 1 = k + 1
    BY <1>1, <1>2
  <2>2. Body(k) = SubSeq(rx_buf, k, k + 1)
    BY <1>2, <2>1 DEF Body
  <2> QED
    BY <1>1, <2>1, <2>2, SubSeqOf
<1>7. /\ SubSeq(Answer(p), 4, 5) \in Seq(Piece) /\ Len(SubSeq(Answer(p), 4, 5)) = 2
      /\ SubSeq(Answer(p), 4, 5)[1] = Answer(p)[4]
      /\ SubSeq(Answer(p), 4, 5)[2] = Answer(p)[5]
  BY <1>4, AnswerFacts, SubSeqOf
<1>8. Body(k) = SubSeq(Answer(p), 4, 5)
  BY <1>5, <1>6, <1>7, SameSeq
<1>9. Body(k)[1].part = "body1" /\ Body(k)[1].path = p
  BY <1>4, <1>5, <1>6, AnswerFacts, PartNames
<1>10. OfWhich(Body(k)) = p
  BY <1>4, <1>8, <1>9 DEF OfWhich
<1>11. Body(k) # <<>>
  BY <1>6, EmptyConcat
<1> QED
  BY <1>2, <1>4, <1>9, <1>10, <1>11 DEF p
-----------------------------------------------------------------------------
(* What a step does to the parts of the invariant.                         *)

\* A request appended leaves the answers to the older ones where they are.
LEMMA HeardAppend ==
    ASSUME TypeOK, Heard, NEW p \in Path, requests' = Append(requests, p),
           UNCHANGED <<rx_buf, coming, receiving_data, data_size>>
    PROVE  Heard'
<1>1. requests \in Seq(Path) /\ Len(requests) \in Nat
  BY DEF TypeOK
<1>2. /\ requests' \in Seq(Path) /\ Len(requests') = Len(requests) + 1
      /\ \A i \in 1..Len(requests) : requests[i] = requests'[i]
  BY <1>1, AppendOf
<1>3. \A j \in 1..5 * Len(requests) : Answers(requests)[j] = Answers(requests')[j]
  <2>1. /\ 0 \in Nat /\ Len(requests) <= Len(requests) /\ 0 + Len(requests) <= Len(requests')
        /\ \A i \in 1..Len(requests) : requests[i] = requests'[0 + i]
    BY <1>1, <1>2
  <2>2. \A j \in 1..5 * Len(requests) : Answers(requests)[j] = Answers(requests')[5 * 0 + j]
    BY <1>1, <1>2, <2>1, AnswersShift
  <2> QED
    BY <1>1, <2>2
<1>4. ASSUME NEW s \in Seq(Piece), NEW k \in Nat, Aligned(s, k)
      PROVE  /\ k + Len(s) <= 5 * Len(requests')
             /\ \A i \in 1..Len(s) : s[i] = Answers(requests')[k + i]
  <2>1. Len(s) \in Nat /\ k + Len(s) <= 5 * Len(requests)
    BY <1>4 DEF Aligned
  <2>2. \A i \in 1..Len(s) : k + i \in 1..5 * Len(requests)
    BY <1>1, <2>1
  <2> QED
    BY <1>1, <1>2, <1>3, <1>4, <2>1, <2>2 DEF Aligned
<1>5. rx_buf \in Seq(Piece) /\ coming \in Seq(Piece) /\ Skipped \in Nat
      /\ Skipped + Len(rx_buf) \in Nat
  BY Lengths, SMTT(30) DEF TypeOK
<1>6. Skipped' = Skipped
  BY DEF Skipped
<1> QED
  BY <1>4, <1>5, <1>6 DEF Heard, Aligned

LEMMA HeardSame ==
    ASSUME Heard, UNCHANGED <<requests, rx_buf, coming, receiving_data, data_size>>
    PROVE  Heard'
BY DEF Heard, Aligned, Skipped

LEMMA UnansweredSame ==
    ASSUME Unanswered, Rest' = Rest, sock' # "ended" => sock # "ended",
           UNCHANGED <<requests, rx_buf, coming, receiving_data, data_size>>
    PROVE  Unanswered'
BY DEF Unanswered, Asked, Skipped

LEMMA CleanStartSame ==
    ASSUME CleanStart,
           sock' \in {"connecting", "refused"} => sock \in {"connecting", "refused"},
           UNCHANGED <<rx_buf, coming, receiving_data, data_size>>
    PROVE  CleanStart'
BY DEF CleanStart

\* A step after which the connection is in order was one of a connection
\* that was.
LEMMA Before ==
    ASSUME TypeOK, Next, upset' = {}, sock' # "closed"
    PROVE  upset = {} /\ sock # "closed"
<1>1. upset = {}
  BY DEF Next, Poll, Write, Read, Network, RequestSent, RequestKept, RequestLost, RequestFails,
         RequestRaises, LoadTx, StoreTx, HandleWrite, WriteFails, TrimTx, TrimmedTx, HandleRead,
         HandleEof, CallbackRaises, ReadLine, ReadHeaderOnly, Deliver, DeliverRaises, ReadReturns,
         ConnectionMade, ConnectionRefused, PeerCloses
<1>2. sock # "closed"
  BY DEF Next, Poll, Write, Read, Network, RequestSent, RequestKept, RequestLost, RequestFails,
         RequestRaises, LoadTx, StoreTx, HandleWrite, WriteFails, TrimTx, TrimmedTx, HandleRead,
         HandleEof, CallbackRaises, ReadLine, ReadHeaderOnly, Deliver, DeliverRaises, ReadReturns,
         ConnectionMade, ConnectionRefused, PeerCloses, HandleClose
<1> QED
  BY <1>1, <1>2
-----------------------------------------------------------------------------
(* The timer thread.                                                       *)

LEMMA OrderSent ==
    ASSUME TypeOK, InOrder, RequestSent, upset' = {}
    PROVE  InOrder'
<1> USE DEF readVars, aioVars
<1>1. /\ sock = "connected" /\ sock' = sock /\ req_pc = "send" /\ turn \in Path
      /\ requests' = Append(requests, turn) /\ coming' = coming \o Answer(turn)
      /\ req_pc' = "load" /\ unsent' = <<>>
      /\ UNCHANGED <<tx_buf, rx_buf, receiving_data, data_size, aio_pc, sent, new_tx>>
  BY DEF RequestSent, AtSend, Left, TypeOK
<1>2. Waiting = <<>> /\ unsent = <<>>
  BY DEF RequestSent, AtSend, InOrder, Positions
<1>3. Waiting' = Waiting
  BY <1>1 DEF Waiting, Drop
<1>4. Rest = <<>> /\ Rest' = <<>> /\ Len(Rest) = 0 /\ Len(Rest') = 0
  BY <1>1, <1>2, <1>3, EmptyConcat, EmptySeq DEF Rest
<1>5. /\ requests \in Seq(Path) /\ Len(requests) \in Nat
      /\ requests' \in Seq(Path) /\ Len(requests') = Len(requests) + 1
      /\ \A i \in 1..Len(requests) : requests'[i] = requests[i]
      /\ requests'[Len(requests) + 1] = turn
  BY <1>1, AppendOf DEF TypeOK
<1>6. Len(rx_buf) \in Nat /\ Len(coming) \in Nat /\ Skipped \in {0, 2, 3} /\ Skipped' = Skipped
  BY <1>1, Lengths DEF Skipped
<1>7. Skipped + Len(rx_buf) + Len(coming) = 5 * Len(requests)
  BY <1>1, <1>4, <1>5 DEF InOrder, Unanswered, Asked
<1>8. /\ coming' \in Seq(Piece) /\ Len(coming') = Len(coming) + 5
      /\ \A i \in 1..Len(coming) : coming'[i] = coming[i]
      /\ \A i \in 1..5 : coming'[Len(coming) + i] = Answer(turn)[i]
  <2> DEFINE a == Answer(turn)
  <2>1. a \in Seq(Piece) /\ Len(a) = 5 /\ coming \in Seq(Piece) /\ coming' = coming \o a
    BY <1>1, AnswerFacts DEF TypeOK
  <2> HIDE DEF a
  <2>2. /\ coming' \in Seq(Piece) /\ Len(coming') = Len(coming) + Len(a)
        /\ \A i \in 1..Len(coming) : coming'[i] = coming[i]
        /\ \A i \in 1..Len(a) : coming'[Len(coming) + i] = a[i]
    <3>1. /\ coming \o a \in Seq(Piece) /\ Len(coming \o a) = Len(coming) + Len(a)
          /\ \A i \in 1..Len(coming) : (coming \o a)[i] = coming[i]
          /\ \A i \in 1..Len(a) : (coming \o a)[Len(coming) + i] = a[i]
      <4>1. a \in Seq(Piece) /\ coming \in Seq(Piece)
        BY <2>1
      <4> QED
        BY <4>1, ConcatOf
    <3> QED
      BY <2>1, <3>1
  <2>3. \A i \in 1..5 : coming'[Len(coming) + i] = a[i]
    BY <2>1, <2>2
  <2> QED
    BY <2>1, <2>2, <2>3 DEF a
<1>9. \A j \in 1..5 * Len(requests) : Answers(requests)[j] = Answers(requests')[j]
  <2>1. /\ 0 \in Nat /\ Len(requests) <= Len(requests) /\ 0 + Len(requests) <= Len(requests')
        /\ \A i \in 1..Len(requests) : requests[i] = requests'[0 + i]
    BY <1>5
  <2>2. \A j \in 1..5 * Len(requests) : Answers(requests)[j] = Answers(requests')[5 * 0 + j]
    BY <1>5, <2>1, AnswersShift
  <2> QED
    BY <1>5, <2>2
<1>10. Aligned(rx_buf, Skipped)'
  <2>1. \A i \in 1..Len(rx_buf) :
           Skipped + i \in 1..5 * Len(requests) /\ rx_buf[i] = Answers(requests)[Skipped + i]
    BY <1>5, <1>6, <1>7 DEF InOrder, Heard, Aligned
  <2>2. \A i \in 1..Len(rx_buf) : rx_buf[i] = Answers(requests')[Skipped + i]
    BY <1>9, <2>1
  <2>3. Skipped + Len(rx_buf) <= 5 * Len(requests')
    BY <1>5, <1>6, <1>7
  <2> QED
    BY <1>1, <1>6, <2>2, <2>3 DEF Aligned
<1>11. Aligned(coming, Skipped + Len(rx_buf))'
  <2> DEFINE k == Skipped + Len(rx_buf)
  <2>0. k \in Nat /\ k + Len(coming) = 5 * Len(requests)
    BY <1>6, <1>7
  <2>1. \A i \in 1..Len(coming) : coming[i] = Answers(requests)[k + i]
    BY DEF InOrder, Heard, Aligned
  <2>2. \A i \in 1..5 : Answer(turn)[i] = Answers(requests')[5 * Len(requests) + i]
    <3>1. Len(requests) < Len(requests')
      BY <1>5
    <3> QED
      BY <1>5, <3>1, AnswersAt
  <2>4. k' = k
    BY <1>1, <1>6
  <2> HIDE DEF k
  <2>3. ASSUME NEW i \in 1..Len(coming')
        PROVE  coming'[i] = Answers(requests')[k + i]
    <3>1. CASE i \in 1..Len(coming)
      <4>1. k + i \in 1..5 * Len(requests)
        BY <1>5, <1>6, <2>0, <3>1
      <4> QED
        BY <1>8, <1>9, <2>1, <3>1, <4>1
    <3>2. CASE i \notin 1..Len(coming)
      <4>1. PICK m \in 1..5 : i = Len(coming) + m
        <5>0. Len(coming) \in Nat /\ i \in 1..Len(coming) + 5
          BY <1>6, <1>8
        <5>1. i - Len(coming) \in 1..5 /\ i = Len(coming) + (i - Len(coming))
          BY <3>2, <5>0
        <5> QED
          BY <5>1
      <4>2. k + i = 5 * Len(requests) + m
        BY <1>5, <1>6, <2>0, <4>1, SMTT(30)
      <4> QED
        BY <1>8, <2>2, <4>1, <4>2
    <3> QED
      BY <3>1, <3>2
  <2>5. k + Len(coming') <= 5 * Len(requests')
    BY <1>5, <1>6, <1>8, <2>0
  <2>6. Aligned(coming, k)'
    BY <2>3, <2>4, <2>5 DEF Aligned
  <2> QED
    BY <2>6 DEF k
<1>12. Unanswered'
  <2>1. Asked' = Len(requests) + 1
    BY <1>4, <1>5 DEF Asked
  <2>2. (Skipped + Len(rx_buf) + Len(coming))' = 5 * (Len(requests) + 1)
    BY <1>1, <1>5, <1>6, <1>7, <1>8, SMTT(30)
  <2> QED
    BY <1>4, <2>1, <2>2 DEF Unanswered
<1>13. CleanStart' /\ Positions'
  BY <1>1 DEF InOrder, CleanStart, Positions
<1> QED
  BY <1>10, <1>11, <1>12, <1>13 DEF InOrder, Heard

LEMMA OrderKept ==
    ASSUME TypeOK, InOrder, RequestKept
    PROVE  InOrder'
<1> USE DEF readVars, aioVars
<1>1. /\ sock = "connecting" /\ sock' = sock /\ req_pc = "send" /\ turn \in Path
      /\ requests' = Append(requests, turn)
      /\ req_pc' = "load" /\ unsent' = <<turn>>
      /\ UNCHANGED <<coming, tx_buf, rx_buf, receiving_data, data_size, aio_pc, sent, new_tx>>
  BY DEF RequestKept, AtSend, Left, TypeOK
<1>2. Waiting' = Waiting /\ unsent = <<>>
  BY <1>1 DEF Waiting, Drop, InOrder, Positions
<1>3. /\ Rest = Waiting /\ Rest \in Seq(Path) /\ Len(Rest) \in Nat
      /\ Rest' \in Seq(Path) /\ Len(Rest') = Len(Rest) + 1
      /\ \A i \in 1..Len(Rest) : Rest'[i] = Rest[i]
      /\ Rest'[Len(Rest) + 1] = turn
  <2>1. Waiting \in Seq(Path) /\ Rest = Waiting
    BY <1>2, RestType, EmptyConcat DEF Rest
  <2>2. Rest' = Waiting \o <<turn>>
    BY <1>1, <1>2 DEF Rest
  <2>3. <<turn>> \in Seq(Path) /\ Len(<<turn>>) = 1 /\ <<turn>>[1] = turn
    BY <1>1, SmallSeqs
  <2> QED
    BY <2>1, <2>2, <2>3, ConcatOf
<1>4. /\ requests \in Seq(Path) /\ Len(requests) \in Nat
      /\ Len(requests') = Len(requests) + 1
      /\ \A i \in 1..Len(requests) : requests'[i] = requests[i]
      /\ requests'[Len(requests) + 1] = turn
  BY <1>1, AppendOf DEF TypeOK
<1>5. Heard'
  BY <1>1, HeardAppend DEF InOrder
<1>6. Unanswered'
  <2>1. Asked' = Asked /\ Asked \in Int /\ Asked + Len(Rest) = Len(requests)
    BY <1>3, <1>4 DEF Asked
  <2>2. /\ Skipped + Len(rx_buf) + Len(coming) = 5 * Asked
        /\ \A i \in 1..Len(Rest) : Rest[i] = requests[Asked + i]
    BY <1>1 DEF InOrder, Unanswered
  <2>3. (Skipped + Len(rx_buf) + Len(coming))' = 5 * Asked'
    BY <1>1, <2>1, <2>2 DEF Skipped
  <2>4. Asked >= 0
    BY <2>1, <2>2, Lengths
  <2>5. ASSUME NEW i \in 1..Len(Rest') PROVE Rest'[i] = requests'[Asked + i]
    <3>1. CASE i \in 1..Len(Rest)
      <4>1. Asked + i \in 1..Len(requests)
        BY <1>3, <1>4, <2>1, <2>4, <3>1
      <4> QED
        BY <1>3, <1>4, <2>2, <3>1, <4>1
    <3>2. CASE i = Len(Rest) + 1
      <4>1. Asked + i = Len(requests) + 1
        BY <1>3, <1>4, <2>1, <3>2
      <4> QED
        BY <1>3, <1>4, <3>2, <4>1
    <3> QED
      BY <1>3, <3>1, <3>2
  <2> QED
    BY <2>1, <2>3, <2>5 DEF Unanswered
<1>7. CleanStart'
  BY <1>1, CleanStartSame DEF InOrder
<1>8. Positions'
  BY <1>1 DEF InOrder, Positions
<1> QED
  BY <1>5, <1>6, <1>7, <1>8 DEF InOrder

LEMMA OrderLost ==
    ASSUME TypeOK, InOrder, RequestLost \/ RequestRaises
    PROVE  InOrder'
<1> USE DEF readVars, aioVars
<1>1. /\ sock' = "ended" /\ turn \in Path /\ requests' = Append(requests, turn)
      /\ UNCHANGED <<coming, tx_buf, rx_buf, receiving_data, data_size, aio_pc, sent>>
      /\ req_pc' = "load" \/ UNCHANGED <<req_pc, unsent>>
  BY DEF RequestLost, RequestRaises, AtSend, Left, TypeOK
<1>2. Heard'
  BY <1>1, HeardAppend DEF InOrder
<1>3. Unanswered' /\ CleanStart'
  BY <1>1 DEF Unanswered, CleanStart
<1>4. Positions'
  BY <1>1 DEF InOrder, Positions
<1> QED
  BY <1>2, <1>3, <1>4 DEF InOrder

\* What request() keeps in tx_buf goes behind what is there.
LEMMA OrderLoad ==
    ASSUME TypeOK, InOrder, LoadTx \/ (StoreTx /\ upset' = {})
    PROVE  InOrder'
<1> USE DEF readVars, aioVars
<1>1. UNCHANGED <<sock, requests, coming, rx_buf, receiving_data, data_size, aio_pc, sent, new_tx>>
  BY DEF LoadTx, StoreTx
<1>2. Heard' /\ CleanStart'
  BY <1>1, HeardSame, CleanStartSame DEF InOrder
<1>3. CASE LoadTx
  <2>1. UNCHANGED <<tx_buf, unsent>> /\ req_pc' = "store"
    BY <1>3 DEF LoadTx
  <2>2. Rest' = Rest
    BY <1>1, <2>1 DEF Rest, Waiting, Drop
  <2>3. Unanswered'
    BY <1>1, <2>2, UnansweredSame DEF InOrder
  <2>4. Positions'
    BY <1>1, <2>1 DEF InOrder, Positions
  <2> QED
    BY <1>2, <2>3, <2>4 DEF InOrder
<1>4. CASE StoreTx /\ upset' = {}
  <2>1. aio_pc # "store" /\ old_tx = tx_buf /\ tx_buf' = tx_buf \o unsent /\ unsent' = <<>>
    BY <1>4 DEF StoreTx
  <2>2. tx_buf \in Seq(Path) /\ unsent \in Seq(Path) /\ sent \in Nat /\ Waiting \in Seq(Path)
    BY RestType DEF TypeOK
  <2>3. /\ tx_buf' \in Seq(Path) /\ Len(tx_buf) \in Nat /\ Len(unsent) \in Nat
        /\ Len(tx_buf') = Len(tx_buf) + Len(unsent)
        /\ \A i \in 1..Len(tx_buf) : tx_buf'[i] = tx_buf[i]
        /\ \A i \in 1..Len(unsent) : tx_buf'[Len(tx_buf) + i] = unsent[i]
    BY <2>1, <2>2, ConcatOf
  <2>4. Waiting' = Waiting \o unsent
    <3>1. CASE aio_pc = "trim"
      <4>1. Waiting = Drop(tx_buf, sent) /\ Waiting' = Drop(tx_buf \o unsent, sent)
        BY <1>1, <2>1, <3>1 DEF Waiting, Drop
      <4>2. sent <= Len(tx_buf)
        BY <3>1 DEF InOrder, Positions
      <4> QED
        BY <2>2, <4>1, <4>2, DropConcat
    <3>2. CASE aio_pc # "trim"
      BY <1>1, <2>1, <3>2 DEF Waiting
    <3> QED
      BY <3>1, <3>2
  <2>5. Rest' = Rest
    <3>1. Rest' = Waiting' \o <<>>
      BY <2>1 DEF Rest
    <3>2. Waiting' \in Seq(Path)
      BY <2>2, <2>4, ConcatOf
    <3> QED
      BY <2>4, <3>1, <3>2, EmptyConcat DEF Rest
  <2>6. Unanswered'
    BY <1>1, <2>5, UnansweredSame DEF InOrder
  <2>7. Positions'
    BY <1>1, <2>1, <2>2, <2>3 DEF InOrder, Positions
  <2> QED
    BY <1>2, <2>6, <2>7 DEF InOrder
<1> QED
  BY <1>3, <1>4
-----------------------------------------------------------------------------
(* The asyncore thread.                                                    *)

\* handle_write sends all that is waiting; the answers come in its order.
LEMMA OrderWrite ==
    ASSUME TypeOK, InOrder, HandleWrite
    PROVE  InOrder'
<1> USE DEF readVars, timerVars
<1>1. /\ aio_pc = "select" /\ aio_pc' = "trim" /\ sent' = Len(tx_buf)
      /\ sock \in {"connected", "ended"} /\ sock' = sock
      /\ coming' = IF sock = "connected" THEN coming \o Answers(tx_buf) ELSE coming
      /\ UNCHANGED <<requests, tx_buf, rx_buf, receiving_data, data_size, req_pc, unsent>>
  BY DEF HandleWrite
<1>2. /\ tx_buf \in Seq(Path) /\ unsent \in Seq(Path) /\ Len(tx_buf) \in Nat
      /\ Len(unsent) \in Nat /\ coming \in Seq(Piece) /\ requests \in Seq(Path)
      /\ Len(requests) \in Nat /\ Len(coming) \in Nat /\ Len(rx_buf) \in Nat
      /\ Skipped \in {0, 2, 3} /\ Skipped' = Skipped
  BY <1>1, Lengths DEF TypeOK, Skipped
<1>3. CleanStart'
  BY <1>1 DEF CleanStart
<1>4. Positions'
  BY <1>1, <1>2 DEF InOrder, Positions
<1>5. CASE sock = "ended"
  <2>1. Heard'
    BY <1>1, <1>5, HeardSame DEF InOrder
  <2>2. Unanswered'
    BY <1>1, <1>5 DEF Unanswered
  <2> QED
    BY <1>3, <1>4, <2>1, <2>2 DEF InOrder
<1>6. CASE sock = "connected"
  <2> DEFINE a == Answers(tx_buf)
             k == Skipped + Len(rx_buf)
  <2>1. /\ Rest = tx_buf \o unsent /\ Len(Rest) = Len(tx_buf) + Len(unsent)
        /\ \A i \in 1..Len(tx_buf) : Rest[i] = tx_buf[i]
        /\ \A i \in 1..Len(unsent) : Rest[Len(tx_buf) + i] = unsent[i]
    BY <1>1, <1>2, ConcatOf DEF Rest, Waiting
  <2>2. Rest' = unsent
    <3>1. Waiting' = Drop(tx_buf, Len(tx_buf))
      BY <1>1 DEF Waiting, Drop
    <3>2. /\ Drop(tx_buf, Len(tx_buf)) \in Seq(Path)
          /\ Len(Drop(tx_buf, Len(tx_buf))) = Len(tx_buf) - Len(tx_buf)
      <4>1. tx_buf \in Seq(Path) /\ Len(tx_buf) \in Nat /\ Len(tx_buf) <= Len(tx_buf)
        BY <1>2
      <4> QED
        BY <4>1, DropOf
    <3>3. Waiting' = <<>>
      BY <1>2, <3>1, <3>2
    <3> QED
      BY <1>1, <1>2, <3>3, EmptyConcat DEF Rest
  <2>3. /\ Asked \in Nat /\ Asked + Len(tx_buf) + Len(unsent) = Len(requests)
        /\ k + Len(coming) = 5 * Asked /\ k \in Nat
        /\ \A i \in 1..Len(Rest) : Rest[i] = requests[Asked + i]
    <3>1. /\ Skipped + Len(rx_buf) + Len(coming) = 5 * Asked
          /\ \A i \in 1..Len(Rest) : Rest[i] = requests[Asked + i]
      BY <1>6 DEF InOrder, Unanswered
    <3>2. Asked = Len(requests) - (Len(tx_buf) + Len(unsent))
      BY <2>1 DEF Asked
    <3> QED
      BY <1>2, <3>1, <3>2
  <2>4. Asked' = Asked + Len(tx_buf)
    BY <1>1, <1>2, <2>2, <2>3 DEF Asked
  <2>5. /\ a \in Seq(Piece) /\ Len(a) = 5 * Len(tx_buf)
        /\ \A j \in 1..5 * Len(tx_buf) : a[j] = Answers(requests)[5 * Asked + j]
    <3>1. \A i \in 1..Len(tx_buf) : tx_buf[i] = requests[Asked + i]
      BY <1>2, <2>1, <2>3
    <3>2. Len(tx_buf) <= Len(tx_buf) /\ Asked + Len(tx_buf) <= Len(requests)
      BY <1>2, <2>3
    <3>3. tx_buf \in Seq(Path) /\ requests \in Seq(Path) /\ Len(tx_buf) \in Nat /\ Asked \in Nat
      BY <1>2, <2>3
    <3>4. \A j \in 1..5 * Len(tx_buf) : a[j] = Answers(requests)[5 * Asked + j]
      BY <3>1, <3>2, <3>3, AnswersShift
    <3> QED
      BY <3>3, <3>4, AnswersType
  <2>6. /\ coming' = coming \o a /\ k' = k
    BY <1>1, <1>2, <1>6
  <2> HIDE DEF a, k
  <2>7. /\ Len(coming \o a) = Len(coming) + Len(a)
        /\ \A i \in 1..Len(coming) : (coming \o a)[i] = coming[i]
        /\ \A i \in 1..Len(a) : (coming \o a)[Len(coming) + i] = a[i]
    <3>1. a \in Seq(Piece) /\ coming \in Seq(Piece)
      BY <1>2, <2>5
    <3> QED
      BY <3>1, ConcatOf
  <2>8. Aligned(coming, k)'
    <3>1. \A i \in 1..Len(coming) : coming[i] = Answers(requests)[k + i]
      BY DEF InOrder, Heard, Aligned, k
    <3>2. ASSUME NEW i \in 1..Len(coming')
          PROVE  coming'[i] = Answers(requests)[k + i]
      <4>1. CASE i <= Len(coming)
        BY <1>2, <2>6, <2>7, <3>1, <4>1
      <4>2. CASE i > Len(coming)
        <5> DEFINE m == i - Len(coming)
        <5>1. i \in 1..Len(coming) + Len(a) /\ Len(a) \in Nat /\ Len(coming) \in Nat
          <6>1. Len(coming') = Len(coming) + Len(a)
            BY <2>6, <2>7
          <6>2. Len(a) \in Nat /\ Len(coming) \in Nat
            BY <1>2, <2>5
          <6> QED
            BY <6>1, <6>2
        <5>2. m \in 1..Len(a) /\ i = Len(coming) + m
          BY <4>2, <5>1
        <5> HIDE DEF m
        <5>3. k + i = 5 * Asked + m /\ m \in 1..5 * Len(tx_buf)
          <6>1. k \in Nat /\ Asked \in Nat /\ k + Len(coming) = 5 * Asked
            BY <2>3
          <6>2. Len(a) = 5 * Len(tx_buf)
            BY <2>5
          <6> QED
            BY <5>1, <5>2, <6>1, <6>2
        <5> QED
          BY <2>5, <2>6, <2>7, <5>2, <5>3
      <4> QED
        BY <1>2, <4>1, <4>2
    <3>3. k + Len(coming') <= 5 * Len(requests)
      BY <1>2, <2>3, <2>5, <2>6, <2>7
    <3> QED
      BY <1>1, <2>6, <3>2, <3>3 DEF Aligned
  <2>9. Aligned(rx_buf, Skipped)'
    BY <1>1, <1>2 DEF InOrder, Heard, Aligned
  <2>10. Heard'
    BY <2>8, <2>9 DEF Heard, k
  <2>11. Unanswered'
    <3>1. (Skipped + Len(rx_buf) + Len(coming))' = 5 * Asked'
      <4>1. k' + Len(coming') = 5 * Asked'
        <5>1. Len(coming') = Len(coming) + 5 * Len(tx_buf)
          BY <2>5, <2>6, <2>7
        <5>2. /\ k + Len(coming) = 5 * Asked /\ Asked' = Asked + Len(tx_buf) /\ k' = k
              /\ k \in Nat /\ Asked \in Nat /\ Len(tx_buf) \in Nat /\ Len(coming) \in Nat
          BY <1>2, <2>3, <2>4, <2>6
        <5> QED
          BY <5>1, <5>2
      <4> QED
        BY <4>1 DEF k
    <3>2. ASSUME NEW i \in 1..Len(unsent)
          PROVE  unsent[i] = requests[Asked + Len(tx_buf) + i]
      <4>1. /\ Len(tx_buf) + i \in 1..Len(Rest)
            /\ Asked + (Len(tx_buf) + i) = Asked + Len(tx_buf) + i
        BY <1>2, <2>1, <2>3
      <4> QED
        BY <2>1, <2>3, <4>1
    <3> QED
      BY <1>1, <2>2, <2>4, <3>1, <3>2 DEF Unanswered
  <2> QED
    BY <1>3, <1>4, <2>10, <2>11 DEF InOrder
<1> QED
  BY <1>1, <1>5, <1>6

LEMMA OrderTrim ==
    ASSUME TypeOK, InOrder, TrimTx \/ TrimmedTx
    PROVE  InOrder'
<1> USE DEF readVars, timerVars
<1>1. /\ UNCHANGED <<sock, requests, coming, rx_buf, receiving_data, data_size, req_pc, unsent>>
      /\ aio_pc' # "trim"
  BY DEF TrimTx, TrimmedTx
<1>2. Waiting' = Waiting
  <2>1. CASE TrimTx
    BY <2>1 DEF TrimTx, Waiting
  <2>2. CASE TrimmedTx
    BY <2>2 DEF TrimmedTx, Waiting
  <2> QED
    BY <2>1, <2>2
<1>3. Rest' = Rest
  BY <1>1, <1>2 DEF Rest
<1>4. Heard' /\ CleanStart' /\ Unanswered'
  BY <1>1, <1>3, HeardSame, CleanStartSame, UnansweredSame DEF InOrder
<1>5. Positions'
  BY <1>1 DEF InOrder, Positions
<1> QED
  BY <1>4, <1>5 DEF InOrder

\* recv moves pieces from coming to the end of rx_buf.
LEMMA OrderReceived ==
    ASSUME TypeOK, InOrder, HandleRead
    PROVE  InOrder'
<1> USE DEF readVars, timerVars
<1>1. /\ sock \in {"connected", "ended"} /\ sock' = sock
      /\ aio_pc = "select" /\ aio_pc' = "read"
      /\ UNCHANGED <<requests, tx_buf, receiving_data, data_size, req_pc, unsent, new_tx>>
  BY DEF HandleRead
<1>2. PICK c \in 1..Len(coming) : /\ rx_buf' = rx_buf \o SubSeq(coming, 1, c)
                                  /\ coming' = Drop(coming, c)
  BY DEF HandleRead
<1> DEFINE h == SubSeq(coming, 1, c)
<1>3. /\ coming \in Seq(Piece) /\ rx_buf \in Seq(Piece) /\ c \in Nat /\ c <= Len(coming)
      /\ Len(coming) \in Nat /\ Len(rx_buf) \in Nat /\ Len(requests) \in Nat
      /\ Skipped \in {0, 2, 3} /\ Skipped' = Skipped
  BY <1>1, Lengths DEF TypeOK, Skipped
<1>4. h \in Seq(Piece) /\ Len(h) = c /\ \A i \in 1..c : h[i] = coming[i]
  BY <1>3, SubSeqOf
<1>5. /\ Len(coming') = Len(coming) - c
      /\ \A i \in 1..Len(coming') : coming'[i] = coming[c + i]
  BY <1>2, <1>3, DropOf
<1> HIDE DEF h
<1>6. /\ Len(rx_buf \o h) = Len(rx_buf) + Len(h)
      /\ \A i \in 1..Len(rx_buf) : (rx_buf \o h)[i] = rx_buf[i]
      /\ \A i \in 1..Len(h) : (rx_buf \o h)[Len(rx_buf) + i] = h[i]
  <2>1. h \in Seq(Piece) /\ rx_buf \in Seq(Piece)
    BY <1>3, <1>4
  <2> QED
    BY <2>1, ConcatOf
<1>7. rx_buf' = rx_buf \o h
  BY <1>2 DEF h
<1>8. Len(rx_buf') + Len(coming') = Len(rx_buf) + Len(coming) /\ Len(rx_buf') = Len(rx_buf) + c
  <2>1. Len(rx_buf') = Len(rx_buf) + c
    BY <1>4, <1>6, <1>7
  <2>2. Len(coming') = Len(coming) - c
    BY <1>5
  <2>3. c \in Nat /\ Len(coming) \in Nat /\ Len(rx_buf) \in Nat
    BY <1>3
  <2> QED
    BY <2>1, <2>2, <2>3
<1>9. /\ Skipped + Len(rx_buf) + Len(coming) <= 5 * Len(requests)
      /\ \A i \in 1..Len(rx_buf) : rx_buf[i] = Answers(requests)[Skipped + i]
      /\ \A i \in 1..Len(coming) : coming[i] = Answers(requests)[Skipped + Len(rx_buf) + i]
  BY DEF InOrder, Heard, Aligned
<1>10. Aligned(rx_buf, Skipped)'
  <2>1. ASSUME NEW i \in 1..Len(rx_buf')
        PROVE  rx_buf'[i] = Answers(requests)[Skipped + i]
    <3>1. CASE i <= Len(rx_buf)
      BY <1>3, <1>6, <1>7, <1>9, <3>1
    <3>2. CASE i > Len(rx_buf)
      <4> DEFINE m == i - Len(rx_buf)
      <4>1. i \in 1..Len(rx_buf) + c
        BY <1>8
      <4>2. /\ m \in 1..c /\ m \in 1..Len(coming) /\ i = Len(rx_buf) + m
            /\ Skipped + i = Skipped + Len(rx_buf) + m
        BY <1>3, <3>2, <4>1
      <4> HIDE DEF m
      <4> QED
        BY <1>4, <1>6, <1>7, <1>9, <4>2
    <3> QED
      BY <1>3, <3>1, <3>2
  <2>2. Skipped + Len(rx_buf') <= 5 * Len(requests)
    BY <1>3, <1>8, <1>9
  <2> QED
    BY <1>1, <1>3, <2>1, <2>2 DEF Aligned
<1>11. Aligned(coming, Skipped + Len(rx_buf))'
  <2>1. ASSUME NEW i \in 1..Len(coming')
        PROVE  coming'[i] = Answers(requests)[Skipped + Len(rx_buf') + i]
    <3>1. /\ c + i \in 1..Len(coming)
          /\ Skipped + Len(rx_buf) + (c + i) = Skipped + Len(rx_buf') + i
      BY <1>3, <1>5, <1>8
    <3> QED
      BY <1>5, <1>9, <3>1
  <2>2. Skipped + Len(rx_buf') + Len(coming') <= 5 * Len(requests)
    BY <1>3, <1>5, <1>8, <1>9
  <2> QED
    BY <1>1, <1>3, <2>1, <2>2 DEF Aligned
<1>12. Unanswered'
  <2>1. Rest' = Rest
    BY <1>1 DEF Rest, Waiting
  <2>2. (Skipped + Len(rx_buf) + Len(coming))' = Skipped + Len(rx_buf) + Len(coming)
    BY <1>3, <1>5, <1>8
  <2> QED
    BY <1>1, <2>1, <2>2 DEF InOrder, Unanswered, Asked
<1>13. CleanStart' /\ Positions'
  BY <1>1 DEF InOrder, CleanStart, Positions
<1> QED
  BY <1>10, <1>11, <1>12, <1>13 DEF InOrder, Heard

\* A pass of handle_read takes m pieces from the front of rx_buf; when they
\* complete an answer, its request is removed (c = 1).
LEMMA HeardRead ==
    ASSUME TypeOK, Heard, NEW m \in 1..Len(rx_buf), NEW c \in {0, 1},
           Skipped' \in {0, 2, 3}, Skipped + m = Skipped' + 5 * c,
           rx_buf' = Drop(rx_buf, m), coming' = coming,
           requests' = Drop(requests, c), c <= Len(requests)
    PROVE  /\ Heard'
           /\ Len(requests') = Len(requests) - c
           /\ \A i \in 1..Len(requests') : requests'[i] = requests[c + i]
           /\ (Skipped + Len(rx_buf) + Len(coming))'
                  = Skipped + Len(rx_buf) + Len(coming) - 5 * c
<1>1. /\ rx_buf \in Seq(Piece) /\ coming \in Seq(Piece) /\ requests \in Seq(Path)
      /\ Len(rx_buf) \in Nat /\ Len(coming) \in Nat /\ Len(requests) \in Nat
      /\ Skipped \in {0, 2, 3}
  BY Lengths DEF TypeOK
<1>2. /\ Len(rx_buf') = Len(rx_buf) - m
      /\ \A i \in 1..Len(rx_buf') : rx_buf'[i] = rx_buf[m + i]
  <2>1. m \in Nat /\ m <= Len(rx_buf)
    BY <1>1
  <2> QED
    BY <1>1, <2>1, DropOf
<1>3. /\ requests' \in Seq(Path) /\ Len(requests') = Len(requests) - c
      /\ \A i \in 1..Len(requests') : requests'[i] = requests[c + i]
  <2>1. c \in Nat
    OBVIOUS
  <2> QED
    BY <1>1, <2>1, DropOf
<1>4. Len(requests') \in Nat /\ c + Len(requests') = Len(requests) /\ c \in Nat
  BY <1>1, <1>3
<1>5. \A j \in 1..5 * Len(requests') : Answers(requests')[j] = Answers(requests)[5 * c + j]
  <2>1. Len(requests') <= Len(requests') /\ c + Len(requests') <= Len(requests)
    BY <1>1, <1>4
  <2>2. requests \in Seq(Path) /\ requests' \in Seq(Path) /\ c \in Nat /\ Len(requests') \in Nat
    BY <1>1, <1>3, <1>4
  <2>3. \A i \in 1..Len(requests') : requests'[i] = requests[c + i]
    BY <1>3
  <2> QED
    BY <2>1, <2>2, <2>3, AnswersShift, ZenonT(30)
<1>6. /\ (Skipped + Len(rx_buf) + Len(coming))' = Skipped + Len(rx_buf) + Len(coming) - 5 * c
      /\ Skipped + Len(rx_buf) = Skipped' + Len(rx_buf') + 5 * c
      /\ Len(rx_buf') \in Nat /\ Skipped' \in Nat /\ m \in Nat
  <2>1. /\ Len(rx_buf) \in Nat /\ Len(coming) \in Nat /\ Skipped \in Nat /\ Skipped' \in Nat
        /\ m \in Nat /\ m <= Len(rx_buf)
    BY <1>1
  <2>2. Len(rx_buf') = Len(rx_buf) - m /\ coming' = coming
    BY <1>2
  <2>3. Len(rx_buf') \in Nat
    BY <2>1, <2>2
  <2>4. 5 * c \in Nat
    BY <1>4
  <2> DEFINE b == Len(rx_buf)
             b2 == Len(rx_buf')
             l == Len(coming)
             l2 == Len(coming')
             s == Skipped
             s2 == Skipped'
             z == 5 * c
  <2>5. /\ b \in Nat /\ b2 \in Nat /\ l \in Nat /\ s \in Nat /\ s2 \in Nat /\ z \in Nat
        /\ m \in Nat /\ b2 = b - m /\ l2 = l /\ s + m = s2 + z
    BY <2>1, <2>2, <2>3, <2>4
  <2> HIDE DEF b, b2, l, l2, s, s2, z
  <2>6. s2 + b2 + l2 = s + b + l - z /\ s + b = s2 + b2 + z
    BY <2>5
  <2> QED
    BY <2>1, <2>3, <2>6 DEF b, b2, l, l2, s, s2, z
<1>7. Skipped + Len(rx_buf) = Skipped' + Len(rx_buf') + 5 * c
  BY <1>6
<1> DEFINE n == 5 * Len(requests)
           n2 == 5 * Len(requests')
           z == 5 * c
           s2 == Skipped'
           b2 == Len(rx_buf')
<1>8. /\ n \in Nat /\ n2 \in Nat /\ z \in Nat /\ n = n2 + z /\ s2 \in Nat /\ b2 \in Nat
      /\ Skipped + Len(rx_buf) = s2 + b2 + z /\ Skipped + m = s2 + z
      /\ \A j \in 1..n2 : Answers(requests')[j] = Answers(requests)[z + j]
  <2>1. n \in Nat /\ n2 \in Nat /\ z \in Nat /\ n = n2 + z
    BY <1>1, <1>4
  <2>2. s2 \in Nat /\ b2 \in Nat /\ Skipped + Len(rx_buf) = s2 + b2 + z /\ Skipped + m = s2 + z
    BY <1>6, <1>7
  <2>3. \A j \in 1..n2 : Answers(requests')[j] = Answers(requests)[z + j]
    BY <1>5
  <2> QED
    BY <2>1, <2>2, <2>3
<1> HIDE DEF n, n2, z, s2, b2
<1>9. Aligned(rx_buf, Skipped)'
  <2>1. Skipped + Len(rx_buf) <= n
    BY DEF Heard, Aligned, n
  <2>2. s2 + b2 <= n2
    BY <1>1, <1>8, <2>1
  <2>3. ASSUME NEW i \in 1..b2
        PROVE  rx_buf'[i] = Answers(requests')[s2 + i]
    <3>1. m + i \in 1..Len(rx_buf) /\ rx_buf'[i] = rx_buf[m + i]
      BY <1>1, <1>2, SMTT(30) DEF b2
    <3>2. rx_buf'[i] = Answers(requests)[Skipped + (m + i)]
      BY <3>1 DEF Heard, Aligned
    <3>3. s2 + i \in 1..n2
      BY <1>8, <2>2
    <3>4. Skipped + (m + i) = z + (s2 + i)
      BY <1>1, <1>8
    <3> QED
      BY <1>8, <3>2, <3>3, <3>4
  <2> QED
    BY <2>2, <2>3 DEF Aligned, s2, b2, n2
<1>10. Aligned(coming, Skipped + Len(rx_buf))'
  <2> DEFINE k == s2 + b2
             l == Len(coming)
  <2>0. k \in Nat /\ l \in Nat /\ Skipped + Len(rx_buf) = k + z
    BY <1>1, <1>8
  <2>1. Skipped + Len(rx_buf) + l <= n
    BY DEF Heard, Aligned, n
  <2> HIDE DEF k, l
  <2>2. k + l <= n2
    BY <1>8, <2>0, <2>1
  <2>3. ASSUME NEW i \in 1..l
        PROVE  coming[i] = Answers(requests')[k + i]
    <3>1. coming[i] = Answers(requests)[Skipped + Len(rx_buf) + i]
      BY DEF Heard, Aligned, l
    <3>2. k + i \in 1..n2
      BY <1>8, <2>0, <2>2
    <3>3. Skipped + Len(rx_buf) + i = z + (k + i)
      BY <1>8, <2>0
    <3> QED
      BY <1>8, <3>1, <3>2, <3>3
  <2> QED
    BY <2>2, <2>3 DEF Aligned, k, l, s2, b2, n2
<1> QED
  BY <1>3, <1>6, <1>9, <1>10 DEF Heard

LEMMA OrderLine ==
    ASSUME TypeOK, InOrder, ReadLine
    PROVE  InOrder'
<1> USE DEF timerVars, aioVars
<1>1. /\ ReadsLine /\ ~ IsBlank /\ rx_buf' = Drop(rx_buf, LineEnd)
      /\ data_size' = IF IsLength THEN 2 ELSE data_size
      /\ UNCHANGED <<sock, coming, requests, tx_buf, receiving_data, req_pc, unsent, aio_pc,
                     sent, new_tx>>
  BY DEF ReadLine
<1>2. Skipped = 0 /\ LineEnd = 2 /\ IsLength /\ 2 \in 1..Len(rx_buf)
  BY <1>1, LengthLine DEF InOrder
<1>3. ~ receiving_data /\ ~ receiving_data' /\ data_size' = 2 /\ Skipped' = 2
  BY <1>1, <1>2 DEF ReadsLine, Skipped
<1>4. Drop(requests, 0) = requests
  BY DEF TypeOK, Drop
<1>5. /\ Heard'
      /\ (Skipped + Len(rx_buf) + Len(coming))' = Skipped + Len(rx_buf) + Len(coming) - 5 * 0
  <2>1. /\ Skipped + 2 = Skipped' + 5 * 0 /\ rx_buf' = Drop(rx_buf, 2)
        /\ 0 \in {0, 1} /\ Skipped' \in {0, 2, 3} /\ 0 <= Len(requests)
        /\ requests' = Drop(requests, 0) /\ coming' = coming
    BY <1>1, <1>2, <1>3, <1>4, Lengths
  <2>2. Heard
    BY DEF InOrder
  <2> QED
    BY <1>2, <2>1, <2>2, HeardRead
<1>6. (Skipped + Len(rx_buf) + Len(coming))' = Skipped + Len(rx_buf) + Len(coming)
  BY <1>5, Lengths
<1>7. Rest' = Rest /\ Asked' = Asked
  BY <1>1 DEF Rest, Waiting, Asked, Drop
<1>8. Unanswered'
  BY <1>1, <1>6, <1>7 DEF InOrder, Unanswered
<1>9. CleanStart'
  <2>1. rx_buf # <<>>
    BY <1>2
  <2> QED
    BY <1>1, <2>1 DEF InOrder, CleanStart
<1>10. Positions'
  BY <1>1, <1>3 DEF InOrder, Positions
<1> QED
  BY <1>5, <1>8, <1>9, <1>10 DEF InOrder

LEMMA OrderBlank ==
    ASSUME TypeOK, InOrder, ReadHeaderOnly
    PROVE  InOrder'
<1> USE DEF timerVars
<1>1. /\ ReadsLine /\ IsBlank /\ rx_buf' = Tail(rx_buf) /\ receiving_data' = TRUE
      /\ aio_pc = "read" /\ aio_pc' = "select"
      /\ UNCHANGED <<sock, coming, requests, tx_buf, data_size, req_pc, unsent, new_tx>>
  BY DEF ReadHeaderOnly, ReadsLine
<1>2. Skipped = 2 /\ data_size = 2 /\ 1 \in 1..Len(rx_buf) /\ rx_buf # <<>>
  BY <1>1, BlankLine DEF InOrder
<1>3. Skipped' = 3
  BY <1>1 DEF Skipped
<1>4. Drop(requests, 0) = requests /\ rx_buf' = Drop(rx_buf, 1)
  <2>1. Tail(rx_buf) = SubSeq(rx_buf, 2, Len(rx_buf))
    BY <1>2 DEF TypeOK
  <2> QED
    BY <1>1, <2>1 DEF TypeOK, Drop
<1>5. /\ Heard'
      /\ (Skipped + Len(rx_buf) + Len(coming))' = Skipped + Len(rx_buf) + Len(coming) - 5 * 0
  <2>1. /\ Skipped + 1 = Skipped' + 5 * 0 /\ rx_buf' = Drop(rx_buf, 1)
        /\ 0 \in {0, 1} /\ Skipped' \in {0, 2, 3} /\ 0 <= Len(requests)
        /\ requests' = Drop(requests, 0) /\ coming' = coming
    BY <1>1, <1>2, <1>3, <1>4, Lengths
  <2>2. Heard
    BY DEF InOrder
  <2> QED
    BY <1>2, <2>1, <2>2, HeardRead
<1>6. (Skipped + Len(rx_buf) + Len(coming))' = Skipped + Len(rx_buf) + Len(coming)
  BY <1>5, Lengths
<1>7. Rest' = Rest /\ Asked' = Asked
  BY <1>1 DEF Rest, Waiting, Asked
<1>8. Unanswered'
  BY <1>1, <1>6, <1>7 DEF InOrder, Unanswered
<1>9. CleanStart' /\ Positions'
  BY <1>1, <1>2 DEF InOrder, CleanStart, Positions
<1> QED
  BY <1>5, <1>8, <1>9 DEF InOrder

\* An answer is complete: it is that of the oldest request, which is removed.
LEMMA OrderDelivered ==
    ASSUME TypeOK, InOrder, NEW p \in Path, Deliver(p)
    PROVE  InOrder' /\ delivered'.to = delivered'.of
<1> USE DEF timerVars, aioVars
<1>1. PICK k \in 1..2 :
          /\ TakesBody(k) /\ requests # <<>> /\ p = WhoseAnswer
          /\ delivered' = IF Body(k) # <<>> /\ Body(k)[1].part = "body1"
                          THEN [to |-> p, of |-> OfWhich(Body(k))] ELSE delivered
  BY DEF Deliver
<1>2. /\ requests' = Tail(requests)
      /\ UNCHANGED <<sock, coming, tx_buf, req_pc, unsent, aio_pc, sent, new_tx>>
  BY DEF Deliver
<1>3. /\ BodyAt(k) /\ rx_buf' = Drop(rx_buf, k + data_size - 1)
      /\ receiving_data' = FALSE /\ data_size' = 0
  BY <1>1 DEF TakesBody
<1>4. /\ data_size = 2 /\ Skipped + k = 4 /\ k + 1 \in 1..Len(rx_buf)
      /\ Body(k) # <<>> /\ Body(k)[1].part = "body1" /\ OfWhich(Body(k)) = requests[1]
  BY <1>3, BodyOfOldest DEF InOrder
<1>5. delivered'.to = delivered'.of
  BY <1>1, <1>4 DEF WhoseAnswer
<1>6. Skipped' = 0
  BY <1>3 DEF Skipped
<1>7. /\ requests \in Seq(Path) /\ Len(requests) \in Nat /\ 1 <= Len(requests)
      /\ requests' = Drop(requests, 1)
  <2>1. requests \in Seq(Path)
    BY DEF TypeOK
  <2>2. Tail(requests) = SubSeq(requests, 2, Len(requests))
    BY <1>1, <2>1
  <2> QED
    BY <1>1, <1>2, <2>1, <2>2 DEF Drop
<1>8. /\ Heard' /\ Len(requests') = Len(requests) - 1
      /\ \A i \in 1..Len(requests') : requests'[i] = requests[1 + i]
      /\ (Skipped + Len(rx_buf) + Len(coming))' = Skipped + Len(rx_buf) + Len(coming) - 5 * 1
  <2>1. /\ Skipped + (k + 1) = Skipped' + 5 * 1 /\ rx_buf' = Drop(rx_buf, k + 1)
        /\ 1 \in {0, 1} /\ Skipped' \in {0, 2, 3} /\ 1 <= Len(requests)
        /\ requests' = Drop(requests, 1) /\ coming' = coming
    <3>1. k + data_size - 1 = k + 1
      BY <1>4
    <3> QED
      BY <1>2, <1>3, <1>4, <1>6, <1>7, <3>1, Lengths
  <2>2. Heard
    BY DEF InOrder
  <2> QED
    BY <1>4, <2>1, <2>2, HeardRead
<1>9. Unanswered'
  <2>1. SUFFICES ASSUME sock # "ended"
                 PROVE  /\ (Skipped + Len(rx_buf) + Len(coming))' = 5 * Asked'
                        /\ \A i \in 1..Len(Rest) : Rest[i] = requests'[Asked' + i]
    <3>1. Rest' = Rest
      BY <1>2 DEF Rest, Waiting, Drop
    <3> QED
      BY <1>2, <3>1 DEF Unanswered
  <2>2. Rest' = Rest
    BY <1>2 DEF Rest, Waiting, Drop
  <2>3. /\ Skipped + Len(rx_buf) + Len(coming) = 5 * Asked
        /\ \A i \in 1..Len(Rest) : Rest[i] = requests[Asked + i]
    BY <2>1 DEF InOrder, Unanswered
  <2>4. Asked + Len(Rest) = Len(requests) /\ Asked \in Int /\ Len(Rest) \in Nat
    BY RestType DEF Asked
  <2>5. Asked' = Asked - 1
    BY <1>7, <1>8, <2>2, <2>4 DEF Asked
  <2>6. Asked >= 1
    BY <1>4, <2>3, <2>4, Lengths, SMTT(30)
  <2>7. (Skipped + Len(rx_buf) + Len(coming))' = 5 * Asked'
    <3> DEFINE all == Skipped + Len(rx_buf) + Len(coming)
    <3>1. all' = all - 5 * 1
      <4>1. Skipped \in Int /\ Len(rx_buf) \in Int /\ Len(coming) \in Int
        BY Lengths
      <4> QED
        BY <1>8, <4>1
    <3>2. all = 5 * Asked
      BY <2>3
    <3> HIDE DEF all
    <3>3. Asked \in Int
      BY <2>4
    <3>4. all' = 5 * (Asked - 1)
      BY <3>1, <3>2, <3>3
    <3>5. all' = 5 * Asked'
      BY <2>5, <3>4
    <3> QED
      BY <3>5 DEF all
  <2>8. ASSUME NEW i \in 1..Len(Rest) PROVE Rest[i] = requests'[Asked' + i]
    <3>1. Asked' + i \in 1..Len(requests')
      BY <1>7, <1>8, <2>4, <2>5, <2>6
    <3>2. 1 + (Asked' + i) = Asked + i
      BY <2>4, <2>5
    <3>3. requests'[Asked' + i] = requests[1 + (Asked' + i)]
      BY <1>8, <3>1
    <3> QED
      BY <2>3, <3>2, <3>3
  <2> QED
    BY <2>7, <2>8
<1>10. CleanStart'
  <2>1. rx_buf # <<>>
    BY <1>4
  <2> QED
    BY <1>2, <2>1 DEF InOrder, CleanStart
<1>11. Positions'
  BY <1>2, <1>3 DEF InOrder, Positions
<1> QED
  BY <1>5, <1>8, <1>9, <1>10, <1>11 DEF InOrder

\* Steps that move nothing, and those that only lose what has not come.
LEMMA OrderOthers ==
    ASSUME TypeOK, InOrder,
           \/ ReadReturns \/ ConnectionMade \/ ConnectionRefused \/ PeerCloses
           \/ CallbackRaises /\ upset = {} /\ upset' = {}
    PROVE  InOrder'
<1> USE DEF readVars, timerVars, aioVars
<1>1. CASE ReadReturns
  <2>1. /\ UNCHANGED <<sock, coming, requests, tx_buf, rx_buf, receiving_data, data_size, req_pc,
                       unsent, new_tx>>
        /\ aio_pc = "read" /\ aio_pc' = "select"
    BY <1>1 DEF ReadReturns
  <2>2. Rest' = Rest
    BY <2>1 DEF Rest, Waiting
  <2>3. Heard' /\ Unanswered' /\ CleanStart'
    BY <2>1, <2>2, HeardSame, UnansweredSame, CleanStartSame DEF InOrder
  <2>4. Positions'
    BY <2>1 DEF InOrder, Positions
  <2> QED
    BY <2>3, <2>4 DEF InOrder
<1>2. CASE ConnectionMade \/ ConnectionRefused
  <2>1. /\ UNCHANGED <<coming, requests, tx_buf, rx_buf, receiving_data, data_size, req_pc,
                       unsent, aio_pc, sent, new_tx>>
        /\ sock = "connecting" /\ sock' \in {"connected", "refused"}
    BY <1>2 DEF ConnectionMade, ConnectionRefused
  <2>2. Rest' = Rest
    BY <2>1 DEF Rest, Waiting, Drop
  <2>3. Heard' /\ Unanswered' /\ CleanStart'
    BY <2>1, <2>2, HeardSame, UnansweredSame, CleanStartSame DEF InOrder
  <2>4. Positions'
    BY <2>1 DEF InOrder, Positions
  <2> QED
    BY <2>3, <2>4 DEF InOrder
<1>3. CASE PeerCloses
  <2>1. /\ sock' = "ended"
        /\ UNCHANGED <<requests, tx_buf, rx_buf, receiving_data, data_size, req_pc, unsent, aio_pc,
                       sent>>
    BY <1>3 DEF PeerCloses
  <2>2. PICK k \in 0..Len(coming) : coming' = SubSeq(coming, 1, k)
    BY <1>3 DEF PeerCloses
  <2>3. /\ coming \in Seq(Piece) /\ Len(coming) \in Nat /\ Len(rx_buf) \in Nat
        /\ Len(requests) \in Nat /\ Skipped \in {0, 2, 3} /\ Skipped' = Skipped
    BY <2>1, Lengths DEF TypeOK, Skipped
  <2>4. Len(coming') = k /\ \A i \in 1..k : coming'[i] = coming[i]
    BY <2>2, <2>3, SubSeqOf
  <2>5. Aligned(rx_buf, Skipped)'
    BY <2>1, <2>3 DEF InOrder, Heard, Aligned
  <2>6. Aligned(coming, Skipped + Len(rx_buf))'
    <3>1. Skipped + Len(rx_buf) + Len(coming) <= 5 * Len(requests)
      BY DEF InOrder, Heard, Aligned
    <3>2. Skipped + Len(rx_buf) + k <= 5 * Len(requests)
      BY <2>3, <3>1
    <3>3. \A i \in 1..k : coming[i] = Answers(requests)[Skipped + Len(rx_buf) + i]
      BY <2>3 DEF InOrder, Heard, Aligned
    <3> QED
      BY <2>1, <2>3, <2>4, <3>2, <3>3 DEF Aligned
  <2>7. Unanswered' /\ CleanStart'
    BY <2>1 DEF Unanswered, CleanStart
  <2>8. Positions'
    BY <2>1 DEF InOrder, Positions
  <2> QED
    BY <2>5, <2>6, <2>7, <2>8 DEF InOrder, Heard
<1>4. CASE CallbackRaises /\ upset = {} /\ upset' = {}
  <2>1. /\ sock = "refused" /\ sock' = "connecting" /\ coming' = <<>>
        /\ UNCHANGED <<requests, tx_buf, rx_buf, receiving_data, data_size, req_pc, unsent, aio_pc,
                       sent, new_tx>>
    BY <1>4 DEF CallbackRaises, HandleError
  <2>2. coming' = coming
    BY <2>1 DEF InOrder, CleanStart
  <2>3. Rest' = Rest
    BY <2>1 DEF Rest, Waiting, Drop
  <2>4. Heard' /\ Unanswered' /\ CleanStart'
    BY <2>1, <2>2, <2>3, HeardSame, UnansweredSame, CleanStartSame DEF InOrder
  <2>5. Positions'
    BY <2>1 DEF InOrder, Positions
  <2> QED
    BY <2>4, <2>5 DEF InOrder
<1> QED
  BY <1>1, <1>2, <1>3, <1>4
-----------------------------------------------------------------------------
(* The theorems.                                                           *)

LEMMA OrderStep ==
    ASSUME TypeOK, InOrder, Next, upset = {}, upset' = {}, sock' # "closed"
    PROVE  InOrder'
<1>1. CASE RequestSent
  BY <1>1, OrderSent
<1>2. CASE RequestKept
  BY <1>2, OrderKept
<1>3. CASE RequestLost \/ RequestRaises
  BY <1>3, OrderLost
<1>4. CASE RequestFails
  BY <1>4 DEF RequestFails, HandleClose
<1>5. CASE LoadTx \/ StoreTx
  BY <1>5, OrderLoad
<1>6. CASE HandleWrite
  BY <1>6, OrderWrite
<1>7. CASE TrimTx \/ TrimmedTx
  BY <1>7, OrderTrim
<1>8. CASE HandleRead
  BY <1>8, OrderReceived
<1>9. CASE HandleEof \/ WriteFails
  BY <1>9 DEF HandleEof, WriteFails, HandleClose
<1>10. CASE ReadLine
  BY <1>10, OrderLine
<1>11. CASE ReadHeaderOnly
  BY <1>11, OrderBlank
<1>12. ASSUME NEW p \in Path, Deliver(p) PROVE InOrder'
  BY <1>12, OrderDelivered
<1>13. CASE DeliverRaises
  BY <1>13 DEF DeliverRaises
<1>14. CASE ReadReturns \/ CallbackRaises \/ Network
  BY <1>14, OrderOthers DEF Network
<1> QED
  BY <1>1, <1>2, <1>3, <1>4, <1>5, <1>6, <1>7, <1>8, <1>9, <1>10, <1>11, <1>12, <1>13, <1>14
     DEF Next, Poll, Write, Read

\* A closed connection has nothing to read and stays closed, unless an
\* exception in a callback connects again.
LEMMA ClosedStep ==
    ASSUME TypeOK, ClosedEmpty, Next
    PROVE  ClosedEmpty'
<1> USE DEF timerVars, aioVars, readVars
<1>1. CASE sock # "closed"
  <2>1. sock' = "closed" => requests' = <<>> /\ rx_buf' = <<>> /\ receiving_data' = FALSE
    BY <1>1 DEF Next, Poll, Write, Read, Network, RequestSent, RequestKept, RequestLost,
       RequestFails, RequestRaises, LoadTx, StoreTx, HandleWrite, TrimTx, TrimmedTx, HandleRead,
       WriteFails, HandleEof, CallbackRaises, ReadLine, ReadHeaderOnly, Deliver, DeliverRaises,
       ReadReturns,
       ConnectionMade, ConnectionRefused, PeerCloses, HandleClose, HandleError
  <2> QED
    BY <2>1 DEF ClosedEmpty
<1>2. CASE sock = "closed"
  <2>1. requests = <<>> /\ rx_buf = <<>> /\ ~ receiving_data /\ Len(rx_buf) = 0
    BY <1>2 DEF ClosedEmpty
  <2>2. ~ HasLine
    BY <2>1 DEF HasLine, LineEnds
  <2>3. \A k : ~ BodyAt(k)
    BY <2>1, <2>2 DEF BodyAt, ReadsLine
  <2>4. ~ ReadLine /\ ~ ReadHeaderOnly /\ ~ DeliverRaises /\ \A p : ~ Deliver(p)
    BY <2>2, <2>3 DEF ReadLine, ReadHeaderOnly, DeliverRaises, Deliver, ReadsLine, TakesBody
  <2>5. UNCHANGED <<requests, rx_buf, receiving_data>> \/ HandleClose
    BY <1>2, <2>4 DEF Next, Poll, Write, Read, Network, RequestSent, RequestKept, RequestLost,
       RequestFails, RequestRaises, LoadTx, StoreTx, HandleWrite, TrimTx, TrimmedTx, HandleRead,
       WriteFails, HandleEof, CallbackRaises, ReadReturns, ConnectionMade, ConnectionRefused,
       PeerCloses
  <2> QED
    BY <2>1, <2>5 DEF ClosedEmpty, HandleClose
<1> QED
  BY <1>1, <1>2

\* A body is taken of an open connection only.
LEMMA BodyNeedsOpen ==
    ASSUME ClosedEmpty, NEW k, BodyAt(k)
    PROVE  sock # "closed"
<1>1. ASSUME sock = "closed" PROVE FALSE
  <2>1. rx_buf = <<>> /\ ~ receiving_data /\ Len(rx_buf) = 0
    BY <1>1 DEF ClosedEmpty
  <2>2. ~ HasLine
    BY <2>1 DEF HasLine, LineEnds
  <2> QED
    BY <2>1, <2>2 DEF BodyAt, ReadsLine
<1> QED
  BY <1>1

LEMMA MatchedStep ==
    ASSUME IInv, Next
    PROVE  Matched'
<1>1. SUFFICES ASSUME upset' = {} PROVE delivered'.to = delivered'.of
  BY DEF Matched
<1>2. upset = {}
  BY <1>1 DEF Next, Poll, Write, Read, Network, RequestSent, RequestKept, RequestLost,
     RequestFails, RequestRaises, LoadTx, StoreTx, HandleWrite, TrimTx, TrimmedTx, HandleRead,
     WriteFails, HandleEof, CallbackRaises, ReadLine, ReadHeaderOnly, Deliver, DeliverRaises,
     ReadReturns,
     ConnectionMade, ConnectionRefused, PeerCloses
<1>3. ASSUME NEW p \in Path, Deliver(p)
      PROVE  delivered'.to = delivered'.of
  <2>1. PICK k \in 1..2 : BodyAt(k)
    BY <1>3 DEF Deliver, TakesBody
  <2>2. sock # "closed"
    BY <2>1, BodyNeedsOpen DEF IInv
  <2> QED
    BY <1>2, <1>3, <2>2, OrderDelivered DEF IInv
<1>4. CASE delivered' = delivered
  BY <1>2, <1>4 DEF IInv, Matched
<1>5. delivered' = delivered \/ \E p \in Path : Deliver(p)
  BY DEF Next, Poll, Write, Read, Network, RequestSent, RequestKept, RequestLost,
     RequestFails, RequestRaises, LoadTx, StoreTx, HandleWrite, TrimTx, TrimmedTx, HandleRead,
     WriteFails, HandleEof, CallbackRaises, ReadLine, ReadHeaderOnly, DeliverRaises, ReadReturns,
     ConnectionMade, ConnectionRefused, PeerCloses
<1> QED
  BY <1>3, <1>4, <1>5

LEMMA InvStep ==
    ASSUME IInv, [Next]_vars
    PROVE  IInv'
<1>1. CASE Next
  <2>1. TypeOK' /\ ClosedEmpty' /\ Matched'
    BY <1>1, TypeStep, ClosedStep, MatchedStep DEF IInv
  <2>2. ASSUME upset' = {}, sock' # "closed" PROVE InOrder'
    <3>1. upset = {} /\ sock # "closed"
      BY <1>1, <2>2, Before DEF IInv
    <3> QED
      BY <1>1, <2>2, <3>1, OrderStep DEF IInv
  <2> QED
    BY <2>1, <2>2 DEF IInv
<1>2. CASE UNCHANGED vars
  <2>1. TypeOK' /\ ClosedEmpty' /\ Matched'
    BY <1>2, TypeStep DEF IInv, ClosedEmpty, Matched, vars, readVars
  <2>2. ASSUME upset' = {}, sock' # "closed" PROVE InOrder'
    <3>1. InOrder
      BY <1>2, <2>2 DEF IInv, vars
    <3>2. UNCHANGED <<sock, requests, rx_buf, coming, receiving_data, data_size, tx_buf, req_pc,
                      unsent, aio_pc, sent, new_tx>>
      BY <1>2 DEF vars, readVars, timerVars, aioVars
    <3>3. Rest' = Rest
      BY <3>2 DEF Rest, Waiting, Drop
    <3>4. Heard' /\ Unanswered' /\ CleanStart'
      BY <3>1, <3>2, <3>3, HeardSame, UnansweredSame, CleanStartSame DEF InOrder
    <3>5. Positions'
      BY <3>1, <3>2 DEF InOrder, Positions
    <3> QED
      BY <3>4, <3>5 DEF InOrder
  <2> QED
    BY <2>1, <2>2 DEF IInv
<1> QED
  BY <1>1, <1>2

LEMMA InvAlways == Spec => []IInv
<1>1. Init => IInv
  BY InvInit
<1>2. IInv /\ [Next]_vars => IInv'
  BY InvStep
<1> QED
  BY <1>1, <1>2, PTL DEF Spec

\* An answer goes to the list of the path it was asked for, in whatever
\* pieces it comes, as long as no exception and no race came between.
THEOREM AnswersMatched == Spec => []Matched
<1>1. IInv => Matched
  BY DEF IInv
<1> QED
  BY <1>1, InvAlways, PTL

LEMMA InvImpliesInStep ==
    ASSUME IInv
    PROVE  InStep
<1>1. SUFFICES ASSUME upset = {}, sock # "closed"
               PROVE  \E skip \in 0..4 :
                  /\ skip + Len(rx_buf \o coming) <= Len(Answers(requests))
                  /\ rx_buf \o coming =
                        SubSeq(Answers(requests), skip + 1, skip + Len(rx_buf \o coming))
                  /\ sock # "ended" =>
                        \E n \in 0..Len(requests) :
                            /\ skip + Len(rx_buf \o coming) = 5 * n
                            /\ Drop(requests, n) = Waiting \o unsent
  BY DEF InStep
<1>2. InOrder /\ TypeOK
  BY <1>1 DEF IInv
<1> DEFINE all == Answers(requests)
           come == rx_buf \o coming
           part == SubSeq(all, Skipped + 1, Skipped + Len(come))
<1>3. /\ requests \in Seq(Path) /\ Len(requests) \in Nat /\ Len(rx_buf) \in Nat
      /\ Len(coming) \in Nat /\ Skipped \in {0, 2, 3}
  BY <1>2, Lengths DEF TypeOK
<1>4. all \in Seq(Piece) /\ Len(all) = 5 * Len(requests)
  BY <1>3, AnswersType
<1>5. /\ come \in Seq(Piece) /\ Len(come) = Len(rx_buf) + Len(coming)
      /\ \A i \in 1..Len(rx_buf) : come[i] = rx_buf[i]
      /\ \A i \in 1..Len(coming) : come[Len(rx_buf) + i] = coming[i]
  BY <1>2, ConcatOf DEF TypeOK
<1>6. /\ \A i \in 1..Len(rx_buf) : rx_buf[i] = all[Skipped + i]
      /\ \A i \in 1..Len(coming) : coming[i] = all[Skipped + Len(rx_buf) + i]
      /\ Skipped + Len(rx_buf) + Len(coming) <= 5 * Len(requests)
  BY <1>2 DEF InOrder, Heard, Aligned
<1> HIDE DEF all, come
<1>7. Skipped + Len(come) <= Len(all) /\ Len(come) \in Nat
  BY <1>3, <1>4, <1>5, <1>6
<1>8. /\ part \in Seq(Piece) /\ Len(part) = Len(come)
      /\ \A i \in 1..Len(come) : part[i] = all[Skipped + i]
  <2> DEFINE m == Skipped + 1
             l == Skipped + Len(come)
  <2>1. m \in Nat \ {0} /\ l \in Nat /\ l <= Len(all) /\ m <= l + 1 /\ l - m + 1 = Len(come)
    BY <1>3, <1>7
  <2>2. \A i \in 1..Len(come) : m + i - 1 = Skipped + i
    BY <1>3, <1>7
  <2> HIDE DEF m, l
  <2>3. /\ SubSeq(all, m, l) \in Seq(Piece) /\ Len(SubSeq(all, m, l)) = l - m + 1
        /\ \A i \in 1..l - m + 1 : SubSeq(all, m, l)[i] = all[m + i - 1]
    BY <1>4, <2>1, SubSeqOf
  <2>4. \A i \in 1..Len(come) : SubSeq(all, m, l)[i] = all[Skipped + i]
    BY <2>1, <2>2, <2>3
  <2> QED
    BY <2>1, <2>3, <2>4 DEF m, l
<1> HIDE DEF part
<1>9. ASSUME NEW i \in 1..Len(come) PROVE come[i] = part[i]
  <2>1. CASE i <= Len(rx_buf)
    BY <1>3, <1>5, <1>6, <1>8, <2>1, SMTT(30)
  <2>2. CASE i > Len(rx_buf)
    <3> DEFINE m == i - Len(rx_buf)
    <3>1. /\ m \in 1..Len(coming) /\ i = Len(rx_buf) + m
          /\ Skipped + i = Skipped + Len(rx_buf) + m
      BY <1>3, <1>5, <2>2
    <3> HIDE DEF m
    <3> QED
      BY <1>5, <1>6, <1>8, <3>1
  <2> QED
    BY <1>3, <1>7, <2>1, <2>2
<1>10. come = part
  BY <1>5, <1>8, <1>9, SameSeq
<1>11. ASSUME sock # "ended"
       PROVE  \E n \in 0..Len(requests) :
                 Skipped + Len(come) = 5 * n /\ Drop(requests, n) = Waiting \o unsent
  <2>1. /\ Skipped + Len(rx_buf) + Len(coming) = 5 * Asked
        /\ \A i \in 1..Len(Rest) : Rest[i] = requests[Asked + i]
    BY <1>2, <1>11 DEF InOrder, Unanswered
  <2>2. Rest \in Seq(Path) /\ Len(Rest) \in Nat /\ Asked + Len(Rest) = Len(requests) /\ Asked \in Int
    BY <1>2, RestType DEF Asked
  <2>3. Skipped + Len(come) = 5 * Asked /\ Asked \in Nat /\ Asked <= Len(requests)
    <3>1. Skipped + Len(come) = Skipped + Len(rx_buf) + Len(coming)
      BY <1>3, <1>5
    <3>2. /\ Skipped \in Nat /\ Len(rx_buf) \in Nat /\ Len(coming) \in Nat /\ Len(requests) \in Nat
          /\ Asked \in Int /\ Len(Rest) \in Nat /\ Asked + Len(Rest) = Len(requests)
          /\ Skipped + Len(rx_buf) + Len(coming) = 5 * Asked
      BY <1>3, <2>1, <2>2
    <3>3. Asked \in Nat /\ Asked <= Len(requests)
      BY <3>2
    <3> QED
      BY <3>1, <3>2, <3>3
  <2>4. /\ Drop(requests, Asked) \in Seq(Path)
        /\ Len(Drop(requests, Asked)) = Len(requests) - Asked
        /\ \A i \in 1..Len(Drop(requests, Asked)) :
              Drop(requests, Asked)[i] = requests[Asked + i]
    BY <1>3, <2>3, DropOf
  <2>5. Len(Drop(requests, Asked)) = Len(Rest)
    BY <1>3, <2>2, <2>3, <2>4
  <2>6. Drop(requests, Asked) = Rest
    BY <2>1, <2>2, <2>4, <2>5, SameSeq
  <2> QED
    <3>1. Asked \in 0..Len(requests) /\ Skipped + Len(come) = 5 * Asked
      BY <1>3, <2>3
    <3>2. Drop(requests, Asked) = Waiting \o unsent
      BY <2>6 DEF Rest
    <3> QED
      BY <3>1, <3>2
<1>12. Skipped \in 0..4
  BY <1>3
<1> QED
  BY <1>7, <1>10, <1>11, <1>12 DEF all, come, part

\* requests is in step with the connection: what has come are the answers to
\* its oldest elements, in order and without a hole, and the others are those
\* that are still to be sent.
THEOREM RequestsInStep == Spec => []InStep
<1>1. IInv => InStep
  BY InvImpliesInStep
<1> QED
  BY <1>1, InvAlways, PTL
-----------------------------------------------------------------------------
(* The connection implements Exchange.                                     *)

\* What a step that neither raises nor races does to the deque.
LEMMA DequeStep ==
    ASSUME IInv, Next, upset' = {}
    PROVE  \/ UNCHANGED <<requests, delivered>> /\ (sock' = "closed" <=> sock = "closed")
           \/ /\ sock # "closed" /\ sock' # "closed"
              /\ requests' = Append(requests, turn) /\ turn \in Path
              /\ UNCHANGED delivered
           \/ /\ sock # "closed" /\ sock' # "closed" /\ requests # <<>>
              /\ delivered' = [to |-> requests[1], of |-> requests[1]]
              /\ requests' = Tail(requests)
           \/ /\ sock # "closed" /\ sock' = "closed" /\ requests' = <<>>
              /\ UNCHANGED delivered
<1> USE DEF timerVars, aioVars, readVars
<1>1. CASE RequestSent \/ RequestKept \/ RequestLost \/ RequestRaises
  BY <1>1 DEF RequestSent, RequestKept, RequestLost, RequestRaises, AtSend, Left, IInv, TypeOK
<1>2. CASE RequestFails \/ HandleEof \/ WriteFails
  <2>1. sock' = "closed" /\ requests' = <<>> /\ UNCHANGED delivered
    BY <1>2 DEF RequestFails, HandleEof, WriteFails, HandleClose
  <2> QED
    BY <2>1 DEF IInv, ClosedEmpty
<1>3. CASE LoadTx \/ StoreTx \/ HandleWrite \/ TrimTx \/ TrimmedTx \/ HandleRead \/ ReadLine
           \/ ReadHeaderOnly \/ ReadReturns \/ Network \/ CallbackRaises
  BY <1>3 DEF LoadTx, StoreTx, HandleWrite, TrimTx, TrimmedTx, HandleRead, ReadLine,
     ReadHeaderOnly, ReadReturns, Network, ConnectionMade, ConnectionRefused, PeerCloses,
     CallbackRaises, HandleError
<1>4. CASE DeliverRaises
  BY <1>4 DEF DeliverRaises
<1>5. ASSUME NEW p \in Path, Deliver(p)
      PROVE  /\ sock # "closed" /\ sock' # "closed" /\ requests # <<>>
             /\ delivered' = [to |-> requests[1], of |-> requests[1]]
             /\ requests' = Tail(requests)
  <2>1. PICK k \in 1..2 :
            /\ BodyAt(k) /\ p = WhoseAnswer /\ requests # <<>>
            /\ delivered' = IF Body(k) # <<>> /\ Body(k)[1].part = "body1"
                            THEN [to |-> p, of |-> OfWhich(Body(k))] ELSE delivered
    BY <1>5 DEF Deliver, TakesBody
  <2>2. sock # "closed" /\ sock' = sock /\ requests' = Tail(requests) /\ upset = {}
    BY <1>5, <2>1, BodyNeedsOpen DEF IInv, Deliver
  <2>3. TypeOK /\ Heard /\ Positions
    BY <2>2 DEF IInv, InOrder
  <2>4. Body(k) # <<>> /\ Body(k)[1].part = "body1" /\ OfWhich(Body(k)) = requests[1]
    BY <2>1, <2>3, BodyOfOldest
  <2> QED
    BY <2>1, <2>2, <2>4 DEF WhoseAnswer
<1> QED
  BY <1>1, <1>2, <1>3, <1>4, <1>5 DEF Next, Poll, Write, Read

LEMMA ExchangeStep ==
    ASSUME IInv, [Next]_vars
    PROVE  [Promise!Next]_(Promise!exchangeVars)
<1>1. CASE UNCHANGED vars
  BY <1>1 DEF vars, Promise!exchangeVars
<1>2. CASE Next /\ upset' # {}
  BY <1>2 DEF Promise!Next
<1>3. CASE Next /\ upset' = {}
  <2>1. upset = {}
    BY <1>3 DEF Next, Poll, Write, Read, Network, RequestSent, RequestKept, RequestLost,
       RequestFails, RequestRaises, LoadTx, StoreTx, HandleWrite, TrimTx, TrimmedTx, HandleRead,
       WriteFails, HandleEof, CallbackRaises, ReadLine, ReadHeaderOnly, Deliver, DeliverRaises,
       ReadReturns,
       ConnectionMade, ConnectionRefused, PeerCloses
  <2>2. (upset' # {}) = (upset # {})
    BY <1>3, <2>1
  <2>3. CASE UNCHANGED <<requests, delivered>> /\ (sock' = "closed" <=> sock = "closed")
    BY <2>2, <2>3 DEF Promise!exchangeVars
  <2>4. CASE /\ sock # "closed" /\ sock' # "closed"
             /\ requests' = Append(requests, turn) /\ turn \in Path /\ UNCHANGED delivered
    BY <2>2, <2>4 DEF Promise!Next, Promise!Ask
  <2>5. CASE /\ sock # "closed" /\ sock' # "closed" /\ requests # <<>>
             /\ delivered' = [to |-> requests[1], of |-> requests[1]]
             /\ requests' = Tail(requests)
    <3>1. Head(requests) = requests[1]
      BY <2>5 DEF IInv, TypeOK
    <3> QED
      BY <2>2, <2>5, <3>1 DEF Promise!Next, Promise!Answer
  <2>6. CASE sock # "closed" /\ sock' = "closed" /\ requests' = <<>> /\ UNCHANGED delivered
    BY <2>2, <2>6 DEF Promise!Next, Promise!Close
  <2> QED
    BY <1>3, <2>3, <2>4, <2>5, <2>6, DequeStep
<1> QED
  BY <1>1, <1>2, <1>3

\* The connection keeps its promise: the requests are answered one by one,
\* the oldest first, over refused connections too, until it is closed.
THEOREM ClientImplementsExchange == Spec => ExchangeSafety
<1>1. Init => Promise!Init
  BY DEF Init, Promise!Init
<1>2. IInv /\ [Next]_vars => [Promise!Next]_(Promise!exchangeVars)
  BY ExchangeStep
<1> QED
  BY <1>1, <1>2, InvAlways, PTL DEF Spec, ExchangeSafety, Promise!Spec
=============================================================================
