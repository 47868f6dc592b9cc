-------------------------- MODULE StatsRelayProofs --------------------------
(***************************************************************************)
(* Proofs about StatsRelay, for every table size and every bound.          *)
(***************************************************************************)
EXTENDS StatsRelay, SequenceTheorems, TLAPS

\* A slice s[k:] is the list without its first SliceStart elements.
LEMMA SliceElements ==
  ASSUME NEW S, NEW s \in Seq(S), NEW k \in Int
  PROVE  /\ SliceStart(Len(s), k) \in 0..Len(s)
         /\ Slice(s, k) \in Seq(S)
         /\ Len(Slice(s, k)) = Len(s) - SliceStart(Len(s), k)
         /\ \A i \in 1..Len(Slice(s, k)) :
               Slice(s, k)[i] = s[i + SliceStart(Len(s), k)]
<1> DEFINE d == SliceStart(Len(s), k)
<1>1. d \in 0..Len(s)
  BY DEF SliceStart
<1> HIDE DEF d
<1>2. \A i \in d + 1 .. Len(s) : s[i] \in S
  BY <1>1
<1>3. /\ SubSeq(s, d + 1, Len(s)) \in Seq(S)
      /\ Len(SubSeq(s, d + 1, Len(s))) = Len(s) - d
      /\ \A i \in 1..(Len(s) - d) : SubSeq(s, d + 1, Len(s))[i] = s[i + d]
  BY <1>1, <1>2
<1>4. Slice(s, k) = SubSeq(s, d + 1, Len(s))
  BY DEF Slice, d
<1> QED
  BY <1>1, <1>3, <1>4 DEF d

\* A slice with something in it ends where the list ends.
LEMMA SliceEnd ==
  ASSUME NEW S, NEW s \in Seq(S), NEW k \in Int, Slice(s, k) # <<>>
  PROVE  s # <<>> /\ End(Slice(s, k)) = End(s)
<1> DEFINE t == Slice(s, k)
           d == SliceStart(Len(s), k)
<1>1. /\ d \in 0..Len(s) /\ t \in Seq(S) /\ Len(t) = Len(s) - d
      /\ \A i \in 1..Len(t) : t[i] = s[i + d]
  BY SliceElements
<1>2. t # <<>>
  OBVIOUS
<1> HIDE DEF t, d
<1>3. Len(t) \in 1..Len(t) /\ Len(t) + d = Len(s)
  BY <1>1, <1>2
<1>4. t[Len(t)] = s[Len(s)] /\ s # <<>>
  BY <1>1, <1>3
<1> QED
  BY <1>2, <1>4 DEF End, t

\* A slice of an increasing list is increasing.
LEMMA SliceIncreasing ==
  ASSUME NEW s \in Seq(Int), NEW k \in Int, Increasing(s)
  PROVE  Increasing(Slice(s, k))
<1> DEFINE t == Slice(s, k)
           d == SliceStart(Len(s), k)
<1>1. /\ d \in 0..Len(s) /\ t \in Seq(Int) /\ Len(t) = Len(s) - d
      /\ \A i \in 1..Len(t) : t[i] = s[i + d]
  BY SliceElements
<1> HIDE DEF t, d
<1>2. ASSUME NEW i \in 1..Len(t), NEW j \in 1..Len(t), i < j
      PROVE  t[j] - t[i] >= j - i
  <2>0. Len(s) \in Nat /\ Len(t) \in Nat /\ d \in Nat
    BY <1>1
  <2>1. i + d \in 1..Len(s) /\ j + d \in 1..Len(s) /\ i + d < j + d
    BY <1>1, <1>2, <2>0
  <2>2. s[j + d] - s[i + d] >= (j + d) - (i + d)
    BY <2>1 DEF Increasing
  <2>3. s[j + d] \in Int /\ s[i + d] \in Int
    BY <2>1
  <2> QED
    BY <1>1, <2>2, <2>3
<1> QED
  BY <1>2 DEF Increasing, t

\* "del s[:-n]" keeps at most n elements, the last one among them.
LEMMA KeepLastLemma ==
  ASSUME NEW S, NEW s \in Seq(S), NEW n \in Nat \ {0}
  PROVE  /\ KeepLast(s, n) \in Seq(S)
         /\ Len(KeepLast(s, n)) <= n
         /\ Len(KeepLast(s, n)) <= Len(s)
         /\ s # <<>> => KeepLast(s, n) # <<>>
         /\ End(KeepLast(s, n)) = End(s)
<1>1. SliceStart(Len(s), -n) = IF Len(s) <= n THEN 0 ELSE Len(s) - n
  BY DEF SliceStart
<1>2. /\ Slice(s, -n) \in Seq(S)
      /\ Len(Slice(s, -n)) = Len(s) - SliceStart(Len(s), -n)
  BY SliceElements, -n \in Int
<1>3. Len(Slice(s, -n)) <= n /\ Len(Slice(s, -n)) <= Len(s)
  BY <1>1, <1>2
<1>4. ASSUME s # <<>> PROVE Slice(s, -n) # <<>>
  <2>1. Len(s) > 0
    BY <1>4
  <2>2. Len(Slice(s, -n)) > 0
    BY <1>1, <1>2, <2>1
  <2> QED
    BY <2>2
<1>5. CASE s = <<>>
  <2>1. Len(Slice(s, -n)) = 0
    BY <1>1, <1>2, <1>5
  <2>2. Slice(s, -n) = <<>>
    BY <1>2, <2>1
  <2> QED
    BY <1>2, <1>3, <1>5, <2>2 DEF KeepLast, End
<1>6. CASE s # <<>>
  BY <1>2, <1>3, <1>4, <1>6, SliceEnd, -n \in Int DEF KeepLast
<1> QED
  BY <1>5, <1>6

\* Appending what an answer has beyond the end of the list keeps the list
\* increasing: the heart of client.combine_bs.
LEMMA ConcatIncreasing ==
  ASSUME NEW old \in SampleList, NEW new \in SampleList,
         old # <<>>, new # <<>>, Increasing(old), Increasing(new)
  PROVE  LET add == Slice(new, Larger(End(old) + 1 - Head(new), 0))
         IN  /\ old \o add \in SampleList
             /\ Increasing(old \o add)
             /\ old \o add # <<>>
             /\ add = <<>>  => End(old \o add) = End(old)
             /\ add # <<>> => End(old \o add) = End(new) /\ End(old) < End(new)
<1> DEFINE k == Larger(End(old) + 1 - Head(new), 0)
           add == Slice(new, k)
           all == old \o add
           m == Len(old)
           d == SliceStart(Len(new), k)
<1>1. m \in Nat /\ m >= 1 /\ Len(new) \in Nat /\ Len(new) >= 1
  BY DEF SampleList
<1>2. /\ \A i \in 1..m : old[i] \in 1..MaxIdx /\ old[i] \in Int
      /\ \A i \in 1..Len(new) : new[i] \in 1..MaxIdx /\ new[i] \in Int
  BY ConstantsAssumption DEF SampleList
<1>3. Head(new) = new[1] /\ End(old) = old[m]
  BY <1>1 DEF SampleList, End
<1>4. End(old) \in Int /\ Head(new) \in Int
  BY <1>1, <1>2, <1>3
<1>5. k \in Nat /\ k >= End(old) + 1 - Head(new)
  BY <1>4 DEF Larger
<1> HIDE DEF k
<1>6. /\ d \in 0..Len(new) /\ add \in SampleList /\ Len(add) = Len(new) - d
      /\ \A i \in 1..Len(add) : add[i] = new[i + d]
  <2>1. k \in Int /\ new \in Seq(1..MaxIdx)
    BY <1>5 DEF SampleList
  <2> QED
    BY <2>1, SliceElements DEF SampleList
<1>7. add # <<>> => d = k
  BY <1>1, <1>5, <1>6 DEF SliceStart
<1> HIDE DEF d, add
<1>9. Len(add) \in Nat
  BY <1>6 DEF SampleList
<1>8. /\ all \in SampleList /\ Len(all) = m + Len(add)
      /\ \A i \in 1..m : all[i] = old[i]
      /\ \A i \in 1..Len(add) : all[m + i] = add[i]
  <2>1. /\ old \in Seq(1..MaxIdx) /\ add \in Seq(1..MaxIdx)
    BY <1>6 DEF SampleList
  <2>2. /\ all \in SampleList /\ Len(all) = m + Len(add)
        /\ \A i \in 1..m + Len(add) : all[i] = IF i <= m THEN old[i] ELSE add[i - m]
    BY <2>1, ConcatProperties DEF SampleList
  <2>3. \A i \in 1..Len(add) : m + i \in 1..m + Len(add) /\ ~(m + i <= m) /\ (m + i) - m = i
    BY <1>1, <1>9
  <2>4. \A i \in 1..m : i \in 1..m + Len(add) /\ i <= m
    BY <1>1, <1>9
  <2> HIDE DEF all, m
  <2> QED
    BY <2>2, <2>3, <2>4
<1> HIDE DEF all
\* a new element is as far beyond the old end as its position in add
<1>10. ASSUME NEW i \in 1..Len(add)
       PROVE  add[i] \in Int /\ add[i] - End(old) >= i
  <2>1. add # <<>>
    BY <1>9
  <2>2. i + d \in 1..Len(new) /\ 1 \in 1..Len(new) /\ d \in Nat
    BY <1>1, <1>6, <1>9
  <2>3. new[i + d] - new[1] >= i + d - 1
    BY <2>2, <1>2 DEF Increasing
  <2>4. new[i + d] \in Int /\ add[i] = new[i + d]
    BY <2>2, <1>2, <1>6
  <2>5. d >= End(old) + 1 - Head(new)
    BY <1>5, <1>7, <2>1
  <2>6. new[i + d] - Head(new) >= i + d - 1
    BY <1>3, <2>3
  <2> QED
    BY <1>4, <2>2, <2>4, <2>5, <2>6, SMTT(30)
<1>11. ASSUME NEW i \in 1..Len(add), NEW j \in 1..Len(add), i < j
       PROVE  add[j] - add[i] >= j - i
  <2>1. i + d \in 1..Len(new) /\ j + d \in 1..Len(new) /\ i + d < j + d /\ d \in Nat
    BY <1>1, <1>6, <1>9, <1>11
  <2>2. new[j + d] - new[i + d] >= (j + d) - (i + d)
    BY <2>1 DEF Increasing
  <2> QED
    BY <1>2, <1>6, <2>1, <2>2
<1>12. ASSUME NEW i \in 1..m PROVE End(old) - old[i] >= m - i /\ old[i] \in Int
  BY <1>1, <1>2, <1>3, <1>4 DEF Increasing
<1>13. ASSUME NEW i \in 1..Len(all), NEW j \in 1..Len(all), i < j
       PROVE  all[j] - all[i] >= j - i
  <2>1. CASE j <= m
    <3>1. i \in 1..m /\ j \in 1..m
      BY <1>1, <1>8, <1>9, <1>13, <2>1
    <3> QED
      BY <3>1, <1>8, <1>13 DEF Increasing
  <2>2. CASE i > m
    <3>1. i - m \in 1..Len(add) /\ j - m \in 1..Len(add) /\ i - m < j - m
      BY <1>1, <1>8, <1>9, <1>13, <2>2
    <3>2. add[j - m] - add[i - m] >= (j - m) - (i - m)
      BY <3>1, <1>11
    <3>3. all[m + (i - m)] = add[i - m] /\ all[m + (j - m)] = add[j - m]
      BY <3>1, <1>8
    <3>4. m + (i - m) = i /\ m + (j - m) = j /\ (j - m) - (i - m) = j - i
      BY <1>1, <1>8, <1>9
    <3> QED
      BY <3>2, <3>3, <3>4
  <2>3. CASE i <= m /\ j > m
    <3>1. i \in 1..m /\ j - m \in 1..Len(add)
      BY <1>1, <1>8, <1>9, <1>13, <2>3
    <3>5. m + (j - m) = j /\ j \in Int
      BY <1>1, <1>8, <1>9
    <3>2. all[m + (j - m)] = add[j - m] /\ all[i] = old[i]
      BY <3>1, <1>8
    <3>3. add[j - m] - End(old) >= j - m /\ End(old) - old[i] >= m - i
      BY <3>1, <1>10, <1>12
    <3>4. add[j - m] \in Int /\ old[i] \in Int /\ i \in Int
      BY <3>1, <1>10, <1>12
    <3>6. add[j - m] - old[i] >= (j - m) + (m - i)
      <4>1. j - m \in Int /\ m - i \in Int
        BY <1>1, <3>4, <3>5
      <4>2. \A a, b, e, x, y \in Int : a - e >= x /\ e - b >= y => a - b >= x + y
        OBVIOUS
      <4> QED
        BY <1>4, <3>3, <3>4, <4>1, <4>2
    <3>7. (j - m) + (m - i) = j - i
      BY <1>1, <3>4, <3>5
    <3> QED
      BY <3>2, <3>5, <3>6, <3>7
  <2> QED
    BY <1>1, <1>8, <1>9, <2>1, <2>2, <2>3
<1>14. all # <<>> /\ End(all) = all[Len(all)]
  BY <1>1, <1>8, <1>9 DEF End
<1>15. CASE add = <<>>
  BY <1>1, <1>3, <1>8, <1>9, <1>13, <1>14, <1>15 DEF Increasing, add, k, all
<1>16. CASE add # <<>>
  <2>1. Len(add) \in 1..Len(add)
    BY <1>6, <1>9, <1>16 DEF SampleList
  <2>2. End(all) = add[Len(add)] /\ add[Len(add)] = End(add)
    BY <1>8, <1>14, <1>16, <2>1 DEF End
  <2>3. End(add) = End(new)
    BY <1>5, <1>16, SliceEnd DEF SampleList, add
  <2>4. End(old) < End(new)
    BY <1>4, <1>10, <2>1, <2>2, <2>3
  <2> QED
    BY <1>8, <1>13, <1>14, <1>16, <2>2, <2>3, <2>4 DEF Increasing, add, k, all
<1> QED
  BY <1>15, <1>16

LEMMA EndRange ==
  ASSUME NEW s \in SampleList
  PROVE  /\ End(s) \in 0..MaxIdx
         /\ s # <<>> => End(s) \in 1..MaxIdx /\ End(s) = s[Len(s)] /\ Len(s) \in 1..Len(s)
         /\ s = <<>> => End(s) = 0
         /\ Len(s) \in Nat
         /\ \A i \in 1..Len(s) : s[i] \in 1..MaxIdx /\ (Increasing(s) => s[i] <= End(s))
<1>1. Len(s) \in Nat /\ (s # <<>> => Len(s) \in 1..Len(s))
  BY DEF SampleList
<1>2. \A i \in 1..Len(s) : s[i] \in 1..MaxIdx
  BY ElementOfSeq DEF SampleList
<1>3. s # <<>> => End(s) \in 1..MaxIdx /\ End(s) = s[Len(s)]
  BY <1>1, <1>2 DEF End
<1>4. s = <<>> => End(s) = 0
  BY DEF End
<1>5. ASSUME NEW i \in 1..Len(s), Increasing(s)
      PROVE  s[i] <= End(s)
  <2>1. s # <<>>
    BY <1>1, <1>5
  <2>2. CASE i = Len(s)
    BY <1>2, <1>3, <2>1, <2>2, ConstantsAssumption
  <2>3. CASE i < Len(s)
    <3>1. s[Len(s)] - s[i] >= Len(s) - i
      BY <1>1, <2>1, <2>3, <1>5 DEF Increasing
    <3>2. s[i] \in Int /\ s[Len(s)] \in Int
      BY <1>1, <1>2, <2>1, ConstantsAssumption
    <3> QED
      BY <1>1, <1>3, <2>1, <2>3, <3>1, <3>2
  <2> QED
    BY <1>1, <2>2, <2>3
<1> QED
  BY <1>1, <1>2, <1>3, <1>4, <1>5, ConstantsAssumption

\* client.combine_bs ends its list with its old end or with the answer's.
LEMMA CombineBSLemma ==
  ASSUME NEW old \in SampleList, NEW new \in SampleList,
         new # <<>>, Increasing(old), Increasing(new)
  PROVE  /\ CombineBS(old, new) \in SampleList
         /\ Len(CombineBS(old, new)) <= NB_QUEUE_SIZE
         /\ CombineBS(old, new) # <<>>
         /\ Increasing(CombineBS(old, new))
         /\ End(old) <= End(CombineBS(old, new))
         /\ End(CombineBS(old, new)) \in {End(old), End(new)}
         /\ old = <<>> => End(CombineBS(old, new)) = End(new)
<1> DEFINE all == IF old = <<>> THEN new
                  ELSE old \o Slice(new, Larger(End(old) + 1 - Head(new), 0))
<1>1. /\ all \in SampleList /\ all # <<>> /\ Increasing(all)
      /\ End(old) <= End(all) /\ End(all) \in {End(old), End(new)}
      /\ old = <<>> => End(all) = End(new)
  <2>1. End(old) \in 0..MaxIdx /\ End(new) \in 0..MaxIdx /\ (old = <<>> => End(old) = 0)
    BY EndRange
  <2>2. CASE old = <<>>
    BY <2>1, <2>2, ConstantsAssumption
  <2>3. CASE old # <<>>
    BY <2>1, <2>3, ConcatIncreasing, ConstantsAssumption
  <2> QED
    BY <2>2, <2>3
<1> HIDE DEF all
<1>2. CombineBS(old, new) = KeepLast(all, NB_QUEUE_SIZE)
  BY DEF CombineBS, all
<1>3. all \in Seq(1..MaxIdx) /\ all \in Seq(Int) /\ NB_QUEUE_SIZE \in Nat \ {0}
  BY <1>1, ConstantsAssumption DEF SampleList
<1>4. Increasing(KeepLast(all, NB_QUEUE_SIZE))
  BY <1>1, <1>3, SliceIncreasing, -NB_QUEUE_SIZE \in Int DEF KeepLast
<1> QED
  BY <1>1, <1>2, <1>3, <1>4, KeepLastLemma DEF SampleList
-----------------------------------------------------------------------------
(* The inductive invariant.                                                *)

LEMMA InitInv == Init => IInv
<1> SUFFICES ASSUME Init PROVE IInv
  OBVIOUS
<1>1. TypeOK
  <2>1. <<>> \in SampleList /\ Len(<<>>) = 0 /\ <<>> \in Seq(0..MaxIdx) /\ <<>> \in Seq(SampleList)
    BY DEF SampleList
  <2>2. 1 \in 1..MaxIdx + 1 /\ 0 \in 0..MaxIdx
    BY ConstantsAssumption
  <2>3. part \in BOOLEAN
    BY Zenon DEF Init
  <2>4. idx \in 1..MaxIdx + 1 /\ Len(states) <= NS_QUEUE_SIZE + (IF run_pc = "trim" THEN 1 ELSE 0)
    BY <2>1, <2>2, ConstantsAssumption DEF Init
  <2>5. Len(nb_state) <= NB_QUEUE_SIZE /\ Len(taken) <= NB_QUEUE_SIZE
    BY <2>1, ConstantsAssumption DEF Init
  <2> QED
    BY <2>1, <2>2, <2>3, <2>4, <2>5 DEF Init, TypeOK
<1>2. StatesInv /\ ServeInv /\ RepliesInv /\ NewInv /\ TakenInv
  BY ConstantsAssumption DEF Init, StatesInv, ServeInv, RepliesInv, NewInv, TakenInv,
    ListsIncreasing, LiNotBehind, NumEntriesPositive, PollCovered, RoundAccounts,
    Held, Increasing, End, Larger
<1> QED
  BY <1>1, <1>2 DEF IInv

LEMMA TypeStep == IInv /\ [Next]_vars => TypeOK'
<1> SUFFICES ASSUME IInv, [Next]_vars PROVE TypeOK'
  OBVIOUS
<1> USE ConstantsAssumption
<1> USE DEF runVars, netVars, httpVars, readVars, takeVars
<1>0. TypeOK /\ StatesInv /\ ServeInv /\ NewInv /\ TakenInv
  BY DEF IInv
<1>1. CASE AppendEntry
  BY <1>0, <1>1 DEF AppendEntry, TypeOK, SampleList
<1>2. CASE TrimStates
  <2>1. KeepLast(states, NS_QUEUE_SIZE) \in SampleList
        /\ Len(KeepLast(states, NS_QUEUE_SIZE)) <= NS_QUEUE_SIZE
    BY <1>0, KeepLastLemma DEF TypeOK, SampleList
  <2>2. idx <= MaxIdx
    BY <1>0, <1>2 DEF TrimStates, StatesInv
  <2> QED
    BY <1>0, <1>2, <2>1, <2>2 DEF TrimStates, TypeOK
<1>3. CASE ReadLength
  <2>0. gets \in Seq(0..MaxIdx) /\ gets # <<>> /\ replies \in Seq(SampleList)
        /\ <<>> \in SampleList /\ states \in Seq(1..MaxIdx)
    BY <1>0, <1>3 DEF ReadLength, TypeOK, SampleList
  <2>1. /\ Tail(gets) \in Seq(0..MaxIdx) /\ Head(gets) \in 0..MaxIdx
        /\ Append(replies, <<>>) \in Seq(SampleList) /\ Len(states) \in Nat
    BY <2>0
  <2>2. CASE states = <<>>
    BY <1>0, <1>3, <2>1, <2>2 DEF ReadLength, TypeOK
  <2>3. CASE states # <<>>
    BY <1>0, <1>3, <2>1, <2>3 DEF ReadLength, TypeOK
  <2> QED
    BY <2>2, <2>3
<1>4. CASE ReadOldest
  <2>1. states[1] \in 1..MaxIdx
    BY <1>0, <1>4 DEF ReadOldest, TypeOK, SampleList, ServeInv
  <2>2. Larger(states[1], oldest_idx) \in 0..MaxIdx
    BY <1>0, <2>1 DEF TypeOK, Larger
  <2> QED
    BY <1>0, <1>4, <2>2 DEF ReadOldest, TypeOK
<1>5. CASE ReadNewest
  <2>0. l \in 1..Len(states)
    BY <1>0, <1>5 DEF ReadNewest, TypeOK, SampleList, ServeInv
  <2>1. states[l] \in 1..MaxIdx
    BY <1>0, <2>0, ElementOfSeq DEF TypeOK, SampleList
  <2>2. num_entries' \in Int
    BY <1>0, <1>5, <2>1 DEF ReadNewest, TypeOK
  <2> QED
    BY <1>0, <1>5, <2>2 DEF ReadNewest, TypeOK
<1>6. CASE NewestMissing
  BY <1>0, <1>6 DEF NewestMissing, IndexReturns, TypeOK, SampleList
<1>7. CASE SendReply
  <2>1. Slice(states, -num_entries) \in SampleList
    BY <1>0, SliceElements, -num_entries \in Int DEF TypeOK, SampleList
  <2> QED
    BY <1>0, <1>7, <2>1 DEF SendReply, IndexReturns, TypeOK
<1>8. CASE Poll
  BY <1>0, <1>8 DEF Poll, TypeOK
<1>9. CASE ReadReply
  <2>1. Tail(replies) \in Seq(SampleList) /\ Head(replies) \in SampleList
    BY <1>0, <1>9 DEF ReadReply, TypeOK
  <2> QED
    BY <1>0, <1>9, <2>1 DEF ReadReply, TypeOK
<1>10. CASE Combine
  <2>1. new_lst # <<>> /\ Increasing(new_lst) /\ Increasing(nb_state) /\ Increasing(taken)
    BY <1>0, <1>10 DEF Combine, NewInv, TakenInv, ListsIncreasing
  <2>2. \A s \in {nb_state, taken} : /\ CombineBS(s, new_lst) \in SampleList
                                     /\ Len(CombineBS(s, new_lst)) <= NB_QUEUE_SIZE
    BY <1>0, <2>1, CombineBSLemma DEF TypeOK
  <2> QED
    BY <1>0, <1>10, <2>2 DEF Combine, TypeOK
<1>11. CASE CheckState
  BY <1>0, <1>11 DEF CheckState, TypeOK, SampleList
<1>12. CASE Mark
  <2>1. End(nb_state) \in 0..MaxIdx /\ <<>> \in SampleList
    BY <1>0, EndRange DEF TypeOK, SampleList
  <2> QED
    BY <1>0, <1>12, <2>1 DEF Mark, TypeOK
<1>13. CASE MarkFails
  <2>1. replies' \in Seq(SampleList) /\ <<>> \in SampleList
    BY <1>0, <1>13 DEF MarkFails, TypeOK, SampleList
  <2>2. part' \in BOOLEAN
    BY <1>0, <1>13 DEF MarkFails, TypeOK
  <2> QED
    BY <1>0, <1>13, <2>1, <2>2 DEF MarkFails, IndexReturns, TypeOK
<1>14. CASE TakeStates
  BY <1>0, <1>14 DEF TakeStates, TypeOK, SampleList
<1>15. CASE ReadLast
  <2>1. End(taken) \in 0..MaxIdx
    BY <1>0, EndRange DEF TypeOK
  <2> QED
    BY <1>0, <1>15, <2>1 DEF ReadLast, TypeOK
<1>16. CASE SkipSeen
  <2>1. last_idx - li \in Int /\ taken \in Seq(1..MaxIdx)
    BY <1>0 DEF TypeOK, SampleList
  <2>2. /\ Slice(taken, last_idx - li) \in SampleList
        /\ Len(Slice(taken, last_idx - li)) <= Len(taken)
    BY <2>1, SliceElements DEF SampleList
  <2>3. Len(Slice(taken, last_idx - li)) <= NB_QUEUE_SIZE
    BY <1>0, <2>2 DEF TypeOK, SampleList
  <2> QED
    BY <1>0, <1>16, <2>2, <2>3 DEF SkipSeen, TypeOK
<1>17. CASE CombineEntries
  BY <1>0, <1>17 DEF CombineEntries, TypeOK, SampleList
<1>18. CASE UNCHANGED vars
  BY <1>0, <1>18 DEF vars, TypeOK
<1> QED
  BY <1>1, <1>2, <1>3, <1>4, <1>5, <1>6, <1>7, <1>8, <1>9, <1>10, <1>11, <1>12,
     <1>13, <1>14, <1>15, <1>16, <1>17, <1>18 DEF Next, Measure, Serve, Receive, Account

\* Appending a newer sample keeps a list increasing.
LEMMA AppendIncreasing ==
  ASSUME NEW s \in SampleList, NEW e \in 1..MaxIdx, Increasing(s), End(s) < e
  PROVE  /\ Increasing(Append(s, e))
         /\ End(Append(s, e)) = e /\ Append(s, e) # <<>>
         /\ Len(Append(s, e)) = Len(s) + 1
         /\ \A i \in 1..Len(s) : Append(s, e)[i] = s[i]
         /\ Append(s, e)[Len(s) + 1] = e
<1> DEFINE t == Append(s, e)
<1>1. /\ Len(s) \in Nat /\ Len(t) = Len(s) + 1 /\ t # <<>>
      /\ t[Len(s) + 1] = e /\ \A i \in 1..Len(s) : t[i] = s[i]
  BY DEF SampleList
<1> HIDE DEF t
<1>2. ASSUME NEW i \in 1..Len(t), NEW j \in 1..Len(t), i < j
      PROVE  t[j] - t[i] >= j - i
  <2>1. i \in 1..Len(s) /\ s[i] \in 1..MaxIdx /\ t[i] = s[i] /\ s # <<>>
    BY <1>1, <1>2, EndRange
  <2>2. CASE j = Len(s) + 1
    <3>1. End(s) = s[Len(s)] /\ Len(s) \in 1..Len(s) /\ End(s) \in 1..MaxIdx
      BY <2>1, EndRange
    <3>2. s[Len(s)] - s[i] >= Len(s) - i
      BY <2>1, <3>1, ConstantsAssumption DEF Increasing
    <3> QED
      BY <1>1, <2>1, <2>2, <3>1, <3>2, ConstantsAssumption
  <2>3. CASE j \in 1..Len(s)
    BY <1>1, <1>2, <2>1, <2>3 DEF Increasing
  <2> QED
    BY <1>1, <1>2, <2>2, <2>3
<1>3. End(t) = e
  BY <1>1 DEF End
<1> QED
  BY <1>1, <1>2, <1>3 DEF Increasing, t

\* Cutting the list moves no position to an older sample.
LEMMA KeepLastNewer ==
  ASSUME NEW s \in SampleList, Increasing(s), NEW n \in Nat \ {0}
  PROVE  /\ Increasing(KeepLast(s, n))
         /\ \A i \in 1..Len(KeepLast(s, n)) : s[i] <= KeepLast(s, n)[i]
<1> DEFINE t == KeepLast(s, n)
           d == SliceStart(Len(s), -n)
<1>1. s \in Seq(1..MaxIdx) /\ s \in Seq(Int) /\ -n \in Int
  BY ConstantsAssumption DEF SampleList
<1>2. Increasing(t)
  BY <1>1, SliceIncreasing DEF KeepLast
<1>3. /\ d \in 0..Len(s) /\ t \in Seq(Int) /\ Len(t) = Len(s) - d
      /\ \A i \in 1..Len(t) : t[i] = s[i + d]
  BY <1>1, SliceElements DEF KeepLast
<1> HIDE DEF t, d
<1>4. ASSUME NEW i \in 1..Len(t) PROVE s[i] <= t[i]
  <2>1. Len(s) \in Nat /\ Len(t) \in Nat
    BY <1>1, <1>3
  <2>2. i \in 1..Len(s) /\ i + d \in 1..Len(s) /\ t[i] = s[i + d]
    BY <1>3, <2>1
  <2>3. s[i] \in Int /\ s[i + d] \in Int
    BY <1>1, <2>2, ElementOfSeq
  <2>4. CASE d = 0
    BY <2>2, <2>3, <2>4
  <2>5. CASE d > 0
    <3>1. i < i + d
      BY <1>3, <2>1, <2>5
    <3>2. s[i + d] - s[i] >= (i + d) - i
      BY <2>2, <2>3, <3>1 DEF Increasing
    <3> QED
      BY <1>3, <2>1, <2>2, <2>3, <2>5, <3>2
  <2> QED
    BY <1>3, <2>1, <2>4, <2>5
<1> QED
  BY <1>2, <1>4 DEF t

LEMMA StatesStep == IInv /\ [Next]_vars => StatesInv' /\ End(states) <= End(states')
<1> SUFFICES ASSUME IInv, [Next]_vars PROVE StatesInv' /\ End(states) <= End(states')
  OBVIOUS
<1> USE ConstantsAssumption
<1>0. /\ TypeOK /\ StatesInv /\ states \in SampleList /\ idx \in 1..MaxIdx + 1
      /\ End(states) \in 0..MaxIdx
  BY EndRange DEF IInv, TypeOK
<1>1. CASE AppendEntry
  <2>1. idx \in 1..MaxIdx /\ End(states) = idx - 1 /\ Increasing(states)
    BY <1>0, <1>1 DEF AppendEntry, StatesInv
  <2>2. Increasing(states') /\ End(states') = idx /\ states' # <<>>
    BY <1>0, <1>1, <2>1, AppendIncreasing DEF AppendEntry
  <2> QED
    BY <1>0, <1>1, <2>1, <2>2 DEF AppendEntry, StatesInv
<1>2. CASE TrimStates
  <2>1. End(states) = idx /\ Increasing(states) /\ states # <<>>
    BY <1>0, <1>2 DEF TrimStates, StatesInv
  <2>2. Increasing(states') /\ End(states') = End(states)
    BY <1>0, <1>2, <2>1, KeepLastLemma, KeepLastNewer DEF TrimStates, SampleList
  <2> QED
    BY <1>0, <1>2, <2>1, <2>2 DEF TrimStates, StatesInv
<1>3. CASE UNCHANGED runVars
  BY <1>0, <1>3 DEF StatesInv, runVars
<1>4. [Next]_vars => AppendEntry \/ TrimStates \/ UNCHANGED runVars
  BY DEF Next, Measure, Serve, Receive, Account, vars, ReadLength, ReadOldest,
    ReadNewest, NewestMissing, SendReply, Poll, ReadReply, Combine, CheckState,
    Mark, MarkFails, TakeStates, ReadLast, SkipSeen, CombineEntries, runVars
<1> QED
  BY <1>1, <1>2, <1>3, <1>4

\* What the chain says of its ends.
LEMMA ChainEnds ==
  ASSUME IInv
  PROVE  /\ End(states) \in 0..MaxIdx /\ End(taken) \in 0..MaxIdx
         /\ End(nb_state) \in 0..MaxIdx /\ End(new_lst) \in 0..MaxIdx
         /\ last_idx \in 0..MaxIdx /\ Held \in 0..MaxIdx
         /\ last_idx <= Held /\ End(taken) <= Held /\ End(nb_state) <= Held
         /\ Held <= End(states) /\ nb_last_idx <= End(states)
<1> USE ConstantsAssumption
<1>1. /\ End(states) \in 0..MaxIdx /\ End(taken) \in 0..MaxIdx
      /\ End(nb_state) \in 0..MaxIdx /\ End(new_lst) \in 0..MaxIdx
      /\ last_idx \in 0..MaxIdx /\ nb_last_idx \in 0..MaxIdx /\ li \in 0..MaxIdx
  BY EndRange DEF IInv, TypeOK
<1>2. /\ Held \in 0..MaxIdx
      /\ last_idx <= Held /\ End(taken) <= Held /\ End(nb_state) <= Held
  BY <1>1 DEF Held, Larger
<1>3. Held <= End(states) /\ PollCovered /\ LiNotBehind
  BY DEF IInv, TakenInv
<1>4. RoundAccounts \in 0..MaxIdx /\ RoundAccounts <= Held
  BY <1>1, <1>2, <1>3 DEF RoundAccounts, LiNotBehind, Larger
<1>5. nb_last_idx <= Held
  BY <1>1, <1>2, <1>3, <1>4 DEF PollCovered, Larger
<1> QED
  BY <1>1, <1>2, <1>3, <1>5

\* What index() reads is consistent however the table moves in between.
LEMMA ServeStep == IInv /\ [Next]_vars => ServeInv'
<1> SUFFICES ASSUME IInv, [Next]_vars PROVE ServeInv'
  OBVIOUS
<1> USE ConstantsAssumption
<1>0. /\ TypeOK /\ StatesInv /\ ServeInv /\ states \in SampleList /\ states' \in SampleList
      /\ oldest_idx \in 0..MaxIdx /\ l \in Nat /\ gets \in Seq(0..MaxIdx)
      /\ nb_last_idx \in 0..MaxIdx /\ Increasing(states)
  BY TypeStep DEF IInv, TypeOK, StatesInv
<1>1. /\ End(states) \in 0..MaxIdx /\ End(states') \in 0..MaxIdx
      /\ End(states) <= End(states') /\ nb_last_idx <= End(states)
  BY <1>0, StatesStep, EndRange, ChainEnds
<1>2. \A i \in 1..Len(states) :
         states[i] \in 1..MaxIdx /\ states[i] <= End(states)
  BY <1>0, EndRange
<1>3. \A k \in 1..Len(gets) : gets[k] \in 0..MaxIdx /\ gets[k] <= End(states)
  BY <1>0, ElementOfSeq DEF ServeInv
<1>4. CASE AppendEntry
  <2>1. idx \in 1..MaxIdx /\ End(states) < idx /\ states' = Append(states, idx)
        /\ UNCHANGED <<gets, httpVars>>
    BY <1>0, <1>4 DEF AppendEntry, StatesInv, TypeOK, netVars
  <2>2. /\ states' # <<>> /\ Len(states') = Len(states) + 1 /\ Len(states) \in Nat
        /\ \A i \in 1..Len(states) : states'[i] = states[i]
        /\ states'[Len(states) + 1] = idx
    BY <1>0, <2>1, AppendIncreasing, EndRange
  <2>3. \A k \in 1..Len(gets') : gets'[k] <= End(states')
    BY <1>1, <1>3, <2>1
  <2>4. ASSUME http_pc' \in {"oldest", "newest"}
        PROVE  /\ states' # <<>> /\ l' >= 1 /\ oldest_idx' <= End(states')
               /\ l' <= Len(states') => oldest_idx' <= states'[l']
    <3>1. UNCHANGED <<http_pc, oldest_idx, l>>
      BY <2>1 DEF httpVars
    <3>2. /\ l >= 1 /\ oldest_idx <= End(states)
          /\ l <= Len(states) => oldest_idx <= states[l]
      BY <1>0, <2>4, <3>1 DEF ServeInv
    <3>3. oldest_idx <= End(states') /\ oldest_idx <= idx
      BY <1>0, <1>1, <2>1, <3>2
    <3>4. CASE l <= Len(states)
      BY <1>0, <2>2, <3>1, <3>2, <3>3, <3>4
    <3>5. CASE l > Len(states)
      BY <1>0, <2>2, <3>1, <3>2, <3>3, <3>5
    <3> QED
      BY <1>0, <2>2, <3>4, <3>5
  <2>5. http_pc' = "slice" => num_entries' >= 1
    BY <1>0, <2>1 DEF ServeInv, NumEntriesPositive, httpVars
  <2> QED
    BY <2>2, <2>3, <2>4, <2>5 DEF ServeInv, NumEntriesPositive
<1>5. CASE TrimStates
  <2>1. /\ states # <<>> /\ states' = KeepLast(states, NS_QUEUE_SIZE)
        /\ UNCHANGED <<gets, httpVars>>
    BY <1>0, <1>5 DEF TrimStates, StatesInv, netVars
  <2>2. /\ states' # <<>> /\ Len(states') <= Len(states)
        /\ \A i \in 1..Len(states') : states[i] <= states'[i]
    BY <1>0, <2>1, KeepLastLemma, KeepLastNewer DEF SampleList
  <2>3. \A k \in 1..Len(gets') : gets'[k] <= End(states')
    BY <1>1, <1>3, <2>1
  <2>4. ASSUME http_pc' \in {"oldest", "newest"}
        PROVE  /\ states' # <<>> /\ l' >= 1 /\ oldest_idx' <= End(states')
               /\ l' <= Len(states') => oldest_idx' <= states'[l']
    <3>1. /\ l >= 1 /\ oldest_idx <= End(states)
          /\ l <= Len(states) => oldest_idx <= states[l]
      BY <1>0, <2>1, <2>4 DEF ServeInv, httpVars
    <3>2. ASSUME l <= Len(states') PROVE oldest_idx <= states'[l]
      <4>1. l \in 1..Len(states') /\ l \in 1..Len(states)
        BY <1>0, <2>2, <3>1, <3>2, EndRange
      <4>2. states[l] \in 1..MaxIdx /\ states'[l] \in 1..MaxIdx
        BY <1>0, <4>1, EndRange
      <4> QED
        BY <1>0, <2>2, <3>1, <4>1, <4>2
    <3> QED
      BY <1>0, <1>1, <2>1, <2>2, <3>1, <3>2 DEF httpVars
  <2> QED
    BY <1>0, <2>1, <2>2, <2>3, <2>4 DEF ServeInv, NumEntriesPositive, httpVars
<1>6. CASE ReadLength
  <2>1. /\ gets # <<>> /\ gets' = Tail(gets) /\ states' = states
    BY <1>6 DEF ReadLength, runVars
  <2>2. /\ Head(gets) = gets[1] /\ 1 \in 1..Len(gets) /\ Len(gets') = Len(gets) - 1
        /\ \A k \in 1..Len(gets') : gets'[k] = gets[k + 1] /\ k + 1 \in 1..Len(gets)
    BY <1>0, <2>1
  <2>3. \A k \in 1..Len(gets') : gets'[k] <= End(states')
    BY <1>3, <2>1, <2>2
  <2>4. CASE states = <<>>
    BY <1>0, <1>6, <2>1, <2>3, <2>4 DEF ReadLength, ServeInv, NumEntriesPositive, httpVars
  <2>5. CASE states # <<>>
    <3>1. /\ oldest_idx' = Head(gets) /\ l' = Len(states) /\ http_pc' = "oldest"
      BY <1>6, <2>5 DEF ReadLength
    <3>2. End(states) = states[Len(states)] /\ Len(states) \in 1..Len(states)
      BY <1>0, <2>5, EndRange
    <3>3. Head(gets) <= End(states)
      BY <1>3, <2>2
    <3> QED
      BY <2>1, <2>3, <2>5, <3>1, <3>2, <3>3 DEF ServeInv, NumEntriesPositive
  <2> QED
    BY <2>4, <2>5
<1>7. CASE ReadOldest
  <2>1. /\ states # <<>> /\ l >= 1 /\ oldest_idx <= End(states)
        /\ l <= Len(states) => oldest_idx <= states[l]
        /\ states' = states /\ gets' = gets /\ l' = l /\ http_pc' = "newest"
        /\ oldest_idx' = Larger(states[1], oldest_idx)
    BY <1>0, <1>7 DEF ReadOldest, ServeInv, runVars, netVars
  <2>2. 1 \in 1..Len(states)
    BY <1>0, <2>1, EndRange
  <2>3. oldest_idx' <= End(states)
    BY <1>0, <1>2, <2>1, <2>2 DEF Larger
  <2>4. ASSUME l <= Len(states) PROVE oldest_idx' <= states[l]
    <3>1. l \in 1..Len(states)
      BY <1>0, <2>1, <2>4, EndRange
    <3>2. states[1] <= states[l]
      <4>1. CASE l = 1
        BY <1>2, <2>2, <4>1
      <4>2. CASE l > 1
        <5>1. states[l] - states[1] >= l - 1
          BY <1>0, <2>2, <3>1, <4>2 DEF Increasing
        <5> QED
          BY <1>0, <1>2, <2>2, <3>1, <4>2, <5>1
      <4> QED
        BY <1>0, <2>1, <4>1, <4>2
    <3> QED
      BY <1>0, <1>2, <2>1, <2>4, <3>1, <3>2 DEF Larger
  <2> QED
    BY <1>3, <2>1, <2>3, <2>4 DEF ServeInv, NumEntriesPositive
<1>8. CASE ReadNewest
  <2>1. /\ states # <<>> /\ l >= 1 /\ l <= Len(states) /\ oldest_idx <= states[l]
        /\ states' = states /\ gets' = gets /\ http_pc' = "slice"
    BY <1>0, <1>8 DEF ReadNewest, ServeInv, runVars, netVars
  <2>2. l \in 1..Len(states)
    BY <1>0, <2>1, EndRange
  <2>3. num_entries' >= 1
    BY <1>0, <1>2, <1>8, <2>1, <2>2 DEF ReadNewest
  <2> QED
    BY <1>3, <2>1, <2>3 DEF ServeInv, NumEntriesPositive
<1>9. CASE NewestMissing \/ SendReply
  BY <1>0, <1>9 DEF NewestMissing, SendReply, IndexReturns, ServeInv, NumEntriesPositive, runVars
<1>10. CASE Poll
  <2>1. \A k \in 1..Len(gets') : gets'[k] <= End(states')
    <3>1. gets' = Append(gets, nb_last_idx) /\ states' = states
      BY <1>10 DEF Poll, runVars
    <3>2. /\ Len(gets') = Len(gets) + 1 /\ Len(gets) \in Nat
          /\ gets'[Len(gets) + 1] = nb_last_idx
          /\ \A k \in 1..Len(gets) : gets'[k] = gets[k]
      BY <1>0, <3>1
    <3> QED
      BY <1>1, <1>3, <3>1, <3>2
  <2> QED
    BY <1>0, <1>10, <2>1 DEF Poll, ServeInv, NumEntriesPositive, runVars, httpVars
<1>11. CASE MarkFails
  BY <1>0, <1>11 DEF MarkFails, IndexReturns, ServeInv, NumEntriesPositive, runVars
<1>12. CASE UNCHANGED <<states, gets, httpVars>>
  BY <1>0, <1>12 DEF ServeInv, NumEntriesPositive, httpVars
<1>13. \/ AppendEntry \/ TrimStates \/ ReadLength \/ ReadOldest \/ ReadNewest
       \/ NewestMissing \/ SendReply \/ Poll \/ MarkFails
       \/ UNCHANGED <<states, gets, httpVars>>
  BY DEF Next, Measure, Serve, Receive, Account, vars, ReadReply, Combine, CheckState,
    Mark, TakeStates, ReadLast, SkipSeen, CombineEntries, runVars, netVars, httpVars
<1> QED
  BY <1>4, <1>5, <1>6, <1>7, <1>8, <1>9, <1>10, <1>11, <1>12, <1>13

\* What is new in the list of an action of the neighbour comes from the answer
\* being handled, and only Combine brings anything new.
LEMMA HeldStep ==
  IInv /\ [Next]_vars => IF Combine THEN Held' <= End(new_lst) ELSE Held' <= Held
<1> SUFFICES ASSUME IInv, [Next]_vars
             PROVE  IF Combine THEN Held' <= End(new_lst) ELSE Held' <= Held
  OBVIOUS
<1> USE ConstantsAssumption
<1>0. /\ TypeOK /\ TakenInv /\ NewInv
      /\ nb_state \in SampleList /\ taken \in SampleList /\ new_lst \in SampleList
      /\ last_idx \in 0..MaxIdx /\ li \in 0..MaxIdx
  BY DEF IInv, TypeOK
<1>1. /\ End(taken) \in 0..MaxIdx /\ End(nb_state) \in 0..MaxIdx
      /\ End(new_lst) \in 0..MaxIdx /\ Held \in 0..MaxIdx
      /\ last_idx <= Held /\ End(taken) <= Held /\ End(nb_state) <= Held
      /\ End(<<>>) = 0
  BY ChainEnds DEF End
<1>2. CASE Combine
  <2>1. /\ new_lst # <<>> /\ Held <= End(new_lst) /\ last_idx' = last_idx
        /\ Increasing(new_lst) /\ Increasing(nb_state) /\ Increasing(taken)
        /\ nb_state' \in {nb_state, CombineBS(nb_state, new_lst)}
        /\ taken' \in {taken, CombineBS(taken, new_lst)}
    BY <1>0, <1>2 DEF Combine, NewInv, TakenInv, ListsIncreasing, takeVars
  <2>2. /\ End(nb_state') \in {End(nb_state), End(new_lst)}
        /\ End(taken') \in {End(taken), End(new_lst)}
    BY <1>0, <2>1, CombineBSLemma
  <2> QED
    BY <1>0, <1>1, <1>2, <2>1, <2>2 DEF Held, Larger
<1>3. CASE TakeStates
  <2>1. taken = <<>> /\ taken' = nb_state /\ nb_state' = <<>> /\ last_idx' = last_idx
    BY <1>0, <1>3 DEF TakeStates, TakenInv
  <2>2. ~ Combine
    BY <1>3 DEF TakeStates, Combine, takeVars
  <2> QED
    BY <1>0, <1>1, <2>1, <2>2 DEF Held, Larger
<1>4. CASE SkipSeen
  <2>1. /\ taken' = Slice(taken, last_idx - li) /\ last_idx' \in {last_idx, li}
        /\ nb_state' = nb_state /\ li <= End(taken)
    BY <1>0, <1>4 DEF SkipSeen, TakenInv, LiNotBehind
  <2>2. End(taken') \in {0, End(taken)}
    BY <1>0, <1>1, <2>1, SliceEnd, last_idx - li \in Int DEF SampleList
  <2>3. ~ Combine
    BY <1>4 DEF SkipSeen, Combine, takeVars
  <2> QED
    BY <1>0, <1>1, <2>1, <2>2, <2>3 DEF Held, Larger
<1>5. CASE CombineEntries
  <2>1. taken' = <<>> /\ last_idx' = last_idx /\ nb_state' = nb_state /\ ~ Combine
    BY <1>5 DEF CombineEntries, Combine, takeVars
  <2> QED
    BY <1>0, <1>1, <2>1 DEF Held, Larger
<1>6. CASE UNCHANGED <<taken, last_idx, nb_state>> /\ ~ Combine
  BY <1>1, <1>6 DEF Held
<1>7. \/ Combine \/ TakeStates \/ SkipSeen \/ CombineEntries
      \/ UNCHANGED <<taken, last_idx, nb_state>>
  BY DEF Next, Measure, Serve, Receive, Account, vars, AppendEntry, TrimStates,
    ReadLength, ReadOldest, ReadNewest, NewestMissing, SendReply, Poll, ReadReply,
    CheckState, Mark, MarkFails, ReadLast, takeVars
<1> QED
  BY <1>2, <1>3, <1>4, <1>5, <1>6, <1>7

\* The two ways an answer is added to the connection.
LEMMA RepliesAppend ==
  ASSUME IInv, NEW r \in SampleList, replies' = Append(replies, r),
         Held' <= Held, Held' \in Int, End(states') = End(states),
         Increasing(r), r # <<>> => End(r) = End(states)
  PROVE  RepliesInv'
<1> USE ConstantsAssumption
<1>0. RepliesInv /\ replies \in Seq(SampleList)
  BY DEF IInv, TypeOK
<1>1. /\ Len(replies') = Len(replies) + 1 /\ Len(replies) \in Nat
      /\ replies'[Len(replies) + 1] = r
      /\ \A k \in 1..Len(replies) : replies'[k] = replies[k]
  BY <1>0
<1>2. /\ Held \in 0..MaxIdx /\ Held <= End(states) /\ End(states) \in 0..MaxIdx
      /\ End(r) <= End(states)
  BY ChainEnds, EndRange
<1>3. \A k \in 1..Len(replies) :
         /\ End(replies[k]) \in 0..MaxIdx /\ Increasing(replies[k])
         /\ replies[k] # <<>> => Held <= End(replies[k])
         /\ End(replies[k]) <= End(states)
  <2>1. \A k \in 1..Len(replies) : replies[k] \in SampleList
    BY <1>0, ElementOfSeq
  <2> QED
    BY <1>0, <2>1, EndRange DEF RepliesInv
<1>4. ASSUME NEW k \in 1..Len(replies')
      PROVE  /\ Increasing(replies'[k])
             /\ replies'[k] # <<>> => Held' <= End(replies'[k])
             /\ End(replies'[k]) <= End(states')
  <2>1. CASE k = Len(replies) + 1
    BY <1>1, <1>2, <2>1
  <2>2. CASE k \in 1..Len(replies)
    BY <1>1, <1>2, <1>3, <2>2
  <2> QED
    BY <1>1, <2>1, <2>2
<1>5. ASSUME NEW j \in 1..Len(replies'), NEW k \in 1..Len(replies'),
             j < k, replies'[k] # <<>>
      PROVE  End(replies'[j]) <= End(replies'[k])
  <2>1. j \in 1..Len(replies) /\ replies'[j] = replies[j]
    BY <1>1, <1>5
  <2>2. CASE k = Len(replies) + 1
    BY <1>1, <1>2, <1>3, <1>5, <2>1, <2>2
  <2>3. CASE k \in 1..Len(replies)
    BY <1>0, <1>1, <1>5, <2>1, <2>3 DEF RepliesInv
  <2> QED
    BY <1>1, <2>2, <2>3
<1> QED
  BY <1>4, <1>5 DEF RepliesInv

LEMMA RepliesStep == IInv /\ [Next]_vars => RepliesInv'
<1> SUFFICES ASSUME IInv, [Next]_vars PROVE RepliesInv'
  OBVIOUS
<1> USE ConstantsAssumption
<1>0. /\ TypeOK /\ TypeOK' /\ RepliesInv /\ NewInv
      /\ replies \in Seq(SampleList) /\ states \in SampleList
  BY TypeStep DEF IInv, TypeOK
<1>1. /\ Held \in 0..MaxIdx /\ Held' \in 0..MaxIdx /\ Held <= End(states)
      /\ End(states) \in 0..MaxIdx /\ End(states') \in 0..MaxIdx
      /\ End(states) <= End(states')
  <2>1. /\ End(taken') \in 0..MaxIdx /\ End(nb_state') \in 0..MaxIdx
        /\ last_idx' \in 0..MaxIdx /\ End(states') \in 0..MaxIdx
    BY <1>0, EndRange DEF TypeOK
  <2> QED
    BY <2>1, ChainEnds, StatesStep DEF Held, Larger
<1>2. \A k \in 1..Len(replies) : replies[k] \in SampleList /\ End(replies[k]) \in 0..MaxIdx
  BY <1>0, ElementOfSeq, EndRange
<1>3. CASE Combine
  <2>1. Held' <= End(new_lst) /\ End(new_lst) \in 0..MaxIdx
    BY <1>3, HeldStep, ChainEnds
  <2>2. \A k \in 1..Len(replies) : replies[k] # <<>> => End(new_lst) <= End(replies[k])
    BY <1>0, <1>3 DEF NewInv, Combine
  <2>3. replies' = replies /\ states' = states
    BY <1>3 DEF Combine, netVars, runVars
  <2>4. ASSUME NEW k \in 1..Len(replies), replies[k] # <<>>
        PROVE  Held' <= End(replies[k])
    BY <1>1, <1>2, <2>1, <2>2, <2>4
  <2> QED
    BY <1>0, <2>3, <2>4 DEF RepliesInv
<1>4. CASE ~ Combine
  <2>0. Held' <= Held
    BY <1>4, HeldStep
  <2>1. CASE (ReadLength /\ states = <<>>) \/ NewestMissing
    <3>1. /\ replies' = Append(replies, <<>>) /\ states' = states
          /\ <<>> \in SampleList /\ Increasing(<<>>)
      BY <2>1 DEF ReadLength, NewestMissing, runVars, SampleList, Increasing
    <3> QED
      BY <1>1, <2>0, <3>1, RepliesAppend
  <2>2. CASE SendReply
    <3> DEFINE r == Slice(states, -num_entries)
    <3>4. num_entries \in Int /\ Increasing(states) /\ states \in Seq(1..MaxIdx)
      BY <1>0 DEF TypeOK, IInv, StatesInv, SampleList
    <3>0. -num_entries \in Int /\ states \in Seq(Int)
      BY <3>4, SeqMonotonic, 1..MaxIdx \subseteq Int
    <3>1. r \in SampleList /\ Increasing(r) /\ (r # <<>> => End(r) = End(states))
      BY <3>0, <3>4, SliceElements, SliceIncreasing, SliceEnd DEF SampleList
    <3>2. replies' = Append(replies, r) /\ states' = states
      BY <2>2 DEF SendReply, runVars
    <3> HIDE DEF r
    <3> QED
      BY <1>1, <2>0, <3>1, <3>2, RepliesAppend
  <2>3. CASE ReadReply
    <3>1. /\ replies # <<>> /\ replies' = Tail(replies) /\ states' = states
      BY <2>3 DEF ReadReply, runVars
    <3>2. /\ Len(replies) \in Nat /\ Len(replies') = Len(replies) - 1
          /\ \A k \in 1..Len(replies') : replies'[k] = replies[k + 1] /\ k + 1 \in 1..Len(replies)
      BY <1>0, <3>1
    <3>3. ASSUME NEW j \in 1..Len(replies'), NEW k \in 1..Len(replies'),
                 j < k, replies'[k] # <<>>
          PROVE  End(replies'[j]) <= End(replies'[k])
      <4>1. j + 1 \in 1..Len(replies) /\ k + 1 \in 1..Len(replies) /\ j + 1 < k + 1
        BY <3>2, <3>3
      <4> QED
        BY <1>0, <3>2, <3>3, <4>1 DEF RepliesInv
    <3>4. ASSUME NEW k \in 1..Len(replies')
          PROVE  /\ Increasing(replies'[k])
                 /\ replies'[k] # <<>> => Held' <= End(replies'[k])
                 /\ End(replies'[k]) <= End(states')
      <4>1. k + 1 \in 1..Len(replies) /\ replies'[k] = replies[k + 1]
        BY <3>2
      <4>2. /\ Increasing(replies[k + 1])
            /\ replies[k + 1] # <<>> => Held <= End(replies[k + 1])
            /\ End(replies[k + 1]) <= End(states)
        BY <1>0, <4>1 DEF RepliesInv
      <4>3. End(replies[k + 1]) \in 0..MaxIdx
        BY <1>2, <4>1
      <4> QED
        BY <1>1, <2>0, <3>1, <4>1, <4>2, <4>3
    <3> QED
      BY <3>3, <3>4 DEF RepliesInv
  <2>4. CASE MarkFails
    <3>1. /\ Len(replies') \in 0..Len(replies) /\ states' = states
          /\ \A k \in 1..Len(replies') : replies'[k] = replies[k]
      BY <1>0, <2>4 DEF MarkFails, runVars
    <3>2. Len(replies) \in Nat /\ \A k \in 1..Len(replies') : k \in 1..Len(replies)
      BY <1>0, <3>1
    <3>3. ASSUME NEW k \in 1..Len(replies')
          PROVE  /\ Increasing(replies'[k])
                 /\ replies'[k] # <<>> => Held' <= End(replies'[k])
                 /\ End(replies'[k]) <= End(states')
      <4>1. k \in 1..Len(replies) /\ replies'[k] = replies[k]
        BY <3>1, <3>2
      <4>2. /\ Increasing(replies[k])
            /\ replies[k] # <<>> => Held <= End(replies[k])
            /\ End(replies[k]) <= End(states)
        BY <1>0, <4>1 DEF RepliesInv
      <4>3. End(replies[k]) \in 0..MaxIdx
        BY <1>2, <4>1
      <4> QED
        BY <1>1, <2>0, <3>1, <4>1, <4>2, <4>3
    <3>4. ASSUME NEW j \in 1..Len(replies'), NEW k \in 1..Len(replies'),
                 j < k, replies'[k] # <<>>
          PROVE  End(replies'[j]) <= End(replies'[k])
      <4>1. j \in 1..Len(replies) /\ k \in 1..Len(replies)
        BY <3>2
      <4> QED
        BY <1>0, <3>1, <3>4, <4>1 DEF RepliesInv
    <3> QED
      BY <3>3, <3>4 DEF RepliesInv
  <2>5. CASE UNCHANGED replies
    <3>1. RepliesInv /\ replies' = replies
      BY <1>0, <2>5
    <3>2. ASSUME NEW k \in 1..Len(replies)
          PROVE  /\ Increasing(replies[k])
                 /\ replies[k] # <<>> => Held' <= End(replies[k])
                 /\ End(replies[k]) <= End(states')
      BY <1>1, <1>2, <2>0, <3>1 DEF RepliesInv
    <3>3. \A j, k \in 1..Len(replies) :
              j < k /\ replies[k] # <<>> => End(replies[j]) <= End(replies[k])
      BY <3>1 DEF RepliesInv
    <3> QED
      BY <3>1, <3>2, <3>3 DEF RepliesInv
  <2>6. \/ (ReadLength /\ states = <<>>) \/ NewestMissing \/ SendReply \/ ReadReply
        \/ MarkFails \/ UNCHANGED replies
    BY <1>4 DEF Next, Measure, Serve, Receive, Account, vars, AppendEntry, TrimStates,
      ReadLength, ReadOldest, ReadNewest, Poll, CheckState, Mark, TakeStates,
      ReadLast, SkipSeen, CombineEntries, netVars
  <2> QED
    BY <2>1, <2>2, <2>3, <2>4, <2>5, <2>6
<1> QED
  BY <1>3, <1>4

LEMMA NewStep == IInv /\ [Next]_vars => NewInv'
<1> SUFFICES ASSUME IInv, [Next]_vars PROVE NewInv'
  OBVIOUS
<1> USE ConstantsAssumption
<1>0. /\ TypeOK /\ TypeOK' /\ RepliesInv /\ NewInv /\ TakenInv
      /\ replies \in Seq(SampleList) /\ new_lst \in SampleList /\ states \in SampleList
  BY TypeStep DEF IInv, TypeOK
<1>1. /\ Held \in 0..MaxIdx /\ Held' \in 0..MaxIdx
      /\ End(states) \in 0..MaxIdx /\ End(states') \in 0..MaxIdx
      /\ End(states) <= End(states') /\ End(new_lst) \in 0..MaxIdx
  <2>1. /\ End(taken') \in 0..MaxIdx /\ End(nb_state') \in 0..MaxIdx
        /\ last_idx' \in 0..MaxIdx /\ End(states') \in 0..MaxIdx
    BY <1>0, EndRange DEF TypeOK
  <2> QED
    BY <2>1, ChainEnds, StatesStep DEF Held, Larger
<1>2. \A k \in 1..Len(replies) : replies[k] \in SampleList /\ End(replies[k]) \in 0..MaxIdx
  BY <1>0, ElementOfSeq, EndRange
<1>12. UNCHANGED <<taken, last_idx, nb_state>> => Held' <= Held
  BY <1>1 DEF Held
<1>3. CASE ReadReply
  <2>2. Held' <= Held
    BY <1>3, <1>12 DEF ReadReply, takeVars
  <2>3. /\ replies # <<>> /\ replies' = Tail(replies) /\ states' = states
    BY <1>3 DEF ReadReply, runVars
  <2>4. /\ Len(replies) \in Nat /\ Len(replies') = Len(replies) - 1
        /\ Head(replies) = replies[1] /\ 1 \in 1..Len(replies)
        /\ \A k \in 1..Len(replies') : /\ replies'[k] = replies[k + 1]
                                        /\ k + 1 \in 1..Len(replies) /\ 1 < k + 1
    BY <1>0, <2>3
  <2>5. CASE replies[1] = <<>>
    BY <1>0, <1>3, <2>4, <2>5 DEF ReadReply, NewInv
  <2>6. CASE replies[1] # <<>>
    <3>1. read_pc' = "combine" /\ lst' = "cur" /\ new_lst' = replies[1]
      BY <1>3, <2>4, <2>6 DEF ReadReply
    <3>2. Increasing(replies[1]) /\ Held <= End(replies[1]) /\ End(replies[1]) <= End(states)
      BY <1>0, <2>4, <2>6 DEF RepliesInv
    <3>3. \A k \in 1..Len(replies') : replies'[k] # <<>> => End(replies[1]) <= End(replies'[k])
      BY <1>0, <2>4 DEF RepliesInv
    <3>4. Held' <= End(replies[1])
      BY <1>1, <1>2, <2>2, <2>4, <3>2
    <3> QED
      BY <2>3, <2>6, <3>1, <3>2, <3>3, <3>4 DEF NewInv
  <2> QED
    BY <2>5, <2>6
<1>4. CASE Combine
  BY <1>0, <1>4 DEF Combine, NewInv
<1>5. CASE CheckState \/ Mark \/ MarkFails
  <2>1. /\ read_pc' # "combine" /\ lst' = lst /\ read_pc # "combine"
        /\ new_lst' \in {<<>>, new_lst}
    BY <1>5 DEF CheckState, Mark, MarkFails
  <2>2. Increasing(<<>>)
    BY DEF Increasing
  <2> QED
    BY <1>0, <2>1, <2>2 DEF NewInv
<1>6. CASE SendReply
  <2>0. Held' <= Held
    BY <1>6, <1>12 DEF SendReply, takeVars
  <2> DEFINE r == Slice(states, -num_entries)
  <2>1. -num_entries \in Int /\ states \in Seq(1..MaxIdx)
    BY <1>0 DEF TypeOK, SampleList
  <2>2. r \in SampleList /\ (r # <<>> => End(r) = End(states))
    BY <2>1, SliceElements, SliceEnd DEF SampleList
  <2>3. replies' = Append(replies, r) /\ UNCHANGED <<states, read_pc, new_lst, lst, nb_state, take_pc>>
    BY <1>6 DEF SendReply, runVars, readVars, takeVars
  <2> HIDE DEF r
  <2>4. /\ Len(replies') = Len(replies) + 1 /\ Len(replies) \in Nat
        /\ replies'[Len(replies) + 1] = r
        /\ \A k \in 1..Len(replies) : replies'[k] = replies[k]
    BY <1>0, <2>2, <2>3
  <2>5. ASSUME read_pc = "combine", NEW k \in 1..Len(replies'), replies'[k] # <<>>
        PROVE  End(new_lst) <= End(replies'[k])
    <3>1. CASE k = Len(replies) + 1
      BY <1>0, <2>2, <2>4, <2>5, <3>1 DEF NewInv
    <3>2. CASE k \in 1..Len(replies)
      BY <1>0, <2>4, <2>5, <3>2 DEF NewInv
    <3> QED
      BY <2>4, <3>1, <3>2
  <2> QED
    BY <1>0, <1>1, <2>0, <2>3, <2>5 DEF NewInv
<1>7. CASE ReadLength \/ NewestMissing
  <2>0. Held' <= Held
    BY <1>7, <1>12 DEF ReadLength, NewestMissing, takeVars
  <2>1. /\ replies' \in {replies, Append(replies, <<>>)}
        /\ UNCHANGED <<states, read_pc, new_lst, lst, nb_state, take_pc>>
    BY <1>7 DEF ReadLength, NewestMissing, runVars, readVars, takeVars
  <2>2. ASSUME read_pc = "combine", NEW k \in 1..Len(replies'), replies'[k] # <<>>
        PROVE  End(new_lst) <= End(replies'[k])
    <3>1. CASE replies' = replies
      BY <1>0, <2>2, <3>1 DEF NewInv
    <3>2. CASE replies' = Append(replies, <<>>)
      <4>1. /\ Len(replies') = Len(replies) + 1 /\ Len(replies) \in Nat
            /\ replies'[Len(replies) + 1] = <<>>
            /\ \A i \in 1..Len(replies) : replies'[i] = replies[i]
        BY <1>0, <3>2 DEF SampleList
      <4>2. k \in 1..Len(replies)
        BY <2>2, <4>1
      <4> QED
        BY <1>0, <2>2, <4>1, <4>2 DEF NewInv
    <3> QED
      BY <2>1, <3>1, <3>2
  <2> QED
    BY <1>0, <1>1, <2>0, <2>1, <2>2 DEF NewInv
<1>8. CASE TakeStates
  <2>0. ~ Combine /\ Held' <= Held
    BY <1>8, HeldStep DEF TakeStates, Combine, takeVars
  <2> QED
    BY <1>0, <1>1, <1>8, <2>0 DEF TakeStates, NewInv, readVars, netVars, runVars
<1>9. CASE ReadLast \/ SkipSeen \/ CombineEntries
  <2>0. ~ Combine /\ Held' <= Held
    BY <1>9, HeldStep DEF ReadLast, SkipSeen, CombineEntries, Combine, takeVars
  <2> QED
    BY <1>0, <1>1, <1>9, <2>0
    DEF ReadLast, SkipSeen, CombineEntries, NewInv, readVars, netVars, runVars
<1>10. CASE /\ UNCHANGED <<replies, read_pc, new_lst, lst, nb_state, take_pc>> /\ Held' <= Held
  BY <1>0, <1>1, <1>10 DEF NewInv
<1>11. \/ ReadReply \/ Combine \/ CheckState \/ Mark \/ MarkFails \/ SendReply \/ ReadLength
       \/ NewestMissing \/ TakeStates \/ ReadLast \/ SkipSeen \/ CombineEntries
       \/ /\ UNCHANGED <<replies, read_pc, new_lst, lst, nb_state, take_pc>>
          /\ UNCHANGED <<taken, last_idx>>
  BY DEF Next, Measure, Serve, Receive, Account, vars, AppendEntry, TrimStates,
    ReadOldest, ReadNewest, Poll, netVars, readVars, takeVars
<1> QED
  BY <1>3, <1>4, <1>5, <1>6, <1>7, <1>8, <1>9, <1>10, <1>11, <1>12

LEMMA TakenStep == IInv /\ [Next]_vars => TakenInv'
<1> SUFFICES ASSUME IInv, [Next]_vars PROVE TakenInv'
  OBVIOUS
<1> USE ConstantsAssumption
<1>0. /\ TypeOK /\ TypeOK' /\ NewInv /\ TakenInv
      /\ nb_state \in SampleList /\ taken \in SampleList /\ new_lst \in SampleList
      /\ last_idx \in 0..MaxIdx /\ li \in 0..MaxIdx /\ nb_last_idx \in 0..MaxIdx
      /\ Increasing(nb_state) /\ Increasing(taken) /\ Increasing(<<>>)
      /\ take_pc \in {"take", "last", "slice", "combine"}
  BY TypeStep DEF IInv, TypeOK, TakenInv, ListsIncreasing, Increasing
<1>1. /\ Held \in 0..MaxIdx /\ Held' \in 0..MaxIdx /\ Held <= End(states)
      /\ End(states) \in 0..MaxIdx /\ End(states') \in 0..MaxIdx
      /\ End(states) <= End(states') /\ End(new_lst) \in 0..MaxIdx
      /\ End(taken) \in 0..MaxIdx /\ End(nb_state) \in 0..MaxIdx /\ End(<<>>) = 0
      /\ last_idx <= Held /\ End(taken) <= Held /\ End(nb_state) <= Held
  <2>1. /\ End(taken') \in 0..MaxIdx /\ End(nb_state') \in 0..MaxIdx
        /\ last_idx' \in 0..MaxIdx /\ End(states') \in 0..MaxIdx
    BY <1>0, EndRange DEF TypeOK
  <2> QED
    BY <2>1, ChainEnds, StatesStep DEF Held, Larger, End
<1>2. Held' <= End(states')
  <2>1. CASE Combine
    BY <1>0, <1>1, <2>1, HeldStep DEF Combine, NewInv
  <2>2. CASE ~ Combine
    BY <1>1, <2>2, HeldStep
  <2> QED
    BY <2>1, <2>2
<1>3. /\ LiNotBehind /\ PollCovered
      /\ taken # <<>> => last_idx <= End(taken)
      /\ nb_state # <<>> => last_idx <= End(nb_state) /\ End(taken) <= End(nb_state)
      /\ take_pc = "take" => taken = <<>>
      /\ take_pc = "slice" => taken # <<>>
  BY <1>0 DEF TakenInv
<1>4. CASE Combine
  <2>1. /\ new_lst # <<>> /\ Increasing(new_lst) /\ Held <= End(new_lst)
        /\ lst = "taken" => nb_state = <<>> /\ take_pc # "take"
        /\ UNCHANGED <<take_pc, li, last_idx, nb_last_idx>>
    BY <1>0, <1>4 DEF Combine, NewInv, takeVars
  <2>2. CASE lst = "cur"
    <3>1. nb_state' = CombineBS(nb_state, new_lst) /\ taken' = taken
      BY <1>4, <2>2 DEF Combine
    <3>2. /\ Increasing(nb_state') /\ nb_state' # <<>> /\ End(nb_state') \in 0..MaxIdx
          /\ End(nb_state) <= End(nb_state')
          /\ nb_state = <<>> => End(nb_state') = End(new_lst)
      BY <1>0, <1>1, <2>1, <3>1, CombineBSLemma
    <3>3. last_idx <= End(nb_state') /\ End(taken) <= End(nb_state')
      BY <1>0, <1>1, <1>3, <2>1, <3>2
    <3>4. PollCovered'
      BY <1>0, <1>1, <1>3, <2>1, <3>1, <3>2, SMTT(30) DEF PollCovered, RoundAccounts, Larger
    <3> QED
      BY <1>0, <1>2, <1>3, <2>1, <3>1, <3>2, <3>3, <3>4
      DEF TakenInv, ListsIncreasing, LiNotBehind
  <2>3. CASE lst = "taken"
    <3>1. nb_state' = nb_state /\ nb_state = <<>> /\ taken' = CombineBS(taken, new_lst)
      BY <1>4, <2>1, <2>3 DEF Combine
    <3>2. /\ Increasing(taken') /\ taken' # <<>> /\ End(taken') \in 0..MaxIdx
          /\ End(taken) <= End(taken')
          /\ taken = <<>> => End(taken') = End(new_lst)
      BY <1>0, <1>1, <2>1, <3>1, CombineBSLemma
    <3>3. last_idx <= End(taken')
      BY <1>0, <1>1, <1>3, <2>1, <3>2
    <3>4. PollCovered'
      BY <1>0, <1>1, <1>3, <2>1, <3>1, <3>2 DEF PollCovered, RoundAccounts, Larger
    <3>5. LiNotBehind'
      BY <1>0, <1>1, <1>3, <2>1, <3>2 DEF LiNotBehind
    <3> QED
      BY <1>0, <1>2, <1>3, <2>1, <2>3, <3>1, <3>2, <3>3, <3>4, <3>5
      DEF TakenInv, ListsIncreasing
  <2>4. CASE lst \notin {"cur", "taken"}
    <3>1. UNCHANGED <<nb_state, taken>>
      BY <1>4, <2>4 DEF Combine
    <3> QED
      BY <1>0, <1>2, <1>3, <2>1, <3>1
      DEF TakenInv, ListsIncreasing, LiNotBehind, PollCovered, RoundAccounts
  <2> QED
    BY <2>2, <2>3, <2>4
<1>5. CASE Mark
  <2>1. nb_last_idx' = End(nb_state) /\ UNCHANGED <<nb_state, taken, take_pc, li, last_idx>>
    BY <1>5 DEF Mark, takeVars
  <2>2. RoundAccounts' \in 0..MaxIdx
    BY <1>0, <1>1, <2>1 DEF RoundAccounts, Larger
  <2>3. PollCovered'
    BY <1>1, <2>1, <2>2 DEF PollCovered, Larger
  <2> QED
    BY <1>0, <1>2, <1>3, <2>1, <2>3 DEF TakenInv, ListsIncreasing, LiNotBehind
<1>6. CASE TakeStates
  <2>1. /\ taken' = nb_state /\ nb_state' = <<>> /\ take_pc = "take" /\ take_pc' = "last"
        /\ UNCHANGED <<li, last_idx, nb_last_idx>>
    BY <1>6 DEF TakeStates, readVars
  <2>2. PollCovered'
    BY <1>0, <1>1, <1>3, <2>1 DEF PollCovered, RoundAccounts, Larger
  <2> QED
    BY <1>0, <1>2, <1>3, <2>1, <2>2 DEF TakenInv, ListsIncreasing, LiNotBehind
<1>7. CASE ReadLast
  <2>1. /\ UNCHANGED <<nb_state, taken, last_idx, nb_last_idx>> /\ take_pc = "last"
        /\ \/ taken = <<>> /\ take_pc' = "combine" /\ li' = li
           \/ taken # <<>> /\ take_pc' = "slice" /\ li' = End(taken)
    BY <1>7 DEF ReadLast, readVars
  <2>2. PollCovered'
    BY <1>0, <1>1, <1>3, <2>1 DEF PollCovered, RoundAccounts, Larger
  <2>3. LiNotBehind'
    BY <1>0, <1>1, <1>3, <2>1 DEF LiNotBehind
  <2> QED
    BY <1>0, <1>2, <1>3, <2>1, <2>2, <2>3 DEF TakenInv, ListsIncreasing
<1>8. CASE SkipSeen
  <2> DEFINE k == last_idx - li
  <2>1. /\ taken' = Slice(taken, k) /\ take_pc = "slice" /\ take_pc' = "combine"
        /\ last_idx' = IF taken' = <<>> THEN last_idx ELSE li
        /\ UNCHANGED <<nb_state, nb_last_idx>>
    BY <1>8 DEF SkipSeen, readVars
  <2>2. /\ k \in Int /\ k <= 0 /\ Len(taken) >= 1 /\ last_idx <= li /\ li <= End(taken)
        /\ taken # <<>> /\ Len(taken) \in Nat
    BY <1>0, <1>3, <2>1, EndRange DEF LiNotBehind
  <2>3. taken \in Seq(1..MaxIdx) /\ taken \in Seq(Int)
    BY <1>0, SeqMonotonic, 1..MaxIdx \subseteq Int DEF SampleList
  <2> HIDE DEF k
  <2>4. Increasing(taken') /\ (taken' # <<>> => End(taken') = End(taken))
    BY <1>0, <2>1, <2>2, <2>3, SliceIncreasing, SliceEnd
  \* the slice starts before the end of the list, so something remains
  <2>5. taken' # <<>>
    <3>1. SliceStart(Len(taken), k) < Len(taken)
      BY <2>2 DEF SliceStart
    <3>2. Len(taken') = Len(taken) - SliceStart(Len(taken), k)
          /\ SliceStart(Len(taken), k) \in 0..Len(taken)
      BY <2>1, <2>2, <2>3, SliceElements
    <3>3. Len(taken') # 0
      BY <2>2, <3>1, <3>2
    <3> QED
      BY <3>3
  <2>6. last_idx' = li
    BY <2>1, <2>5
  <2>7. PollCovered'
    BY <1>0, <1>1, <1>3, <2>1, <2>6 DEF PollCovered, RoundAccounts, Larger
  <2> QED
    BY <1>0, <1>1, <1>2, <1>3, <2>1, <2>2, <2>4, <2>5, <2>6, <2>7
    DEF TakenInv, ListsIncreasing, LiNotBehind
<1>9. CASE CombineEntries
  <2>1. /\ taken' = <<>> /\ take_pc = "combine" /\ take_pc' = "take"
        /\ UNCHANGED <<nb_state, li, last_idx, nb_last_idx>>
    BY <1>9 DEF CombineEntries, readVars
  <2>2. PollCovered'
    BY <1>0, <1>1, <1>3, <2>1 DEF PollCovered, RoundAccounts, Larger
  <2> QED
    BY <1>0, <1>1, <1>2, <1>3, <2>1, <2>2 DEF TakenInv, ListsIncreasing, LiNotBehind
<1>10. CASE UNCHANGED <<nb_state, nb_last_idx, taken, takeVars>>
  BY <1>0, <1>2, <1>3, <1>10
  DEF TakenInv, ListsIncreasing, LiNotBehind, PollCovered, RoundAccounts, takeVars
<1>11. \/ Combine \/ Mark \/ TakeStates \/ ReadLast \/ SkipSeen \/ CombineEntries
       \/ UNCHANGED <<nb_state, nb_last_idx, taken, takeVars>>
  BY DEF Next, Measure, Serve, Receive, Account, vars, AppendEntry, TrimStates,
    ReadLength, ReadOldest, ReadNewest, NewestMissing, SendReply, Poll, ReadReply,
    CheckState, MarkFails, readVars
<1> QED
  BY <1>4, <1>5, <1>6, <1>7, <1>8, <1>9, <1>10, <1>11
-----------------------------------------------------------------------------
(* The theorems.                                                           *)

\* The chain of ends holds throughout, for every table size: each of the
\* invariants below is a part of it.
THEOREM Invariance == Spec => []IInv
<1>1. Init => IInv
  BY InitInv
<1>2. IInv /\ [Next]_vars => IInv'
  BY TypeStep, StatesStep, ServeStep, RepliesStep, NewStep, TakenStep DEF IInv
<1> QED
  BY <1>1, <1>2, PTL DEF Spec

\* The tables never hold more than their sizes, and nothing but samples.
THEOREM TypeCorrect == Spec => []TypeOK
<1>1. IInv => TypeOK
  BY DEF IInv
<1> QED
  BY <1>1, Invariance, PTL

\* rest_reply.index always slices with a positive num_entries.
THEOREM ServesPositive == Spec => []NumEntriesPositive
<1>1. IInv => NumEntriesPositive
  BY DEF IInv, ServeInv
<1> QED
  BY <1>1, Invariance, PTL

\* The lists of the neighbour stay in order, without repetition.
THEOREM ListsInOrder == Spec => []ListsIncreasing
<1>1. IInv => ListsIncreasing
  BY DEF IInv, TakenInv
<1> QED
  BY <1>1, Invariance, PTL

\* The neighbour never asks beyond what it accounts for.
THEOREM PollsCovered == Spec => []PollCovered
<1>1. IInv => PollCovered
  BY DEF IInv, TakenInv
<1> QED
  BY <1>1, Invariance, PTL

\* A round of network_state.run never goes back behind last_idx: the samples
\* after it are at the end of the list taken, where the slices look for them.
THEOREM NeverBack == Spec => []LiNotBehind
<1>1. IInv => LiNotBehind
  BY DEF IInv, TakenInv
<1> QED
  BY <1>1, Invariance, PTL

\* The relay implements SampleFeed: last_idx moves forward only, to samples
\* that were produced, and samples are produced one by one.
THEOREM RelayImplementsFeed == Spec => FeedSafety
<1>1. Init => Feed!Init
  BY DEF Init, Feed!Init, End
<1>2. IInv /\ [Next]_vars => [Feed!Next]_(Feed!feedVars)
  <2> SUFFICES ASSUME IInv, [Next]_vars PROVE [Feed!Next]_(Feed!feedVars)
    OBVIOUS
  <2>0. /\ TypeOK /\ StatesInv /\ TakenInv /\ states \in SampleList /\ idx \in 1..MaxIdx + 1
        /\ last_idx \in 0..MaxIdx /\ li \in 0..MaxIdx
    BY DEF IInv, TypeOK
  <2>1. CASE AppendEntry
    <3>1. idx \in 1..MaxIdx /\ End(states) = idx - 1 /\ Increasing(states)
      BY <2>0, <2>1, ConstantsAssumption DEF AppendEntry, StatesInv
    <3>2. End(states') = End(states) + 1 /\ last_idx' = last_idx
      BY <2>0, <2>1, <3>1, AppendIncreasing, ConstantsAssumption DEF AppendEntry, takeVars
    <3> QED
      BY <3>2 DEF Feed!Next, Feed!Produce, Feed!feedVars
  <2>2. CASE SkipSeen
    <3>1. last_idx' \in {last_idx, li} /\ states' = states /\ last_idx <= li /\ li <= End(taken)
      BY <2>0, <2>2 DEF SkipSeen, TakenInv, LiNotBehind, runVars
    <3>2. End(taken) <= End(states) /\ End(taken) \in Int /\ End(states) \in Int
      BY ChainEnds, ConstantsAssumption
    <3>3. last_idx' = last_idx \/ last_idx' \in last_idx + 1 .. End(states)
      BY <2>0, <3>1, <3>2, ConstantsAssumption
    <3> QED
      BY <3>1, <3>3 DEF Feed!Next, Feed!Account, Feed!feedVars
  <2>3. CASE TrimStates
    <3>1. End(states') = End(states) /\ last_idx' = last_idx
      BY <2>0, <2>3, KeepLastLemma, ConstantsAssumption DEF TrimStates, SampleList, takeVars
    <3> QED
      BY <3>1 DEF Feed!feedVars
  <2>4. CASE UNCHANGED <<states, last_idx>>
    BY <2>4 DEF Feed!feedVars
  <2>5. AppendEntry \/ SkipSeen \/ TrimStates \/ UNCHANGED <<states, last_idx>>
    BY DEF Next, Measure, Serve, Receive, Account, vars, ReadLength, ReadOldest,
      ReadNewest, NewestMissing, SendReply, Poll, ReadReply, Combine, CheckState, Mark,
      MarkFails, TakeStates, ReadLast, CombineEntries, runVars, takeVars
  <2> QED
    BY <2>1, <2>2, <2>3, <2>4, <2>5
<1> QED
  BY <1>1, <1>2, Invariance, PTL DEF Spec, FeedSafety, Feed!Spec
=============================================================================
