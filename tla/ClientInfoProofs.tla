-------------------------- MODULE ClientInfoProofs --------------------------
(***************************************************************************)
(* The readings of the switches reach the filters of the server once, in   *)
(* order and without holes but those the table of the controller has, for  *)
(* tables of any size, any number of switches and of restarts.             *)
(***************************************************************************)
EXTENDS ClientInfo, TLAPS

\* A slice s[k:] is the list without its first SliceStart elements.
LEMMA SliceElements ==
  ASSUME NEW S, NEW s \in Seq(S), NEW k \in Int
  PROVE  /\ SliceStart(Len(s), k) \in 0..Len(s)
         /\ Slice(s, k) \in Seq(S)
         /\ Len(Slice(s, k)) = Len(s) - SliceStart(Len(s), k)
         /\ \A i \in 1..Len(Slice(s, k)) :
               Slice(s, k)[i] = s[i + SliceStart(Len(s), k)]
<1> DEFINE d == SliceStart(Len(s), k)
<1>1. d \in 0..Len(s)
  BY DEF SliceStart
<1> HIDE DEF d
<1>2. \A i \in d + 1 .. Len(s) : s[i] \in S
  BY <1>1
<1>3. /\ SubSeq(s, d + 1, Len(s)) \in Seq(S)
      /\ Len(SubSeq(s, d + 1, Len(s))) = Len(s) - d
      /\ \A i \in 1..(Len(s) - d) : SubSeq(s, d + 1, Len(s))[i] = s[i + d]
  BY <1>1, <1>2
<1>4. Slice(s, k) = SubSeq(s, d + 1, Len(s))
  BY DEF Slice, d
<1> QED
  BY <1>1, <1>3, <1>4 DEF d

Readings == Nat \X Nat

\* Consecutive numbers between 1 and top.
Consecutive(s, top) ==
    \A i \in 1..Len(s) : s[i] = s[1] + i - 1 /\ s[i] \in 1..top

\* The table is the newest entries; those before it have been trimmed.
TableInv ==
    /\ epoch \in 1..MaxEpoch /\ idx \in 0..Limit(epoch)
    /\ states \in Seq(Int) /\ Len(states) <= NS_QUEUE_SIZE /\ Len(states) <= idx
    /\ \A i \in 1..Len(states) : states[i] = idx - Len(states) + i
    /\ trimmed \subseteq 1..idx
    /\ 1..(idx - Len(states)) \subseteq trimmed

\* One request or answer is under way, an answer is a part of a table.
ExchangeInv ==
    /\ fidx \in -1..Limit(epoch)
    /\ asked \in Seq(0..Limit(epoch)) /\ answers \in Seq(Seq(Int))
    /\ Len(asked) + Len(answers) <= 1
    /\ \A k \in 1..Len(answers) :
           Len(answers[k]) <= NS_QUEUE_SIZE /\ Consecutive(answers[k], idx)

\* So is what process_message has still to read; nothing is under way meanwhile.
MessageInv ==
    /\ message \in Seq(Int) /\ Len(message) <= NS_QUEUE_SIZE /\ Consecutive(message, idx)
    /\ message # <<>> => asked = <<>> /\ answers = <<>>

LastOf(s) == s[Len(s)]

\* A switch whose last reading is of this run has got the one numbered fidx,
\* which is what the server asks from; an answer starts there, or where the table
\* did, and so does what is still to be read of one.
CurrentInv(s) ==
    s # <<>> /\ LastOf(s)[1] = epoch =>
        /\ LastOf(s)[2] = fidx /\ fidx <= idx
        /\ \A k \in 1..Len(asked) : asked[k] = fidx
        /\ \A k \in 1..Len(answers) : answers[k] # <<>> =>
               /\ answers[k][1] >= fidx
               /\ (fidx + 1)..(answers[k][1] - 1) \subseteq trimmed
        /\ message # <<>> =>
               /\ message[1] >= fidx
               /\ (fidx + 1)..(message[1] - 1) \subseteq trimmed

\* No reading twice, none out of order, none left out that was in the table.
Follows(r, s) ==
    /\ Precedes(r, s)
    /\ r[1] = epoch /\ s[1] = epoch => (r[2] + 1)..(s[2] - 1) \subseteq trimmed

ReadingsInv(s) ==
    /\ \A i \in 1..Len(s) : s[i][1] <= epoch
    /\ \A i \in 1..(Len(s) - 1) : Follows(s[i], s[i + 1])

IInv ==
    /\ TableInv /\ ExchangeInv /\ MessageInv
    /\ added \in [1..Switches -> Seq(Readings)]
    /\ \A w \in 1..Switches : CurrentInv(added[w]) /\ ReadingsInv(added[w])

LEMMA LimitGrows ==
    ASSUME NEW e \in Nat
    PROVE  Limit(e) \in Nat /\ Limit(e) <= Limit(e + 1)
<1>1. (e + 1) * MaxIdx = e * MaxIdx + MaxIdx /\ e * MaxIdx \in Nat
  BY ClientInfoAssumption
<1> QED
  BY <1>1, ClientInfoAssumption DEF Limit

LEMMA ListFacts ==
    ASSUME NEW S, NEW s \in Seq(S)
    PROVE  /\ Len(s) \in Nat /\ (s = <<>> <=> Len(s) = 0)
           /\ \A i \in 1..Len(s) : s[i] \in S
OBVIOUS

LEMMA ConcatFacts ==
    ASSUME NEW S, NEW s \in Seq(S), NEW t \in Seq(S)
    PROVE  /\ s \o t \in Seq(S) /\ Len(s \o t) = Len(s) + Len(t)
           /\ \A i \in 1..Len(s) : (s \o t)[i] = s[i]
           /\ \A i \in 1..Len(t) : (s \o t)[Len(s) + i] = t[i]
OBVIOUS

\* A list of one element.
LEMMA SingleFacts ==
    ASSUME NEW S, NEW e \in S
    PROVE  <<e>> \in Seq(S) /\ Len(<<e>>) = 1 /\ <<e>>[1] = e
OBVIOUS

LEMMA InitIInv == Init => IInv
<1> SUFFICES ASSUME Init PROVE IInv
  OBVIOUS
<1>1. Limit(1) \in Nat
  BY LimitGrows
<1>2. TableInv /\ ExchangeInv
  BY <1>1, ClientInfoAssumption DEF Init, TableInv, ExchangeInv
<1>m. MessageInv
  BY ClientInfoAssumption DEF Init, MessageInv, Consecutive
<1>3. \A w \in 1..Switches : added[w] = <<>>
  BY DEF Init
<1>4. added \in [1..Switches -> Seq(Readings)]
  BY DEF Init
<1> QED
  BY <1>2, <1>m, <1>3, <1>4 DEF IInv, CurrentInv, ReadingsInv

LEMMA IInvTypeOK == IInv => TypeOK
<1> SUFFICES ASSUME IInv PROVE TypeOK
  OBVIOUS
<1>1. states = [i \in 1..Len(states) |-> idx - Len(states) + i]
  <2>1. states \in Seq(Int) /\ \A i \in 1..Len(states) : states[i] = idx - Len(states) + i
    BY DEF IInv, TableInv
  <2>2. states = [i \in 1..Len(states) |-> states[i]]
    BY <2>1
  <2> QED
    BY <2>1, <2>2
<1>2. \A i \in 1..Len(asked) : asked[i] \in 0..Limit(epoch)
  <2>1. asked \in Seq(0..Limit(epoch))
    BY DEF IInv, ExchangeInv
  <2> QED
    BY <2>1, ListFacts, Zenon
<1> QED
  BY <1>1, <1>2 DEF IInv, TableInv, ExchangeInv, MessageInv, TypeOK
-----------------------------------------------------------------------------
(* The controller.                                                         *)

LEMMA SampleIInv == IInv /\ Sample => IInv'
<1> SUFFICES ASSUME IInv, Sample PROVE IInv'
  OBVIOUS
<1> DEFINE all == Append(states, idx')
<1>0. /\ epoch \in Nat /\ Limit(epoch) \in Nat /\ idx \in Nat /\ idx' = idx + 1
      /\ Limit(epoch)' = Limit(epoch) /\ NS_QUEUE_SIZE \in Nat \ {0}
  BY LimitGrows, ClientInfoAssumption DEF IInv, TableInv, Sample, Limit
<1>1. /\ all \in Seq(Int) /\ Len(all) = Len(states) + 1
      /\ \A i \in 1..Len(all) : all[i] = idx' - Len(all) + i
  <2>1. /\ states \in Seq(Int) /\ Len(states) \in Nat /\ idx' \in Int
        /\ \A i \in 1..Len(states) : states[i] = idx - Len(states) + i
    BY <1>0 DEF IInv, TableInv
  <2>2. /\ all \in Seq(Int) /\ Len(all) = Len(states) + 1
        /\ \A i \in 1..Len(states) : all[i] = states[i]
        /\ all[Len(states) + 1] = idx'
    BY <2>1
  <2> HIDE DEF all
  <2>3. ASSUME NEW i \in 1..Len(all) PROVE all[i] = idx' - Len(all) + i
    <3>1. CASE i <= Len(states)
      BY <1>0, <2>1, <2>2, <3>1
    <3>2. CASE i = Len(states) + 1
      BY <1>0, <2>1, <2>2, <3>2
    <3> QED
      BY <2>1, <2>2, <3>1, <3>2
  <2> QED
    BY <2>2, <2>3
<1>2. states' = Slice(all, -NS_QUEUE_SIZE)
  BY DEF Sample, Trim, KeepLast
<1> DEFINE d == SliceStart(Len(all), -NS_QUEUE_SIZE)
<1> HIDE DEF all
<1>3. /\ d \in 0..Len(all) /\ states' \in Seq(Int) /\ Len(states') = Len(all) - d
      /\ \A i \in 1..Len(states') : states'[i] = all[i + d]
  BY <1>0, <1>1, <1>2, SliceElements, -NS_QUEUE_SIZE \in Int
<1>4. Len(states') <= NS_QUEUE_SIZE /\ Len(states') >= 1
  <2>1. d = IF Len(all) <= NS_QUEUE_SIZE THEN 0 ELSE Len(all) - NS_QUEUE_SIZE
    BY <1>0, <1>1 DEF SliceStart
  <2> HIDE DEF d
  <2> QED
    BY <1>0, <1>1, <1>3, <2>1
<1> HIDE DEF d
<1>5. \A i \in 1..Len(states') : states'[i] = idx' - Len(states') + i
  BY <1>0, <1>1, <1>3
<1>6. Len(states') <= idx'
  BY <1>0, <1>1, <1>3 DEF IInv, TableInv
<1>7. 1..(idx' - Len(states')) \subseteq trimmed'
  <2> SUFFICES ASSUME NEW n \in 1..(idx' - Len(states'))
               PROVE  n \in trimmed'
    OBVIOUS
  <2>1. n \in 1..idx
    BY <1>0, <1>3, <1>4
  <2>2. \A i \in 1..Len(states') : states'[i] # n
    BY <1>0, <1>3, <1>5, SMTT(30)
  <2> QED
    BY <2>1, <2>2 DEF Sample
<1>8. trimmed \subseteq trimmed' /\ trimmed' \subseteq 1..idx'
  <2>1. trimmed \subseteq 1..idx /\ 1..idx \subseteq 1..idx'
    BY <1>0 DEF IInv, TableInv
  <2>2. trimmed' = trimmed \cup {n \in 1..idx : \A i \in 1..Len(states') : states'[i] # n}
    BY DEF Sample
  <2> QED
    BY <2>1, <2>2
<1>9. TableInv'
  BY <1>0, <1>3, <1>4, <1>5, <1>6, <1>7, <1>8, SMTT(30) DEF Sample, IInv, TableInv
<1>10. ExchangeInv'
  BY <1>0, SMTT(30) DEF Sample, IInv, ExchangeInv, Consecutive
<1>m. MessageInv'
  BY <1>0, SMTT(30) DEF Sample, IInv, MessageInv, Consecutive
<1>11. \A w \in 1..Switches : CurrentInv(added[w])' /\ ReadingsInv(added[w])'
  <2> TAKE w \in 1..Switches
  <2>0. /\ UNCHANGED <<epoch, fidx, asked, answers, message, added>> /\ CurrentInv(added[w])
        /\ fidx \in Int
    BY <1>0 DEF Sample, IInv, ExchangeInv
  <2>1. CurrentInv(added[w])'
    BY <1>0, <1>8, <2>0 DEF CurrentInv, LastOf
  <2>2. ReadingsInv(added[w])'
    BY <1>8 DEF Sample, IInv, ReadingsInv, Follows, Precedes
  <2> QED
    BY <2>1, <2>2
<1> QED
  BY <1>9, <1>10, <1>m, <1>11 DEF Sample, IInv

LEMMA IndexIInv == IInv /\ Index => IInv'
<1> SUFFICES ASSUME IInv, Index PROVE IInv'
  OBVIOUS
<1> DEFINE oldest == Head(asked)
           n == NumEntries(oldest)
           a == Slice(states, -n)
           d == SliceStart(Len(states), -n)
<1>0. /\ Len(asked) = 1 /\ oldest = asked[1] /\ oldest \in 0..Limit(epoch) /\ answers = <<>>
      /\ epoch \in Nat /\ Limit(epoch) \in Nat /\ idx \in Nat
      /\ states \in Seq(Int) /\ Len(states) >= 1 /\ Len(states) <= idx
      /\ states[1] = idx - Len(states) + 1 /\ states[Len(states)] = idx
  <2>1. /\ epoch \in Nat /\ Limit(epoch) \in Nat /\ idx \in Nat
        /\ states \in Seq(Int) /\ Len(states) <= idx /\ states # <<>>
    BY LimitGrows DEF Index, IInv, TableInv
  <2>2. 1 \in 1..Len(states) /\ Len(states) \in 1..Len(states)
    BY <2>1
  <2>3. states[1] = idx - Len(states) + 1 /\ states[Len(states)] = idx - Len(states) + Len(states)
    BY <2>2 DEF IInv, TableInv
  <2>4. asked \in Seq(0..Limit(epoch)) /\ answers \in Seq(Seq(Int)) /\ asked # <<>>
    BY DEF Index, IInv, ExchangeInv
  <2>9. Len(asked) + Len(answers) <= 1
    BY DEF IInv, ExchangeInv
  <2>5. Len(asked) \in Nat /\ Len(asked) # 0
    BY <2>4
  <2>8. Len(answers) \in Nat /\ (Len(answers) = 0 => answers = <<>>)
    BY <2>4
  <2>6. Len(asked) = 1 /\ answers = <<>>
    BY <2>5, <2>8, <2>9
  <2>7. oldest = asked[1] /\ oldest \in 0..Limit(epoch)
    <3>1. 1 \in 1..Len(asked)
      BY <2>6
    <3>2. asked[1] \in 0..Limit(epoch)
      BY <2>4, <3>1, ListFacts, Zenon
    <3>3. Head(asked) = asked[1]
      BY <2>4
    <3> QED
      BY <3>2, <3>3
  <2> QED
    BY <2>1, <2>2, <2>3, <2>6, <2>7
<1>1. n \in Int /\ n <= Len(states) /\ (oldest <= idx => n >= 1 /\ idx - n + 1 >= oldest)
      /\ (oldest <= idx => n = Len(states) \/ idx - n + 1 = oldest)
  <2> HIDE DEF oldest
  <2> DEFINE top == IF idx - Len(states) + 1 >= oldest THEN idx - Len(states) + 1 ELSE oldest
             m == idx - top + 1
  <2>1. /\ top \in Int /\ top >= oldest /\ top >= idx - Len(states) + 1
        /\ top = oldest \/ top = idx - Len(states) + 1
        /\ oldest \in Nat /\ Len(states) \in Nat
    BY <1>0
  <2>2. n = IF m <= Len(states) THEN m ELSE Len(states)
    BY <1>0 DEF NumEntries, Larger
  <2> HIDE DEF top, n
  <2>3. n = m
    BY <1>0, <2>1, <2>2
  <2> QED
    BY <1>0, <2>1, <2>3
<1>2. answers' = <<a>> /\ asked' = <<>>
      /\ UNCHANGED <<epoch, states, idx, fidx, message, added, trimmed>>
  BY DEF Index
<1> HIDE DEF n, oldest
<1>3. /\ d \in 0..Len(states) /\ a \in Seq(Int) /\ Len(a) = Len(states) - d
      /\ \A i \in 1..Len(a) : a[i] = states[i + d]
  BY <1>0, <1>1, SliceElements, -n \in Int
<1>4. n >= 1 => d = Len(states) - n
  BY <1>0, <1>1 DEF SliceStart
<1> HIDE DEF a, d
<1>5. \A i \in 1..Len(a) : a[i] = idx - Len(states) + d + i
  <2> TAKE i \in 1..Len(a)
  <2>1. i + d \in 1..Len(states) /\ a[i] = states[i + d] /\ Len(states) \in Nat /\ d \in Nat
    BY <1>0, <1>3, SMTT(30)
  <2>2. states[i + d] = idx - Len(states) + (i + d)
    BY <2>1 DEF IInv, TableInv
  <2> QED
    BY <1>0, <2>1, <2>2
<1>6. Len(a) <= NS_QUEUE_SIZE /\ Consecutive(a, idx)
  <2>0. Len(states) \in Nat /\ Len(states) <= NS_QUEUE_SIZE /\ d \in Nat /\ NS_QUEUE_SIZE \in Nat
    BY <1>0, <1>3, ClientInfoAssumption DEF IInv, TableInv
  <2>1. ASSUME NEW i \in 1..Len(a)
        PROVE  a[i] = a[1] + i - 1 /\ a[i] \in 1..idx
    <3>1. a[1] = idx - Len(states) + d + 1
      BY <1>3, <1>5
    <3>2. a[i] = idx - Len(states) + d + i /\ i \in Nat /\ i >= 1 /\ i <= Len(states) - d
      BY <1>3, <1>5, <2>0
    <3> QED
      BY <1>0, <2>0, <3>1, <3>2, SMTT(30)
  <2>2. Len(a) <= NS_QUEUE_SIZE
    BY <1>3, <2>0
  <2> QED
    BY <2>1, <2>2 DEF Consecutive
<1>7. TableInv' /\ ExchangeInv'
  <2>1. TableInv'
    BY <1>2 DEF IInv, TableInv, Limit
  <2>2. asked' \in Seq(0..Limit(epoch)) /\ Len(asked') = 0
    BY <1>2
  <2>3. answers' \in Seq(Seq(Int)) /\ Len(answers') = 1 /\ answers'[1] = a
    BY <1>2, <1>3, SingleFacts
  <2>4. \A k \in 1..Len(answers') : answers'[k] = a
    BY <2>3
  <2>5. ExchangeInv'
    BY <1>2, <1>6, <2>2, <2>3, <2>4 DEF IInv, ExchangeInv, Limit, Consecutive
  <2> QED
    BY <2>1, <2>5
<1>m. MessageInv' /\ message = <<>>
  <2>1. message = <<>> /\ Len(<<>>) = 0
    BY DEF Index, IInv, MessageInv
  <2> QED
    BY <1>2, <2>1 DEF IInv, MessageInv, Consecutive
<1>8. ASSUME NEW w \in 1..Switches, added[w] # <<>>, LastOf(added[w])[1] = epoch
      PROVE  a # <<>> => a[1] >= fidx /\ (fidx + 1)..(a[1] - 1) \subseteq trimmed
  <2>1. fidx <= idx /\ oldest = fidx
    BY <1>0, <1>8 DEF IInv, CurrentInv
  <2>2. fidx \in Int
    BY <1>0 DEF IInv, ExchangeInv
  <2>3. n >= 1 /\ idx - n + 1 >= fidx /\ (n = Len(states) \/ idx - n + 1 = fidx)
    BY <1>1, <2>1
  <2>4. a # <<>> => a[1] = idx - n + 1
    <3>1. a # <<>> => a[1] = idx - Len(states) + d + 1
      BY <1>3, <1>5
    <3> QED
      BY <1>0, <1>1, <1>4, <2>3, <3>1
  <2>5. n = Len(states) => (fidx + 1)..(idx - n) \subseteq 1..(idx - Len(states))
    BY <1>0, <2>1, <2>2
  <2>6. 1..(idx - Len(states)) \subseteq trimmed
    BY DEF IInv, TableInv
  <2>7. (fidx + 1)..(idx - n + 1 - 1) \subseteq trimmed
    <3>1. CASE n = Len(states)
      BY <1>0, <1>1, <2>2, <2>5, <2>6, <3>1
    <3>2. CASE idx - n + 1 = fidx
      BY <1>0, <1>1, <2>2, <3>2
    <3> QED
      BY <2>3, <3>1, <3>2
  <2>8. idx - n + 1 \in Int
    BY <1>0, <1>1
  <2>9. a # <<>> => a[1] >= fidx
    BY <2>3, <2>4
  <2>10. a # <<>> => (fidx + 1)..(a[1] - 1) \subseteq trimmed
    <3> SUFFICES ASSUME a # <<>> PROVE (fidx + 1)..(a[1] - 1) \subseteq trimmed
      OBVIOUS
    <3>1. a[1] - 1 = idx - n + 1 - 1
      BY <1>0, <1>1, <2>4
    <3> QED
      BY <2>7, <3>1, Zenon
  <2> QED
    BY <2>9, <2>10
<1>9. \A w \in 1..Switches : CurrentInv(added[w])' /\ ReadingsInv(added[w])'
  <2> TAKE w \in 1..Switches
  <2>1. CurrentInv(added[w])'
    BY <1>2, <1>m, <1>8 DEF IInv, CurrentInv, LastOf
  <2>2. ReadingsInv(added[w])'
    BY <1>2 DEF IInv, ReadingsInv, Follows, Precedes
  <2> QED
    BY <2>1, <2>2
<1> QED
  BY <1>2, <1>7, <1>m, <1>9 DEF IInv

LEMMA LostIInv == IInv /\ ConnectionLost => IInv'
<1> SUFFICES ASSUME IInv, ConnectionLost PROVE IInv'
  OBVIOUS
<1>0. /\ asked' = <<>> /\ answers' = <<>> /\ Len(<<>>) = 0
      /\ UNCHANGED <<epoch, states, idx, fidx, message, added, trimmed>>
  BY DEF ConnectionLost
<1>1. TableInv'
  BY <1>0 DEF IInv, TableInv, Limit
<1>2. ExchangeInv' /\ MessageInv'
  BY <1>0 DEF IInv, ExchangeInv, MessageInv, Consecutive, Limit
<1>3. ASSUME NEW w \in 1..Switches
      PROVE  CurrentInv(added[w])' /\ ReadingsInv(added[w])'
  <2>1. CurrentInv(added[w])'
    BY <1>0 DEF IInv, CurrentInv, LastOf
  <2>2. ReadingsInv(added[w])'
    BY <1>0 DEF IInv, ReadingsInv, Follows, Precedes
  <2> QED
    BY <2>1, <2>2
<1> QED
  BY <1>0, <1>1, <1>2, <1>3 DEF IInv

LEMMA RestartIInv == IInv /\ Restart => IInv'
<1> SUFFICES ASSUME IInv, Restart PROVE IInv'
  OBVIOUS
<1>0. /\ epoch \in Nat /\ epoch' = epoch + 1
      /\ Limit(epoch) \in Nat /\ Limit(epoch') \in Nat /\ Limit(epoch) <= Limit(epoch')
      /\ Limit(epoch)' = Limit(epoch')
  BY LimitGrows DEF IInv, TableInv, Restart, Limit
<1>1. TableInv' /\ ExchangeInv'
  BY <1>0, ClientInfoAssumption DEF Restart, IInv, TableInv, ExchangeInv
<1>m. MessageInv'
  BY ClientInfoAssumption DEF Restart, IInv, MessageInv, Consecutive
<1>2. \A w \in 1..Switches : CurrentInv(added[w])' /\ ReadingsInv(added[w])'
  <2> TAKE w \in 1..Switches
  <2>1. added[w] \in Seq(Readings) /\ added' = added
    BY DEF Restart, IInv
  <2>2. \A i \in 1..Len(added[w]) : added[w][i][1] \in Nat /\ added[w][i][1] <= epoch
    BY <2>1 DEF IInv, ReadingsInv, Readings
  <2>3. \A i \in 1..Len(added[w]) : added[w][i][1] # epoch' /\ added[w][i][1] <= epoch'
    BY <1>0, <2>2
  <2>4. CurrentInv(added[w])'
    <3>1. added[w] # <<>> => Len(added[w]) \in 1..Len(added[w])
      BY <2>1
    <3> QED
      BY <2>1, <2>3, <3>1 DEF CurrentInv, LastOf
  <2>5. \A i \in 1..(Len(added[w]) - 1) : i \in 1..Len(added[w])
    BY <2>1
  <2>6. ReadingsInv(added[w])'
    BY <2>1, <2>3, <2>5 DEF IInv, ReadingsInv, Follows, Precedes
  <2> QED
    BY <2>4, <2>6
<1> QED
  BY <1>1, <1>m, <1>2 DEF Restart, IInv
-----------------------------------------------------------------------------
(* The server.                                                             *)

LEMMA AskIInv == IInv /\ Ask => IInv'
<1> SUFFICES ASSUME IInv, Ask PROVE IInv'
  OBVIOUS
<1> DEFINE oldest == IF fidx >= 0 THEN fidx ELSE 0
<1>0. /\ asked' = <<oldest>> /\ answers = <<>>
      /\ UNCHANGED <<epoch, states, idx, fidx, answers, message, added, trimmed>>
  BY DEF Ask
<1>1. /\ epoch \in Nat /\ Limit(epoch) \in Nat /\ fidx \in -1..Limit(epoch)
      /\ oldest \in 0..Limit(epoch)
  BY LimitGrows DEF IInv, TableInv, ExchangeInv
<1> HIDE DEF oldest
<1>2. asked' \in Seq(0..Limit(epoch)) /\ Len(asked') = 1 /\ asked'[1] = oldest
  BY <1>0, <1>1
<1>3. TableInv' /\ ExchangeInv'
  BY <1>0, <1>1, <1>2 DEF IInv, TableInv, ExchangeInv, Limit, Consecutive
<1>m. MessageInv'
  BY <1>0 DEF Ask, IInv, MessageInv, Consecutive
<1>4. \A w \in 1..Switches : CurrentInv(added[w])' /\ ReadingsInv(added[w])'
  <2> TAKE w \in 1..Switches
  <2>1. ReadingsInv(added[w])'
    BY <1>0 DEF IInv, ReadingsInv, Follows, Precedes
  <2>2. added[w] # <<>> /\ LastOf(added[w])[1] = epoch => fidx = oldest
    <3> SUFFICES ASSUME added[w] # <<>>, LastOf(added[w])[1] = epoch
                 PROVE  fidx >= 0
      BY DEF oldest
    <3>1. added[w] \in Seq(Readings) /\ Len(added[w]) \in 1..Len(added[w])
      BY DEF IInv
    <3>2. LastOf(added[w])[2] \in Nat
      BY <3>1 DEF LastOf, Readings
    <3> QED
      BY <3>2 DEF IInv, CurrentInv
  <2>3. CurrentInv(added[w])'
    BY <1>0, <1>2, <2>2 DEF IInv, CurrentInv, LastOf
  <2> QED
    BY <2>1, <2>3
<1> QED
  BY <1>0, <1>3, <1>m, <1>4 DEF IInv

LEMMA ProcessMessageIInv == IInv /\ ProcessMessage => IInv'
<1> SUFFICES ASSUME IInv, ProcessMessage PROVE IInv'
  OBVIOUS
<1>1. /\ answers # <<>> /\ message' = Head(answers) /\ answers' = <<>>
      /\ UNCHANGED <<epoch, states, idx, fidx, asked, added, trimmed>>
  BY DEF ProcessMessage
<1>2. /\ answers \in Seq(Seq(Int)) /\ asked \in Seq(0..Limit(epoch))
      /\ Len(asked) + Len(answers) <= 1
  BY DEF IInv, ExchangeInv
<1>3. Len(asked) \in Nat /\ Len(answers) \in Nat /\ Len(answers) # 0
      /\ (Len(asked) = 0 => asked = <<>>)
  BY <1>1, <1>2
<1>4. asked = <<>> /\ 1 \in 1..Len(answers) /\ message' = answers[1] /\ message' \in Seq(Int)
  BY <1>1, <1>2, <1>3
<1>5. Len(message') <= NS_QUEUE_SIZE /\ Consecutive(message', idx)
  BY <1>4 DEF IInv, ExchangeInv
<1>6. TableInv'
  BY <1>1 DEF IInv, TableInv, Limit
<1>7. answers' \in Seq(Seq(Int)) /\ Len(answers') = 0
  BY <1>1
<1>8. ExchangeInv' /\ MessageInv'
  <2>1. Consecutive(message, idx)'
    BY <1>1, <1>5 DEF Consecutive
  <2>2. /\ fidx' \in -1..Limit(epoch)' /\ asked' \in Seq(0..Limit(epoch)')
        /\ Len(asked') + Len(answers') <= 1
    BY <1>1, <1>2, <1>3, <1>7 DEF IInv, ExchangeInv, Limit
  <2>3. \A k \in 1..Len(answers') : FALSE
    BY <1>7
  <2> QED
    BY <1>1, <1>4, <1>5, <1>7, <2>1, <2>2, <2>3 DEF ExchangeInv, MessageInv
<1>9. \A w \in 1..Switches : CurrentInv(added[w])' /\ ReadingsInv(added[w])'
  <2> TAKE w \in 1..Switches
  <2>1. ReadingsInv(added[w])'
    BY <1>1 DEF IInv, ReadingsInv, Follows, Precedes
  <2>2. CurrentInv(added[w])'
    BY <1>1, <1>4, <1>7 DEF IInv, CurrentInv, LastOf
  <2> QED
    BY <2>1, <2>2
<1> QED
  BY <1>1, <1>6, <1>8, <1>9 DEF IInv

\* A new entry that follows what a switch has got extends its readings.
LEMMA ReadingsExtended ==
    ASSUME epoch \in Nat, NEW s \in Seq(Readings), ReadingsInv(s), NEW n \in Nat,
           s # <<>> /\ LastOf(s)[1] = epoch =>
               LastOf(s)[2] < n /\ (LastOf(s)[2] + 1)..(n - 1) \subseteq trimmed
    PROVE  LET all == Append(s, Reading(n))
           IN  /\ all \in Seq(Readings) /\ ReadingsInv(all)
               /\ all # <<>> /\ LastOf(all) = <<epoch, n>>
<1> DEFINE all == Append(s, Reading(n))
<1>1. Reading(n) = <<epoch, n>> /\ Reading(n) \in Readings
  BY DEF Reading, Readings
<1>2. /\ all \in Seq(Readings) /\ Len(all) = Len(s) + 1 /\ Len(s) \in Nat
      /\ \A i \in 1..Len(s) : all[i] = s[i]
      /\ all[Len(s) + 1] = <<epoch, n>>
  BY <1>1
<1> HIDE DEF all
<1>3. \A i \in 1..Len(s) : s[i] \in Readings /\ s[i][1] \in Nat /\ s[i][2] \in Nat /\ s[i][1] <= epoch
  BY SMTT(30) DEF ReadingsInv, Readings
<1>4. ASSUME NEW i \in 1..Len(all)
      PROVE  all[i][1] <= epoch
  <2>1. CASE i \in 1..Len(s)
    BY <1>2, <1>3, <2>1
  <2>2. CASE i = Len(s) + 1
    <3>1. all[i] = <<epoch, n>>
      BY <1>2, <2>2
    <3> QED
      BY <3>1
  <2> QED
    BY <1>2, <2>1, <2>2
<1>5. ASSUME NEW i \in 1..(Len(all) - 1)
      PROVE  Follows(all[i], all[i + 1])
  <2>1. CASE i + 1 <= Len(s)
    <3>1. i \in 1..(Len(s) - 1) /\ i \in 1..Len(s) /\ i + 1 \in 1..Len(s)
      BY <1>2, <2>1
    <3>2. Follows(s[i], s[i + 1])
      BY <3>1 DEF ReadingsInv
    <3> QED
      BY <1>2, <3>1, <3>2
  <2>2. CASE i = Len(s)
    <3>1. s # <<>> /\ LastOf(s) = s[i] /\ i \in 1..Len(s)
      BY <1>2, <2>2 DEF LastOf
    <3>2. all[i] = s[i] /\ all[i + 1] = <<epoch, n>>
      BY <1>2, <2>2, <3>1
    <3>3. s[i][1] <= epoch /\ s[i][1] \in Nat
      BY <1>3, <3>1
    <3>4. s[i][1] = epoch => s[i][2] < n /\ (s[i][2] + 1)..(n - 1) \subseteq trimmed
      BY <3>1
    <3>5. Follows(s[i], <<epoch, n>>)
      BY <3>3, <3>4 DEF Follows, Precedes
    <3> QED
      BY <3>2, <3>5
  <2> QED
    BY <1>2, <2>1, <2>2
<1>6. all # <<>> /\ LastOf(all) = <<epoch, n>>
  BY <1>2 DEF LastOf
<1>7. ReadingsInv(all)
  BY <1>4, <1>5 DEF ReadingsInv
<1> QED
  BY <1>2, <1>6, <1>7 DEF all

\* What reading an entry does to the readings of one switch.
LEMMA EntryUsed ==
    ASSUME IInv, ReadEntry, NEW w \in 1..Switches
    PROVE  /\ added'[w] \in Seq(Readings) /\ ReadingsInv(added'[w])
           /\ added'[w] # <<>> /\ LastOf(added'[w])[1] = epoch =>
                  LastOf(added'[w])[2] = fidx'
<1> DEFINE s == added[w]
           n == Head(message)
<1>0. epoch \in Nat /\ idx \in Nat /\ fidx \in Int
  BY DEF IInv, TableInv, ExchangeInv
<1>1. s \in Seq(Readings) /\ ReadingsInv(s) /\ CurrentInv(s)
  BY DEF IInv
<1>2. n = message[1] /\ n \in 1..idx /\ message # <<>>
  <2>1. message \in Seq(Int) /\ message # <<>> /\ Consecutive(message, idx)
    BY DEF IInv, MessageInv, ReadEntry
  <2>2. 1 \in 1..Len(message) /\ n = message[1]
    BY <2>1
  <2> QED
    BY <2>1, <2>2 DEF Consecutive
<1>3. fidx' = n /\ added'[w] = IF n > fidx THEN Append(s, Reading(n)) ELSE s
  BY DEF ReadEntry, IsNew
<1>4. s # <<>> /\ LastOf(s)[1] = epoch =>
          LastOf(s)[2] = fidx /\ n >= fidx /\ (fidx + 1)..(n - 1) \subseteq trimmed
  BY <1>1, <1>2 DEF CurrentInv
<1> HIDE DEF n, s
<1>5. CASE n > fidx
  <2>1. s # <<>> /\ LastOf(s)[1] = epoch =>
            LastOf(s)[2] < n /\ (LastOf(s)[2] + 1)..(n - 1) \subseteq trimmed
    BY <1>0, <1>2, <1>4, <1>5
  <2>2. n \in Nat
    BY <1>0, <1>2
  <2>3. /\ added'[w] \in Seq(Readings) /\ ReadingsInv(added'[w])
        /\ LastOf(added'[w]) = <<epoch, n>>
    BY <1>0, <1>1, <1>3, <1>5, <2>1, <2>2, ReadingsExtended
  <2> QED
    BY <1>3, <2>3
<1>6. CASE ~ (n > fidx)
  <2>1. added'[w] = s
    BY <1>3, <1>6
  <2>2. s # <<>> /\ LastOf(s)[1] = epoch => LastOf(s)[2] = n
    BY <1>0, <1>2, <1>4, <1>6
  <2> QED
    BY <1>1, <1>3, <2>1, <2>2
<1> QED
  BY <1>5, <1>6

LEMMA ReadEntryIInv == IInv /\ ReadEntry => IInv'
<1> SUFFICES ASSUME IInv, ReadEntry PROVE IInv'
  OBVIOUS
<1> DEFINE n == Head(message)
           m == Tail(message)
<1>0. /\ epoch \in Nat /\ Limit(epoch) \in Nat /\ idx \in Nat /\ idx <= Limit(epoch)
      /\ Limit(epoch)' = Limit(epoch) /\ NS_QUEUE_SIZE \in Nat
      /\ UNCHANGED <<epoch, states, idx, asked, answers, trimmed>>
      /\ fidx' = n /\ message' = m /\ DOMAIN added' = 1..Switches
  BY LimitGrows, ClientInfoAssumption DEF IInv, TableInv, ReadEntry, Limit
<1>1. /\ message \in Seq(Int) /\ message # <<>> /\ Consecutive(message, idx)
      /\ Len(message) <= NS_QUEUE_SIZE /\ asked = <<>> /\ answers = <<>>
  BY DEF IInv, MessageInv, ReadEntry
<1>2. /\ Len(message) \in Nat \ {0} /\ 1 \in 1..Len(message) /\ n = message[1]
      /\ m \in Seq(Int) /\ Len(m) = Len(message) - 1
      /\ \A i \in 1..Len(m) : m[i] = message[i + 1] /\ i + 1 \in 1..Len(message)
  BY <1>1
<1>3. n \in 1..idx /\ \A i \in 1..Len(m) : m[i] = n + i /\ m[i] \in 1..idx
  <2>1. n \in 1..idx
    BY <1>1, <1>2 DEF Consecutive
  <2>2. ASSUME NEW i \in 1..Len(m)
        PROVE  m[i] = n + i /\ m[i] \in 1..idx
    <3>1. m[i] = message[1] + (i + 1) - 1 /\ m[i] \in 1..idx /\ i \in Int
      BY <1>1, <1>2 DEF Consecutive
    <3> QED
      BY <1>2, <2>1, <3>1
  <2> QED
    BY <2>1, <2>2
<1> HIDE DEF n, m
<1>4. Consecutive(m, idx) /\ (m # <<>> => m[1] = n + 1)
  <2>1. m # <<>> => 1 \in 1..Len(m)
    BY <1>2
  <2>2. ASSUME NEW i \in 1..Len(m)
        PROVE  m[i] = m[1] + i - 1
    <3>1. 1 \in 1..Len(m) /\ m[1] = n + 1 /\ m[i] = n + i /\ i \in Int
      BY <1>2, <1>3
    <3> QED
      BY <1>3, <3>1
  <2> QED
    BY <1>3, <2>1, <2>2 DEF Consecutive
<1>5. TableInv'
  BY <1>0 DEF IInv, TableInv
<1>6. ExchangeInv' /\ MessageInv'
  <2>1. Consecutive(message, idx)'
    BY <1>0, <1>4 DEF Consecutive
  <2>2. fidx' \in -1..Limit(epoch)
    BY <1>0, <1>3
  <2>3. Len(m) <= NS_QUEUE_SIZE
    BY <1>0, <1>1, <1>2
  <2>4. \A k \in 1..Len(answers) : FALSE
    BY <1>1
  <2> QED
    BY <1>0, <1>1, <1>2, <2>1, <2>2, <2>3, <2>4 DEF IInv, ExchangeInv, MessageInv
<1>7. ASSUME NEW w \in 1..Switches
      PROVE  added'[w] \in Seq(Readings) /\ CurrentInv(added[w])' /\ ReadingsInv(added[w])'
  <2>1. /\ added'[w] \in Seq(Readings) /\ ReadingsInv(added'[w])
        /\ added'[w] # <<>> /\ LastOf(added'[w])[1] = epoch => LastOf(added'[w])[2] = fidx'
    BY EntryUsed
  <2>2. /\ \A k \in 1..Len(asked') : FALSE
        /\ \A k \in 1..Len(answers') : FALSE
    BY <1>0, <1>1
  <2>3. fidx' <= idx /\ (m # <<>> => m[1] >= fidx' /\ (fidx' + 1)..(m[1] - 1) \subseteq trimmed)
    BY <1>0, <1>3, <1>4
  <2>4. CurrentInv(added[w])'
    BY <1>0, <2>1, <2>2, <2>3 DEF CurrentInv, LastOf
  <2>5. ReadingsInv(added[w])'
    BY <1>0, <2>1 DEF ReadingsInv, Follows, Precedes
  <2> QED
    BY <2>1, <2>4, <2>5
<1>8. added' \in [1..Switches -> Seq(Readings)]
  <2>1. added' = [w \in 1..Switches |-> added'[w]]
    BY DEF ReadEntry
  <2> QED
    BY <1>7, <2>1
<1> QED
  BY <1>5, <1>6, <1>7, <1>8 DEF IInv

LEMMA RejoinIInv == IInv /\ Rejoin => IInv'
<1> SUFFICES ASSUME IInv, Rejoin PROVE IInv'
  OBVIOUS
<1>1. Limit(epoch) \in Nat
  BY LimitGrows DEF IInv, TableInv
<1>2. TableInv' /\ ExchangeInv'
  <2>0. /\ UNCHANGED <<epoch, states, idx, asked, answers, message, trimmed>> /\ fidx' = -1
        /\ Limit(epoch)' = Limit(epoch)
    BY DEF Rejoin, Limit
  <2>1. TableInv'
    BY <2>0 DEF IInv, TableInv
  <2>2. fidx' \in -1..Limit(epoch)
    BY <1>1, <2>0
  <2>3. ExchangeInv'
    BY <2>0, <2>2, SMTT(30) DEF IInv, ExchangeInv, Consecutive
  <2> QED
    BY <2>1, <2>3
<1>m. MessageInv'
  BY DEF Rejoin, IInv, MessageInv, Consecutive
<1>3. added' = [w \in 1..Switches |-> <<>>]
  BY DEF Rejoin
<1>4. \A w \in 1..Switches : added'[w] = <<>>
  BY <1>3
<1>5. added' \in [1..Switches -> Seq(Readings)]
  BY <1>3
<1> QED
  BY <1>2, <1>m, <1>4, <1>5 DEF IInv, CurrentInv, ReadingsInv

LEMMA NextIInv == IInv /\ [Next]_vars => IInv'
<1>1. ASSUME IInv, UNCHANGED vars PROVE IInv'
  <2>0. UNCHANGED <<epoch, states, idx, fidx, asked, answers, message, added, trimmed>>
    BY <1>1 DEF vars
  <2>1. TableInv'
    BY <1>1, <2>0 DEF IInv, TableInv, Limit
  <2>2. ExchangeInv' /\ MessageInv'
    BY <1>1, <2>0 DEF IInv, ExchangeInv, MessageInv, Consecutive, Limit
  <2>3. ASSUME NEW w \in 1..Switches
        PROVE  CurrentInv(added[w])' /\ ReadingsInv(added[w])'
    <3>1. CurrentInv(added[w])'
      BY <1>1, <2>0 DEF IInv, CurrentInv, LastOf
    <3>2. ReadingsInv(added[w])'
      BY <1>1, <2>0 DEF IInv, ReadingsInv, Follows, Precedes
    <3> QED
      BY <3>1, <3>2
  <2> QED
    BY <1>1, <2>0, <2>1, <2>2, <2>3 DEF IInv
<1> QED
  BY <1>1, SampleIInv, IndexIInv, LostIInv, RestartIInv, AskIInv, ProcessMessageIInv,
     ReadEntryIInv, RejoinIInv
     DEF Next

LEMMA Inductive == Spec => []IInv
<1> QED
  BY InitIInv, NextIInv, PTL DEF Spec
-----------------------------------------------------------------------------
(* Theorems.                                                               *)

\* The table of the controller is always its newest entries, one request or
\* answer is under way, and fidx never runs ahead of what a run can number.
THEOREM TypeCorrect == Spec => []TypeOK
<1> QED
  BY Inductive, IInvTypeOK, PTL

\* No filter of the server gets a reading twice or out of order, although every
\* request repeats the entry asked from, answers are lost with connections and
\* the numbers start again when the controller does (sdn_manager.h:240, 259).
THEOREM InOrder == Spec => []OnceInOrder
<1>1. IInv => OnceInOrder
  BY DEF IInv, ReadingsInv, Follows, OnceInOrder
<1> QED
  BY <1>1, Inductive, PTL

\* What lies between two readings of one run that the filters got had left the
\* table of the controller: nothing that could still be had was passed over
\* (combined1.py:858-862).
THEOREM NothingSkipped == Spec => []NoneSkipped
<1>1. IInv => NoneSkipped
  BY DEF IInv, ReadingsInv, Follows, NoneSkipped
<1> QED
  BY <1>1, Inductive, PTL
=============================================================================
