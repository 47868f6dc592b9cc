------------------------- MODULE RateControlProofs -------------------------
(***************************************************************************)
(* Proofs about RateControl, for any flows, rates and smoothing: the idle  *)
(* counters stay with their flows while flows come and go, and the classes *)
(* share the link.                                                         *)
(***************************************************************************)
EXTENDS RateControl, FiniteSetTheorems, TLAPS

(***************************************************************************)
(* Positions in order.                                                     *)
(***************************************************************************)

\* Every set of natural numbers has a least element.
LEMMA LeastNat ==
    ASSUME NEW T, T \subseteq Nat, T # {}
    PROVE  \E x \in T : \A y \in T : x <= y
<1>1. PICK x \in T : \A y \in T : ~ (<<y, x>> \in OpToRel(<, Nat))
  BY NatLessThanWellFounded, WFMin
<1>2. ASSUME NEW y \in T PROVE x <= y
  <2>1. <<y, x>> \in Nat \X Nat
    OBVIOUS
  <2>2. ~ (y < x)
    BY <1>1, <2>1 DEF OpToRel
  <2> QED
    BY <2>2
<1> QED
  BY <1>2

\* A set of positions is finite.
LEMMA PositionsFinite ==
    ASSUME NEW n \in Nat, NEW S, S \subseteq 1..n
    PROVE  IsFiniteSet(S) /\ Cardinality(S) \in Nat
<1>1. 1 \in Int /\ n \in Int
  OBVIOUS
<1>2. IsFiniteSet(1..n)
  BY <1>1, FS_Interval, Zenon
<1>3. S \in SUBSET (1..n)
  OBVIOUS
<1>4. IsFiniteSet(S)
  BY <1>2, <1>3, FS_Subset, Zenon
<1> QED
  BY <1>4, FS_CardinalityType, Zenon

\* There are n positions from 1 to n.
LEMMA PositionsCount ==
    ASSUME NEW n \in Nat
    PROVE  IsFiniteSet(1..n) /\ Cardinality(1..n) = n
<1>1. 1 \in Int /\ n \in Int
  OBVIOUS
<1>2. IsFiniteSet(1..n) /\ Cardinality(1..n) = IF 1 > n THEN 0 ELSE n - 1 + 1
  BY <1>1, FS_Interval, Zenon
<1> QED
  BY <1>2

\* A set with a member left out has one member less.
LEMMA OneLess ==
    ASSUME NEW S, IsFiniteSet(S), NEW y \in S
    PROVE  /\ IsFiniteSet(S \ {y}) /\ Cardinality(S \ {y}) \in Nat
           /\ Cardinality(S) = Cardinality(S \ {y}) + 1
<1>1. IsFiniteSet(S \ {y}) /\ Cardinality(S \ {y}) = Cardinality(S) - 1
  BY FS_RemoveElement, Zenon
<1>2. Cardinality(S \ {y}) \in Nat /\ Cardinality(S) \in Nat
  BY <1>1, FS_CardinalityType, Zenon
<1> QED
  BY <1>1, <1>2

\* A function that takes no value twice takes as many as it has arguments.
LEMMA TakesAll ==
    ASSUME NEW S, IsFiniteSet(S), NEW f \in [1..Cardinality(S) -> S],
           \A i, j \in 1..Cardinality(S) : f[i] = f[j] => i = j,
           NEW y \in S
    PROVE  \E i \in 1..Cardinality(S) : f[i] = y
<1> SUFFICES ASSUME \A i \in 1..Cardinality(S) : f[i] # y
             PROVE  FALSE
  OBVIOUS
<1>1. Cardinality(S) \in Nat
  BY FS_CardinalityType, Zenon
<1>2. IsFiniteSet(S \ {y}) /\ Cardinality(S \ {y}) \in Nat
      /\ Cardinality(S) = Cardinality(S \ {y}) + 1
  BY OneLess, Zenon
<1> DEFINE I == 1..Cardinality(S)
           T == S \ {y}
<1>3. IsFiniteSet(I) /\ Cardinality(I) = Cardinality(S)
  BY <1>1, PositionsCount, Zenon
<1>4. f \in [I -> T]
  OBVIOUS
<1>5. IsFiniteSet(T) /\ Cardinality(T) < Cardinality(I)
  BY <1>1, <1>2, <1>3
<1> HIDE DEF I, T
<1>6. \E i, j \in I : i # j /\ f[i] = f[j]
  BY <1>3, <1>4, <1>5, FS_PigeonHole, Zenon
<1> QED
  BY <1>6 DEF I

\* Positions that can be put in order.
HasOrder(S) ==
    \E s \in [1..Cardinality(S) -> S] :
        \A i, j \in 1..Cardinality(S) : i < j => s[i] < s[j]

\* Every set of positions has one (by the least n for which a subset of
\* 1..n had none).
LEMMA AscendingExists ==
    ASSUME NEW n \in Nat, NEW S, S \subseteq 1..n
    PROVE  HasOrder(S)
<1> DEFINE Bad == {m \in Nat : \E T : T \subseteq 1..m /\ ~ HasOrder(T)}
<1> SUFFICES ASSUME Bad # {} PROVE FALSE
  OBVIOUS
<1>1. PICK m \in Bad : \A k \in Bad : m <= k
  BY LeastNat
<1>2. PICK T : T \subseteq 1..m /\ ~ HasOrder(T)
  OBVIOUS
<1>3. m \in Nat
  OBVIOUS
<1>4. IsFiniteSet(T) /\ Cardinality(T) \in Nat
  BY <1>2, <1>3, PositionsFinite, Zenon
<1>5. m # 0
  <2> SUFFICES ASSUME m = 0 PROVE FALSE
    OBVIOUS
  <2>1. T = {}
    BY <1>2
  <2>2. Cardinality(T) = 0
    BY <2>1, FS_EmptySet
  <2>3. 1..Cardinality(T) = {}
    BY <2>2
  <2> DEFINE e == [i \in {} |-> i]
  <2>4. e \in [{} -> T]
    OBVIOUS
  <2>5. \A i, j \in {} : i < j => e[i] < e[j]
    OBVIOUS
  <2> HIDE DEF e
  <2> QED
    BY <1>2, <2>3, <2>4, <2>5, Zenon DEF HasOrder
<1>6. m - 1 \in Nat /\ m - 1 \notin Bad
  BY <1>1, <1>3, <1>5
<1>7. \A U : U \subseteq 1..(m - 1) => HasOrder(U)
  BY <1>6
<1> HIDE DEF Bad
<1>8. m \in T
  <2> SUFFICES ASSUME m \notin T PROVE FALSE
    OBVIOUS
  <2>1. T \subseteq 1..(m - 1)
    BY <1>2, <1>3
  <2> QED
    BY <1>2, <1>7, <2>1
<1> DEFINE U == T \ {m}
           c == Cardinality(U)
<1>9. IsFiniteSet(U) /\ c \in Nat /\ Cardinality(T) = c + 1
  BY <1>4, <1>8, OneLess, Zenon
<1>10. U \subseteq 1..(m - 1)
  BY <1>2, <1>3
<1>11. PICK s \in [1..c -> U] : \A i, j \in 1..c : i < j => s[i] < s[j]
  BY <1>7, <1>10 DEF HasOrder
<1> HIDE DEF c
<1> DEFINE t == [i \in 1..(c + 1) |-> IF i = c + 1 THEN m ELSE s[i]]
<1>12. \A i \in 1..(c + 1) : i = c + 1 \/ i \in 1..c
  BY <1>9
<1>13. t \in [1..(c + 1) -> T]
  BY <1>8, <1>11, <1>12
<1>14. ASSUME NEW i \in 1..(c + 1), NEW j \in 1..(c + 1), i < j
       PROVE  t[i] < t[j]
  <2>1. i \in 1..c /\ i # c + 1
    BY <1>9, <1>14
  <2>2. t[i] = s[i] /\ s[i] \in 1..(m - 1)
    BY <1>10, <1>11, <2>1
  <2>3. CASE j = c + 1
    BY <1>3, <2>2, <2>3
  <2>4. CASE j \in 1..c
    BY <1>9, <1>11, <1>14, <2>1, <2>2, <2>4
  <2> QED
    BY <1>12, <2>3, <2>4
<1> HIDE DEF t
<1> QED
  BY <1>2, <1>9, <1>13, <1>14 DEF HasOrder

\* What Ascending gives: every position once.
LEMMA AscendingFacts ==
    ASSUME NEW n \in Nat, NEW S, S \subseteq 1..n
    PROVE  /\ Cardinality(S) \in Nat
           /\ Ascending(S) \in [1..Cardinality(S) -> S]
           /\ \A i, j \in 1..Cardinality(S) : i < j => Ascending(S)[i] < Ascending(S)[j]
           /\ \A i, j \in 1..Cardinality(S) : Ascending(S)[i] = Ascending(S)[j] => i = j
           /\ \A y \in S : \E i \in 1..Cardinality(S) : Ascending(S)[i] = y
<1>1. IsFiniteSet(S) /\ Cardinality(S) \in Nat
  BY PositionsFinite, Zenon
<1> DEFINE s == Ascending(S)
<1>2. /\ s \in [1..Cardinality(S) -> S]
      /\ \A i, j \in 1..Cardinality(S) : i < j => s[i] < s[j]
  BY AscendingExists DEF HasOrder, Ascending
<1> HIDE DEF s
<1>3. ASSUME NEW i \in 1..Cardinality(S), NEW j \in 1..Cardinality(S), s[i] = s[j]
      PROVE  i = j
  <2>1. s[i] \in Int /\ i \in Int /\ j \in Int
    <3>1. s[i] \in S
      BY <1>2
    <3>2. s[i] \in 1..n
      BY <3>1
    <3> QED
      BY <1>1, <3>2
  <2>2. ~ (s[i] < s[j]) /\ ~ (s[j] < s[i])
    BY <1>3, <2>1
  <2> QED
    BY <1>2, <2>1, <2>2
<1>4. \A y \in S : \E i \in 1..Cardinality(S) : s[i] = y
  BY <1>1, <1>2, <1>3, TakesAll
<1> QED
  BY <1>1, <1>2, <1>3, <1>4 DEF s

-----------------------------------------------------------------------------
(***************************************************************************)
(* Arithmetic of the rates.                                                *)
(***************************************************************************)

\* What rounding down does.
LEMMA DivFacts ==
    ASSUME NEW a \in Int, NEW k \in Nat \ {0}
    PROVE  a \div k \in Int /\ k * (a \div k) <= a /\ a < k * (a \div k) + k
OBVIOUS

\* Products keep the order of their factors.
LEMMA TimesOrder ==
    ASSUME NEW k \in Nat, NEW a \in Int, NEW b \in Int, a <= b
    PROVE  k * a <= k * b /\ a * k <= b * k
OBVIOUS

\* Steps between numbers of 0..Ceil, as long as a smoothed rate may take.
OneStep(from, to) ==
    /\ (to - from) * KLong <= Ceil
    /\ (from - to) * KLong < Ceil + KLong

\* A smoothed rate is between the old one and the goal.
LEMMA TowardsRange ==
    ASSUME NEW c \in Nat, NEW rate \in 0..c, NEW goal \in 0..c, NEW k \in Nat \ {0}
    PROVE  /\ Towards(rate, goal, k) \in 0..c
           /\ (Towards(rate, goal, k) - rate) * k <= c
           /\ (rate - Towards(rate, goal, k)) * k < c + k
<1> DEFINE q == (goal - rate) \div k
<1>1. /\ rate \in Int /\ goal \in Int /\ c \in Int /\ k \in Int /\ k > 0
      /\ goal - rate \in Int
  OBVIOUS
<1>2. q \in Int /\ k * q <= goal - rate /\ goal - rate < k * q + k
  BY <1>1, DivFacts
<1>3. Towards(rate, goal, k) = rate + q
  BY DEF Towards
<1> HIDE DEF q
<1>4. CASE goal >= rate
  <2>1. q >= 0
    <3> SUFFICES ASSUME q <= -1 PROVE FALSE
      BY <1>2
    <3>1. k * q <= k * (-1)
      BY <1>1, <1>2, TimesOrder
    <3> QED
      BY <1>1, <1>2, <1>4, <3>1
  <2>2. q <= k * q
    BY <1>1, <1>2, <2>1
  <2> QED
    BY <1>1, <1>2, <1>3, <1>4, <2>1, <2>2
<1>5. CASE goal < rate
  <2>1. q < 0
    <3> SUFFICES ASSUME 0 <= q PROVE FALSE
      BY <1>2
    <3>1. k * 0 <= k * q
      BY <1>1, <1>2, TimesOrder
    <3> QED
      BY <1>1, <1>2, <1>5, <3>1
  <2>2. q >= goal - rate
    <3> SUFFICES ASSUME q <= (goal - rate) - 1 PROVE FALSE
      BY <1>1, <1>2
    <3>1. k * q <= k * ((goal - rate) - 1)
      BY <1>1, <1>2, TimesOrder
    <3>2. k * ((goal - rate) - 1) = k * (goal - rate) - k
      BY <1>1
    <3>3. k * (goal - rate) <= goal - rate
      <4>1. 1 <= k /\ goal - rate <= 0
        BY <1>1, <1>5
      <4>2. (rate - goal) * 1 <= (rate - goal) * k
        BY <1>1, <4>1, TimesOrder
      <4>3. k * (goal - rate) = -((rate - goal) * k)
        BY <1>1
      <4> QED
        BY <1>1, <4>2, <4>3
    <3> QED
      BY <1>1, <1>2, <3>1, <3>2, <3>3
  <2> QED
    BY <1>1, <1>2, <1>3, <1>5, <2>1, <2>2
<1> QED
  BY <1>1, <1>4, <1>5

\* A share of the link is not more than the link.
LEMMA ShareRange ==
    ASSUME NEW c \in Nat, NEW a \in Nat \ {0}, NEW b \in Nat \ {0}
    PROVE  (c * a) \div (a + b) \in 0..c
<1> DEFINE ca == c * a
           n == a + b
           q == ca \div n
<1>1. ca \in Int /\ n \in Nat \ {0} /\ 0 <= ca /\ ca <= c * n
  <2>1. a \in Int /\ a + b \in Int /\ a <= a + b /\ 0 \in Int /\ 0 <= a
    OBVIOUS
  <2>2. c * a <= c * (a + b)
    BY <2>1, TimesOrder
  <2>3. c * 0 <= c * a
    BY <2>1, TimesOrder
  <2> QED
    BY <2>2, <2>3
<1>6aame. (c * a) \div (a + b) = q
  OBVIOUS
<1> HIDE DEF ca, n
<1>2. q \in Int /\ n * q <= ca /\ ca < n * q + n
  BY <1>1, DivFacts
<1> HIDE DEF q
<1>3. n \in Nat /\ n > 0
  BY <1>1
<1>4. q >= 0
  <2> SUFFICES ASSUME q <= -1 PROVE FALSE
    BY <1>2
  <2>1. n * q <= n * (-1)
    BY <1>2, <1>3, TimesOrder
  <2> QED
    BY <1>1, <1>2, <1>3, <2>1
<1>5. q <= c
  <2> SUFFICES ASSUME c + 1 <= q PROVE FALSE
    BY <1>2
  <2>1. n * (c + 1) <= n * q
    BY <1>2, <1>3, TimesOrder
  <2>2. n * (c + 1) = c * n + n
    BY <1>3
  <2> QED
    BY <1>1, <1>2, <1>3, <2>1, <2>2
<1> QED
  BY <1>2, <1>4, <1>5, <1>6aame
-----------------------------------------------------------------------------
(***************************************************************************)
(* The four lists of a protocol.                                           *)
(***************************************************************************)

\* A function on 1..n is a list.
LEMMA ListOfFunction ==
    ASSUME NEW S, NEW n \in Nat, NEW s \in [1..n -> S]
    PROVE  s \in Seq(S) /\ Len(s) = n /\ DOMAIN s = 1..n
OBVIOUS

\* An element of a list is of its element type.
LEMMA SeqElement ==
    ASSUME NEW S, NEW s \in Seq(S), NEW i \in 1..Len(s)
    PROVE  s[i] \in S
OBVIOUS

\* A list with one element more.
LEMMA AppendTrue ==
    ASSUME NEW s \in Seq(BOOLEAN)
    PROVE  /\ Append(s, TRUE) \in Seq(BOOLEAN) /\ Len(Append(s, TRUE)) = Len(s) + 1
           /\ Append(s, TRUE)[Len(s) + 1] = TRUE
           /\ \A i \in 1..Len(s) : Append(s, TRUE)[i] = s[i]
OBVIOUS

\* Entries picked from a list.
LEMMA PickedFacts ==
    ASSUME NEW S, NEW list \in Seq(S), NEW n \in Nat, NEW s \in [1..n -> 1..Len(list)]
    PROVE  /\ Picked(list, s) \in Seq(S)
           /\ Len(Picked(list, s)) = n
           /\ \A k \in 1..n : Picked(list, s)[k] = list[s[k]]
<1> DEFINE picked == [k \in 1..n |-> list[s[k]]]
<1>1. Picked(list, s) = picked
  BY DEF Picked
<1>2. ASSUME NEW k \in 1..n PROVE list[s[k]] \in S
  <2>1. s[k] \in 1..Len(list)
    OBVIOUS
  <2> QED
    BY <2>1
<1>3. picked \in Seq(S) /\ Len(picked) = n /\ \A k \in 1..n : picked[k] = list[s[k]]
  BY <1>2
<1> QED
  BY <1>1, <1>3

\* A list names nothing twice.
Distinct(list) == \A i, j \in 1..Len(list) : list[i] = list[j] => i = j

\* u has an entry of t in each of its places.
EntryOf(u, k, t, j) ==
    u.flows[k] = t.flows[j] /\ u.bytes[k] = t.bytes[j] /\ u.active[k] = t.active[j]

\* What removing stale entries leaves: those that exist, each in one piece.
LEMMA KeptFacts ==
    ASSUME NEW t \in Lists, Parallel(t)
    PROVE  LET u == WithoutStale(t) IN
           /\ u \in Lists /\ Parallel(u)
           /\ \A k \in 1..Len(u.flows) :
                 \E j \in 1..Len(t.flows) : t.exist[j] /\ EntryOf(u, k, t, j)
           /\ \A j \in 1..Len(t.flows) : t.exist[j] =>
                 \E k \in 1..Len(u.flows) : u.flows[k] = t.flows[j]
           /\ Distinct(t.flows) => Distinct(u.flows)
<1> DEFINE I == {j \in DOMAIN t.exist : t.exist[j]}
           n == Cardinality(I)
           s == Ascending(I)
           u == WithoutStale(t)
<1>1. /\ t.flows \in Seq(Flow) /\ t.bytes \in Seq(Bytes)
      /\ t.active \in Seq(0..ZERO_D_CNT) /\ t.exist \in Seq(BOOLEAN)
      /\ Len(t.flows) \in Nat
      /\ Len(t.bytes) = Len(t.flows) /\ Len(t.active) = Len(t.flows)
      /\ Len(t.exist) = Len(t.flows)
  BY DEF Lists, Parallel
<1>2. I \subseteq 1..Len(t.flows)
  BY <1>1
<1>3. u = [flows  |-> Picked(t.flows, s),  bytes |-> Picked(t.bytes, s),
           active |-> Picked(t.active, s), exist |-> Picked(t.exist, s)]
  BY DEF WithoutStale, Existing
<1>4. \A j \in 1..Len(t.flows) : t.exist[j] => j \in I
  BY <1>1
<1>5. \A j \in I : j \in 1..Len(t.flows) /\ t.exist[j]
  BY <1>2
<1> HIDE DEF u, I
<1>6. /\ n \in Nat /\ s \in [1..n -> I]
      /\ \A i, j \in 1..n : s[i] = s[j] => i = j
      /\ \A y \in I : \E i \in 1..n : s[i] = y
  BY <1>1, <1>2, AscendingFacts
<1>6a. s \in [1..n -> 1..Len(t.flows)]
  BY <1>2, <1>6
<1> HIDE DEF n, s
<1>7. /\ u.flows \in Seq(Flow) /\ Len(u.flows) = n
      /\ \A k \in 1..n : u.flows[k] = t.flows[s[k]]
  <2>1. u.flows = Picked(t.flows, s) /\ t.flows \in Seq(Flow) /\ Len(t.flows) = Len(t.flows)
    BY <1>1, <1>3
  <2> QED
    BY <1>6, <1>6a, <2>1, PickedFacts
<1>8. /\ u.bytes \in Seq(Bytes) /\ Len(u.bytes) = n
      /\ \A k \in 1..n : u.bytes[k] = t.bytes[s[k]]
  <2>1. u.bytes = Picked(t.bytes, s) /\ t.bytes \in Seq(Bytes) /\ Len(t.bytes) = Len(t.flows)
    BY <1>1, <1>3
  <2> QED
    BY <1>6, <1>6a, <2>1, PickedFacts
<1>9. /\ u.active \in Seq(0..ZERO_D_CNT) /\ Len(u.active) = n
      /\ \A k \in 1..n : u.active[k] = t.active[s[k]]
  <2>1. u.active = Picked(t.active, s) /\ t.active \in Seq(0..ZERO_D_CNT) /\ Len(t.active) = Len(t.flows)
    BY <1>1, <1>3
  <2> QED
    BY <1>6, <1>6a, <2>1, PickedFacts
<1>10. u.exist \in Seq(BOOLEAN) /\ Len(u.exist) = n
  <2>1. u.exist = Picked(t.exist, s) /\ t.exist \in Seq(BOOLEAN) /\ Len(t.exist) = Len(t.flows)
    BY <1>1, <1>3
  <2> QED
    BY <1>6, <1>6a, <2>1, PickedFacts
<1>11. u \in Lists /\ Parallel(u)
  BY <1>3, <1>7, <1>8, <1>9, <1>10 DEF Lists, Parallel
<1>12. ASSUME NEW k \in 1..Len(u.flows)
       PROVE  \E j \in 1..Len(t.flows) : t.exist[j] /\ EntryOf(u, k, t, j)
  <2>1. k \in 1..n /\ s[k] \in I
    BY <1>6, <1>7
  <2>2. s[k] \in 1..Len(t.flows) /\ t.exist[s[k]]
    BY <1>5, <2>1
  <2> QED
    BY <1>7, <1>8, <1>9, <2>1, <2>2 DEF EntryOf
<1>13. ASSUME NEW j \in 1..Len(t.flows), t.exist[j]
       PROVE  \E k \in 1..Len(u.flows) : u.flows[k] = t.flows[j]
  <2>1. PICK k \in 1..n : s[k] = j
    BY <1>4, <1>6, <1>13
  <2> QED
    BY <1>7, <2>1
<1>14. ASSUME Distinct(t.flows) PROVE Distinct(u.flows)
  <2> SUFFICES ASSUME NEW i \in 1..n, NEW j \in 1..n, u.flows[i] = u.flows[j]
               PROVE  i = j
    BY <1>7 DEF Distinct
  <2>1. s[i] \in 1..Len(t.flows) /\ s[j] \in 1..Len(t.flows)
    BY <1>5, <1>6
  <2>2. t.flows[s[i]] = t.flows[s[j]]
    BY <1>7
  <2> QED
    BY <1>6, <1>14, <2>1, <2>2 DEF Distinct
<1> QED
  BY <1>11, <1>12, <1>13, <1>14 DEF u

\* u is t after the line x, whose entry is now at j: the entry that its flow
\* had, counted again, or a new one.  The other entries are those of t.
Updated(t, x, u, j) ==
    /\ u.flows[j] = x.flow /\ u.bytes[j] = x.bytes /\ u.exist[j]
    /\ \A i \in 1..Len(u.flows) : i # j =>
          i \in 1..Len(t.flows) /\ EntryOf(u, i, t, i) /\ u.exist[i] = t.exist[i]
    /\ IF j \in 1..Len(t.flows)
       THEN /\ t.flows[j] = x.flow
            /\ u.active[j] = IF t.bytes[j] # x.bytes THEN 0
                             ELSE CountTo(t.active[j], ZERO_D_CNT)
       ELSE /\ u.active[j] = 0
            /\ \A i \in 1..Len(t.flows) : t.flows[i] # x.flow

\* What a line of the dump does to the lists.
LEMMA SeenFacts ==
    ASSUME NEW t \in Lists, Parallel(t), NEW x \in [flow : Flow, bytes : Bytes]
    PROVE  /\ Seen(t, x) \in Lists /\ Parallel(Seen(t, x))
           /\ Len(t.flows) <= Len(Seen(t, x).flows)
           /\ \E j \in 1..Len(Seen(t, x).flows) : Updated(t, x, Seen(t, x), j)
<1> DEFINE u == Seen(t, x)
           n == Len(t.flows)
<1>1. /\ t.flows \in Seq(Flow) /\ t.bytes \in Seq(Bytes)
      /\ t.active \in Seq(0..ZERO_D_CNT) /\ t.exist \in Seq(BOOLEAN)
      /\ n \in Nat
      /\ Len(t.bytes) = n /\ Len(t.active) = n /\ Len(t.exist) = n
      /\ DOMAIN t.flows = 1..n
  BY DEF Lists, Parallel
<1>2. x.flow \in Flow /\ x.bytes \in Bytes /\ 0 \in 0..ZERO_D_CNT
  BY RateAssumption
<1>3. \A k \in 0..ZERO_D_CNT : CountTo(k, ZERO_D_CNT) \in 0..ZERO_D_CNT
  BY RateAssumption DEF CountTo
<1>4. CASE \E j \in 1..n : t.flows[j] = x.flow
  <2> DEFINE j == Index(t.flows, x.flow)
             a == IF t.bytes[j] # x.bytes THEN 0 ELSE CountTo(t.active[j], ZERO_D_CNT)
  <2>1. j \in 1..n /\ t.flows[j] = x.flow
    BY <1>1, <1>4 DEF Index
  <2>2. u = [t EXCEPT !.active[j] = IF t.bytes[j] # x.bytes THEN 0
                                   ELSE CountTo(@, ZERO_D_CNT),
                      !.bytes[j] = x.bytes, !.exist[j] = TRUE]
    <3>1. \E i \in DOMAIN t.flows : t.flows[i] = x.flow
      BY <1>1, <1>4
    <3> QED
      BY <3>1, Zenon DEF Seen
  <2>3. a \in 0..ZERO_D_CNT
    <3>1. t.active \in Seq(0..ZERO_D_CNT) /\ j \in 1..Len(t.active)
      BY <1>1, <2>1
    <3> HIDE DEF j
    <3>2. t.active[j] \in 0..ZERO_D_CNT
      BY <3>1, SeqElement, Zenon
    <3> QED
      BY <1>2, <1>3, <3>2
  <2> HIDE DEF j, a, u
  <2>4. /\ u.flows = t.flows /\ u.active = [t.active EXCEPT ![j] = a]
        /\ u.bytes = [t.bytes EXCEPT ![j] = x.bytes]
        /\ u.exist = [t.exist EXCEPT ![j] = TRUE]
        /\ u = [flows |-> u.flows, bytes |-> u.bytes, active |-> u.active, exist |-> u.exist]
    BY <2>2 DEF Lists, a
  <2>5. u.active \in Seq(0..ZERO_D_CNT) /\ Len(u.active) = n
    BY <1>1, <2>1, <2>3, <2>4
  <2>6. u.bytes \in Seq(Bytes) /\ Len(u.bytes) = n
    BY <1>1, <1>2, <2>1, <2>4
  <2>7. u.exist \in Seq(BOOLEAN) /\ Len(u.exist) = n
    BY <1>1, <2>1, <2>4
  <2>8. u \in Lists /\ Parallel(u)
    BY <1>1, <2>4, <2>5, <2>6, <2>7 DEF Lists, Parallel
  <2>9. u.bytes[j] = x.bytes /\ u.active[j] = a /\ u.exist[j] = TRUE
    BY <1>1, <2>1, <2>4
  <2>10. \A i \in 1..n : i # j => EntryOf(u, i, t, i) /\ u.exist[i] = t.exist[i]
    BY <1>1, <2>1, <2>4 DEF EntryOf
  <2> QED
    <3>1. n <= Len(u.flows) /\ j \in 1..Len(u.flows) /\ u.flows[j] = x.flow
      BY <1>1, <2>1, <2>4
    <3>2. \A i \in 1..Len(u.flows) : i # j => i \in 1..n /\ EntryOf(u, i, t, i)
                                              /\ u.exist[i] = t.exist[i]
      BY <2>4, <2>10
    <3>3. u.active[j] = IF t.bytes[j] # x.bytes THEN 0
                       ELSE CountTo(t.active[j], ZERO_D_CNT)
      BY <2>9 DEF a
    <3> HIDE DEF n
    <3> QED
      BY <2>1, <2>8, <2>9, <3>1, <3>2, <3>3 DEF u, n, Updated
<1>5. CASE \A j \in 1..n : t.flows[j] # x.flow
  <2>1. u = [flows |-> Append(t.flows, x.flow), bytes |-> Append(t.bytes, x.bytes),
             active |-> Append(t.active, 0), exist |-> Append(t.exist, TRUE)]
    BY <1>1, <1>5 DEF Seen
  <2> HIDE DEF u
  <2>2. u.flows \in Seq(Flow) /\ Len(u.flows) = n + 1
        /\ u.flows[n + 1] = x.flow /\ \A i \in 1..n : u.flows[i] = t.flows[i]
    BY <1>1, <1>2, <2>1
  <2>3. u.bytes \in Seq(Bytes) /\ Len(u.bytes) = n + 1
        /\ u.bytes[n + 1] = x.bytes /\ \A i \in 1..n : u.bytes[i] = t.bytes[i]
    BY <1>1, <1>2, <2>1
  <2>4. u.active \in Seq(0..ZERO_D_CNT) /\ Len(u.active) = n + 1
        /\ u.active[n + 1] = 0 /\ \A i \in 1..n : u.active[i] = t.active[i]
    BY <1>1, <1>2, <2>1
  <2>5. u.exist \in Seq(BOOLEAN) /\ Len(u.exist) = n + 1
        /\ u.exist[n + 1] = TRUE /\ \A i \in 1..n : u.exist[i] = t.exist[i]
    <3> DEFINE list == t.exist
    <3>1. u.exist = Append(list, TRUE) /\ list \in Seq(BOOLEAN) /\ Len(list) = n
      BY <1>1, <2>1
    <3> HIDE DEF list
    <3>2. /\ Append(list, TRUE) \in Seq(BOOLEAN)
          /\ Len(Append(list, TRUE)) = Len(list) + 1
          /\ Append(list, TRUE)[Len(list) + 1] = TRUE
          /\ \A i \in 1..Len(list) : Append(list, TRUE)[i] = list[i]
      BY <3>1, AppendTrue
    <3> HIDE DEF n
    <3> QED
      BY <3>1, <3>2, Zenon DEF list
  <2>6. u \in Lists /\ Parallel(u)
    BY <2>1, <2>2, <2>3, <2>4, <2>5 DEF Lists, Parallel
  <2>7. /\ n + 1 \in 1..(n + 1) /\ n + 1 \notin 1..n /\ n <= n + 1
        /\ \A i \in 1..(n + 1) : i # n + 1 => i \in 1..n
    BY <1>1
  <2>8. \A i \in 1..n : EntryOf(u, i, t, i)
    BY <2>2, <2>3, <2>4 DEF EntryOf
  <2> HIDE DEF n
  <2> QED
    BY <1>5, <2>2, <2>3, <2>4, <2>5, <2>6, <2>7, <2>8 DEF u, n, Updated
<1> QED
  BY <1>4, <1>5
-----------------------------------------------------------------------------
(***************************************************************************)
(* The inductive invariant.                                                *)
(***************************************************************************)

\* Of the classes: the first is the smoothed rate, before find_rates gives it
\* a new value and after the first command has taken it over; the second
\* follows one command later.
ClassInv ==
    /\ pc # "class10" => class10 = long_rate
    /\ pc # "class20" => class10 + class20 \in {Ceil - 1, Ceil}
    /\ pc = "class10" => OneStep(class10, long_rate)
    /\ pc = "class20" => \E old \in 0..Ceil :
           OneStep(old, class10) /\ old + class20 \in {Ceil - 1, Ceil}

\* Of the lines of a dump that are still to be processed: each flow has one,
\* with the bytes of the dump.
LinesInv ==
    /\ \A i \in 1..Len(lines) :
           /\ lines[i].flow \in DOMAIN history
           /\ history[lines[i].flow].bytes = lines[i].bytes
    /\ \A i, j \in 1..Len(lines) : lines[i].flow = lines[j].flow => i = j

\* What the dump says of the flow of an entry that has been seen is in it.
SeenInv(t) ==
    \A j \in 1..Len(t.flows) : t.exist[j] =>
        /\ t.flows[j] \in DOMAIN history
        /\ history[t.flows[j]] = [bytes |-> t.bytes[j], idle |-> t.active[j]]
        /\ \A i \in 1..Len(lines) : lines[i].flow # t.flows[j]

\* What it says of the flow of a line is what the line will make of its entry.
UnseenInv(p, t) ==
    \A i \in 1..Len(lines) : ProtoOf(lines[i].flow) = p =>
        /\ \A j \in 1..Len(t.flows) : t.flows[j] = lines[i].flow =>
               history[lines[i].flow].idle =
                   IF t.bytes[j] # lines[i].bytes THEN 0
                   ELSE CountTo(t.active[j], ZERO_D_CNT)
        /\ (\A j \in 1..Len(t.flows) : t.flows[j] # lines[i].flow) =>
               history[lines[i].flow].idle = 0

\* Every flow of the dump has been seen or has a line.
CoverInv(p, t) ==
    \A f \in DOMAIN history : ProtoOf(f) = p =>
        \/ \E i \in 1..Len(lines) : lines[i].flow = f
        \/ \E j \in 1..Len(t.flows) : t.flows[j] = f /\ t.exist[j]

DumpInv(p, t) ==
    /\ \A j \in 1..Len(t.flows) : ProtoOf(t.flows[j]) = p
    /\ Distinct(t.flows)
    /\ SeenInv(t) /\ UnseenInv(p, t) /\ CoverInv(p, t)

IInv ==
    /\ TypeOK /\ ClassInv
    /\ pc = "dump" => LinesInv /\ \A p \in Proto : DumpInv(p, table[p])
    /\ CountsIdle

\* The counters stop where the code compares them.
LEMMA CountToRange ==
    ASSUME NEW n \in Nat, NEW k \in 0..n
    PROVE  CountTo(k, n) \in 0..n
BY DEF CountTo

\* The dump of TakeDump: one line for each flow in it, and what it adds to the
\* history.
LEMMA DumpTaken ==
    ASSUME TypeOK, TakeDump
    PROVE  \E flows \in SUBSET Flow :
              /\ lines' \in Seq([flow : Flow, bytes : Bytes])
              /\ DOMAIN history' = flows
              /\ history' \in [flows -> [bytes : Bytes, idle : 0..ZERO_D_CNT]]
              /\ \A i \in 1..Len(lines') :
                    /\ lines'[i].flow \in flows
                    /\ history'[lines'[i].flow] =
                          [bytes |-> lines'[i].bytes,
                           idle |-> IF Unchanged(lines'[i])
                                    THEN CountTo(history[lines'[i].flow].idle, ZERO_D_CNT)
                                    ELSE 0]
              /\ \A i, j \in 1..Len(lines') : lines'[i].flow = lines'[j].flow => i = j
              /\ \A f \in flows : \E i \in 1..Len(lines') : lines'[i].flow = f
<1>1. PICK flows \in SUBSET Flow : \E d \in Dumps(flows) :
           /\ lines' = d
           /\ history' = [f \in flows |->
                 LET x == d[CHOOSE i \in DOMAIN d : d[i].flow = f]
                 IN [bytes |-> x.bytes,
                     idle |-> IF Unchanged(x) THEN CountTo(history[f].idle, ZERO_D_CNT) ELSE 0]]
  BY DEF TakeDump
<1>2. PICK d \in Dumps(flows) :
           /\ lines' = d
           /\ history' = [f \in flows |->
                 LET x == d[CHOOSE i \in DOMAIN d : d[i].flow = f]
                 IN [bytes |-> x.bytes,
                     idle |-> IF Unchanged(x) THEN CountTo(history[f].idle, ZERO_D_CNT) ELSE 0]]
  BY <1>1
<1> DEFINE n == Cardinality(flows)
<1>3. IsFiniteSet(Flow)
  BY RateAssumption, FS_Union DEF Flow
<1>4. IsFiniteSet(flows) /\ n \in Nat
  BY <1>3, FS_Subset, FS_CardinalityType
<1>5. /\ d \in [1..n -> [flow : flows, bytes : Bytes]]
      /\ \A i, j \in 1..n : d[i].flow = d[j].flow => i = j
  BY DEF Dumps
<1> DEFINE g == [i \in 1..n |-> d[i].flow]
<1>6. g \in [1..n -> flows] /\ \A i, j \in 1..n : g[i] = g[j] => i = j
  BY <1>5
<1> HIDE DEF g
<1>7. \A f \in flows : \E i \in 1..n : g[i] = f
  BY <1>4, <1>6, TakesAll
<1>8. \A f \in flows : \E i \in 1..n : d[i].flow = f
  BY <1>7 DEF g
<1> HIDE DEF n
<1>9. d \in Seq([flow : Flow, bytes : Bytes]) /\ Len(d) = n /\ DOMAIN d = 1..n
  <2>1. d \in [1..n -> [flow : Flow, bytes : Bytes]]
    BY <1>5
  <2> QED
    BY <1>4, <2>1, ListOfFunction
<1> DEFINE Record(f, x) ==
             [bytes |-> x.bytes,
              idle |-> IF Unchanged(x) THEN CountTo(history[f].idle, ZERO_D_CNT) ELSE 0]
<1>10. history' = [f \in flows |-> Record(f, d[CHOOSE i \in 1..n : d[i].flow = f])]
  BY <1>2, <1>9
<1>11. ASSUME NEW i \in 1..n PROVE history'[d[i].flow] = Record(d[i].flow, d[i])
  <2>1. d[i].flow \in flows
    BY <1>5
  <2>2. (CHOOSE k \in 1..n : d[k].flow = d[i].flow) = i
    BY <1>5
  <2> HIDE DEF Record
  <2> QED
    BY <1>10, <2>1, <2>2
<1>12. ASSUME NEW i \in 1..n
       PROVE  Record(d[i].flow, d[i]) \in [bytes : Bytes, idle : 0..ZERO_D_CNT]
  <2>1. d[i].bytes \in Bytes /\ ZERO_D_CNT \in Nat /\ 0 \in 0..ZERO_D_CNT
    BY <1>5, RateAssumption
  <2>2. Unchanged(d[i]) => history[d[i].flow].idle \in 0..ZERO_D_CNT
    BY DEF TypeOK, Unchanged
  <2>3. Unchanged(d[i]) => CountTo(history[d[i].flow].idle, ZERO_D_CNT) \in 0..ZERO_D_CNT
    BY <2>1, <2>2, CountToRange
  <2> QED
    BY <2>1, <2>3
<1>13. ASSUME NEW f \in flows PROVE history'[f] \in [bytes : Bytes, idle : 0..ZERO_D_CNT]
  <2>1. PICK i \in 1..n : d[i].flow = f
    BY <1>8
  <2> HIDE DEF Record
  <2> QED
    BY <1>11, <1>12, <2>1
<1>14. DOMAIN history' = flows
  BY <1>10
<1>15. history' = [f \in flows |-> history'[f]]
  BY <1>10, <1>14
<1>16. history' \in [flows -> [bytes : Bytes, idle : 0..ZERO_D_CNT]]
  BY <1>13, <1>15
<1>17. \A i \in 1..n : d[i].flow \in flows
  BY <1>5
<1>18. lines' = d /\ Len(d) = n
  BY <1>2, <1>9
<1> HIDE DEF Record
<1>19. /\ lines' \in Seq([flow : Flow, bytes : Bytes])
       /\ \A i \in 1..Len(lines') :
             /\ lines'[i].flow \in flows
             /\ history'[lines'[i].flow] = Record(lines'[i].flow, lines'[i])
       /\ \A i, j \in 1..Len(lines') : lines'[i].flow = lines'[j].flow => i = j
       /\ \A f \in flows : \E i \in 1..Len(lines') : lines'[i].flow = f
  BY <1>5, <1>8, <1>9, <1>11, <1>17, <1>18
<1> QED
  BY <1>14, <1>16, <1>19, Zenon DEF Record

\* Entries marked as not existing keep the rest.
LEMMA Marked ==
    ASSUME NEW t \in Lists, Parallel(t)
    PROVE  LET u == [t EXCEPT !.exist = [j \in DOMAIN @ |-> FALSE]] IN
           /\ u \in Lists /\ Parallel(u)
           /\ u.flows = t.flows /\ u.bytes = t.bytes /\ u.active = t.active
           /\ \A j \in 1..Len(t.flows) : u.exist[j] = FALSE
<1> DEFINE e == [j \in DOMAIN t.exist |-> FALSE]
           u == [t EXCEPT !.exist = e]
<1>1. t.exist \in Seq(BOOLEAN) /\ Len(t.exist) = Len(t.flows) /\ Len(t.exist) \in Nat
      /\ DOMAIN t.exist = 1..Len(t.exist)
  BY DEF Lists, Parallel
<1>2. e \in [1..Len(t.exist) -> BOOLEAN] /\ \A j \in 1..Len(t.exist) : e[j] = FALSE
  BY <1>1
<1> HIDE DEF e
<1>3. e \in Seq(BOOLEAN) /\ Len(e) = Len(t.exist)
  BY <1>1, <1>2, ListOfFunction
<1>4. /\ u.flows = t.flows /\ u.bytes = t.bytes /\ u.active = t.active /\ u.exist = e
      /\ u = [flows |-> t.flows, bytes |-> t.bytes, active |-> t.active, exist |-> e]
  BY DEF Lists
<1> HIDE DEF u
<1>5. u \in Lists /\ Parallel(u)
  BY <1>1, <1>3, <1>4 DEF Lists, Parallel
<1> QED
  BY <1>1, <1>2, <1>4, <1>5 DEF e, u

\* Outside a dump the lists say what the dump said.
LEMMA ListsOutsideDump ==
    ASSUME TypeOK, CountsIdle, pc # "dump", NEW p \in Proto
    PROVE  LET t == table[p] IN
           /\ t \in Lists /\ Parallel(t)
           /\ Distinct(t.flows)
           /\ \A j \in 1..Len(t.flows) :
                 /\ t.flows[j] \in DOMAIN history /\ ProtoOf(t.flows[j]) = p
                 /\ history[t.flows[j]] = [bytes |-> t.bytes[j], idle |-> t.active[j]]
           /\ \A f \in DOMAIN history : ProtoOf(f) = p =>
                 \E j \in 1..Len(t.flows) : t.flows[j] = f
<1> DEFINE t == table[p]
<1>1. t \in Lists /\ Parallel(t)
  BY DEF TypeOK
<1>2. DOMAIN t.flows = 1..Len(t.flows)
  BY <1>1 DEF Lists
<1>3. /\ {t.flows[j] : j \in DOMAIN t.flows} = {f \in DOMAIN history : ProtoOf(f) = p}
      /\ \A j \in DOMAIN t.flows :
             history[t.flows[j]] = [bytes |-> t.bytes[j], idle |-> t.active[j]]
      /\ \A i, j \in DOMAIN t.flows : t.flows[i] = t.flows[j] => i = j
  BY DEF TypeOK, CountsIdle
<1> HIDE DEF t
<1>4. \A j \in 1..Len(t.flows) : t.flows[j] \in DOMAIN history /\ ProtoOf(t.flows[j]) = p
  BY <1>2, <1>3
<1>5. \A f \in DOMAIN history : ProtoOf(f) = p => \E j \in 1..Len(t.flows) : t.flows[j] = f
  BY <1>2, <1>3
<1> QED
  BY <1>1, <1>2, <1>3, <1>4, <1>5 DEF Distinct, t

\* A dump starts with all of its lines to be processed and no entry seen.
LEMMA DumpStarts ==
    ASSUME TypeOK, CountsIdle, TakeDump
    PROVE  LinesInv' /\ \A p \in Proto : DumpInv(p, table[p])'
<1>1. PICK flows \in SUBSET Flow :
              /\ DOMAIN history' = flows
              /\ \A i \in 1..Len(lines') :
                    /\ lines'[i].flow \in flows
                    /\ history'[lines'[i].flow] =
                          [bytes |-> lines'[i].bytes,
                           idle |-> IF Unchanged(lines'[i])
                                    THEN CountTo(history[lines'[i].flow].idle, ZERO_D_CNT)
                                    ELSE 0]
              /\ \A i, j \in 1..Len(lines') : lines'[i].flow = lines'[j].flow => i = j
              /\ \A f \in flows : \E i \in 1..Len(lines') : lines'[i].flow = f
  BY DumpTaken
<1>2. ASSUME NEW i \in 1..Len(lines')
      PROVE  /\ history'[lines'[i].flow].bytes = lines'[i].bytes
             /\ history'[lines'[i].flow].idle =
                   IF Unchanged(lines'[i])
                   THEN CountTo(history[lines'[i].flow].idle, ZERO_D_CNT) ELSE 0
  <2> DEFINE k == IF Unchanged(lines'[i])
                  THEN CountTo(history[lines'[i].flow].idle, ZERO_D_CNT) ELSE 0
  <2>1. history'[lines'[i].flow] = [bytes |-> lines'[i].bytes, idle |-> k]
    BY <1>1, Zenon
  <2> HIDE DEF k
  <2>2. history'[lines'[i].flow].bytes = lines'[i].bytes
        /\ history'[lines'[i].flow].idle = k
    BY <2>1
  <2> QED
    BY <2>2 DEF k
<1>3. LinesInv'
  BY <1>1, <1>2 DEF LinesInv
<1>4. ASSUME NEW p \in Proto PROVE DumpInv(p, table[p])'
  <2> DEFINE t == table[p]
             u == table'[p]
  <2>1. pc # "dump"
    BY DEF TakeDump
  <2>2. /\ t \in Lists /\ Parallel(t)
        /\ Distinct(t.flows)
        /\ \A j \in 1..Len(t.flows) :
              /\ t.flows[j] \in DOMAIN history /\ ProtoOf(t.flows[j]) = p
              /\ history[t.flows[j]] = [bytes |-> t.bytes[j], idle |-> t.active[j]]
        /\ \A f \in DOMAIN history : ProtoOf(f) = p =>
              \E j \in 1..Len(t.flows) : t.flows[j] = f
    BY <2>1, ListsOutsideDump
  <2>3. u = [t EXCEPT !.exist = [j \in DOMAIN @ |-> FALSE]]
    BY DEF TakeDump
  <2> HIDE DEF t, u
  <2>4. /\ u.flows = t.flows /\ u.bytes = t.bytes /\ u.active = t.active
        /\ \A j \in 1..Len(t.flows) : u.exist[j] = FALSE
    BY <2>2, <2>3, Marked
  <2>5. SeenInv(table[p])'
    BY <2>4 DEF SeenInv, u
  <2>6. CoverInv(p, table[p])'
    BY <1>1 DEF CoverInv
  <2>7. ASSUME NEW i \in 1..Len(lines'), ProtoOf(lines'[i].flow) = p,
               NEW j \in 1..Len(u.flows), u.flows[j] = lines'[i].flow
        PROVE  history'[lines'[i].flow].idle =
                   IF u.bytes[j] # lines'[i].bytes THEN 0
                   ELSE CountTo(u.active[j], ZERO_D_CNT)
    <3>1. /\ lines'[i].flow \in DOMAIN history
          /\ history[lines'[i].flow].bytes = u.bytes[j]
          /\ history[lines'[i].flow].idle = u.active[j]
      <4>1. j \in 1..Len(t.flows) /\ lines'[i].flow = t.flows[j]
        BY <2>4, <2>7
      <4>2. history[t.flows[j]] = [bytes |-> t.bytes[j], idle |-> t.active[j]]
        BY <2>2, <4>1
      <4>3. history[t.flows[j]].bytes = t.bytes[j] /\ history[t.flows[j]].idle = t.active[j]
        BY <4>2
      <4> QED
        BY <2>2, <2>4, <4>1, <4>3, Zenon
    <3> QED
      BY <1>2, <3>1 DEF Unchanged
  <2>8. ASSUME NEW i \in 1..Len(lines'), ProtoOf(lines'[i].flow) = p,
               \A j \in 1..Len(u.flows) : u.flows[j] # lines'[i].flow
        PROVE  history'[lines'[i].flow].idle = 0
    <3>1. lines'[i].flow \notin DOMAIN history
      BY <2>2, <2>4, <2>8
    <3> QED
      BY <1>2, <3>1 DEF Unchanged
  <2>9. UnseenInv(p, table[p])'
    BY <2>7, <2>8 DEF UnseenInv, u
  <2>10. (\A j \in 1..Len(u.flows) : ProtoOf(u.flows[j]) = p) /\ Distinct(u.flows)
    BY <2>2, <2>4
  <2> QED
    BY <2>5, <2>6, <2>9, <2>10 DEF DumpInv, u
<1> QED
  BY <1>3, <1>4

\* The lists of a protocol other than that of the line stay, and so does what
\* is said of them.
LEMMA OtherProtocol ==
    ASSUME TypeOK, SeeFlow, NEW p \in Proto, p # ProtoOf(lines[1].flow),
           DumpInv(p, table[p])
    PROVE  DumpInv(p, table[p])'
<1>1. table'[p] = table[p] /\ history' = history
  BY DEF SeeFlow, TypeOK
<1>2. /\ Len(lines) \in Nat /\ Len(lines') = Len(lines) - 1
      /\ \A i \in 1..Len(lines') : i + 1 \in 1..Len(lines) /\ lines'[i] = lines[i + 1]
  BY DEF SeeFlow, TypeOK
<1>3. \A i \in 1..Len(lines) : i # 1 => i - 1 \in 1..Len(lines') /\ lines'[i - 1] = lines[i]
  <2>1. ASSUME NEW i \in 1..Len(lines), i # 1
        PROVE  i - 1 \in 1..Len(lines') /\ (i - 1) + 1 = i
    BY <1>2, <2>1
  <2> QED
    BY <1>2, <2>1
<1>4. SeenInv(table[p])'
  <2> DEFINE t == table[p]
  <2>1. SeenInv(t)
    BY DEF DumpInv
  <2> HIDE DEF t
  <2>2. ASSUME NEW j \in 1..Len(t.flows), t.exist[j]
        PROVE  /\ t.flows[j] \in DOMAIN history
               /\ history[t.flows[j]] = [bytes |-> t.bytes[j], idle |-> t.active[j]]
               /\ \A i \in 1..Len(lines') : lines'[i].flow # t.flows[j]
    <3>1. /\ t.flows[j] \in DOMAIN history
          /\ history[t.flows[j]] = [bytes |-> t.bytes[j], idle |-> t.active[j]]
          /\ \A i \in 1..Len(lines) : lines[i].flow # t.flows[j]
      BY <2>1, <2>2 DEF SeenInv
    <3>2. \A i \in 1..Len(lines') : lines'[i].flow # t.flows[j]
      BY <1>2, <3>1
    <3> QED
      BY <3>1, <3>2
  <2> QED
    BY <1>1, <2>2 DEF SeenInv, t
<1>5. UnseenInv(p, table[p])'
  BY <1>1, <1>2, SMTT(30) DEF DumpInv, UnseenInv
<1>6. CoverInv(p, table[p])'
  <2> SUFFICES ASSUME NEW f \in DOMAIN history, ProtoOf(f) = p,
                      ~ \E j \in 1..Len(table[p].flows) :
                            table[p].flows[j] = f /\ table[p].exist[j]
               PROVE  \E i \in 1..Len(lines') : lines'[i].flow = f
    BY <1>1 DEF CoverInv
  <2>1. PICK i \in 1..Len(lines) : lines[i].flow = f
    BY DEF DumpInv, CoverInv
  <2> QED
    BY <1>3, <2>1
<1> QED
  BY <1>1, <1>4, <1>5, <1>6 DEF DumpInv

\* A line brings the entry of its flow up to date.
LEMMA SameProtocol ==
    ASSUME TypeOK, LinesInv, SeeFlow, NEW p \in Proto, p = ProtoOf(lines[1].flow),
           DumpInv(p, table[p])
    PROVE  DumpInv(p, table[p])'
<1> DEFINE t == table[p]
           u == table'[p]
           x == lines[1]
           n == Len(t.flows)
<1>1. u = Seen(t, x) /\ history' = history
  BY DEF SeeFlow, TypeOK
<1>2. /\ Len(lines) \in Nat /\ Len(lines') = Len(lines) - 1 /\ 1 \in 1..Len(lines)
      /\ \A i \in 1..Len(lines') : i + 1 \in 1..Len(lines) /\ i + 1 # 1
                                   /\ lines'[i] = lines[i + 1]
      /\ x \in [flow : Flow, bytes : Bytes]
  <2>1. lines \in Seq([flow : Flow, bytes : Bytes]) /\ lines # <<>> /\ lines' = Tail(lines)
    BY DEF SeeFlow, TypeOK
  <2>2. Len(lines) \in Nat /\ 1 \in 1..Len(lines)
    BY <2>1
  <2>3. x \in [flow : Flow, bytes : Bytes]
    BY <2>1, <2>2, SeqElement, Zenon
  <2>4. /\ Len(lines') = Len(lines) - 1
        /\ \A i \in 1..Len(lines') : i + 1 \in 1..Len(lines) /\ i + 1 # 1
                                     /\ lines'[i] = lines[i + 1]
    BY <2>1, <2>2
  <2> QED
    BY <2>2, <2>3, <2>4
<1>3. \A i \in 1..Len(lines) : i # 1 => i - 1 \in 1..Len(lines') /\ lines'[i - 1] = lines[i]
  <2>1. ASSUME NEW i \in 1..Len(lines), i # 1
        PROVE  i - 1 \in 1..Len(lines') /\ (i - 1) + 1 = i
    BY <1>2, <2>1
  <2> QED
    BY <1>2, <2>1
<1>4. t \in Lists /\ Parallel(t)
  BY DEF TypeOK
<1>5. /\ \A j \in 1..n : ProtoOf(t.flows[j]) = p
      /\ Distinct(t.flows)
      /\ SeenInv(t) /\ UnseenInv(p, t) /\ CoverInv(p, t)
  BY DEF DumpInv
<1>6. /\ \A i \in 1..Len(lines) : lines[i].flow \in DOMAIN history
                                 /\ history[lines[i].flow].bytes = lines[i].bytes
      /\ \A i \in 1..Len(lines') : lines'[i].flow # x.flow
  BY <1>2 DEF LinesInv
<1>7. history[x.flow] \in [bytes : Bytes, idle : 0..ZERO_D_CNT]
  BY <1>2, <1>6 DEF TypeOK
<1> HIDE DEF t, u, x
<1>7a. x \in [flow : Flow, bytes : Bytes]
  BY <1>2
<1>7b. PICK j \in 1..Len(u.flows) : Updated(t, x, u, j)
  BY <1>1, <1>4, <1>7a, SeenFacts
<1>8. /\ u.flows[j] = x.flow /\ u.bytes[j] = x.bytes /\ u.exist[j]
      /\ \A i \in 1..Len(u.flows) : i # j =>
            i \in 1..n /\ EntryOf(u, i, t, i) /\ u.exist[i] = t.exist[i]
      /\ IF j \in 1..n
         THEN /\ t.flows[j] = x.flow
              /\ u.active[j] = IF t.bytes[j] # x.bytes THEN 0
                               ELSE CountTo(t.active[j], ZERO_D_CNT)
         ELSE /\ u.active[j] = 0
              /\ \A i \in 1..n : t.flows[i] # x.flow
  BY <1>7b DEF Updated
<1>9. n <= Len(u.flows) /\ n \in Nat /\ Len(u.flows) \in Nat
  <2>1. n <= Len(u.flows) /\ u \in Lists
    BY <1>1, <1>2, <1>4, SeenFacts
  <2> QED
    BY <1>4, <2>1 DEF Lists
<1>10. history[x.flow].bytes = x.bytes /\ history[x.flow].idle = u.active[j]
  <2>1. history[x.flow].bytes = x.bytes
    BY <1>2, <1>6 DEF x
  <2>2. 1 \in 1..Len(lines) /\ lines[1] = x /\ ProtoOf(x.flow) = p
    BY <1>2 DEF x
  <2>3. /\ \A k \in 1..n : t.flows[k] = x.flow =>
               history[x.flow].idle = IF t.bytes[k] # x.bytes THEN 0
                                      ELSE CountTo(t.active[k], ZERO_D_CNT)
        /\ (\A k \in 1..n : t.flows[k] # x.flow) => history[x.flow].idle = 0
    BY <1>5, <2>2, Zenon DEF UnseenInv
  <2>4. history[x.flow].idle = u.active[j]
    <3> HIDE DEF n
    <3>1. CASE j \in 1..n
      BY <1>8, <2>3, <3>1, Zenon
    <3>2. CASE j \notin 1..n
      BY <1>8, <2>3, <3>2, Zenon
    <3> QED
      BY <3>1, <3>2
  <2> QED
    BY <2>1, <2>4
<1>11. history[x.flow] = [bytes |-> u.bytes[j], idle |-> u.active[j]]
  BY <1>7, <1>8, <1>10
<1> HIDE DEF n
<1>12. ASSUME NEW i \in 1..Len(u.flows), i # j
       PROVE  /\ i \in 1..n /\ u.flows[i] = t.flows[i] /\ u.bytes[i] = t.bytes[i]
              /\ u.active[i] = t.active[i] /\ u.exist[i] = t.exist[i]
              /\ t.flows[i] # x.flow
  <2>1. /\ i \in 1..n /\ u.flows[i] = t.flows[i] /\ u.bytes[i] = t.bytes[i]
        /\ u.active[i] = t.active[i] /\ u.exist[i] = t.exist[i]
    BY <1>8, <1>12 DEF EntryOf
  <2>2. t.flows[i] # x.flow
    BY <1>5, <1>8, <1>12, <2>1 DEF Distinct, n
  <2> QED
    BY <2>1, <2>2
<1>13. SeenInv(table[p])'
  <2>1. ASSUME NEW i \in 1..Len(u.flows), u.exist[i]
        PROVE  /\ u.flows[i] \in DOMAIN history
               /\ history[u.flows[i]] = [bytes |-> u.bytes[i], idle |-> u.active[i]]
               /\ \A k \in 1..Len(lines') : lines'[k].flow # u.flows[i]
    <3>1. CASE i = j
      BY <1>2, <1>6, <1>8, <1>11, <3>1 DEF x
    <3>2. CASE i # j
      <4>1. i \in 1..n /\ t.exist[i] /\ u.flows[i] = t.flows[i]
            /\ u.bytes[i] = t.bytes[i] /\ u.active[i] = t.active[i]
        BY <1>12, <2>1, <3>2
      <4>2. /\ t.flows[i] \in DOMAIN history
            /\ history[t.flows[i]] = [bytes |-> t.bytes[i], idle |-> t.active[i]]
            /\ \A k \in 1..Len(lines) : lines[k].flow # t.flows[i]
        BY <1>5, <4>1 DEF SeenInv, n
      <4>3. \A k \in 1..Len(lines') : lines'[k].flow # t.flows[i]
        BY <1>2, <4>2
      <4> QED
        BY <4>1, <4>2, <4>3
    <3> QED
      BY <3>1, <3>2
  <2> QED
    BY <1>1, <2>1 DEF SeenInv, u
<1>14. UnseenInv(p, table[p])'
  <2>1. ASSUME NEW i \in 1..Len(lines'), ProtoOf(lines'[i].flow) = p,
               NEW k \in 1..Len(u.flows), u.flows[k] = lines'[i].flow
        PROVE  history[lines'[i].flow].idle =
                   IF u.bytes[k] # lines'[i].bytes THEN 0
                   ELSE CountTo(u.active[k], ZERO_D_CNT)
    <3>1. k # j
      BY <1>6, <1>8, <2>1
    <3>2. /\ k \in 1..n /\ t.flows[k] = lines'[i].flow /\ u.bytes[k] = t.bytes[k]
          /\ u.active[k] = t.active[k]
      BY <1>12, <2>1, <3>1
    <3>3. i + 1 \in 1..Len(lines) /\ lines'[i] = lines[i + 1]
      BY <1>2
    <3> QED
      BY <1>5, <2>1, <3>2, <3>3 DEF UnseenInv, n
  <2>2. ASSUME NEW i \in 1..Len(lines'), ProtoOf(lines'[i].flow) = p,
               \A k \in 1..Len(u.flows) : u.flows[k] # lines'[i].flow
        PROVE  history[lines'[i].flow].idle = 0
    <3>1. i + 1 \in 1..Len(lines) /\ lines'[i] = lines[i + 1]
      BY <1>2
    <3>2. \A k \in 1..n : t.flows[k] # lines'[i].flow
      <4> SUFFICES ASSUME NEW k \in 1..n PROVE t.flows[k] # lines'[i].flow
        OBVIOUS
      <4>1. k \in 1..Len(u.flows)
        BY <1>9
      <4> QED
        BY <1>6, <1>8, <1>12, <2>2, <4>1
    <3> QED
      BY <1>5, <2>2, <3>1, <3>2 DEF UnseenInv, n
  <2> QED
    BY <1>1, <2>1, <2>2 DEF UnseenInv, u
<1>15. CoverInv(p, table[p])'
  <2>1. ASSUME NEW f \in DOMAIN history, ProtoOf(f) = p
        PROVE  \/ \E i \in 1..Len(lines') : lines'[i].flow = f
               \/ \E k \in 1..Len(u.flows) : u.flows[k] = f /\ u.exist[k]
    <3>1. CASE f = x.flow
      BY <1>8, <3>1
    <3>2. ASSUME f # x.flow, NEW i \in 1..Len(lines), lines[i].flow = f
          PROVE  \E k \in 1..Len(lines') : lines'[k].flow = f
      BY <1>3, <3>2 DEF x
    <3>3. ASSUME f # x.flow, NEW k \in 1..n, t.flows[k] = f, t.exist[k]
          PROVE  u.flows[k] = f /\ u.exist[k] /\ k \in 1..Len(u.flows)
      BY <1>8, <1>9, <1>12, <3>3
    <3> QED
      BY <1>5, <2>1, <3>1, <3>2, <3>3 DEF CoverInv, n
  <2> QED
    BY <1>1, <2>1 DEF CoverInv, u
<1>16. /\ \A i \in 1..Len(u.flows) : ProtoOf(u.flows[i]) = p
       /\ Distinct(u.flows)
  <2>1. \A i \in 1..Len(u.flows) : i # j => ProtoOf(u.flows[i]) = p
    BY <1>5, <1>12 DEF n
  <2>2. ProtoOf(u.flows[j]) = p
    BY <1>8 DEF x
  <2>3. ASSUME NEW i \in 1..Len(u.flows), NEW k \in 1..Len(u.flows), u.flows[i] = u.flows[k]
        PROVE  i = k
    BY <1>5, <1>8, <1>12, <2>3 DEF Distinct, n
  <2> QED
    BY <2>1, <2>2, <2>3 DEF Distinct
<1> QED
  BY <1>13, <1>14, <1>15, <1>16 DEF DumpInv, u

\* So a line keeps what holds during a dump.
LEMMA DumpContinues ==
    ASSUME TypeOK, LinesInv, \A p \in Proto : DumpInv(p, table[p]), SeeFlow
    PROVE  LinesInv' /\ \A p \in Proto : DumpInv(p, table[p])'
<1>1. /\ Len(lines) \in Nat /\ Len(lines') = Len(lines) - 1 /\ history' = history
      /\ \A i \in 1..Len(lines') : i + 1 \in 1..Len(lines) /\ lines'[i] = lines[i + 1]
  BY DEF SeeFlow, TypeOK
<1>2. LinesInv'
  <2>1. ASSUME NEW i \in 1..Len(lines'), NEW j \in 1..Len(lines'),
               lines'[i].flow = lines'[j].flow
        PROVE  i = j
    <3>1. i + 1 = j + 1
      BY <1>1, <2>1, SMTT(30) DEF LinesInv
    <3> QED
      BY <1>1, <3>1
  <2>2. \A i \in 1..Len(lines') : /\ lines'[i].flow \in DOMAIN history
                                  /\ history[lines'[i].flow].bytes = lines'[i].bytes
    <3> SUFFICES ASSUME NEW i \in 1..Len(lines')
                 PROVE  /\ lines'[i].flow \in DOMAIN history
                        /\ history[lines'[i].flow].bytes = lines'[i].bytes
      OBVIOUS
    <3>1. i + 1 \in 1..Len(lines) /\ lines'[i] = lines[i + 1]
      BY <1>1
    <3> QED
      BY <3>1 DEF LinesInv
  <2> QED
    BY <1>1, <2>1, <2>2 DEF LinesInv
<1> QED
  BY <1>2, OtherProtocol, SameProtocol

\* When the entries that were not seen are gone, the lists say what the dump said.
LEMMA DumpEnds ==
    ASSUME TypeOK, \A p \in Proto : DumpInv(p, table[p]), RemoveStale
    PROVE  CountsIdle'
<1> SUFFICES ASSUME NEW p \in Proto
             PROVE  LET u == table'[p] IN
                    /\ {u.flows[j] : j \in DOMAIN u.flows}
                            = {f \in DOMAIN history : ProtoOf(f) = p}
                    /\ \A j \in DOMAIN u.flows :
                           history[u.flows[j]] = [bytes |-> u.bytes[j], idle |-> u.active[j]]
                    /\ \A i, j \in DOMAIN u.flows : u.flows[i] = u.flows[j] => i = j
  BY DEF CountsIdle, RemoveStale
<1> DEFINE t == table[p]
           u == table'[p]
<1>1. u = WithoutStale(t) /\ t \in Lists /\ Parallel(t) /\ lines = <<>>
  BY DEF RemoveStale, TypeOK
<1>2. /\ \A j \in 1..Len(t.flows) : ProtoOf(t.flows[j]) = p
      /\ Distinct(t.flows)
      /\ SeenInv(t) /\ CoverInv(p, t)
  BY DEF DumpInv
<1> HIDE DEF t, u
<1>3. /\ u \in Lists
      /\ \A k \in 1..Len(u.flows) :
            \E j \in 1..Len(t.flows) : t.exist[j] /\ EntryOf(u, k, t, j)
      /\ \A j \in 1..Len(t.flows) : t.exist[j] =>
            \E k \in 1..Len(u.flows) : u.flows[k] = t.flows[j]
      /\ Distinct(u.flows)
  BY <1>1, <1>2, KeptFacts
<1>4. DOMAIN u.flows = 1..Len(u.flows)
  BY <1>3 DEF Lists
<1>5. ASSUME NEW k \in 1..Len(u.flows)
      PROVE  /\ u.flows[k] \in DOMAIN history /\ ProtoOf(u.flows[k]) = p
             /\ history[u.flows[k]] = [bytes |-> u.bytes[k], idle |-> u.active[k]]
  <2>1. PICK j \in 1..Len(t.flows) : t.exist[j] /\ EntryOf(u, k, t, j)
    BY <1>3
  <2> QED
    BY <1>2, <2>1 DEF SeenInv, EntryOf
<1>6. ASSUME NEW f \in DOMAIN history, ProtoOf(f) = p
      PROVE  \E k \in 1..Len(u.flows) : u.flows[k] = f
  <2>1. ~ \E i \in 1..Len(lines) : TRUE
    BY <1>1
  <2>2. PICK j \in 1..Len(t.flows) : t.flows[j] = f /\ t.exist[j]
    BY <1>2, <1>6, <2>1 DEF CoverInv
  <2> QED
    BY <1>3, <2>2
<1>7. {u.flows[j] : j \in DOMAIN u.flows} = {f \in DOMAIN history : ProtoOf(f) = p}
  <2>1. ASSUME NEW f \in {u.flows[j] : j \in DOMAIN u.flows}
        PROVE  f \in DOMAIN history /\ ProtoOf(f) = p
    <3>1. PICK j \in DOMAIN u.flows : f = u.flows[j]
      OBVIOUS
    <3>2. u.flows[j] \in DOMAIN history /\ ProtoOf(u.flows[j]) = p
      BY <1>4, <1>5
    <3> QED
      BY <3>1, <3>2, Zenon
  <2>2. ASSUME NEW f \in DOMAIN history, ProtoOf(f) = p
        PROVE  f \in {u.flows[j] : j \in DOMAIN u.flows}
    BY <1>4, <1>6, <2>2
  <2> QED
    BY <2>1, <2>2
<1> QED
  BY <1>3, <1>4, <1>5, <1>7 DEF Distinct, u
-----------------------------------------------------------------------------
(***************************************************************************)
(* Every step keeps the invariant.                                         *)
(***************************************************************************)

\* What find_rates computes with.
LEMMA RatesFacts ==
    ASSUME TypeOK, FindRates
    PROVE  /\ {short_rate', long_rate', reported'} \subseteq 0..Ceil
           /\ qni_cnt' \in 0..ZERO_Q_CNT
           /\ OneStep(long_rate, long_rate')
<1>1. /\ short_rate \in 0..Ceil /\ long_rate \in 0..Ceil /\ Cmn \in 0..Ceil
      /\ Ceil \in Nat /\ KShort \in Nat \ {0} /\ KLong \in Nat \ {0}
  BY RateAssumption DEF TypeOK
<1>2. ASSUME NEW p \in Proto PROVE ActiveFlows(p) \in Nat \ {0}
  <2> DEFINE I == {j \in DOMAIN table[p].active : table[p].active[j] < ZERO_D_CNT}
  <2>1. Len(table[p].active) \in Nat /\ DOMAIN table[p].active = 1..Len(table[p].active)
    BY DEF TypeOK, Lists
  <2>2. I \subseteq 1..Len(table[p].active)
    BY <2>1
  <2>3. ActiveFlows(p) = Cardinality(I) + 1
    BY DEF ActiveFlows
  <2> HIDE DEF I
  <2>4. Cardinality(I) \in Nat
    BY <2>1, <2>2, PositionsFinite
  <2> QED
    BY <2>3, <2>4
<1>3. Share \in 0..Ceil
  <2>1. ActiveFlows("udp") \in Nat \ {0} /\ ActiveFlows("tcp") \in Nat \ {0}
    BY <1>2 DEF Proto
  <2> QED
    BY <1>1, <2>1, ShareRange DEF Share
<1>4. long_rate' = Towards(long_rate, Share, KLong)
  BY DEF FindRates
<1>5. long_rate' \in 0..Ceil /\ OneStep(long_rate, long_rate')
  BY <1>1, <1>3, <1>4, TowardsRange DEF OneStep
<1> DEFINE goal == IF qni_cnt' < ZERO_Q_CNT THEN long_rate ELSE Cmn
<1>6. goal \in 0..Ceil
  BY <1>1
<1>7. short_rate' = Towards(short_rate, goal, KShort) /\ reported' = short_rate'
  BY DEF FindRates, UpdateReportedBw
<1> HIDE DEF goal
<1>8. short_rate' \in 0..Ceil
  BY <1>1, <1>6, <1>7, TowardsRange
<1>9. qni_cnt' \in 0..ZERO_Q_CNT
  <2>1. ZERO_Q_CNT \in Nat /\ qni_cnt \in 0..ZERO_Q_CNT /\ 0 \in 0..ZERO_Q_CNT
    BY RateAssumption DEF TypeOK
  <2>2. CountTo(qni_cnt, ZERO_Q_CNT) \in 0..ZERO_Q_CNT
    BY <2>1, CountToRange
  <2> QED
    BY <2>1, <2>2 DEF FindRates, QueueCount
<1> QED
  BY <1>5, <1>7, <1>8, <1>9

\* The types stay.
LEMMA TypeNext == ASSUME TypeOK, [Next]_vars PROVE TypeOK'
<1>1. CASE SkipRound
  <2>1. skip_cnt' \in 0..Skip - 1
    BY <1>1, RateAssumption, SMTT(30) DEF SkipRound, TypeOK
  <2>2. /\ pc' = pc
        /\ UNCHANGED <<table, lines, q_ni, qni_cnt, short_rate, long_rate, reported,
                       class10, class20, history, moved>>
    BY <1>1 DEF SkipRound, ratesVars
  <2> QED
    BY <2>1, <2>2 DEF TypeOK
<1>2. CASE TakeDump
  <2>1. PICK flows \in SUBSET Flow :
           /\ lines' \in Seq([flow : Flow, bytes : Bytes])
           /\ DOMAIN history' = flows
           /\ history' \in [flows -> [bytes : Bytes, idle : 0..ZERO_D_CNT]]
    BY <1>2, DumpTaken
  <2>2. ASSUME NEW p \in Proto PROVE table'[p] \in Lists /\ Parallel(table'[p])
    <3> DEFINE t == table[p]
    <3>1. t \in Lists /\ Parallel(t)
      BY DEF TypeOK
    <3>2. table'[p] = [t EXCEPT !.exist = [j \in DOMAIN @ |-> FALSE]]
      BY <1>2 DEF TakeDump
    <3> HIDE DEF t
    <3> QED
      BY <3>1, <3>2, Marked
  <2>3. table' \in [Proto -> Lists]
    <3>1. table' = [p \in Proto |-> table'[p]]
      BY <1>2 DEF TakeDump
    <3> QED
      BY <2>2, <3>1
  <2>4. /\ pc' = "dump" /\ skip_cnt' = 0 /\ moved' \in BOOLEAN
        /\ UNCHANGED <<q_ni, qni_cnt, short_rate, long_rate, reported, class10, class20>>
    BY <1>2 DEF TakeDump, ratesVars
  <2>5. skip_cnt' \in 0..Skip - 1
    BY <2>4, RateAssumption
  <2> QED
    BY <2>1, <2>2, <2>3, <2>4, <2>5 DEF TypeOK
<1>3. CASE SeeFlow
  <2> DEFINE x == lines[1]
             q == ProtoOf(x.flow)
  <2>1. lines \in Seq([flow : Flow, bytes : Bytes]) /\ lines # <<>> /\ lines' = Tail(lines)
    BY <1>3 DEF SeeFlow, TypeOK
  <2>2. lines' \in Seq([flow : Flow, bytes : Bytes]) /\ 1 \in 1..Len(lines)
    BY <2>1
  <2>3. x \in [flow : Flow, bytes : Bytes]
    BY <2>1, <2>2, SeqElement, Zenon
  <2>4. q \in Proto
    BY DEF ProtoOf, Proto
  <2>5. table' = [table EXCEPT ![q] = Seen(table[q], x)]
    BY <1>3 DEF SeeFlow
  <2>6. Seen(table[q], x) \in Lists /\ Parallel(Seen(table[q], x))
    BY <2>3, <2>4, SeenFacts DEF TypeOK
  <2> HIDE DEF x, q
  <2>7. table' \in [Proto -> Lists] /\ \A p \in Proto : Parallel(table'[p])
    BY <2>4, <2>5, <2>6 DEF TypeOK
  <2>8. UNCHANGED <<pc, skip_cnt, q_ni, qni_cnt, short_rate, long_rate, reported,
                    class10, class20, history, moved>>
    BY <1>3 DEF SeeFlow, ratesVars
  <2> QED
    BY <2>2, <2>7, <2>8 DEF TypeOK
<1>4. CASE RemoveStale
  <2>1. ASSUME NEW p \in Proto PROVE table'[p] \in Lists /\ Parallel(table'[p])
    <3>1. table[p] \in Lists /\ Parallel(table[p]) /\ table'[p] = WithoutStale(table[p])
      BY <1>4 DEF TypeOK, RemoveStale
    <3> QED
      BY <3>1, KeptFacts
  <2>2. table' = [p \in Proto |-> table'[p]]
    BY <1>4 DEF RemoveStale
  <2>3. table' \in [Proto -> Lists]
    BY <2>1, <2>2
  <2>4. pc' = "rates" /\ UNCHANGED <<skip_cnt, lines, q_ni, qni_cnt, short_rate, long_rate,
                                     reported, class10, class20, history, moved>>
    BY <1>4 DEF RemoveStale, ratesVars
  <2> QED
    BY <2>1, <2>3, <2>4 DEF TypeOK
<1>5. CASE FindRates
  <2>1. /\ pc' = "class10" /\ q_ni' \in BOOLEAN
        /\ UNCHANGED <<skip_cnt, table, lines, class10, class20, history, moved>>
    BY <1>5 DEF FindRates
  <2>2. /\ short_rate' \in 0..Ceil /\ long_rate' \in 0..Ceil /\ reported' \in 0..Ceil
        /\ qni_cnt' \in 0..ZERO_Q_CNT
    BY <1>5, RatesFacts
  <2> QED
    BY <2>1, <2>2 DEF TypeOK
<1>6. CASE SetInteractive
  BY <1>6 DEF SetInteractive, TypeOK, ratesVars
<1>7. CASE SetOther
  <2>1. /\ pc' = "wait" /\ class20' = Ceil - long_rate
        /\ UNCHANGED <<skip_cnt, table, lines, q_ni, qni_cnt, short_rate, long_rate, reported,
                       class10, history, moved>>
    BY <1>7 DEF SetOther, ratesVars
  <2>2. class20' \in 0..Ceil
    BY <2>1, RateAssumption, SMTT(30) DEF TypeOK
  <2> QED
    BY <2>1, <2>2 DEF TypeOK
<1>8. CASE UNCHANGED vars
  BY <1>8 DEF vars, TypeOK, ratesVars
<1> QED
  BY <1>1, <1>2, <1>3, <1>4, <1>5, <1>6, <1>7, <1>8 DEF Next

\* The classes follow the smoothed rate.
LEMMA ClassNext == ASSUME TypeOK, ClassInv, [Next]_vars PROVE ClassInv'
<1>1. long_rate \in 0..Ceil /\ class10 \in 0..Ceil /\ Ceil \in Nat
  BY RateAssumption DEF TypeOK
<1>2. CASE FindRates
  <2>1. /\ pc = "rates" /\ pc' = "class10" /\ class10' = class10 /\ class20' = class20
        /\ OneStep(long_rate, long_rate')
    BY <1>2, RatesFacts DEF FindRates
  <2> QED
    BY <2>1 DEF ClassInv
<1>3. CASE SetInteractive
  <2>1. /\ pc = "class10" /\ pc' = "class20" /\ class10' = long_rate /\ class20' = class20
        /\ long_rate' = long_rate
    BY <1>3 DEF SetInteractive, ratesVars
  <2>2. OneStep(class10, class10') /\ class10 + class20 \in {Ceil - 1, Ceil}
    BY <2>1 DEF ClassInv
  <2> QED
    BY <1>1, <2>1, <2>2 DEF ClassInv
<1>4. CASE SetOther
  <2>1. /\ pc = "class20" /\ pc' = "wait" /\ class10' = class10 /\ class20' = Ceil - long_rate
        /\ long_rate' = long_rate
    BY <1>4 DEF SetOther, ratesVars
  <2> QED
    BY <1>1, <2>1 DEF ClassInv
<1>5. CASE UNCHANGED vars
  BY <1>5 DEF vars, ClassInv, ratesVars, OneStep
<1>6. CASE SkipRound \/ TakeDump \/ SeeFlow \/ RemoveStale
  <2>1. /\ pc \in {"wait", "dump"} /\ pc' \in {"wait", "dump", "rates"}
        /\ class10' = class10 /\ class20' = class20 /\ long_rate' = long_rate
    BY <1>6 DEF SkipRound, TakeDump, SeeFlow, RemoveStale, ratesVars
  <2> QED
    BY <2>1 DEF ClassInv
<1> QED
  BY <1>2, <1>3, <1>4, <1>5, <1>6 DEF Next

\* It holds in the beginning, when there are no flows.
LEMMA InitIInv == Init => IInv
<1> SUFFICES ASSUME Init PROVE IInv
  OBVIOUS
<1>1. Ceil \div 2 \in 0..Ceil /\ Ceil \div 2 + Ceil \div 2 \in {Ceil - 1, Ceil}
  BY RateAssumption
<1>2. ClassInv
  BY <1>1 DEF Init, ClassInv, Reconfigured
<1>3. EmptyTable \in Lists /\ Parallel(EmptyTable)
  BY DEF EmptyTable, Lists, Parallel
<1>4. /\ pc = "wait" /\ skip_cnt = 0 /\ table = [p \in Proto |-> EmptyTable]
      /\ lines = <<>> /\ q_ni = FALSE /\ qni_cnt = ZERO_Q_CNT
      /\ {short_rate, long_rate, reported, class10, class20} \subseteq {Ceil \div 2}
      /\ DOMAIN history = {} /\ history = [f \in {} |-> 0] /\ moved = FALSE
  BY DEF Init, Reconfigured
<1>5. TypeOK
  <2>1. table \in [Proto -> Lists] /\ \A p \in Proto : Parallel(table[p])
    BY <1>3, <1>4
  <2>2. history \in [DOMAIN history -> [bytes : Bytes, idle : 0..ZERO_D_CNT]]
    BY <1>4
  <2>3. skip_cnt \in 0..Skip - 1 /\ qni_cnt \in 0..ZERO_Q_CNT
    BY <1>4, RateAssumption
  <2>4. {short_rate, long_rate, reported, class10, class20} \subseteq 0..Ceil
    BY <1>1, <1>4
  <2>5. lines \in Seq([flow : Flow, bytes : Bytes])
    BY <1>4
  <2> QED
    BY <1>4, <2>1, <2>2, <2>3, <2>4, <2>5 DEF TypeOK
<1>6. CountsIdle
  <2> SUFFICES ASSUME NEW p \in Proto
               PROVE  /\ {table[p].flows[j] : j \in DOMAIN table[p].flows}
                              = {f \in DOMAIN history : ProtoOf(f) = p}
                      /\ DOMAIN table[p].flows = {}
    BY DEF CountsIdle
  <2>1. table[p].flows = <<>>
    BY <1>4 DEF EmptyTable
  <2>2. DOMAIN table[p].flows = {}
    BY <2>1
  <2> QED
    BY <1>4, <2>2
<1> QED
  BY <1>2, <1>4, <1>5, <1>6 DEF IInv

\* Every step keeps it.
LEMMA NextIInv == IInv /\ [Next]_vars => IInv'
<1> SUFFICES ASSUME IInv, [Next]_vars PROVE IInv'
  OBVIOUS
<1>1. /\ TypeOK /\ ClassInv /\ CountsIdle
      /\ pc = "dump" => LinesInv /\ \A p \in Proto : DumpInv(p, table[p])
  BY DEF IInv
<1>2. TypeOK' /\ ClassInv'
  BY <1>1, TypeNext, ClassNext
<1>3. CASE TakeDump
  <2>1. LinesInv' /\ \A p \in Proto : DumpInv(p, table[p])'
    BY <1>1, <1>3, DumpStarts
  <2>2. CountsIdle'
    BY <1>3 DEF TakeDump, CountsIdle
  <2> QED
    BY <1>2, <2>1, <2>2 DEF IInv
<1>4. CASE SeeFlow
  <2>1. pc = "dump" /\ pc' = "dump"
    BY <1>4 DEF SeeFlow
  <2>2. LinesInv' /\ \A p \in Proto : DumpInv(p, table[p])'
    BY <1>1, <1>4, <2>1, DumpContinues
  <2>3. CountsIdle'
    BY <2>1 DEF CountsIdle
  <2> QED
    BY <1>2, <2>2, <2>3 DEF IInv
<1>5. CASE RemoveStale
  <2>1. pc = "dump" /\ pc' = "rates"
    BY <1>5 DEF RemoveStale
  <2>2. CountsIdle'
    BY <1>1, <1>5, <2>1, DumpEnds
  <2> QED
    BY <1>2, <2>1, <2>2 DEF IInv
<1>6. CASE SkipRound \/ FindRates \/ SetInteractive \/ SetOther
  <2>1. /\ pc # "dump" /\ pc' # "dump" /\ pc \in {"rates", "class10", "class20", "wait"}
        /\ table' = table /\ history' = history
    BY <1>6 DEF SkipRound, FindRates, SetInteractive, SetOther
  <2>2. CountsIdle'
    BY <1>1, <2>1 DEF CountsIdle
  <2> QED
    BY <1>2, <2>1, <2>2 DEF IInv
<1>7. CASE UNCHANGED vars
  <2>1. pc' = pc /\ table' = table /\ history' = history /\ lines' = lines
    BY <1>7 DEF vars
  <2>2. CountsIdle'
    BY <1>1, <2>1 DEF CountsIdle
  <2>3. pc = "dump" => LinesInv' /\ \A p \in Proto : DumpInv(p, table[p])'
    BY <1>1, <2>1 DEF LinesInv, DumpInv, SeenInv, UnseenInv, CoverInv
  <2> QED
    BY <1>2, <2>1, <2>2, <2>3 DEF IInv
<1> QED
  BY <1>3, <1>4, <1>5, <1>6, <1>7 DEF Next

\* The invariant of every reachable state.
LEMMA AlwaysIInv == Spec => []IInv
<1> QED
  BY InitIInv, NextIInv, PTL DEF Spec
-----------------------------------------------------------------------------
(***************************************************************************)
(* The theorems.                                                           *)
(***************************************************************************)

\* The four lists of a protocol are parallel, and every rate is one of the
\* link, however flows come and go.
THEOREM TypeCorrect == Spec => []TypeOK
<1>1. IInv => TypeOK
  BY DEF IInv
<1> QED
  BY <1>1, AlwaysIInv, PTL

\* Whenever rates are computed, every idle counter is that of its flow
\* (update_flows cuts the four lists alike).
THEOREM CountersBelong == Spec => []CountsIdle
<1>1. IInv => CountsIdle
  BY DEF IInv
<1> QED
  BY <1>1, AlwaysIInv, PTL

\* The two classes never promise more or less than the link by more than one
\* smoothing step, between the two commands of set_interactive_rate included.
THEOREM ClassesShareLink == Spec => []LinkShared
<1>1. ASSUME IInv PROVE LinkShared
  <2>1. class10 \in 0..Ceil /\ Ceil \in Nat /\ KLong \in Nat /\ ClassInv
    BY <1>1, RateAssumption DEF IInv, TypeOK
  <2>2. CASE pc # "class20"
    BY <2>1, <2>2 DEF ClassInv, LinkShared
  <2>3. CASE pc = "class20"
    <3>1. PICK old \in 0..Ceil :
             OneStep(old, class10) /\ old + class20 \in {Ceil - 1, Ceil}
      BY <2>1, <2>3 DEF ClassInv
    <3>2. class20 \in Int
      BY <1>1 DEF IInv, TypeOK
    <3> DEFINE up == class10 + class20 - Ceil
               down == Ceil - 1 - class10 - class20
    <3>3. up <= class10 - old /\ down <= old - class10
      BY <2>1, <3>1, <3>2
    <3>4. up * KLong <= (class10 - old) * KLong /\ down * KLong <= (old - class10) * KLong
      BY <2>1, <3>1, <3>2, <3>3, TimesOrder
    <3>5. (class10 - old) * KLong <= Ceil /\ (old - class10) * KLong < Ceil + KLong
      BY <3>1 DEF OneStep
    <3>6. up * KLong <= Ceil /\ down * KLong < Ceil + KLong
      BY <2>1, <3>1, <3>2, <3>4, <3>5
    <3> QED
      BY <2>3, <3>6 DEF LinkShared
  <2> QED
    BY <2>2, <2>3
<1>2. IInv => LinkShared
  BY <1>1
<1> QED
  BY <1>2, AlwaysIInv, PTL
=============================================================================
