------------------------- MODULE PathAssemblyProofs -------------------------
(***************************************************************************)
(* Of PathAssembly, for any chain of subnets and any sizes of the tables:  *)
(* the records of an entry are about the hops of its path, in order; what  *)
(* an entry says of a hop is never older than what the one before said;    *)
(* and with all controllers in step it is at most two rounds old for each  *)
(* controller it came over.                                                *)
(* A record of a long path passes from the newest entry of a controller to *)
(* the list its neighbour has for that path, and from there into the       *)
(* newest entry of the neighbour.  The invariant compares those three.     *)
(***************************************************************************)
EXTENDS PathAssembly, TLAPS

\* A slice s[k:] is the list without its first SliceStart elements.
LEMMA SliceElements ==
  ASSUME NEW S, NEW s \in Seq(S), NEW k \in Int
  PROVE  /\ SliceStart(Len(s), k) \in 0..Len(s)
         /\ Slice(s, k) \in Seq(S)
         /\ Len(Slice(s, k)) = Len(s) - SliceStart(Len(s), k)
         /\ \A i \in 1..Len(Slice(s, k)) :
               Slice(s, k)[i] = s[i + SliceStart(Len(s), k)]
<1> DEFINE d == SliceStart(Len(s), k)
<1>1. d \in 0..Len(s)
  BY DEF SliceStart
<1> HIDE DEF d
<1>2. \A i \in d + 1 .. Len(s) : s[i] \in S
  BY <1>1
<1>3. /\ SubSeq(s, d + 1, Len(s)) \in Seq(S)
      /\ Len(SubSeq(s, d + 1, Len(s))) = Len(s) - d
      /\ \A i \in 1..(Len(s) - d) : SubSeq(s, d + 1, Len(s))[i] = s[i + d]
  BY <1>1, <1>2
<1>4. Slice(s, k) = SubSeq(s, d + 1, Len(s))
  BY DEF Slice, d
<1> QED
  BY <1>1, <1>3, <1>4 DEF d

\* A slice with something in it ends where the list ends.
LEMMA SliceEnd ==
  ASSUME NEW S, NEW s \in Seq(S), NEW k \in Int, Slice(s, k) # <<>>
  PROVE  s # <<>> /\ End(Slice(s, k)) = End(s)
<1> DEFINE t == Slice(s, k)
           d == SliceStart(Len(s), k)
<1>1. /\ d \in 0..Len(s) /\ t \in Seq(S) /\ Len(t) = Len(s) - d
      /\ \A i \in 1..Len(t) : t[i] = s[i + d]
  BY SliceElements
<1>2. t # <<>>
  OBVIOUS
<1> HIDE DEF t, d
<1>3. Len(t) \in 1..Len(t) /\ Len(t) + d = Len(s)
  BY <1>1, <1>2
<1>4. t[Len(t)] = s[Len(s)] /\ s # <<>>
  BY <1>1, <1>3
<1> QED
  BY <1>2, <1>4 DEF End, t

\* "del s[:-n]" keeps at most n elements, the last one among them.
LEMMA KeepLastLemma ==
  ASSUME NEW S, NEW s \in Seq(S), NEW n \in Nat \ {0}
  PROVE  /\ KeepLast(s, n) \in Seq(S)
         /\ Len(KeepLast(s, n)) <= n
         /\ Len(KeepLast(s, n)) <= Len(s)
         /\ s # <<>> => KeepLast(s, n) # <<>>
         /\ End(KeepLast(s, n)) = End(s)
<1>1. SliceStart(Len(s), -n) = IF Len(s) <= n THEN 0 ELSE Len(s) - n
  BY DEF SliceStart
<1>2. /\ Slice(s, -n) \in Seq(S)
      /\ Len(Slice(s, -n)) = Len(s) - SliceStart(Len(s), -n)
  BY SliceElements, -n \in Int
<1>3. Len(Slice(s, -n)) <= n /\ Len(Slice(s, -n)) <= Len(s)
  BY <1>1, <1>2
<1>4. ASSUME s # <<>> PROVE Slice(s, -n) # <<>>
  <2>1. Len(s) > 0
    BY <1>4
  <2>2. Len(Slice(s, -n)) > 0
    BY <1>1, <1>2, <2>1
  <2> QED
    BY <2>2
<1>5. CASE s = <<>>
  <2>1. Len(Slice(s, -n)) = 0
    BY <1>1, <1>2, <1>5
  <2>2. Slice(s, -n) = <<>>
    BY <1>2, <2>1
  <2> QED
    BY <1>2, <1>3, <1>5, <2>2 DEF KeepLast, End
<1>6. CASE s # <<>>
  BY <1>2, <1>3, <1>4, <1>6, SliceEnd, -n \in Int DEF KeepLast
<1> QED
  BY <1>5, <1>6

Watched(c) == NsPaths(c) \intersect watched

\* How many controllers a record of hop k of path p has come over to reach c.
Away(c, p, k) == IF Hop(p, k)[1] < c THEN c - Hop(p, k)[1] ELSE Hop(p, k)[1] - c

\* The list that controller c takes hop k of path p from, and the place there.
Own(c, p, k)   == p[1] = c /\ k = 1
FromNear(c, p, k) == p[2] = c /\ k = Hops(p)
Src(c, p, k)   == IF FromNear(c, p, k) THEN <<Side(c, p), c>> ELSE ListFor(c, p)
SrcPos(c, p, k) == IF p[1] = c THEN k - 1 ELSE IF FromNear(c, p, k) THEN 1 ELSE k

\* The round of the newest record of hop k, 0 without one.
At(c, p, k) == IF states[c][p] = <<>> THEN 0 ELSE Newest(states[c][p]).recs[k].at

InOrder(p, e) ==
    /\ Len(e.recs) = Hops(p)
    /\ \A k \in 1..Hops(p) : e.recs[k] = NoRecord \/ e.recs[k].link = Hop(p, k)

Fresh(c, p, e) == \A k \in 1..Hops(p) : e.recs[k].at >= e.num - 2 * Away(c, p, k)

\* The table of c for p: one entry a round, the last of the round before.
Kept(c, p) ==
    /\ states[c][p] = <<>> <=> idx[c] = 1
    /\ \A j \in 1..Len(states[c][p]) :
          /\ states[c][p][j].num = idx[c] - 1 - Len(states[c][p]) + j
          /\ InOrder(p, states[c][p][j])
          /\ slips = 0 => Fresh(c, p, states[c][p][j])
    /\ p[1] = c /\ states[c][p] # <<>> => Newest(states[c][p]).recs[1].at = idx[c] - 1

\* The list c has of neighbour n for q: no newer than the table of n.
Held(c, n, q) ==
    /\ nb_last_idx[c][q] <= idx[n] - 1
    /\ nb_states[c][q] # <<>> =>
          /\ Newest(nb_states[c][q]).num = nb_last_idx[c][q]
          /\ InOrder(q, Newest(nb_states[c][q]))
          /\ \A k \in 1..Hops(q) : Newest(nb_states[c][q]).recs[k].at <= At(n, q, k)
          /\ slips = 0 => Fresh(n, q, Newest(nb_states[c][q]))

\* With all in step a list just polled reaches to the round before last.
Heard(c, n, q) ==
    slips = 0 /\ n \in polled[c] =>
        /\ nb_last_idx[c][q] >= idx[c] - 2
        /\ nb_states[c][q] # <<>> \/ idx[c] <= 2

\* What c has of a hop is not newer than where it gets the next record from.
Behind(c, p, k) ==
    /\ At(c, p, k) <= At(Side(c, p), Src(c, p, k), SrcPos(c, p, k))
    /\ nb_states[c][Src(c, p, k)] # <<>> =>
          At(c, p, k) <= Newest(nb_states[c][Src(c, p, k)]).recs[SrcPos(c, p, k)].at

TableInv  == \A c \in Subnet : \A p \in Watched(c) : Kept(c, p)
ListInv   == \A c \in Subnet : \A n \in Neighbours(c) : \A q \in NbPaths(c, n) \intersect watched :
                 Held(c, n, q) /\ Heard(c, n, q)
UsedInv   == \A c \in Subnet : \A p \in Watched(c) :
                 ListFor(c, p) \in Lists(c) => last_idx[c][p] <= nb_last_idx[c][ListFor(c, p)]
BehindInv == \A c \in Subnet : \A p \in Watched(c) : \A k \in 1..Hops(p) :
                 ~Own(c, p, k) => Behind(c, p, k)
StepInv   == slips = 0 => \A c, n \in Subnet : idx[c] <= idx[n] + 1

IInv == TypeOK /\ TableInv /\ ListInv /\ UsedInv /\ BehindInv /\ StepInv
-----------------------------------------------------------------------------
(* Subnets, paths and hops.                                                *)

\* The direction that is watched does not matter, only that it is one.
WatchedType == watched \in {Upward, Path \ Upward}

\* A path is watched with every path of its direction.
LEMMA SameDirection ==
  ASSUME WatchedType, NEW p \in watched, NEW q \in Path, p[1] < p[2] <=> q[1] < q[2]
  PROVE  q \in watched /\ p \in Path
BY DEF WatchedType, Upward

\* The numbers of subnets are positive integers.
LEMMA Subnets ==
  /\ First \in Int /\ Last \in Int /\ First >= 1
  /\ \A x \in Subnet : x \in Nat \ {0} /\ x \in Int /\ First <= x /\ x <= Last
BY AssemblyAssumption DEF AssemblyAssumption, Subnet

\* A neighbour is one further or one nearer.
LEMMA NeighbourFacts ==
  ASSUME NEW c \in Subnet, NEW n \in Neighbours(c)
  PROVE  n \in Subnet /\ c \in Neighbours(n) /\ n # c /\ n \in Nat /\ c \in Nat
BY Subnets DEF Neighbours, Subnet

\* A path has at least one hop.
LEMMA PathFacts ==
  ASSUME NEW p \in Path
  PROVE  /\ p[1] \in Subnet /\ p[2] \in Subnet /\ p[1] # p[2] /\ p = <<p[1], p[2]>>
         /\ p[1] \in Nat \ {0} /\ p[2] \in Nat \ {0}
         /\ Hops(p) \in Nat \ {0}
<1>1. p \in Subnet \X Subnet /\ p[1] # p[2]
  BY DEF Path
<1>2. p[1] \in Subnet /\ p[2] \in Subnet /\ p = <<p[1], p[2]>>
  BY <1>1
<1>3. p[1] \in Nat \ {0} /\ p[2] \in Nat \ {0}
  BY <1>2, Subnets
<1>4. Hops(p) \in Nat \ {0}
  BY <1>1, <1>3 DEF Hops
<1> QED
  BY <1>1, <1>2, <1>3, <1>4

\* A controller asks its neighbour about paths the neighbour keeps.
LEMMA ListFacts ==
  ASSUME NEW c \in Subnet, NEW n \in Neighbours(c), NEW q \in NbPaths(c, n) \intersect watched
  PROVE  q \in Path /\ q \in Watched(n) /\ q \in Lists(c) /\ Hops(q) \in Nat \ {0}
<1>1. n \in Subnet /\ n # c /\ n \in Nat /\ c \in Nat
  BY NeighbourFacts
<1>2. q \in Path /\ (q[1] = n \/ q[2] = n)
  <2>1. CASE q = <<n, c>>
    BY <1>1, <2>1 DEF Path
  <2>2. CASE \E x \in IF n < c THEN First..c - 2 ELSE c + 2..Last : q = <<n, x>>
    BY <1>1, <2>2, Subnets DEF Path, Subnet, Neighbours
  <2>3. CASE \E x \in IF n < c THEN First..c - 2 ELSE c + 2..Last : q = <<x, n>>
    BY <1>1, <2>3, Subnets DEF Path, Subnet, Neighbours
  <2> QED
    BY <2>1, <2>2, <2>3 DEF NbPaths
<1>3. q \in Watched(n)
  BY <1>2 DEF Watched, NsPaths
<1>4. q \in Lists(c)
  <2>1. q \in UNION {NbPaths(c, m) : m \in Neighbours(c)}
    BY Zenon
  <2> QED
    BY <2>1, Zenon DEF Lists
<1> QED
  BY <1>2, <1>3, <1>4, PathFacts

\* Every list is of one neighbour.
LEMMA ListOfNeighbour ==
  ASSUME NEW c \in Subnet, NEW q \in Lists(c)
  PROVE  \E n \in Neighbours(c) : q \in NbPaths(c, n) \intersect watched
<1>1. q \in UNION {NbPaths(c, m) : m \in Neighbours(c)} /\ q \in watched
  BY Zenon DEF Lists
<1>2. PICK n \in Neighbours(c) : q \in NbPaths(c, n)
  BY <1>1
<1> QED
  BY <1>1, <1>2

\* The lists of the two neighbours are of different paths.
LEMMA ListsApart ==
  ASSUME NEW c \in Subnet, NEW n \in Neighbours(c), NEW m \in Neighbours(c), n # m,
         NEW q \in NbPaths(c, n)
  PROVE  q \notin NbPaths(c, m)
<1>1. /\ n \in Nat /\ m \in Nat /\ c \in Nat
      /\ (n = c - 1 /\ m = c + 1) \/ (n = c + 1 /\ m = c - 1)
  <2>1. n \in Nat /\ m \in Nat /\ c \in Nat
    BY NeighbourFacts
  <2>2. (n = c - 1 \/ n = c + 1) /\ (m = c - 1 \/ m = c + 1)
    BY DEF Neighbours
  <2>3. CASE n = c - 1
    BY <2>1, <2>2, <2>3
  <2>4. CASE n = c + 1
    BY <2>1, <2>2, <2>4
  <2> QED
    BY <2>2, <2>3, <2>4
<1>2. ASSUME NEW k \in Neighbours(c), NEW r \in NbPaths(c, k)
      PROVE  /\ k < c => r[1] < c /\ r[2] <= c
             /\ k > c => r[1] > c /\ r[2] >= c
  <2>1. k \in Nat /\ c \in Nat /\ (k = c - 1 \/ k = c + 1)
    BY NeighbourFacts DEF Neighbours
  <2>2. CASE r = <<k, c>>
    BY <2>1, <2>2
  <2>3. CASE \E x \in IF k < c THEN First..c - 2 ELSE c + 2..Last : r = <<k, x>>
    BY <2>1, <2>3, Subnets
  <2>4. CASE \E x \in IF k < c THEN First..c - 2 ELSE c + 2..Last : r = <<x, k>>
    BY <2>1, <2>4, Subnets
  <2> QED
    BY <2>2, <2>3, <2>4 DEF NbPaths
<1>3. ASSUME q \in NbPaths(c, m) PROVE FALSE
  <2>1. /\ n < c => q[1] < c
        /\ n > c => q[1] > c
        /\ m < c => q[1] < c
        /\ m > c => q[1] > c
    BY <1>2, <1>3
  <2>2. CASE n = c - 1 /\ m = c + 1
    <3>1. q[1] < c /\ q[1] > c
      BY <1>1, <2>1, <2>2
    <3>2. q[1] \in Int
      BY <1>3, <1>1, <2>2, Subnets DEF NbPaths
    <3> QED
      BY <1>1, <3>1, <3>2
  <2>3. CASE n = c + 1 /\ m = c - 1
    <3>1. q[1] < c /\ q[1] > c
      BY <1>1, <2>1, <2>3
    <3>2. q[1] \in Int
      BY <1>3, <1>1, <2>3, Subnets DEF NbPaths
    <3> QED
      BY <1>1, <3>1, <3>2
  <2> QED
    BY <1>1, <2>2, <2>3
<1> QED
  BY <1>3

\* A path of a controller begins or ends there; the other end is on the side of
\* a neighbour.
LEMMA SideFacts ==
  ASSUME WatchedType, NEW c \in Subnet, NEW p \in Watched(c)
  PROVE  /\ p \in Path /\ p \in watched
         /\ (p[1] = c /\ p[2] # c) \/ (p[2] = c /\ p[1] # c)
         /\ Side(c, p) \in Neighbours(c)
         /\ Far(c, p) \in Subnet /\ Far(c, p) # c
         /\ Hops(p) = IF Far(c, p) < c THEN c - Far(c, p) ELSE Far(c, p) - c
         /\ Hops(p) \in Nat \ {0}
<1>1. p \in Path /\ p \in watched /\ (p[1] = c \/ p[2] = c)
  BY DEF Watched, NsPaths
<1>2. p[1] \in Subnet /\ p[2] \in Subnet /\ p[1] # p[2] /\ Hops(p) \in Nat \ {0}
  BY <1>1, PathFacts
<1>3. Far(c, p) \in Subnet /\ Far(c, p) # c
  BY <1>1, <1>2 DEF Far
<1>4. Side(c, p) \in Neighbours(c)
  <2>1. c \in Int /\ Far(c, p) \in Int /\ First <= c /\ c <= Last
        /\ First <= Far(c, p) /\ Far(c, p) <= Last /\ First \in Int /\ Last \in Int
    BY <1>3, Subnets DEF Subnet
  <2>2. \/ Side(c, p) = c - 1 /\ Side(c, p) >= First
        \/ Side(c, p) = c + 1 /\ Side(c, p) <= Last
    BY <1>3, <2>1 DEF Side
  <2>3. Side(c, p) \in Subnet
    BY <2>1, <2>2 DEF Subnet
  <2> QED
    BY <2>2, <2>3 DEF Neighbours
<1>5. Hops(p) = IF Far(c, p) < c THEN c - Far(c, p) ELSE Far(c, p) - c
  <2>1. p[1] \in Int /\ p[2] \in Int
    BY <1>1, PathFacts, Subnets
  <2> QED
    BY <1>1, <1>2, <2>1 DEF Hops, Far
<1> QED
  BY <1>1, <1>2, <1>3, <1>4, <1>5

\* The path whose last_idx says what has been used of that list.
Via(c, p, k) == IF FromNear(c, p, k) THEN <<Side(c, p), c>> ELSE p

\* The path from the neighbour on that side is watched too and assembled from
\* the list for itself.
LEMMA NearFacts ==
  ASSUME WatchedType, NEW c \in Subnet, NEW p \in Watched(c), p[2] = c
  PROVE  /\ <<Side(c, p), c>> \in Watched(c)
         /\ <<Side(c, p), c>> \in NbPaths(c, Side(c, p))
         /\ ListFor(c, <<Side(c, p), c>>) = <<Side(c, p), c>>
         /\ Hops(<<Side(c, p), c>>) = 1
<1> DEFINE n == Side(c, p)
           r == <<n, c>>
<1>1. /\ p \in Path /\ p \in watched /\ p[1] # c /\ n \in Neighbours(c)
      /\ Far(c, p) = p[1] /\ c \in Int /\ p[1] \in Int
  <2>1. /\ p \in Path /\ p \in watched /\ n \in Neighbours(c) /\ p[1] # c
    BY SideFacts
  <2>2. c \in Int /\ p[1] \in Int /\ Far(c, p) = p[1]
    BY <2>1, PathFacts, Subnets DEF Far
  <2> QED
    BY <2>1, <2>2
<1>2. n \in Subnet /\ n # c /\ n \in Int
  BY <1>1, NeighbourFacts
<1>3. IF p[1] < c THEN n = c - 1 ELSE n = c + 1
  BY <1>1 DEF Side
<1>4. r[1] = n /\ r[2] = c /\ r \in Path
  BY <1>2 DEF Path
<1>5. p[1] < p[2] <=> r[1] < r[2]
  BY <1>1, <1>2, <1>3, <1>4
<1>6. r \in watched
  BY <1>1, <1>4, <1>5, SameDirection
<1>7. r \in Watched(c)
  BY <1>4, <1>6 DEF Watched, NsPaths
<1>8. Far(c, r) = n
  BY <1>2, <1>4 DEF Far
<1>9. Side(c, r) = n
  BY <1>1, <1>2, <1>3, <1>8 DEF Side
<1>10. ListFor(c, r) = r
  BY <1>4, <1>9 DEF ListFor
<1>11. Hops(r) = 1
  BY <1>1, <1>2, <1>3, <1>4 DEF Hops
<1>12. r \in NbPaths(c, n)
  BY DEF NbPaths
<1> QED
  BY <1>7, <1>10, <1>11, <1>12

\* Where the record of a hop comes from: a place of a list about the same hop,
\* one controller nearer to it.
LEMMA SourceFacts ==
  ASSUME WatchedType, NEW c \in Subnet, NEW p \in Watched(c), NEW k \in 1..Hops(p),
         ~Own(c, p, k)
  PROVE  /\ Src(c, p, k) \in NbPaths(c, Side(c, p)) \intersect watched
         /\ SrcPos(c, p, k) \in 1..Hops(Src(c, p, k))
         /\ Hop(Src(c, p, k), SrcPos(c, p, k)) = Hop(p, k)
         /\ Away(c, p, k) = Away(Side(c, p), Src(c, p, k), SrcPos(c, p, k)) + 1
         /\ Away(c, p, k) \in Nat \ {0}
         /\ Via(c, p, k) \in Watched(c)
         /\ Src(c, p, k) = ListFor(c, Via(c, p, k))
<1> DEFINE n == Side(c, p)
           d == Far(c, p)
<1>1. /\ p \in Path /\ p \in watched /\ n \in Neighbours(c) /\ d \in Subnet /\ d # c
      /\ (p[1] = c /\ p[2] # c) \/ (p[2] = c /\ p[1] # c)
      /\ Hops(p) = IF d < c THEN c - d ELSE d - c
  BY SideFacts
<1>2. n \in Subnet /\ n # c /\ n \in Int /\ c \in Int /\ d \in Int
  BY <1>1, NeighbourFacts, Subnets
<1>3. IF d < c THEN n = c - 1 ELSE n = c + 1
  BY DEF Side
<1>4. k \in Int /\ 1 <= k /\ k <= Hops(p)
  BY <1>1, <1>2
<1>5. First <= d /\ d <= Last /\ First <= n /\ n <= Last /\ First \in Int /\ Last \in Int
  BY <1>1, <1>2, Subnets
<1> HIDE DEF n, d
<1>6. CASE p[1] = c
  <2> DEFINE r == <<n, d>>
  <2>1. d = p[2] /\ k >= 2 /\ p[2] # c /\ ~FromNear(c, p, k)
    BY <1>1, <1>4, <1>6 DEF d, Far, Own, FromNear
  <2>2. Src(c, p, k) = r /\ SrcPos(c, p, k) = k - 1 /\ Via(c, p, k) = p
    BY <1>6, <2>1 DEF Src, SrcPos, Via, ListFor, n
  <2>3. d # n
    BY <1>1, <1>2, <1>3, <1>4, <2>1
  <2>4. r[1] = n /\ r[2] = d /\ r \in Path
    BY <1>1, <1>2, <2>3 DEF Path
  <2>5. p[1] < p[2] <=> r[1] < r[2]
    BY <1>1, <1>2, <1>3, <1>6, <2>1, <2>3, <2>4
  <2>6. r \in watched
    BY <1>1, <2>4, <2>5, SameDirection
  <2>7. r \in NbPaths(c, n)
    <3>1. d \in IF n < c THEN First..c - 2 ELSE c + 2..Last
      BY <1>1, <1>2, <1>3, <1>5, <2>3
    <3> QED
      BY <3>1 DEF NbPaths
  <2>8. Hops(r) = Hops(p) - 1
    BY <1>1, <1>2, <1>3, <2>3, <2>4 DEF Hops
  <2>9. Hop(r, k - 1) = Hop(p, k)
    BY <1>1, <1>2, <1>3, <1>4, <1>6, <2>1, <2>3, <2>4 DEF Hop
  <2>10. Away(c, p, k) = Away(n, r, k - 1) + 1 /\ Away(c, p, k) \in Nat \ {0}
    <3>1. Hop(p, k)[1] = IF d < c THEN c - k + 1 ELSE c + k - 1
      BY <1>1, <1>2, <1>3, <1>4, <1>6, <2>1 DEF Hop
    <3>2. Hop(r, k - 1)[1] = IF d < c THEN c - k + 1 ELSE c + k - 1
      BY <2>9, <3>1
    <3> QED
      BY <1>2, <1>3, <1>4, <2>1, <3>1, <3>2 DEF Away
  <2>11. k - 1 \in 1..Hops(r)
    BY <1>1, <1>2, <1>4, <2>1, <2>8
  <2>12. Src(c, p, k) = ListFor(c, Via(c, p, k))
    BY <2>1, <2>2 DEF Src
  <2> HIDE DEF r
  <2> QED
    BY <2>2, <2>6, <2>7, <2>9, <2>10, <2>11, <2>12, <1>1 DEF n, Watched, Via
<1>7. CASE p[2] = c /\ k = Hops(p)
  <2> DEFINE r == <<n, c>>
  <2>1. d = p[1] /\ p[1] # c /\ FromNear(c, p, k)
    BY <1>1, <1>7 DEF d, Far, FromNear
  <2>2. Src(c, p, k) = r /\ SrcPos(c, p, k) = 1 /\ Via(c, p, k) = r
    BY <1>1, <1>7, <2>1 DEF Src, SrcPos, Via, n
  <2>3. r \in Watched(c) /\ r \in NbPaths(c, n) /\ ListFor(c, r) = r /\ Hops(r) = 1
    BY <1>7, NearFacts DEF n
  <2>4. r[1] = n /\ r[2] = c
    OBVIOUS
  <2>5. Hop(r, 1) = Hop(p, k) /\ Hop(p, k)[1] = n
    BY <1>1, <1>2, <1>3, <1>7, <2>1, <2>4 DEF Hop
  <2>6. Away(c, p, k) = Away(n, r, 1) + 1 /\ Away(c, p, k) = 1
    BY <1>2, <1>3, <2>4, <2>5 DEF Away
  <2>7. r \in watched
    BY <2>3 DEF Watched
  <2> QED
    BY <2>2, <2>3, <2>5, <2>6, <2>7 DEF n
<1>8. CASE p[2] = c /\ k # Hops(p)
  <2> DEFINE r == <<d, n>>
  <2>1. d = p[1] /\ p[1] # c /\ ~FromNear(c, p, k)
    BY <1>1, <1>8 DEF d, Far, FromNear
  <2>2. d # n
    BY <1>1, <1>2, <1>3, <1>4, <1>8
  <2>3. Src(c, p, k) = r /\ SrcPos(c, p, k) = k /\ Via(c, p, k) = p
    BY <1>1, <1>8, <2>1, <2>2 DEF Src, SrcPos, Via, ListFor, n
  <2>4. r[1] = d /\ r[2] = n /\ r \in Path
    BY <1>1, <1>2, <2>2 DEF Path
  <2>5. p[1] < p[2] <=> r[1] < r[2]
    BY <1>1, <1>2, <1>3, <1>8, <2>1, <2>2, <2>4
  <2>6. r \in watched
    BY <1>1, <2>4, <2>5, SameDirection
  <2>7. r \in NbPaths(c, n)
    <3>1. d \in IF n < c THEN First..c - 2 ELSE c + 2..Last
      BY <1>1, <1>2, <1>3, <1>5, <2>2
    <3> QED
      BY <3>1 DEF NbPaths
  <2>8. Hops(r) = Hops(p) - 1
    BY <1>1, <1>2, <1>3, <2>2, <2>4 DEF Hops
  <2>9. Hop(r, k) = Hop(p, k)
    BY <1>1, <1>2, <1>3, <1>4, <1>8, <2>1, <2>2, <2>4 DEF Hop
  <2>10. Away(c, p, k) = Away(n, r, k) + 1 /\ Away(c, p, k) \in Nat \ {0}
    <3>1. Hop(p, k)[1] = IF d < c THEN d + k - 1 ELSE d - k + 1
      BY <1>1, <1>2, <1>3, <1>4, <1>8, <2>1 DEF Hop
    <3>2. Hop(r, k)[1] = IF d < c THEN d + k - 1 ELSE d - k + 1
      BY <2>9, <3>1
    <3>3. k < Hops(p)
      BY <1>1, <1>2, <1>4, <1>8
    <3> QED
      BY <1>1, <1>2, <1>3, <1>4, <2>1, <3>1, <3>2, <3>3 DEF Away
  <2>11. k \in 1..Hops(r)
    BY <1>1, <1>2, <1>4, <1>8, <2>8
  <2>12. Src(c, p, k) = ListFor(c, Via(c, p, k))
    BY <2>1, <2>3 DEF Src
  <2> HIDE DEF r
  <2> QED
    BY <2>3, <2>6, <2>7, <2>9, <2>10, <2>11, <2>12, <1>1 DEF n, Watched, Via
<1> QED
  BY <1>1, <1>6, <1>7, <1>8
-----------------------------------------------------------------------------
(* Lists of entries.                                                       *)

\* The entries of a list are numbered without a gap, and m is the last.
Numbered(s, m) == \A j \in 1..Len(s) : s[j].num = m - Len(s) + j

\* The sizes of the tables, and the numbers of entries.
LEMMA Sizes ==
  /\ NS_QUEUE_SIZE \in Nat \ {0} /\ NB_QUEUE_SIZE \in Nat \ {0}
  /\ MaxIdx \in Nat /\ MaxSlips \in Nat
  /\ \A e \in Sample : e.num \in Int /\ 1 <= e.num /\ e.num <= MaxIdx /\ e.recs \in Seq(Record)
BY AssemblyAssumption DEF AssemblyAssumption, Sample

\* A list that is not empty has a last entry.
LEMMA NewestFacts ==
  ASSUME NEW S, NEW s \in Seq(S), s # <<>>
  PROVE  Newest(s) \in S /\ Newest(s) = End(s) /\ Len(s) \in 1..Len(s) /\ Len(s) \in Nat \ {0}
<1>1. Len(s) \in Nat \ {0}
  OBVIOUS
<1>2. s[Len(s)] \in S
  BY <1>1
<1> QED
  BY <1>1, <1>2 DEF Newest, End

\* The numbers at the two ends of a list without gaps.
LEMMA NumberedEnds ==
  ASSUME NEW s \in Seq(Sample), s # <<>>, NEW m \in Int, Numbered(s, m)
  PROVE  Newest(s).num = m /\ s[1].num = m - Len(s) + 1
<1>1. Len(s) \in Nat \ {0}
  BY NewestFacts
<1>2. 1 \in 1..Len(s) /\ Len(s) \in 1..Len(s)
  BY <1>1
<1>3. s[1].num = m - Len(s) + 1 /\ s[Len(s)].num = m - Len(s) + Len(s)
  BY <1>2 DEF Numbered
<1> QED
  BY <1>1, <1>3 DEF Newest

\* A slice that is not empty ends with the list, without a gap.
LEMMA TailFacts ==
  ASSUME NEW s \in Seq(Sample), NEW k \in Int, Slice(s, k) # <<>>
  PROVE  /\ Slice(s, k) \in Seq(Sample) /\ s # <<>>
         /\ Newest(Slice(s, k)) = Newest(s)
         /\ \A m \in Int : Numbered(s, m) => Numbered(Slice(s, k), m)
<1> DEFINE t == Slice(s, k)
           d == SliceStart(Len(s), k)
<1>1. /\ d \in 0..Len(s) /\ t \in Seq(Sample) /\ Len(t) = Len(s) - d
      /\ \A i \in 1..Len(t) : t[i] = s[i + d]
  BY SliceElements
<1>2. s # <<>> /\ End(t) = End(s)
  BY SliceEnd
<1>3. Newest(t) = Newest(s)
  BY <1>1, <1>2, NewestFacts
<1> HIDE DEF t, d
<1>4. Len(s) \in Nat /\ Len(t) \in Nat /\ d \in Nat /\ d <= Len(s)
  BY <1>1
<1>5. ASSUME NEW m \in Int, Numbered(s, m), NEW i \in 1..Len(t)
      PROVE  t[i].num = m - Len(t) + i
  <2>1. i + d \in 1..Len(s) /\ t[i] = s[i + d]
    BY <1>1, <1>4
  <2>2. s[i + d].num = m - Len(s) + (i + d)
    BY <1>5, <2>1 DEF Numbered
  <2> QED
    BY <1>1, <1>4, <2>1, <2>2
<1>6. \A m \in Int : Numbered(s, m) => Numbered(t, m)
  BY <1>5 DEF Numbered
<1> QED
  BY <1>1, <1>2, <1>3, <1>6 DEF t

\* An answer is the end of the table, and has the newest entry at least, if
\* that is not older than what was asked for (rest_reply.index).
LEMMA ReplyFacts ==
  ASSUME NEW kept \in Seq(Sample), kept # <<>>, NEW m \in Int, Numbered(kept, m),
         NEW i \in Int, i <= m
  PROVE  /\ Reply(kept, i) \in Seq(Sample) /\ Reply(kept, i) # <<>>
         /\ Newest(Reply(kept, i)) = Newest(kept)
         /\ Numbered(Reply(kept, i), m)
<1> DEFINE n == Newest(kept).num - Larger(kept[1].num, i) + 1
           x == IF n <= Len(kept) THEN n ELSE Len(kept)
           len == Len(kept)
<1>1. Newest(kept).num = m /\ kept[1].num = m - len + 1 /\ len \in Nat \ {0}
  BY NumberedEnds, NewestFacts
<1>2. n = m - Larger(m - len + 1, i) + 1
  BY <1>1
<1> HIDE DEF len, n
<1>3. n \in Int /\ n >= 1
  BY <1>1, <1>2 DEF Larger
<1>4. x \in 1..len
  BY <1>1, <1>3 DEF len
<1> HIDE DEF x
<1>5. -x \in Int /\ SliceStart(len, -x) = len - x
  BY <1>1, <1>4 DEF SliceStart
<1>6. Len(Slice(kept, -x)) = len - (len - x)
  BY <1>5, SliceElements DEF len
<1>7. Slice(kept, -x) # <<>>
  BY <1>1, <1>4, <1>6
<1>8. Reply(kept, i) = Slice(kept, -x)
  BY DEF Reply, x, n
<1> QED
  BY <1>5, <1>7, <1>8, TailFacts

\* The last entry of two lists put together.
LEMMA NewestOfBoth ==
  ASSUME NEW s \in Seq(Sample), NEW t \in Seq(Sample)
  PROVE  /\ s \o t \in Seq(Sample)
         /\ t # <<>> => s \o t # <<>> /\ Newest(s \o t) = Newest(t)
         /\ t = <<>> => s \o t = s
<1>1. s \o t \in Seq(Sample) /\ Len(s \o t) = Len(s) + Len(t)
  OBVIOUS
<1>2. Len(s) \in Nat /\ Len(t) \in Nat
  OBVIOUS
<1>3. ASSUME t # <<>> PROVE s \o t # <<>> /\ Newest(s \o t) = Newest(t)
  <2>1. Len(t) \in Nat \ {0} /\ Len(t) \in 1..Len(t)
    BY <1>3, NewestFacts
  <2>2. (s \o t)[Len(s) + Len(t)] = t[Len(t)]
    BY <2>1
  <2>3. s \o t # <<>>
    BY <1>1, <1>2, <2>1
  <2> QED
    BY <1>1, <2>2, <2>3 DEF Newest
<1>4. ASSUME t = <<>> PROVE s \o t = s
  BY <1>4
<1> QED
  BY <1>1, <1>3, <1>4

\* combine_bs: the newest entry is that of the answer, or has its number.
LEMMA CombinedFacts ==
  ASSUME NEW old \in Seq(Sample), NEW new \in Seq(Sample), new # <<>>,
         NEW m \in Int, Numbered(new, m), old = <<>> \/ Newest(old).num <= m
  PROVE  /\ Combined(old, new) \in Seq(Sample) /\ Combined(old, new) # <<>>
         /\ Len(Combined(old, new)) <= NB_QUEUE_SIZE
         /\ Newest(Combined(old, new)).num = m
         /\ \/ Newest(Combined(old, new)) = Newest(new)
            \/ old # <<>> /\ Newest(Combined(old, new)) = Newest(old)
<1> DEFINE k == Larger(Newest(old).num + 1 - new[1].num, 0)
           t == Slice(new, k)
           both == IF old = <<>> THEN new ELSE old \o t
<1>1. Newest(new).num = m /\ new[1].num = m - Len(new) + 1 /\ Len(new) \in Nat \ {0}
  BY NumberedEnds, NewestFacts
<1>2. CASE old = <<>>
  <2>1. both = new
    BY <1>2
  <2> QED
    BY <1>1, <2>1, <1>2, Sizes, KeepLastLemma, NewestFacts DEF Combined
<1>3. CASE old # <<>>
  <2>1. Newest(old) \in Sample /\ Newest(old).num \in Int
    BY <1>3, NewestFacts, Sizes
  <2>2. k \in Int /\ k >= 0 /\ k = Larger(Newest(old).num + 1 - (m - Len(new) + 1), 0)
    BY <1>1, <2>1 DEF Larger
  <2>3. t \in Seq(Sample) /\ Len(t) = Len(new) - SliceStart(Len(new), k)
    BY <2>2, SliceElements
  <2>4. t = <<>> => Newest(old).num = m
    <3> HIDE DEF t, k
    <3>1. ASSUME t = <<>> PROVE Newest(old).num = m
      <4>1. Len(t) = 0
        BY <3>1
      <4>2. k >= Len(new)
        BY <1>1, <2>2, <2>3, <4>1 DEF SliceStart
      <4>3. Newest(old).num <= m
        BY <1>3
      <4> QED
        BY <1>1, <2>1, <2>2, <4>2, <4>3 DEF Larger
    <3> QED
      BY <3>1
  <2>5. t # <<>> => Newest(t) = Newest(new)
    BY <2>2, TailFacts
  <2> HIDE DEF t, k
  <2>6. both = old \o t
    BY <1>3
  <2>7. both \in Seq(Sample) /\ both # <<>> /\ (Newest(both) = Newest(new) \/ Newest(both) = Newest(old))
    BY <1>3, <2>3, <2>5, <2>6, NewestOfBoth
  <2>8. Newest(both).num = m
    BY <1>1, <1>3, <2>3, <2>4, <2>5, <2>6, NewestOfBoth
  <2> HIDE DEF both
  <2>9. /\ KeepLast(both, NB_QUEUE_SIZE) \in Seq(Sample)
        /\ KeepLast(both, NB_QUEUE_SIZE) # <<>>
        /\ Len(KeepLast(both, NB_QUEUE_SIZE)) <= NB_QUEUE_SIZE
        /\ Newest(KeepLast(both, NB_QUEUE_SIZE)) = Newest(both)
    BY <2>7, Sizes, KeepLastLemma, NewestFacts
  <2>10. Combined(old, new) = KeepLast(both, NB_QUEUE_SIZE)
    BY DEF Combined, both, t, k
  <2> QED
    BY <1>3, <2>7, <2>8, <2>9, <2>10
<1> QED
  BY <1>2, <1>3

\* A table with one more entry: nothing but entries it had, and the new one.
LEMMA AppendedFacts ==
  ASSUME NEW s \in Seq(Sample), NEW e \in Sample, NEW m \in Int,
         Numbered(s, m - 1), e.num = m
  PROVE  LET t == KeepLast(Append(s, e), NS_QUEUE_SIZE)
         IN  /\ t \in Seq(Sample) /\ t # <<>> /\ Len(t) <= NS_QUEUE_SIZE
             /\ Newest(t) = e /\ Numbered(t, m)
             /\ \A j \in 1..Len(t) : t[j] = e \/ \E i \in 1..Len(s) : t[j] = s[i]
<1> DEFINE a == Append(s, e)
           t == KeepLast(a, NS_QUEUE_SIZE)
           len == Len(s)
<1>1. a \in Seq(Sample) /\ Len(a) = len + 1 /\ a[len + 1] = e /\ len \in Nat
  OBVIOUS
<1>2. \A j \in 1..len : a[j] = s[j]
  OBVIOUS
<1>3. a # <<>> /\ Newest(a) = e
  BY <1>1 DEF Newest
<1> HIDE DEF a
<1>4. Numbered(a, m)
  <2>1. ASSUME NEW j \in 1..Len(a) PROVE a[j].num = m - Len(a) + j
    <3>1. CASE j = len + 1
      BY <1>1, <3>1
    <3>2. CASE j # len + 1
      <4>1. j \in 1..len
        BY <1>1, <3>2
      <4>2. s[j].num = m - 1 - len + j
        BY <4>1 DEF Numbered
      <4> HIDE DEF len
      <4> QED
        BY <1>1, <1>2, <4>1, <4>2
    <3> QED
      BY <3>1, <3>2
  <2> QED
    BY <2>1 DEF Numbered
<1>5. t \in Seq(Sample) /\ t # <<>> /\ Len(t) <= NS_QUEUE_SIZE /\ End(t) = End(a)
  BY <1>1, <1>3, Sizes, KeepLastLemma
<1>6. -NS_QUEUE_SIZE \in Int /\ t = Slice(a, -NS_QUEUE_SIZE)
  BY Sizes DEF KeepLast
<1>7. Newest(t) = e /\ Numbered(t, m)
  BY <1>1, <1>3, <1>4, <1>5, <1>6, TailFacts
<1>8. ASSUME NEW j \in 1..Len(t) PROVE t[j] = e \/ \E i \in 1..len : t[j] = s[i]
  <2> DEFINE d == SliceStart(Len(a), -NS_QUEUE_SIZE)
  <2>1. /\ d \in 0..Len(a) /\ Len(Slice(a, -NS_QUEUE_SIZE)) = Len(a) - d
        /\ \A i \in 1..Len(Slice(a, -NS_QUEUE_SIZE)) : Slice(a, -NS_QUEUE_SIZE)[i] = a[i + d]
    BY <1>1, <1>6, SliceElements
  <2> HIDE DEF d, t
  <2>2. j + d \in 1..Len(a) /\ t[j] = a[j + d]
    BY <1>1, <1>6, <2>1
  <2>3. j + d = len + 1 \/ j + d \in 1..len
    BY <1>1, <2>2
  <2> QED
    BY <1>1, <1>2, <2>2, <2>3
<1> QED
  BY <1>5, <1>7, <1>8 DEF a
-----------------------------------------------------------------------------
(* What the invariant says of one table or list.                           *)

\* The type of the tables of one controller.
LEMMA TypeFacts ==
  ASSUME TypeOK
  PROVE  /\ WatchedType
         /\ DOMAIN states = Subnet /\ DOMAIN last_idx = Subnet
         /\ DOMAIN nb_states = Subnet /\ DOMAIN nb_last_idx = Subnet
         /\ \A c \in Subnet :
               /\ idx[c] \in 1..MaxIdx + 1 /\ idx[c] \in Int
               /\ DOMAIN states[c] = Watched(c) /\ DOMAIN last_idx[c] = Watched(c)
               /\ DOMAIN nb_states[c] = Lists(c) /\ DOMAIN nb_last_idx[c] = Lists(c)
               /\ \A p \in Watched(c) : /\ states[c][p] \in Seq(Sample)
                                        /\ last_idx[c][p] \in 0..MaxIdx /\ last_idx[c][p] \in Int
               /\ \A q \in Lists(c) : /\ nb_states[c][q] \in Seq(Sample)
                                      /\ nb_last_idx[c][q] \in 0..MaxIdx /\ nb_last_idx[c][q] \in Int
<1>1. ASSUME NEW c \in Subnet
      PROVE  /\ idx[c] \in 1..MaxIdx + 1
             /\ states[c] \in [Watched(c) -> Seq(Sample)]
             /\ last_idx[c] \in [Watched(c) -> 0..MaxIdx]
             /\ nb_states[c] \in [Lists(c) -> Seq(Sample)]
             /\ nb_last_idx[c] \in [Lists(c) -> 0..MaxIdx]
  BY DEF TypeOK, Watched
<1>2. WatchedType /\ DOMAIN states = Subnet /\ DOMAIN last_idx = Subnet
      /\ DOMAIN nb_states = Subnet /\ DOMAIN nb_last_idx = Subnet
  BY DEF TypeOK, WatchedType
<1> QED
  BY <1>1, <1>2, Sizes

\* A record of an entry that is in order.
LEMMA RecordFacts ==
  ASSUME NEW p \in Path, NEW e \in Sample, InOrder(p, e), NEW k \in 1..Hops(p)
  PROVE  e.recs[k] \in Record /\ e.recs[k].at \in 0..MaxIdx /\ e.recs[k].at \in Int
<1>1. e.recs \in Seq(Record) /\ Len(e.recs) = Hops(p)
  BY Sizes DEF InOrder
<1>2. e.recs[k] \in Record
  BY <1>1
<1> QED
  BY <1>2, Sizes DEF Record

\* The table of a path.
LEMMA TableFacts ==
  ASSUME TypeOK, TableInv, NEW c \in Subnet, NEW p \in Watched(c)
  PROVE  /\ states[c][p] \in Seq(Sample) /\ (states[c][p] = <<>> <=> idx[c] = 1)
         /\ Numbered(states[c][p], idx[c] - 1)
         /\ states[c][p] # <<>> =>
               /\ Newest(states[c][p]) \in Sample /\ Newest(states[c][p]).num = idx[c] - 1
               /\ InOrder(p, Newest(states[c][p]))
               /\ slips = 0 => Fresh(c, p, Newest(states[c][p]))
<1>1. states[c][p] \in Seq(Sample) /\ idx[c] \in Int
  BY TypeFacts
<1>2. Kept(c, p)
  BY DEF TableInv
<1>3. (states[c][p] = <<>> <=> idx[c] = 1) /\ Numbered(states[c][p], idx[c] - 1)
  BY <1>2 DEF Kept, Numbered
<1>4. ASSUME states[c][p] # <<>>
      PROVE  /\ Newest(states[c][p]) \in Sample /\ Newest(states[c][p]).num = idx[c] - 1
             /\ InOrder(p, Newest(states[c][p]))
             /\ slips = 0 => Fresh(c, p, Newest(states[c][p]))
  <2>1. Newest(states[c][p]) \in Sample /\ Len(states[c][p]) \in 1..Len(states[c][p])
    BY <1>1, <1>4, NewestFacts
  <2>2. Newest(states[c][p]).num = idx[c] - 1
    BY <1>1, <1>3, <1>4, NumberedEnds
  <2>3. InOrder(p, Newest(states[c][p])) /\ (slips = 0 => Fresh(c, p, Newest(states[c][p])))
    BY <1>2, <2>1 DEF Kept, Newest
  <2> QED
    BY <2>1, <2>2, <2>3
<1> QED
  BY <1>1, <1>3, <1>4

\* The rounds of the records of a table.
LEMMA AtFacts ==
  ASSUME TypeOK, TableInv, NEW c \in Subnet, NEW p \in Watched(c), NEW k \in 1..Hops(p)
  PROVE  At(c, p, k) \in Nat /\ At(c, p, k) <= MaxIdx
<1>1. p \in Path
  BY DEF Watched, NsPaths
<1>2. CASE states[c][p] = <<>>
  BY <1>2, Sizes DEF At
<1>3. CASE states[c][p] # <<>>
  BY <1>1, <1>3, TableFacts, RecordFacts, Sizes DEF At
<1> QED
  BY <1>2, <1>3

\* The list for a path of a neighbour.
LEMMA HeldFacts ==
  ASSUME TypeOK, ListInv, NEW c \in Subnet, NEW n \in Neighbours(c),
         NEW q \in NbPaths(c, n) \intersect watched
  PROVE  /\ nb_states[c][q] \in Seq(Sample) /\ nb_last_idx[c][q] \in Nat
         /\ nb_last_idx[c][q] <= MaxIdx /\ nb_last_idx[c][q] <= idx[n] - 1
         /\ nb_states[c][q] # <<>> =>
               /\ Newest(nb_states[c][q]) \in Sample
               /\ Newest(nb_states[c][q]).num = nb_last_idx[c][q]
               /\ InOrder(q, Newest(nb_states[c][q]))
<1>1. q \in Lists(c)
  BY ListFacts
<1>2. nb_states[c][q] \in Seq(Sample) /\ nb_last_idx[c][q] \in 0..MaxIdx
  BY <1>1, TypeFacts
<1>3. Held(c, n, q)
  BY DEF ListInv
<1>4. nb_states[c][q] # <<>> => Newest(nb_states[c][q]) \in Sample
  BY <1>2, NewestFacts
<1>5. nb_last_idx[c][q] \in Nat /\ nb_last_idx[c][q] <= MaxIdx
  BY <1>2, Sizes
<1> QED
  BY <1>2, <1>3, <1>4, <1>5 DEF Held

\* What a round uses of a list is empty only if the list is, and has the same
\* newest entry: last_idx is never ahead of the list.
LEMMA TakenFacts ==
  ASSUME TypeOK, ListInv, UsedInv, NEW c \in Subnet, NEW p \in Watched(c),
         ListFor(c, p) \in Lists(c)
  PROVE  LET q == ListFor(c, p) IN
         /\ Taken(c, p, q) = <<>> <=> nb_states[c][q] = <<>>
         /\ Taken(c, p, q) # <<>> => Newest(Taken(c, p, q)) = Newest(nb_states[c][q])
<1> DEFINE q == ListFor(c, p)
           list == nb_states[c][q]
           k == last_idx[c][p] - Newest(list).num
<1>1. PICK n \in Neighbours(c) : q \in NbPaths(c, n) \intersect watched
  BY ListOfNeighbour
<1>2. /\ list \in Seq(Sample)
      /\ list # <<>> => Newest(list).num = nb_last_idx[c][q] /\ nb_last_idx[c][q] \in Nat
  BY <1>1, HeldFacts
<1>3. last_idx[c][p] <= nb_last_idx[c][q] /\ last_idx[c][p] \in Int
  BY TypeFacts DEF UsedInv
<1>4. CASE list = <<>>
  BY <1>4 DEF Taken
<1>5. CASE list # <<>>
  <2>1. Taken(c, p, q) = Slice(list, k)
    BY <1>5 DEF Taken
  <2>2. k \in Int /\ k <= 0
    BY <1>2, <1>3, <1>5
  <2>3. Len(list) \in Nat \ {0}
    BY <1>2, <1>5, NewestFacts
  <2> HIDE DEF k, list
  <2>4. SliceStart(Len(list), k) < Len(list)
    BY <2>2, <2>3 DEF SliceStart
  <2>5. Slice(list, k) # <<>>
    <3>1. Len(Slice(list, k)) = Len(list) - SliceStart(Len(list), k)
      BY <1>2, <2>2, SliceElements
    <3>2. SliceStart(Len(list), k) \in Int
      BY <2>2, <2>3 DEF SliceStart
    <3>3. Len(Slice(list, k)) # 0
      BY <2>3, <2>4, <3>1, <3>2
    <3> QED
      BY <3>3
  <2>6. Newest(Slice(list, k)) = Newest(list)
    BY <1>2, <2>2, <2>5, TailFacts
  <2> QED
    BY <1>5, <2>1, <2>5, <2>6 DEF list
<1> QED
  BY <1>4, <1>5
-----------------------------------------------------------------------------
(* The entry of a round.                                                   *)

\* The list a path is assembled from has a hop less.
LEMMA LongerByOne ==
  ASSUME WatchedType, NEW c \in Subnet, NEW p \in Watched(c), Hops(p) # 1
  PROVE  Hops(ListFor(c, p)) = Hops(p) - 1
<1>1. /\ p \in Path /\ Side(c, p) \in Subnet /\ Far(c, p) \in Subnet /\ Far(c, p) # c
      /\ (p[1] = c /\ p[2] # c) \/ (p[2] = c /\ p[1] # c)
      /\ Hops(p) = IF Far(c, p) < c THEN c - Far(c, p) ELSE Far(c, p) - c
  BY SideFacts, NeighbourFacts
<1>2. c \in Int /\ Side(c, p) \in Int /\ Far(c, p) \in Int
  BY <1>1, Subnets
<1>3. Side(c, p) = IF Far(c, p) < c THEN c - 1 ELSE c + 1
  BY DEF Side
<1>4. CASE p[1] = c
  <2>1. ListFor(c, p) = <<Side(c, p), Far(c, p)>>
    BY <1>1, <1>4 DEF ListFor, Far
  <2> QED
    BY <1>1, <1>2, <1>3, <2>1 DEF Hops
<1>5. CASE p[2] = c
  <2>1. Far(c, p) = p[1] /\ p[1] # Side(c, p)
    BY <1>1, <1>2, <1>3, <1>5 DEF Far
  <2>2. ListFor(c, p) = <<Far(c, p), Side(c, p)>>
    BY <1>5, <2>1 DEF ListFor
  <2> QED
    BY <1>1, <1>2, <1>3, <2>2 DEF Hops
<1> QED
  BY <1>1, <1>4, <1>5

\* combine_entries, one part: from the list, else from the last entry, else 0.
LEMMA PartFacts ==
  ASSUME NEW count \in Nat, NEW off \in Nat, NEW list, NEW last,
         list # <<>> => Newest(list).recs \in Seq(Record) /\ Len(Newest(list).recs) = count,
         last # <<>> => Newest(last).recs \in Seq(Record) /\ off + count <= Len(Newest(last).recs)
  PROVE  /\ Part(count, list, last, off) \in Seq(Record)
         /\ Len(Part(count, list, last, off)) = count
         /\ \A k \in 1..count : Part(count, list, last, off)[k] =
               IF list # <<>> THEN Newest(list).recs[k]
               ELSE IF last # <<>> THEN Newest(last).recs[off + k] ELSE NoRecord
<1> DEFINE g(k) == IF list # <<>> THEN Newest(list).recs[k]
                   ELSE IF last # <<>> THEN Newest(last).recs[off + k] ELSE NoRecord
<1>1. NoRecord \in Record
  BY Sizes DEF NoRecord, Record
<1>2. ASSUME NEW k \in 1..count PROVE g(k) \in Record
  <2>1. CASE list # <<>>
    BY <2>1
  <2>2. CASE list = <<>> /\ last # <<>>
    <3>1. off + k \in 1..Len(Newest(last).recs)
      BY <2>2
    <3> QED
      BY <2>2, <3>1
  <2>3. CASE list = <<>> /\ last = <<>>
    BY <1>1, <2>3
  <2> QED
    BY <2>1, <2>2, <2>3
<1>3. Part(count, list, last, off) = [k \in 1..count |-> g(k)]
  BY DEF Part
<1> HIDE DEF g
<1>4. /\ [k \in 1..count |-> g(k)] \in Seq(Record)
      /\ Len([k \in 1..count |-> g(k)]) = count
      /\ \A k \in 1..count : [i \in 1..count |-> g(i)][k] = g(k)
  BY <1>2
<1> QED
  BY <1>3, <1>4 DEF g

\* Two parts put together.
LEMMA BothParts ==
  ASSUME NEW s \in Seq(Record), NEW t \in Seq(Record)
  PROVE  /\ s \o t \in Seq(Record) /\ Len(s \o t) = Len(s) + Len(t)
         /\ \A k \in 1..Len(s) : (s \o t)[k] = s[k]
         /\ \A k \in 1..Len(t) : (s \o t)[Len(s) + k] = t[k]
OBVIOUS

\* The record of hop k of path p in the next entry.
NextRecord(c, p, k) ==
    IF Own(c, p, k) THEN [link |-> Hop(p, k), at |-> idx[c]]
    ELSE IF nb_states[c][Src(c, p, k)] # <<>>
         THEN Newest(nb_states[c][Src(c, p, k)]).recs[SrcPos(c, p, k)]
    ELSE IF states[c][p] # <<>> THEN Newest(states[c][p]).recs[k]
    ELSE NoRecord

\* A list that is used has a record for every hop of its path.
LEMMA UsedList ==
  ASSUME TypeOK, ListInv, UsedInv, NEW c \in Subnet, NEW n \in Neighbours(c),
         NEW p \in Watched(c), ListFor(c, p) \in NbPaths(c, n) \intersect watched,
         Taken(c, p, ListFor(c, p)) # <<>>
  PROVE  /\ Newest(Taken(c, p, ListFor(c, p))).recs \in Seq(Record)
         /\ Len(Newest(Taken(c, p, ListFor(c, p))).recs) = Hops(ListFor(c, p))
<1>1. ListFor(c, p) \in Lists(c)
  BY ListFacts
<1>2. /\ nb_states[c][ListFor(c, p)] # <<>>
      /\ Newest(Taken(c, p, ListFor(c, p))) = Newest(nb_states[c][ListFor(c, p)])
  BY <1>1, TakenFacts
<1>3. /\ Newest(nb_states[c][ListFor(c, p)]) \in Sample
      /\ InOrder(ListFor(c, p), Newest(nb_states[c][ListFor(c, p)]))
  BY <1>2, HeldFacts
<1> QED
  BY <1>2, <1>3, Sizes DEF InOrder

\* What a controller has measured itself.
LEMMA MeasuredFacts ==
  ASSUME TypeOK, NEW c \in Subnet, NEW p \in Watched(c), idx[c] <= MaxIdx, p[1] = c
  PROVE  LET e == Newest(Measured(c, p)) IN
         /\ Measured(c, p) # <<>>
         /\ e.recs \in Seq(Record) /\ Len(e.recs) = 1
         /\ e.recs[1] = [link |-> Hop(p, 1), at |-> idx[c]]
<1>1. Newest(Measured(c, p)) = [num |-> 0, recs |-> <<[link |-> <<c, Side(c, p)>>, at |-> idx[c]]>>]
  BY DEF Newest, Measured
<1>2. /\ p \in Path /\ p[2] # c /\ Side(c, p) \in Subnet /\ Far(c, p) = p[2]
      /\ idx[c] \in 1..MaxIdx + 1 /\ c \in Int /\ p[2] \in Int
  BY SideFacts, NeighbourFacts, TypeFacts, Subnets, PathFacts DEF Far
<1>3. Hop(p, 1) = <<c, Side(c, p)>>
  BY <1>2 DEF Hop, Side
<1>4. [link |-> <<c, Side(c, p)>>, at |-> idx[c]] \in Record
  BY <1>2, Sizes DEF Record
<1>5. Measured(c, p) # <<>>
  BY DEF Measured
<1> QED
  BY <1>1, <1>3, <1>4, <1>5

\* An entry has a record for each hop: its own measurement, or the one in the
\* list the hop comes from, or the one of the last entry.
LEMMA EntryFacts ==
  ASSUME TypeOK, TableInv, ListInv, UsedInv, NEW c \in Subnet, NEW p \in Watched(c),
         idx[c] <= MaxIdx
  PROVE  /\ Entry(c, p).num = idx[c]
         /\ Entry(c, p).recs \in Seq(Record) /\ Len(Entry(c, p).recs) = Hops(p)
         /\ Entry(c, p) \in Sample
         /\ \A k \in 1..Hops(p) : Entry(c, p).recs[k] = NextRecord(c, p, k)
<1> DEFINE near == <<Side(c, p), c>>
           hops == IF Far(c, p) < c THEN c - Far(c, p) ELSE Far(c, p) - c
           last == states[c][p]
           far  == IF hops = 1 THEN <<>> ELSE Taken(c, p, ListFor(c, p))
           q    == ListFor(c, p)
           goal(recs) == /\ recs \in Seq(Record) /\ Len(recs) = Hops(p)
                         /\ \A k \in 1..Hops(p) : recs[k] = NextRecord(c, p, k)
<1>1. /\ WatchedType /\ p \in Path /\ Side(c, p) \in Neighbours(c) /\ hops = Hops(p)
      /\ hops \in Nat \ {0}
      /\ (p[1] = c /\ p[2] # c) \/ (p[2] = c /\ p[1] # c)
  BY SideFacts, TypeFacts
<1>2. last # <<>> => Newest(last).recs \in Seq(Record) /\ Len(Newest(last).recs) = Hops(p)
  BY TableFacts, Sizes DEF InOrder
<1> HIDE DEF hops
<1>3. ASSUME NEW k \in 1..Hops(p), ~Own(c, p, k), ~FromNear(c, p, k)
      PROVE  /\ hops # 1 /\ q \in NbPaths(c, Side(c, p)) \intersect watched
             /\ Src(c, p, k) = q /\ q \in Lists(c) /\ Hops(q) \in Nat
             /\ SrcPos(c, p, k) = IF p[1] = c THEN k - 1 ELSE k
             /\ SrcPos(c, p, k) \in 1..Hops(q)
  <2>1. Src(c, p, k) = q /\ SrcPos(c, p, k) = IF p[1] = c THEN k - 1 ELSE k
    BY <1>3 DEF Src, SrcPos
  <2>2. q \in NbPaths(c, Side(c, p)) \intersect watched /\ SrcPos(c, p, k) \in 1..Hops(q)
    BY <1>1, <1>3, <2>1, SourceFacts
  <2>3. hops # 1
    BY <1>1, <1>3 DEF Own, FromNear
  <2> QED
    BY <1>1, <2>1, <2>2, <2>3, ListFacts
<1>4. far # <<>> => Newest(far).recs \in Seq(Record) /\ Len(Newest(far).recs) = hops - 1
  <2>1. CASE hops = 1
    BY <2>1
  <2>2. CASE hops # 1
    <3> DEFINE k == IF p[1] = c THEN 2 ELSE 1
    <3>1. k \in 1..Hops(p) /\ ~Own(c, p, k) /\ ~FromNear(c, p, k)
      BY <1>1, <2>2 DEF Own, FromNear
    <3>2. q \in NbPaths(c, Side(c, p)) \intersect watched
      BY <1>3, <3>1
    <3>3. Hops(q) = hops - 1
      BY <1>1, <1>3, <2>2, <3>1, LongerByOne
    <3> QED
      BY <1>1, <2>2, <3>2, <3>3, UsedList
  <2> QED
    BY <2>1, <2>2
<1>5. ASSUME NEW k \in 1..Hops(p), ~Own(c, p, k), ~FromNear(c, p, k)
      PROVE  NextRecord(c, p, k) =
                IF far # <<>> THEN Newest(far).recs[SrcPos(c, p, k)]
                ELSE IF last # <<>> THEN Newest(last).recs[k] ELSE NoRecord
  <2>1. far = Taken(c, p, q) /\ q \in Lists(c) /\ Src(c, p, k) = q
    BY <1>3, <1>5
  <2>2. /\ far = <<>> <=> nb_states[c][q] = <<>>
        /\ far # <<>> => Newest(far) = Newest(nb_states[c][q])
    BY <2>1, TakenFacts
  <2> QED
    BY <1>5, <2>1, <2>2 DEF NextRecord
<1>6. ASSUME p[1] = c PROVE goal(Entry(c, p).recs)
  <2> DEFINE s == Part(1, Measured(c, p), last, 0)
             t == Part(hops - 1, far, last, 1)
  <2>1. /\ s \in Seq(Record) /\ Len(s) = 1
        /\ s[1] = [link |-> Hop(p, 1), at |-> idx[c]]
    <3>1. last # <<>> => 0 + 1 <= Len(Newest(last).recs)
      BY <1>1, <1>2
    <3> QED
      BY <1>2, <1>6, <3>1, MeasuredFacts, PartFacts
  <2>2. /\ t \in Seq(Record) /\ Len(t) = hops - 1
        /\ \A k \in 1..hops - 1 : t[k] = IF far # <<>> THEN Newest(far).recs[k]
                                         ELSE IF last # <<>> THEN Newest(last).recs[1 + k] ELSE NoRecord
    <3>1. last # <<>> => 1 + (hops - 1) <= Len(Newest(last).recs)
      BY <1>1, <1>2
    <3>2. hops - 1 \in Nat
      BY <1>1
    <3> HIDE DEF far, last
    <3> QED
      BY <1>2, <1>4, <3>1, <3>2, PartFacts
  <2> HIDE DEF s, t
  <2>3. /\ s \o t \in Seq(Record) /\ Len(s \o t) = 1 + (hops - 1)
        /\ (s \o t)[1] = s[1]
        /\ \A k \in 1..hops - 1 : (s \o t)[1 + k] = t[k]
    <3>1. s \in Seq(Record) /\ t \in Seq(Record) /\ Len(s) = 1 /\ Len(t) = hops - 1 /\ 1 \in 1..1
      BY <2>1, <2>2
    <3>2. /\ s \o t \in Seq(Record) /\ Len(s \o t) = Len(s) + Len(t)
          /\ \A k \in 1..Len(s) : (s \o t)[k] = s[k]
          /\ \A k \in 1..Len(t) : (s \o t)[Len(s) + k] = t[k]
      BY <3>1, BothParts, Zenon
    <3> QED
      BY <3>1, <3>2
  <2>4. ASSUME NEW k \in 1..Hops(p) PROVE (s \o t)[k] = NextRecord(c, p, k)
    <3>1. CASE k = 1
      BY <1>6, <2>1, <2>3, <3>1 DEF NextRecord, Own
    <3>2. CASE k # 1
      <4>1. ~Own(c, p, k) /\ ~FromNear(c, p, k)
        BY <1>1, <1>6, <3>2 DEF Own, FromNear
      <4>2. SrcPos(c, p, k) = k - 1 /\ k - 1 \in 1..hops - 1 /\ 1 + (k - 1) = k
        BY <1>1, <1>3, <1>6, <3>2, <4>1
      <4> HIDE DEF far, last
      <4>3. (s \o t)[k] = IF far # <<>> THEN Newest(far).recs[k - 1]
                          ELSE IF last # <<>> THEN Newest(last).recs[k] ELSE NoRecord
        BY <2>2, <2>3, <4>2
      <4> QED
        BY <1>5, <4>1, <4>2, <4>3
    <3> QED
      BY <3>1, <3>2
  <2>5. goal(s \o t)
    BY <1>1, <2>3, <2>4, SMTT(30)
  <2>6. Entry(c, p).recs = s \o t
    BY <1>6 DEF Entry, s, t, hops
  <2> HIDE DEF goal
  <2> QED
    BY <2>5, <2>6
<1>7. ASSUME p[2] = c PROVE goal(Entry(c, p).recs)
  <2> DEFINE s == Part(hops - 1, far, last, 0)
             u == Taken(c, near, near)
             t == Part(1, u, last, hops - 1)
  <2>1. /\ near \in Watched(c) /\ near \in NbPaths(c, Side(c, p)) /\ ListFor(c, near) = near
        /\ Hops(near) = 1 /\ near \in watched
    BY <1>1, <1>7, NearFacts DEF Watched
  <2>2. near \in Lists(c)
    BY <1>1, <2>1, ListFacts
  <2> HIDE DEF near
  <2>3. /\ u = <<>> <=> nb_states[c][near] = <<>>
        /\ u # <<>> => Newest(u) = Newest(nb_states[c][near])
        /\ u # <<>> => Newest(u).recs \in Seq(Record) /\ Len(Newest(u).recs) = 1
    <3>1. /\ u = <<>> <=> nb_states[c][near] = <<>>
          /\ u # <<>> => Newest(u) = Newest(nb_states[c][near])
      BY <2>1, <2>2, TakenFacts
    <3>2. u # <<>> => Newest(u).recs \in Seq(Record) /\ Len(Newest(u).recs) = 1
      BY <1>1, <2>1, UsedList
    <3> QED
      BY <3>1, <3>2
  <2>4. /\ s \in Seq(Record) /\ Len(s) = hops - 1
        /\ \A k \in 1..hops - 1 : s[k] = IF far # <<>> THEN Newest(far).recs[k]
                                         ELSE IF last # <<>> THEN Newest(last).recs[0 + k] ELSE NoRecord
    <3>1. last # <<>> => 0 + (hops - 1) <= Len(Newest(last).recs)
      BY <1>1, <1>2
    <3>2. hops - 1 \in Nat
      BY <1>1
    <3> HIDE DEF far, last
    <3> QED
      BY <1>2, <1>4, <3>1, <3>2, PartFacts
  <2>5. /\ t \in Seq(Record) /\ Len(t) = 1
        /\ t[1] = IF u # <<>> THEN Newest(u).recs[1]
                  ELSE IF last # <<>> THEN Newest(last).recs[(hops - 1) + 1] ELSE NoRecord
    <3>1. last # <<>> => (hops - 1) + 1 <= Len(Newest(last).recs)
      BY <1>1, <1>2
    <3> DEFINE one == 1
               off == hops - 1
    <3>2. off \in Nat /\ one \in Nat /\ 1 \in 1..one
      BY <1>1
    <3>3. t = Part(one, u, last, off)
      OBVIOUS
    <3>4. /\ u # <<>> => Newest(u).recs \in Seq(Record) /\ Len(Newest(u).recs) = one
          /\ last # <<>> => Newest(last).recs \in Seq(Record)
                           /\ off + one <= Len(Newest(last).recs)
      BY <1>2, <2>3, <3>1
    <3> HIDE DEF u, last, one, off, t
    <3>5. /\ t \in Seq(Record) /\ Len(t) = one
          /\ \A k \in 1..one : t[k] = IF u # <<>> THEN Newest(u).recs[k]
                ELSE IF last # <<>> THEN Newest(last).recs[off + k] ELSE NoRecord
      BY <3>2, <3>3, <3>4, PartFacts
    <3> QED
      BY <3>2, <3>5 DEF one, off
  <2> HIDE DEF s, t
  <2>6. /\ s \o t \in Seq(Record) /\ Len(s \o t) = (hops - 1) + 1
        /\ \A k \in 1..hops - 1 : (s \o t)[k] = s[k]
        /\ (s \o t)[(hops - 1) + 1] = t[1]
    BY <2>4, <2>5, BothParts, SMTT(30)
  <2>7. ASSUME NEW k \in 1..Hops(p) PROVE (s \o t)[k] = NextRecord(c, p, k)
    <3>0. ~Own(c, p, k)
      BY <1>1, <1>7 DEF Own
    <3>1. CASE k = Hops(p)
      <4>1. FromNear(c, p, k) /\ SrcPos(c, p, k) = 1 /\ Src(c, p, k) = near
        BY <1>1, <1>7, <3>1 DEF FromNear, SrcPos, Src, near
      <4>2. (hops - 1) + 1 = k /\ (s \o t)[k] = t[1]
        BY <1>1, <2>6, <3>1
      <4> HIDE DEF u, last
      <4>3. t[1] = IF u # <<>> THEN Newest(u).recs[1]
                   ELSE IF last # <<>> THEN Newest(last).recs[k] ELSE NoRecord
        BY <2>5, <4>2
      <4>4. NextRecord(c, p, k) = IF nb_states[c][near] # <<>> THEN Newest(nb_states[c][near]).recs[1]
                                  ELSE IF last # <<>> THEN Newest(last).recs[k] ELSE NoRecord
        BY <3>0, <4>1 DEF NextRecord, last
      <4> QED
        BY <2>3, <4>2, <4>3, <4>4
    <3>2. CASE k # Hops(p)
      <4>1. ~FromNear(c, p, k)
        BY <3>2 DEF FromNear
      <4>2. SrcPos(c, p, k) = k /\ k \in 1..hops - 1 /\ 0 + k = k
        BY <1>1, <1>3, <1>7, <3>0, <3>2, <4>1
      <4> HIDE DEF far, last
      <4>3. (s \o t)[k] = IF far # <<>> THEN Newest(far).recs[k]
                          ELSE IF last # <<>> THEN Newest(last).recs[k] ELSE NoRecord
        BY <2>4, <2>6, <4>2
      <4> QED
        BY <1>5, <3>0, <4>1, <4>2, <4>3
    <3> QED
      BY <3>1, <3>2
  <2>8. goal(s \o t)
    <3>1. (hops - 1) + 1 = Hops(p)
      BY <1>1
    <3> QED
      BY <2>6, <2>7, <3>1
  <2>9. Entry(c, p).recs = s \o t
    BY <1>1, <1>7 DEF Entry, s, t, hops, near
  <2> HIDE DEF goal
  <2> QED
    BY <2>8, <2>9
<1>8. goal(Entry(c, p).recs)
  BY <1>1, <1>6, <1>7
<1>9. Entry(c, p) = [num |-> idx[c], recs |-> Entry(c, p).recs]
  BY DEF Entry
<1>10. idx[c] \in 1..MaxIdx
  BY TypeFacts, Sizes
<1>11. Entry(c, p) \in Sample /\ Entry(c, p).num = idx[c]
  BY <1>8, <1>9, <1>10 DEF Sample
<1> QED
  BY <1>8, <1>11

\* Every record of the next entry is about its hop.
LEMMA EntryInOrder ==
  ASSUME IInv, NEW c \in Subnet, NEW p \in Watched(c), idx[c] <= MaxIdx
  PROVE  Entry(c, p) \in Sample /\ InOrder(p, Entry(c, p))
<1>0. TypeOK /\ TableInv /\ ListInv /\ UsedInv /\ WatchedType /\ p \in Path
  BY TypeFacts DEF IInv, Watched, NsPaths
<1>1. /\ Entry(c, p) \in Sample /\ Len(Entry(c, p).recs) = Hops(p)
      /\ \A k \in 1..Hops(p) : Entry(c, p).recs[k] = NextRecord(c, p, k)
  BY <1>0, EntryFacts
<1>2. ASSUME NEW k \in 1..Hops(p)
      PROVE  NextRecord(c, p, k) = NoRecord \/ NextRecord(c, p, k).link = Hop(p, k)
  <2> DEFINE q == Src(c, p, k)
             j == SrcPos(c, p, k)
             n == Side(c, p)
  <2>1. CASE Own(c, p, k)
    BY <2>1 DEF NextRecord
  <2>2. CASE ~Own(c, p, k) /\ nb_states[c][q] # <<>>
    <3>1. q \in NbPaths(c, n) \intersect watched /\ j \in 1..Hops(q) /\ Hop(q, j) = Hop(p, k)
      BY <1>0, <2>2, SourceFacts
    <3>2. InOrder(q, Newest(nb_states[c][q]))
      BY <1>0, <2>2, <3>1, SideFacts, HeldFacts
    <3>3. \/ Newest(nb_states[c][q]).recs[j] = NoRecord
          \/ Newest(nb_states[c][q]).recs[j].link = Hop(q, j)
      BY <3>1, <3>2 DEF InOrder
    <3>4. NextRecord(c, p, k) = Newest(nb_states[c][q]).recs[j]
      BY <2>2 DEF NextRecord
    <3> QED
      BY <3>1, <3>3, <3>4
  <2>3. CASE ~Own(c, p, k) /\ nb_states[c][q] = <<>> /\ states[c][p] # <<>>
    <3>1. InOrder(p, Newest(states[c][p]))
      BY <1>0, <2>3, TableFacts
    <3>2. NextRecord(c, p, k) = Newest(states[c][p]).recs[k]
      BY <2>3 DEF NextRecord
    <3> QED
      BY <3>1, <3>2 DEF InOrder
  <2>4. CASE ~Own(c, p, k) /\ nb_states[c][q] = <<>> /\ states[c][p] = <<>>
    BY <2>4 DEF NextRecord
  <2> QED
    BY <2>1, <2>2, <2>3, <2>4
<1> QED
  BY <1>1, <1>2 DEF InOrder

\* It is not older than the one of the last entry, and not newer than where it
\* comes from.
LEMMA EntryRounds ==
  ASSUME IInv, NEW c \in Subnet, NEW p \in Watched(c), idx[c] <= MaxIdx,
         NEW k \in 1..Hops(p)
  PROVE  /\ Entry(c, p).recs[k].at \in Nat
         /\ At(c, p, k) <= Entry(c, p).recs[k].at
         /\ Own(c, p, k) => Entry(c, p).recs[k].at = idx[c]
         /\ ~Own(c, p, k) =>
               Entry(c, p).recs[k].at <= At(Side(c, p), Src(c, p, k), SrcPos(c, p, k))
<1>0. TypeOK /\ TableInv /\ ListInv /\ UsedInv /\ WatchedType /\ p \in Path /\ idx[c] \in Int
      /\ idx[c] >= 1
  BY TypeFacts, Sizes DEF IInv, Watched, NsPaths
<1> DEFINE e == Entry(c, p)
           q == Src(c, p, k)
           j == SrcPos(c, p, k)
           n == Side(c, p)
<1>1. e.recs[k] = NextRecord(c, p, k)
  BY <1>0, EntryFacts
<1>2. e.recs[k].at \in Nat
  <2>1. e \in Sample /\ InOrder(p, e)
    BY EntryInOrder
  <2>2. e.recs[k].at \in 0..MaxIdx
    BY <1>0, <2>1, RecordFacts
  <2> QED
    BY <2>2, Sizes
<1>3. At(c, p, k) \in Nat
  BY <1>0, AtFacts
<1> HIDE DEF e
<1>4. CASE Own(c, p, k)
  <2>1. e.recs[k].at = idx[c]
    BY <1>1, <1>4 DEF NextRecord
  <2>2. At(c, p, k) <= idx[c]
    <3>1. Kept(c, p) /\ p[1] = c /\ k = 1
      BY <1>0, <1>4 DEF TableInv, Own
    <3> QED
      BY <1>0, <3>1 DEF Kept, At
  <2> QED
    BY <1>2, <1>4, <2>1, <2>2 DEF e
<1>5. ASSUME ~Own(c, p, k)
      PROVE  /\ Behind(c, p, k) /\ At(n, q, j) \in Nat
             /\ n \in Neighbours(c) /\ q \in NbPaths(c, n) \intersect watched /\ j \in 1..Hops(q)
  <2>1. Behind(c, p, k)
    BY <1>5 DEF IInv, BehindInv
  <2>2. n \in Neighbours(c) /\ q \in NbPaths(c, n) \intersect watched /\ j \in 1..Hops(q)
    BY <1>0, <1>5, SourceFacts, SideFacts
  <2>3. q \in Watched(n) /\ n \in Subnet
    BY <2>2, ListFacts, NeighbourFacts
  <2>4. At(n, q, j) \in Nat
    BY <1>0, <2>2, <2>3, AtFacts
  <2> QED
    BY <2>1, <2>2, <2>4
<1>6. CASE ~Own(c, p, k) /\ nb_states[c][q] # <<>>
  <2>1. e.recs[k] = Newest(nb_states[c][q]).recs[j]
    BY <1>1, <1>6 DEF NextRecord
  <2>2. At(c, p, k) <= Newest(nb_states[c][q]).recs[j].at
    BY <1>5, <1>6 DEF Behind
  <2>3. Held(c, n, q)
    BY <1>0, <1>5, <1>6 DEF ListInv
  <2>4. Newest(nb_states[c][q]).recs[j].at <= At(n, q, j)
    BY <1>5, <1>6, <2>3 DEF Held
  <2> QED
    BY <1>2, <1>6, <2>1, <2>2, <2>4 DEF e
<1>7. CASE ~Own(c, p, k) /\ nb_states[c][q] = <<>> /\ states[c][p] # <<>>
  <2>1. e.recs[k] = Newest(states[c][p]).recs[k]
    BY <1>1, <1>7 DEF NextRecord
  <2>2. At(c, p, k) = e.recs[k].at
    BY <1>7, <2>1 DEF At
  <2>3. At(c, p, k) <= At(n, q, j)
    BY <1>5, <1>7 DEF Behind
  <2> QED
    BY <1>2, <1>7, <2>2, <2>3 DEF e
<1>8. CASE ~Own(c, p, k) /\ nb_states[c][q] = <<>> /\ states[c][p] = <<>>
  <2>1. e.recs[k].at = 0
    BY <1>1, <1>8 DEF NextRecord, NoRecord
  <2>2. At(c, p, k) = 0
    BY <1>8 DEF At
  <2> QED
    BY <1>2, <1>5, <1>8, <2>1, <2>2 DEF e
<1> QED
  BY <1>4, <1>6, <1>7, <1>8

\* Where a record has come from, it is not the controller's own hop.
LEMMA OwnAway ==
  ASSUME WatchedType, NEW c \in Subnet, NEW p \in Watched(c), NEW k \in 1..Hops(p), Own(c, p, k)
  PROVE  Away(c, p, k) = 0
<1>1. /\ c \in Int /\ p \in Path /\ p[1] = c /\ k = 1
  BY Subnets DEF Watched, NsPaths, Own
<1>2. Hop(p, 1)[1] = c
  BY <1>1 DEF Hop
<1> QED
  BY <1>1, <1>2 DEF Away

\* The distance to a hop is a number.
LEMMA AwayInt ==
  ASSUME NEW n \in Subnet, NEW q \in Path, NEW j \in Int
  PROVE  Away(n, q, j) \in Int
<1>1. n \in Int /\ q[1] \in Int
  BY Subnets, PathFacts
<1>2. Hop(q, j)[1] \in Int
  BY <1>1 DEF Hop
<1> QED
  BY <1>1, <1>2 DEF Away

\* In step, with the list heard in the last two rounds, the record is fresh.
LEMMA EntryFresh ==
  ASSUME IInv, NEW c \in Subnet, NEW p \in Watched(c), idx[c] <= MaxIdx,
         slips = 0, InStep(c)
  PROVE  Fresh(c, p, Entry(c, p))
<1>0. TypeOK /\ TableInv /\ ListInv /\ UsedInv /\ WatchedType /\ p \in Path /\ idx[c] \in Int
      /\ idx[c] >= 1
  BY TypeFacts, Sizes DEF IInv, Watched, NsPaths
<1> DEFINE e == Entry(c, p)
<1>1. e.num = idx[c]
  BY <1>0, EntryFacts
<1>2. ASSUME NEW k \in 1..Hops(p)
      PROVE  e.recs[k].at >= idx[c] - 2 * Away(c, p, k)
  <2> DEFINE q == Src(c, p, k)
             j == SrcPos(c, p, k)
             n == Side(c, p)
  <2>1. e.recs[k] = NextRecord(c, p, k) /\ e.recs[k].at \in Nat
    BY <1>0, EntryFacts, EntryRounds
  <2> HIDE DEF e
  <2>2. CASE Own(c, p, k)
    <3>1. e.recs[k].at = idx[c] /\ Away(c, p, k) = 0
      BY <1>0, <2>1, <2>2, OwnAway DEF NextRecord
    <3> QED
      BY <1>0, <3>1
  <2>3. CASE ~Own(c, p, k)
    <3>1. /\ n \in Neighbours(c) /\ q \in NbPaths(c, n) \intersect watched /\ j \in 1..Hops(q)
          /\ Away(c, p, k) = Away(n, q, j) + 1 /\ Away(c, p, k) \in Nat \ {0}
      BY <1>0, <2>3, SourceFacts, SideFacts
    <3>2. Held(c, n, q) /\ Heard(c, n, q)
      BY <1>0, <3>1 DEF ListInv
    <3>3. /\ nb_last_idx[c][q] \in Nat
          /\ nb_states[c][q] # <<>> => Newest(nb_states[c][q]).num = nb_last_idx[c][q]
      BY <1>0, <3>1, HeldFacts
    <3>4. /\ nb_last_idx[c][q] >= idx[c] - 2
          /\ nb_states[c][q] # <<>> \/ idx[c] <= 2
      <4>1. CASE idx[c] = 1
        BY <1>0, <3>3, <4>1
      <4>2. CASE idx[c] > 1
        <5>1. n \in polled[c]
          BY <3>1, <4>2 DEF InStep
        <5> QED
          BY <3>2, <5>1 DEF Heard
      <4> QED
        BY <1>0, <4>1, <4>2
    <3>5. CASE nb_states[c][q] # <<>>
      <4>1. e.recs[k] = Newest(nb_states[c][q]).recs[j]
        BY <2>1, <2>3, <3>5 DEF NextRecord
      <4>2. e.recs[k].at >= nb_last_idx[c][q] - 2 * Away(n, q, j)
        BY <3>1, <3>2, <3>3, <3>5, <4>1 DEF Held, Fresh
      <4>3. Away(n, q, j) = Away(c, p, k) - 1
        <5>1. n \in Subnet /\ q \in Path /\ j \in Int
          BY <3>1, NeighbourFacts, ListFacts
        <5>2. Away(n, q, j) \in Int
          BY <5>1, AwayInt
        <5> QED
          BY <3>1, <5>2
      <4> QED
        BY <1>0, <2>1, <3>1, <3>3, <3>4, <4>2, <4>3, SMTT(30)
    <3>6. CASE nb_states[c][q] = <<>>
      BY <1>0, <2>1, <3>1, <3>4, <3>6
    <3> QED
      BY <3>5, <3>6
  <2> QED
    BY <2>2, <2>3
<1> QED
  BY <1>1, <1>2 DEF Fresh
-----------------------------------------------------------------------------
(* A round.                                                                *)

\* What a round changes, and what it leaves.
LEMMA RoundEffect ==
  ASSUME IInv, NEW c \in Subnet, Round(c)
  PROVE  /\ idx[c] <= MaxIdx /\ watched' = watched /\ nb_last_idx' = nb_last_idx
         /\ slips' = IF InStep(c) THEN slips ELSE slips + 1
         /\ slips' <= MaxSlips
         /\ DOMAIN states' = Subnet /\ DOMAIN last_idx' = Subnet /\ DOMAIN nb_states' = Subnet
         /\ idx' \in [Subnet -> 1..MaxIdx + 1] /\ polled' \in [Subnet -> SUBSET Subnet]
         /\ idx'[c] = idx[c] + 1 /\ polled'[c] = {}
         /\ states'[c] = [p \in Watched(c) |-> WithEntry(c, p)]
         /\ last_idx'[c] = [p \in Watched(c) |->
               IF Taken(c, p, ListFor(c, p)) = <<>> THEN last_idx[c][p]
               ELSE Newest(nb_states[c][ListFor(c, p)]).num]
         /\ nb_states'[c] = [q \in Lists(c) |->
               IF \E p \in Watched(c) : q = ListFor(c, p) THEN <<>> ELSE nb_states[c][q]]
         /\ \A d \in Subnet : d # c =>
               /\ idx'[d] = idx[d] /\ polled'[d] = polled[d] /\ states'[d] = states[d]
               /\ last_idx'[d] = last_idx[d] /\ nb_states'[d] = nb_states[d]
<1>1. /\ DOMAIN states = Subnet /\ DOMAIN last_idx = Subnet /\ DOMAIN nb_states = Subnet
      /\ DOMAIN states[c] = Watched(c) /\ DOMAIN last_idx[c] = Watched(c)
      /\ DOMAIN nb_states[c] = Lists(c)
      /\ idx[c] \in 1..MaxIdx + 1 /\ idx[c] \in Int
  BY TypeFacts DEF IInv
<1>2. idx \in [Subnet -> 1..MaxIdx + 1] /\ polled \in [Subnet -> SUBSET Subnet]
  BY DEF IInv, TypeOK
<1>3. /\ idx[c] <= MaxIdx /\ watched' = watched /\ nb_last_idx' = nb_last_idx
      /\ slips' = IF InStep(c) THEN slips ELSE slips + 1
      /\ slips' <= MaxSlips
      /\ idx' = [idx EXCEPT ![c] = idx[c] + 1] /\ polled' = [polled EXCEPT ![c] = {}]
  BY DEF Round
<1>4. states' = [states EXCEPT ![c] = [p \in Watched(c) |-> WithEntry(c, p)]]
  BY <1>1 DEF Round
<1>5. last_idx' = [last_idx EXCEPT ![c] = [p \in Watched(c) |->
               IF Taken(c, p, ListFor(c, p)) = <<>> THEN last_idx[c][p]
               ELSE Newest(nb_states[c][ListFor(c, p)]).num]]
  BY <1>1 DEF Round
<1>6. nb_states' = [nb_states EXCEPT ![c] = [q \in Lists(c) |->
               IF \E p \in Watched(c) : q = ListFor(c, p) THEN <<>> ELSE nb_states[c][q]]]
  BY <1>1 DEF Round
<1>7. idx[c] + 1 \in 1..MaxIdx + 1
  BY <1>1, <1>3, Sizes
<1>8. /\ idx' \in [Subnet -> 1..MaxIdx + 1] /\ polled' \in [Subnet -> SUBSET Subnet]
      /\ idx'[c] = idx[c] + 1 /\ polled'[c] = {}
      /\ \A d \in Subnet : d # c => idx'[d] = idx[d] /\ polled'[d] = polled[d]
  BY <1>2, <1>3, <1>7
<1>9. /\ DOMAIN states' = Subnet
      /\ states'[c] = [p \in Watched(c) |-> WithEntry(c, p)]
      /\ \A d \in Subnet : d # c => states'[d] = states[d]
  BY <1>1, <1>4
<1>10. /\ DOMAIN last_idx' = Subnet
       /\ last_idx'[c] = [p \in Watched(c) |->
               IF Taken(c, p, ListFor(c, p)) = <<>> THEN last_idx[c][p]
               ELSE Newest(nb_states[c][ListFor(c, p)]).num]
       /\ \A d \in Subnet : d # c => last_idx'[d] = last_idx[d]
  BY <1>1, <1>5
<1>11. /\ DOMAIN nb_states' = Subnet
       /\ nb_states'[c] = [q \in Lists(c) |->
               IF \E p \in Watched(c) : q = ListFor(c, p) THEN <<>> ELSE nb_states[c][q]]
       /\ \A d \in Subnet : d # c => nb_states'[d] = nb_states[d]
  BY <1>1, <1>6
<1> QED
  BY <1>3, <1>8, <1>9, <1>10, <1>11

\* The tables after a round of controller c.
LEMMA RoundTable ==
  ASSUME IInv, NEW c \in Subnet, Round(c), NEW p \in Watched(c)
  PROVE  /\ states'[c][p] \in Seq(Sample) /\ states'[c][p] # <<>>
         /\ Len(states'[c][p]) <= NS_QUEUE_SIZE
         /\ Newest(states'[c][p]) = Entry(c, p)
         /\ Numbered(states'[c][p], idx[c])
         /\ \A j \in 1..Len(states'[c][p]) :
               \/ states'[c][p][j] = Entry(c, p)
               \/ \E i \in 1..Len(states[c][p]) : states'[c][p][j] = states[c][p][i]
<1>1. /\ idx[c] <= MaxIdx
      /\ states'[c][p] = KeepLast(Append(states[c][p], Entry(c, p)), NS_QUEUE_SIZE)
  <2>1. idx[c] <= MaxIdx /\ states'[c] = [r \in Watched(c) |-> WithEntry(c, r)]
    BY RoundEffect
  <2>2. states'[c][p] = WithEntry(c, p)
    BY <2>1
  <2> QED
    BY <2>1, <2>2 DEF WithEntry
<1>2. /\ states[c][p] \in Seq(Sample) /\ Numbered(states[c][p], idx[c] - 1) /\ idx[c] \in Int
      /\ Entry(c, p) \in Sample /\ Entry(c, p).num = idx[c]
  BY <1>1, TableFacts, TypeFacts, EntryFacts DEF IInv
<1> QED
  BY <1>1, <1>2, AppendedFacts, SMTT(30)

\* Watched paths and lists are the same after every step.
LEMMA SameWatched ==
  ASSUME watched' = watched
  PROVE  /\ \A c : Watched(c)' = Watched(c)
         /\ \A c : Lists(c)' = Lists(c)
         /\ WatchedType => WatchedType'
BY DEF Watched, Lists, WatchedType

\* The type invariant, over a round.
LEMMA RoundType ==
  ASSUME IInv, NEW c \in Subnet, Round(c)
  PROVE  TypeOK'
<1>0. TypeOK /\ TableInv /\ ListInv /\ UsedInv /\ WatchedType /\ watched' = watched
  BY TypeFacts, RoundEffect DEF IInv
<1>1. /\ watched' \in {Upward, Path \ Upward}
      /\ idx' \in [Subnet -> 1..MaxIdx + 1]
      /\ DOMAIN states' = Subnet /\ DOMAIN last_idx' = Subnet
      /\ DOMAIN nb_states' = Subnet /\ DOMAIN nb_last_idx' = Subnet
      /\ polled' \in [Subnet -> SUBSET Subnet]
  BY <1>0, RoundEffect, TypeFacts DEF WatchedType
<1>2. slips' \in 0..MaxSlips
  <2>1. slips \in 0..MaxSlips
    BY <1>0 DEF TypeOK
  <2>2. slips' = slips \/ slips' = slips + 1
    BY RoundEffect
  <2>3. slips' <= MaxSlips
    BY RoundEffect
  <2> QED
    BY <2>1, <2>2, <2>3, Sizes
<1>3. ASSUME NEW d \in Subnet
      PROVE  /\ states'[d] \in [Watched(d) -> Seq(Sample)]
             /\ last_idx'[d] \in [Watched(d) -> 0..MaxIdx]
             /\ nb_states'[d] \in [Lists(d) -> Seq(Sample)]
             /\ nb_last_idx'[d] \in [Lists(d) -> 0..MaxIdx]
             /\ \A p \in Watched(d) : Len(states'[d][p]) <= NS_QUEUE_SIZE
             /\ \A q \in Lists(d) : Len(nb_states'[d][q]) <= NB_QUEUE_SIZE
  <2>1. /\ states[d] \in [Watched(d) -> Seq(Sample)]
        /\ last_idx[d] \in [Watched(d) -> 0..MaxIdx]
        /\ nb_states[d] \in [Lists(d) -> Seq(Sample)]
        /\ nb_last_idx[d] \in [Lists(d) -> 0..MaxIdx]
        /\ \A p \in Watched(d) : Len(states[d][p]) <= NS_QUEUE_SIZE
        /\ \A q \in Lists(d) : Len(nb_states[d][q]) <= NB_QUEUE_SIZE
    BY <1>0 DEF TypeOK, Watched
  <2>2. CASE d # c
    BY <2>1, <2>2, RoundEffect
  <2>3. CASE d = c
    <3>1. /\ states'[c] \in [Watched(c) -> Seq(Sample)]
          /\ \A p \in Watched(c) : Len(states'[c][p]) <= NS_QUEUE_SIZE
      <4>1. states'[c] = [p \in Watched(c) |-> WithEntry(c, p)]
        BY RoundEffect
      <4>2. \A p \in Watched(c) : states'[c][p] \in Seq(Sample) /\ Len(states'[c][p]) <= NS_QUEUE_SIZE
        BY RoundTable
      <4>3. \A p \in Watched(c) : WithEntry(c, p) \in Seq(Sample)
        BY <4>1, <4>2
      <4> QED
        BY <4>1, <4>2, <4>3
    <3>2. nb_states'[c] \in [Lists(c) -> Seq(Sample)]
          /\ \A q \in Lists(c) : Len(nb_states'[c][q]) <= NB_QUEUE_SIZE
      <4> DEFINE gone(q) == \E p \in Watched(c) : q = ListFor(c, p)
      <4>1. nb_states'[c] = [q \in Lists(c) |-> IF gone(q) THEN <<>> ELSE nb_states[c][q]]
        BY RoundEffect
      <4> HIDE DEF gone
      <4>2. <<>> \in Seq(Sample) /\ Len(<<>>) <= NB_QUEUE_SIZE
        BY Sizes
      <4>3. ASSUME NEW q \in Lists(c)
            PROVE  /\ (IF gone(q) THEN <<>> ELSE nb_states[c][q]) \in Seq(Sample)
                   /\ Len(nb_states'[c][q]) <= NB_QUEUE_SIZE
        <5>1. CASE gone(q)
          BY <4>1, <4>2, <5>1
        <5>2. CASE ~gone(q)
          BY <2>1, <2>3, <4>1, <5>2
        <5> QED
          BY <5>1, <5>2
      <4> QED
        BY <4>1, <4>3
    <3>3. last_idx'[c] \in [Watched(c) -> 0..MaxIdx]
      <4> DEFINE li(p) == IF Taken(c, p, ListFor(c, p)) = <<>> THEN last_idx[c][p]
                          ELSE Newest(nb_states[c][ListFor(c, p)]).num
      <4>1. last_idx'[c] = [p \in Watched(c) |-> li(p)]
        BY RoundEffect
      <4>2. ASSUME NEW p \in Watched(c) PROVE li(p) \in 0..MaxIdx
        <5>1. CASE Taken(c, p, ListFor(c, p)) = <<>>
          BY <2>1, <2>3, <5>1
        <5>2. CASE Taken(c, p, ListFor(c, p)) # <<>>
          <6>1. ListFor(c, p) \in Lists(c) /\ nb_states[c][ListFor(c, p)] # <<>>
            BY <5>2 DEF Taken
          <6>2. Newest(nb_states[c][ListFor(c, p)]) \in Sample
            BY <2>1, <2>3, <6>1, NewestFacts
          <6> QED
            BY <5>2, <6>2, Sizes
        <5> QED
          BY <5>1, <5>2
      <4> HIDE DEF li
      <4> QED
        BY <4>1, <4>2
    <3>4. nb_last_idx'[c] \in [Lists(c) -> 0..MaxIdx]
      BY <2>1, <2>3, RoundEffect
    <3> QED
      BY <2>3, <3>1, <3>2, <3>3, <3>4
  <2> QED
    BY <2>2, <2>3
<1>4. ASSUME NEW d \in Subnet
      PROVE  /\ states'[d] \in [NsPaths(d) \intersect watched' -> Seq(Sample)]
             /\ last_idx'[d] \in [NsPaths(d) \intersect watched' -> 0..MaxIdx]
             /\ nb_states'[d] \in [Lists(d)' -> Seq(Sample)]
             /\ nb_last_idx'[d] \in [Lists(d)' -> 0..MaxIdx]
             /\ \A p \in DOMAIN states'[d] : Len(states'[d][p]) <= NS_QUEUE_SIZE
             /\ \A q \in Lists(d)' : Len(nb_states'[d][q]) <= NB_QUEUE_SIZE
  <2>1. Watched(d) = NsPaths(d) \intersect watched' /\ Lists(d)' = Lists(d)
    BY <1>0, SameWatched DEF Watched
  <2>2. DOMAIN states'[d] = Watched(d)
    BY <1>3
  <2> QED
    BY <1>3, <2>1, <2>2
<1> QED
  BY <1>1, <1>2, <1>4 DEF TypeOK

\* With no slip after a round there was none before, and it was in step.
LEMMA RoundSlips ==
  ASSUME IInv, NEW c \in Subnet, Round(c), slips' = 0
  PROVE  slips = 0 /\ InStep(c)
<1>1. slips \in 0..MaxSlips
  BY DEF IInv, TypeOK
<1>2. slips' = IF InStep(c) THEN slips ELSE slips + 1
  BY RoundEffect
<1>3. CASE InStep(c)
  BY <1>2, <1>3
<1>4. CASE ~InStep(c)
  <2>1. slips' = slips + 1 /\ slips \in Nat
    BY <1>1, <1>2, <1>4, Sizes
  <2> QED
    BY <2>1
<1> QED
  BY <1>3, <1>4

\* No record becomes older.
LEMMA RoundNewer ==
  ASSUME IInv, NEW c \in Subnet, Round(c),
         NEW d \in Subnet, NEW p \in Watched(d), NEW k \in 1..Hops(p)
  PROVE  /\ At(d, p, k) <= At(d, p, k)'
         /\ d # c => At(d, p, k)' = At(d, p, k)
         /\ d = c => At(d, p, k)' = Entry(c, p).recs[k].at
<1>1. CASE d # c
  <2>1. states'[d] = states[d]
    BY <1>1, RoundEffect
  <2>2. At(d, p, k)' = At(d, p, k)
    BY <2>1 DEF At
  <2>3. At(d, p, k) \in Nat
    BY AtFacts DEF IInv
  <2> QED
    BY <1>1, <2>2, <2>3
<1>2. CASE d = c
  <2>1. states'[c][p] # <<>> /\ Newest(states'[c][p]) = Entry(c, p)
    BY <1>2, RoundTable
  <2>2. At(c, p, k)' = Entry(c, p).recs[k].at
    BY <2>1 DEF At, Newest
  <2>3. At(c, p, k) <= Entry(c, p).recs[k].at
    BY <1>2, RoundEffect, EntryRounds
  <2> QED
    BY <1>2, <2>2, <2>3
<1> QED
  BY <1>1, <1>2

\* The tables, over a round.
LEMMA RoundTables ==
  ASSUME IInv, NEW c \in Subnet, Round(c)
  PROVE  TableInv'
<1>0. TypeOK /\ TableInv /\ WatchedType /\ watched' = watched /\ idx[c] <= MaxIdx
  BY TypeFacts, RoundEffect DEF IInv
<1>1. ASSUME NEW d \in Subnet, NEW p \in Watched(d), d # c PROVE Kept(d, p)'
  <2>1. Kept(d, p)
    BY <1>0 DEF TableInv
  <2>2. states'[d] = states[d] /\ idx'[d] = idx[d]
    BY <1>1, RoundEffect
  <2>3. slips' = 0 => slips = 0
    BY RoundSlips
  <2> QED
    BY <2>1, <2>2, <2>3 DEF Kept, Newest, InOrder, Fresh
<1>2. ASSUME NEW p \in Watched(c) PROVE Kept(c, p)'
  <2> DEFINE t == states'[c][p]
             e == Entry(c, p)
  <2>1. /\ t \in Seq(Sample) /\ t # <<>> /\ Newest(t) = e /\ Numbered(t, idx[c])
        /\ \A j \in 1..Len(t) : t[j] = e \/ \E i \in 1..Len(states[c][p]) : t[j] = states[c][p][i]
    BY RoundTable
  <2>2. idx'[c] = idx[c] + 1 /\ idx[c] \in 1..MaxIdx + 1 /\ idx[c] \in Int /\ idx'[c] # 1
    <3>1. idx'[c] = idx[c] + 1 /\ idx[c] \in 1..MaxIdx + 1 /\ idx[c] \in Int
      BY <1>0, RoundEffect, TypeFacts
    <3> QED
      BY <3>1, Sizes
  <2>3. Kept(c, p)
    BY <1>0 DEF TableInv
  <2>4. e \in Sample /\ InOrder(p, e)
    BY <1>0, EntryInOrder
  <2>5. slips' = 0 => Fresh(c, p, e) /\ slips = 0
    BY <1>0, RoundSlips, EntryFresh
  <2>6. ASSUME p[1] = c PROVE e.recs[1].at = idx[c]
    <3>1. Own(c, p, 1) /\ 1 \in 1..Hops(p)
      BY <1>0, <2>6, SideFacts DEF Own
    <3> QED
      BY <1>0, <3>1, EntryRounds
  <2> HIDE DEF t, e
  <2>7. ASSUME NEW j \in 1..Len(t)
        PROVE  /\ t[j].num = idx'[c] - 1 - Len(t) + j
               /\ InOrder(p, t[j])
               /\ slips' = 0 => Fresh(c, p, t[j])
    <3>1. t[j].num = idx'[c] - 1 - Len(t) + j
      <4>1. t[j].num = idx[c] - Len(t) + j /\ Len(t) \in Nat /\ j \in Int
        BY <2>1 DEF Numbered
      <4> QED
        BY <2>2, <4>1
    <3>2. CASE t[j] = e
      BY <2>4, <2>5, <3>1, <3>2
    <3>3. CASE \E i \in 1..Len(states[c][p]) : t[j] = states[c][p][i]
      <4>1. InOrder(p, t[j]) /\ (slips = 0 => Fresh(c, p, t[j]))
        BY <2>3, <3>3 DEF Kept
      <4> QED
        BY <2>5, <3>1, <4>1
    <3> QED
      BY <2>1, <3>2, <3>3
  <2>8. p[1] = c => Newest(t).recs[1].at = idx'[c] - 1
    BY <2>1, <2>2, <2>6
  <2> QED
    BY <2>1, <2>2, <2>7, <2>8 DEF Kept, t, Newest, InOrder, Fresh
<1>3. ASSUME NEW d \in Subnet, NEW p \in Watched(d)' PROVE Kept(d, p)'
  <2>1. p \in Watched(d)
    BY <1>0, SameWatched
  <2> QED
    BY <1>1, <1>2, <2>1
<1> QED
  BY <1>3 DEF TableInv

\* AtFacts for all records at once, and in the next state.
AtTyped == \A d \in Subnet : \A r \in Watched(d) : \A i \in 1..Hops(r) : At(d, r, i) \in Nat

\* AtFacts without a context.
LEMMA AtAlways == TypeOK /\ TableInv => AtTyped
BY AtFacts DEF AtTyped

\* AtFacts in the next state.
LEMMA AtPrimed == TypeOK' /\ TableInv' => AtTyped'
BY AtAlways, PTL

\* AtFacts in the next state, for one record.
LEMMA AtNext ==
  ASSUME TypeOK', TableInv', NEW c \in Subnet, NEW p \in Watched(c)', NEW k \in 1..Hops(p)
  PROVE  At(c, p, k)' \in Nat
<1>1. AtTyped'
  BY AtPrimed
<1> QED
  BY <1>1 DEF AtTyped

\* The lists, over a round.
LEMMA RoundLists ==
  ASSUME IInv, NEW c \in Subnet, Round(c)
  PROVE  ListInv'
<1>0. TypeOK /\ TableInv /\ ListInv /\ WatchedType /\ watched' = watched
  BY TypeFacts, RoundEffect DEF IInv
<1>1. ASSUME NEW d \in Subnet, NEW n \in Neighbours(d), NEW q \in NbPaths(d, n) \intersect watched
      PROVE  Held(d, n, q)' /\ Heard(d, n, q)'
  <2>1. Held(d, n, q) /\ Heard(d, n, q)
    BY <1>0 DEF ListInv
  <2>2. /\ n \in Subnet /\ n # d /\ q \in Watched(n) /\ q \in Lists(d)
    BY NeighbourFacts, ListFacts
  <2>3. nb_states'[d][q] = <<>> \/ nb_states'[d][q] = nb_states[d][q]
    <3>1. CASE d # c
      BY <3>1, RoundEffect
    <3>2. CASE d = c
      <4> DEFINE gone(r) == \E p \in Watched(c) : r = ListFor(c, p)
      <4>1. nb_states'[c] = [r \in Lists(c) |-> IF gone(r) THEN <<>> ELSE nb_states[c][r]]
        BY RoundEffect
      <4> HIDE DEF gone
      <4> QED
        BY <2>2, <3>2, <4>1
    <3> QED
      BY <3>1, <3>2
  <2>4. nb_last_idx' = nb_last_idx /\ nb_last_idx[d][q] \in Int
    BY <1>0, <2>2, RoundEffect, TypeFacts
  <2>5. idx[n] \in Int /\ idx'[n] \in Int /\ idx'[n] >= idx[n]
    <3>1. idx[n] \in Int
      BY <1>0, <2>2, TypeFacts
    <3>2. idx'[n] = idx[n] \/ idx'[n] = idx[n] + 1
      BY <2>2, RoundEffect
    <3> QED
      BY <3>1, <3>2
  <2>6. ASSUME NEW k \in 1..Hops(q)
        PROVE  At(n, q, k) <= At(n, q, k)' /\ At(n, q, k) \in Nat
    BY <1>0, <2>2, RoundNewer, AtFacts
  <2>7. slips' = 0 => slips = 0
    BY RoundSlips
  <2>8. Held(d, n, q)'
    <3>1. nb_last_idx'[d][q] <= idx'[n] - 1
      <4>1. nb_last_idx[d][q] <= idx[n] - 1
        BY <2>1 DEF Held
      <4> QED
        BY <2>4, <2>5, <4>1
    <3>2. ASSUME nb_states'[d][q] # <<>>
          PROVE  LET e == Newest(nb_states'[d][q]) IN
                 /\ e.num = nb_last_idx'[d][q] /\ InOrder(q, e)
                 /\ \A k \in 1..Hops(q) : e.recs[k].at <= At(n, q, k)'
                 /\ slips' = 0 => Fresh(n, q, e)
      <4> DEFINE e == Newest(nb_states[d][q])
      <4>1. nb_states'[d][q] = nb_states[d][q] /\ nb_states[d][q] # <<>>
        BY <2>3, <3>2
      <4>2. /\ e.num = nb_last_idx[d][q] /\ InOrder(q, e) /\ (slips = 0 => Fresh(n, q, e))
            /\ \A k \in 1..Hops(q) : e.recs[k].at <= At(n, q, k)
        BY <2>1, <4>1 DEF Held
      <4>3. e \in Sample /\ q \in Path
        BY <1>0, <4>1, HeldFacts, ListFacts
      <4> HIDE DEF e
      <4>4. ASSUME NEW k \in 1..Hops(q) PROVE e.recs[k].at <= At(n, q, k)'
        <5>1. e.recs[k].at \in Int
          BY <4>2, <4>3, RecordFacts
        <5>2. At(n, q, k)' \in Nat
          <6>1. TypeOK' /\ TableInv'
            BY RoundType, RoundTables
          <6>2. q \in Watched(n)'
            BY <1>0, <2>2, SameWatched
          <6> QED
            BY <2>2, <6>1, <6>2, AtNext
        <5> QED
          BY <2>6, <4>2, <5>1, <5>2
      <4> QED
        BY <2>4, <2>7, <4>1, <4>2, <4>4 DEF e
    <3> QED
      BY <3>1, <3>2 DEF Held, Newest, InOrder, Fresh
  <2>9. Heard(d, n, q)'
    <3>1. CASE d = c
      BY <3>1, RoundEffect DEF Heard
    <3>2. CASE d # c
      <4>1. nb_states'[d] = nb_states[d] /\ polled'[d] = polled[d] /\ idx'[d] = idx[d]
        BY <3>2, RoundEffect
      <4> QED
        BY <2>1, <2>4, <2>7, <4>1 DEF Heard
    <3> QED
      BY <3>1, <3>2
  <2> QED
    BY <2>8, <2>9
<1>2. ASSUME NEW d \in Subnet, NEW n \in Neighbours(d), NEW q \in NbPaths(d, n) \intersect watched'
      PROVE  Held(d, n, q)' /\ Heard(d, n, q)'
  BY <1>0, <1>1
<1> QED
  BY <1>2 DEF ListInv

\* What has been used of the lists, over a round.
LEMMA RoundUsed ==
  ASSUME IInv, NEW c \in Subnet, Round(c)
  PROVE  UsedInv'
<1>0. TypeOK /\ TableInv /\ ListInv /\ UsedInv /\ watched' = watched /\ nb_last_idx' = nb_last_idx
  BY RoundEffect DEF IInv
<1>1. ASSUME NEW d \in Subnet, NEW p \in Watched(d), ListFor(d, p) \in Lists(d)
      PROVE  last_idx'[d][p] <= nb_last_idx'[d][ListFor(d, p)]
  <2> DEFINE q == ListFor(d, p)
  <2>1. last_idx[d][p] <= nb_last_idx[d][q]
    BY <1>0, <1>1 DEF UsedInv
  <2>2. CASE d # c
    BY <1>0, <2>1, <2>2, RoundEffect
  <2>3. CASE d = c
    <3> DEFINE li(r) == IF Taken(c, r, ListFor(c, r)) = <<>> THEN last_idx[c][r]
                        ELSE Newest(nb_states[c][ListFor(c, r)]).num
    <3>1. last_idx'[c] = [r \in Watched(c) |-> li(r)]
      BY RoundEffect
    <3> HIDE DEF li
    <3>2. last_idx'[c][p] = li(p)
      BY <2>3, <3>1
    <3>3. CASE Taken(c, p, q) = <<>>
      BY <1>0, <2>1, <2>3, <3>2, <3>3 DEF li
    <3>4. CASE Taken(c, p, q) # <<>>
      <4>1. nb_states[c][q] # <<>>
        BY <3>4 DEF Taken
      <4>2. PICK n \in Neighbours(c) : q \in NbPaths(c, n) \intersect watched
        BY <1>1, <2>3, ListOfNeighbour
      <4>3. Newest(nb_states[c][q]).num = nb_last_idx[c][q] /\ nb_last_idx[c][q] \in Nat
        BY <1>0, <4>1, <4>2, HeldFacts
      <4>4. li(p) = nb_last_idx[c][q]
        BY <2>3, <3>4, <4>3 DEF li
      <4> QED
        BY <1>0, <2>3, <3>2, <4>3, <4>4
    <3> QED
      BY <3>3, <3>4
  <2> QED
    BY <2>2, <2>3
<1>2. ASSUME NEW d \in Subnet, NEW p \in Watched(d)', ListFor(d, p) \in Lists(d)'
      PROVE  last_idx'[d][p] <= nb_last_idx'[d][ListFor(d, p)]
  <2>1. p \in Watched(d) /\ ListFor(d, p) \in Lists(d)
    BY <1>0, <1>2, SameWatched
  <2> QED
    BY <1>1, <2>1
<1> QED
  BY <1>2 DEF UsedInv

\* Records and where they come from, over a round: the lists of controller c
\* are used up, those of the others only have more to come.
LEMMA RoundBehind ==
  ASSUME IInv, NEW c \in Subnet, Round(c)
  PROVE  BehindInv'
<1>0. TypeOK /\ TableInv /\ ListInv /\ BehindInv /\ WatchedType /\ watched' = watched
      /\ idx[c] <= MaxIdx
  BY TypeFacts, RoundEffect DEF IInv
<1>1. ASSUME NEW d \in Subnet, NEW p \in Watched(d), NEW k \in 1..Hops(p), ~Own(d, p, k)
      PROVE  Behind(d, p, k)'
  <2> DEFINE q == Src(d, p, k)
             j == SrcPos(d, p, k)
             n == Side(d, p)
  <2>1. /\ q \in NbPaths(d, n) \intersect watched /\ j \in 1..Hops(q)
        /\ n \in Neighbours(d) /\ n \in Subnet /\ n # d /\ q \in Watched(n) /\ q \in Lists(d)
        /\ Via(d, p, k) \in Watched(d) /\ q = ListFor(d, Via(d, p, k))
    BY <1>0, <1>1, SourceFacts, SideFacts, NeighbourFacts, ListFacts
  <2>2. Behind(d, p, k)
    BY <1>0, <1>1 DEF BehindInv
  <2>3. /\ At(n, q, j) <= At(n, q, j)' /\ (n # c => At(n, q, j)' = At(n, q, j))
        /\ At(n, q, j) \in Nat /\ At(n, q, j)' \in Nat
    <3>1. TypeOK' /\ TableInv' /\ q \in Watched(n)'
      BY <1>0, <2>1, RoundType, RoundTables, SameWatched
    <3> QED
      BY <1>0, <2>1, <3>1, RoundNewer, AtFacts, AtNext
  <2>4. CASE d # c
    <3>1. At(d, p, k)' = At(d, p, k) /\ At(d, p, k) \in Nat /\ nb_states'[d] = nb_states[d]
      <4>1. At(d, p, k)' = At(d, p, k)
        BY <2>4, RoundNewer
      <4>2. At(d, p, k) \in Nat
        BY <1>0, AtFacts
      <4>3. nb_states'[d] = nb_states[d]
        BY <2>4, RoundEffect
      <4> QED
        BY <4>1, <4>2, <4>3
    <3>2. At(d, p, k)' <= At(n, q, j)'
      BY <2>2, <2>3, <3>1 DEF Behind
    <3> QED
      BY <2>2, <3>1, <3>2 DEF Behind, Newest
  <2>5. CASE d = c
    <3>1. At(d, p, k)' = Entry(c, p).recs[k].at /\ n # c
      BY <2>1, <2>5, RoundNewer
    <3>2. Entry(c, p).recs[k].at <= At(n, q, j)
      BY <1>0, <1>1, <2>5, EntryRounds
    <3>3. nb_states'[c][q] = <<>>
      <4> DEFINE gone(r) == \E s \in Watched(c) : r = ListFor(c, s)
      <4>1. nb_states'[c] = [r \in Lists(c) |-> IF gone(r) THEN <<>> ELSE nb_states[c][r]]
        BY RoundEffect
      <4>2. gone(q) /\ q \in Lists(c)
        BY <2>1, <2>5
      <4> HIDE DEF gone, q
      <4> QED
        BY <4>1, <4>2
    <3>4. At(d, p, k)' <= At(n, q, j)'
      BY <2>3, <3>1, <3>2
    <3> QED
      BY <2>5, <3>3, <3>4 DEF Behind
  <2> QED
    BY <2>4, <2>5
<1>2. ASSUME NEW d \in Subnet, NEW p \in Watched(d)', NEW k \in 1..Hops(p), ~Own(d, p, k)
      PROVE  Behind(d, p, k)'
  BY <1>0, <1>1, <1>2, SameWatched
<1> QED
  BY <1>2 DEF BehindInv

\* Who is ahead, over a round.
LEMMA RoundSteps ==
  ASSUME IInv, NEW c \in Subnet, Round(c)
  PROVE  StepInv'
<1>1. ASSUME slips' = 0, NEW d \in Subnet, NEW n \in Subnet
      PROVE  idx'[d] <= idx'[n] + 1
  <2>1. slips = 0 /\ InStep(c)
    BY <1>1, RoundSlips
  <2>2. /\ idx[d] \in Int /\ idx[n] \in Int /\ idx[c] \in Int /\ idx[d] <= idx[n] + 1
        /\ idx[c] <= idx[n]
    BY <2>1, TypeFacts DEF IInv, StepInv, InStep
  <2>3. /\ idx'[c] = idx[c] + 1
        /\ d # c => idx'[d] = idx[d]
        /\ n # c => idx'[n] = idx[n]
    BY RoundEffect
  <2> QED
    BY <2>2, <2>3
<1> QED
  BY <1>1 DEF StepInv
-----------------------------------------------------------------------------
(* A poll.                                                                 *)

\* The neighbour has an answer for q.
Got(c, n, q) == q \in NbPaths(c, n) \intersect watched /\ states[n][q] # <<>>

\* A list with an answer: its newest entry is the one of the neighbour, or one
\* of the same number that it had.
LEMMA MergedFacts ==
  ASSUME IInv, NEW c \in Subnet, NEW n \in Neighbours(c), NEW q, Got(c, n, q)
  PROVE  /\ Merged(c, n, q) \in Seq(Sample) /\ Merged(c, n, q) # <<>>
         /\ Len(Merged(c, n, q)) <= NB_QUEUE_SIZE
         /\ Newest(Merged(c, n, q)).num = idx[n] - 1
         /\ \/ Newest(Merged(c, n, q)) = Newest(states[n][q])
            \/ nb_states[c][q] # <<>> /\ Newest(Merged(c, n, q)) = Newest(nb_states[c][q])
<1> DEFINE kept == states[n][q]
           old  == nb_states[c][q]
           i    == nb_last_idx[c][q]
           new  == Reply(kept, i)
           m    == idx[n] - 1
<1>1. /\ TypeOK /\ TableInv /\ ListInv /\ n \in Subnet /\ q \in Watched(n)
      /\ q \in NbPaths(c, n) \intersect watched /\ kept # <<>>
  BY NeighbourFacts, ListFacts DEF IInv, Got
<1>2. kept \in Seq(Sample) /\ Numbered(kept, m) /\ m \in Int
  BY <1>1, TableFacts, TypeFacts
<1>3. /\ old \in Seq(Sample) /\ i \in Int /\ i <= m
      /\ old # <<>> => Newest(old).num = i
  BY <1>1, HeldFacts
<1>4. /\ new \in Seq(Sample) /\ new # <<>> /\ Newest(new) = Newest(kept) /\ Numbered(new, m)
  BY <1>1, <1>2, <1>3, ReplyFacts
<1> HIDE DEF new
<1>5. old = <<>> \/ Newest(old).num <= m
  BY <1>3
<1>6. Merged(c, n, q) = Combined(old, new)
  BY DEF Merged, new
<1> HIDE DEF old, m, kept
<1>7. /\ Combined(old, new) \in Seq(Sample) /\ Combined(old, new) # <<>>
      /\ Len(Combined(old, new)) <= NB_QUEUE_SIZE
      /\ Newest(Combined(old, new)).num = m
      /\ \/ Newest(Combined(old, new)) = Newest(new)
         \/ old # <<>> /\ Newest(Combined(old, new)) = Newest(old)
  BY <1>2, <1>3, <1>4, <1>5, CombinedFacts
<1> QED
  BY <1>4, <1>6, <1>7 DEF old, m, kept

\* What a poll changes, and what it leaves.
LEMMA PollEffect ==
  ASSUME IInv, NEW c \in Subnet, NEW n \in Neighbours(c), Poll(c, n)
  PROVE  /\ watched' = watched /\ idx' = idx /\ states' = states /\ last_idx' = last_idx
         /\ slips' = slips
         /\ polled' \in [Subnet -> SUBSET Subnet] /\ polled'[c] = polled[c] \union {n}
         /\ DOMAIN nb_states' = Subnet /\ DOMAIN nb_last_idx' = Subnet
         /\ nb_states'[c] = [q \in Lists(c) |->
               IF Got(c, n, q) THEN Merged(c, n, q) ELSE nb_states[c][q]]
         /\ nb_last_idx'[c] = [q \in Lists(c) |->
               IF Got(c, n, q) THEN Newest(Merged(c, n, q)).num ELSE nb_last_idx[c][q]]
         /\ \A d \in Subnet : d # c =>
               /\ polled'[d] = polled[d] /\ nb_states'[d] = nb_states[d]
               /\ nb_last_idx'[d] = nb_last_idx[d]
<1> DEFINE asked == NbPaths(c, n) \intersect watched
           got   == {q \in asked : q \in NsPaths(n) /\ states[n][q] # <<>>}
<1>1. /\ DOMAIN nb_states = Subnet /\ DOMAIN nb_last_idx = Subnet
      /\ DOMAIN nb_states[c] = Lists(c) /\ DOMAIN nb_last_idx[c] = Lists(c)
      /\ polled \in [Subnet -> SUBSET Subnet] /\ n \in Subnet
  BY TypeFacts, NeighbourFacts DEF IInv, TypeOK
<1>2. ASSUME NEW q PROVE q \in got <=> Got(c, n, q)
  <2>1. q \in asked => q \in NsPaths(n)
    BY ListFacts DEF Watched
  <2> QED
    BY <2>1 DEF Got
<1>3. /\ watched' = watched /\ idx' = idx /\ states' = states /\ last_idx' = last_idx
      /\ slips' = slips
      /\ polled' = [polled EXCEPT ![c] = polled[c] \union {n}]
  BY DEF Poll
<1>4. nb_states' = [nb_states EXCEPT ![c] = [q \in DOMAIN nb_states[c] |->
               IF q \in got THEN Merged(c, n, q) ELSE nb_states[c][q]]]
  BY DEF Poll
<1>5. nb_last_idx' = [nb_last_idx EXCEPT ![c] = [q \in DOMAIN nb_last_idx[c] |->
               IF q \in got THEN Newest(Merged(c, n, q)).num ELSE nb_last_idx[c][q]]]
  BY DEF Poll
<1> HIDE DEF got
<1>6. /\ DOMAIN nb_states' = Subnet
      /\ nb_states'[c] = [q \in Lists(c) |->
               IF q \in got THEN Merged(c, n, q) ELSE nb_states[c][q]]
      /\ \A d \in Subnet : d # c => nb_states'[d] = nb_states[d]
  BY <1>1, <1>4
<1>7. /\ DOMAIN nb_last_idx' = Subnet
      /\ nb_last_idx'[c] = [q \in Lists(c) |->
               IF q \in got THEN Newest(Merged(c, n, q)).num ELSE nb_last_idx[c][q]]
      /\ \A d \in Subnet : d # c => nb_last_idx'[d] = nb_last_idx[d]
  BY <1>1, <1>5
<1>8. /\ [q \in Lists(c) |-> IF q \in got THEN Merged(c, n, q) ELSE nb_states[c][q]]
         = [q \in Lists(c) |-> IF Got(c, n, q) THEN Merged(c, n, q) ELSE nb_states[c][q]]
      /\ [q \in Lists(c) |-> IF q \in got THEN Newest(Merged(c, n, q)).num ELSE nb_last_idx[c][q]]
         = [q \in Lists(c) |-> IF Got(c, n, q) THEN Newest(Merged(c, n, q)).num
                                                ELSE nb_last_idx[c][q]]
  BY <1>2
<1>9. /\ polled' \in [Subnet -> SUBSET Subnet] /\ polled'[c] = polled[c] \union {n}
      /\ \A d \in Subnet : d # c => polled'[d] = polled[d]
  BY <1>1, <1>3
<1> QED
  BY <1>3, <1>6, <1>7, <1>8, <1>9

\* One list after a poll: an answer put to it, or as it was.
LEMMA PollList ==
  ASSUME IInv, NEW c \in Subnet, NEW n \in Neighbours(c), Poll(c, n),
         NEW d \in Subnet, NEW m \in Neighbours(d), NEW q \in NbPaths(d, m) \intersect watched
  PROVE  /\ d = c /\ m = n /\ states[m][q] # <<>> =>
               /\ nb_states'[d][q] = Merged(d, m, q)
               /\ nb_last_idx'[d][q] = idx[m] - 1
               /\ Newest(nb_states'[d][q]).num = idx[m] - 1
               /\ nb_states'[d][q] # <<>>
               /\ \/ Newest(nb_states'[d][q]) = Newest(states[m][q])
                  \/ nb_states[d][q] # <<>> /\ Newest(nb_states'[d][q]) = Newest(nb_states[d][q])
         /\ ~(d = c /\ m = n /\ states[m][q] # <<>>) =>
               /\ nb_states'[d][q] = nb_states[d][q]
               /\ nb_last_idx'[d][q] = nb_last_idx[d][q]
<1>1. q \in Lists(d)
  BY ListFacts
<1>2. CASE d # c
  BY <1>2, PollEffect
<1>3. CASE d = c
  <2>1. /\ nb_states'[c] = [r \in Lists(c) |->
               IF Got(c, n, r) THEN Merged(c, n, r) ELSE nb_states[c][r]]
        /\ nb_last_idx'[c] = [r \in Lists(c) |->
               IF Got(c, n, r) THEN Newest(Merged(c, n, r)).num ELSE nb_last_idx[c][r]]
    BY PollEffect
  <2>2. /\ nb_states'[c][q] = IF Got(c, n, q) THEN Merged(c, n, q) ELSE nb_states[c][q]
        /\ nb_last_idx'[c][q] = IF Got(c, n, q) THEN Newest(Merged(c, n, q)).num
                                                ELSE nb_last_idx[c][q]
    BY <1>1, <1>3, <2>1
  <2>3. Got(c, n, q) <=> m = n /\ states[m][q] # <<>>
    BY <1>3, ListsApart DEF Got
  <2>4. CASE Got(c, n, q)
    BY <1>3, <2>2, <2>3, <2>4, MergedFacts
  <2>5. CASE ~Got(c, n, q)
    BY <1>3, <2>2, <2>3, <2>5
  <2> QED
    BY <2>4, <2>5
<1> QED
  BY <1>2, <1>3

\* The type invariant, over a poll.
LEMMA PollType ==
  ASSUME IInv, NEW c \in Subnet, NEW n \in Neighbours(c), Poll(c, n)
  PROVE  TypeOK'
<1>0. /\ TypeOK /\ WatchedType /\ watched' = watched /\ states' = states
      /\ last_idx' = last_idx /\ idx' = idx /\ slips' = slips
  BY TypeFacts, PollEffect DEF IInv
<1>1. /\ DOMAIN nb_states' = Subnet /\ DOMAIN nb_last_idx' = Subnet
      /\ polled' \in [Subnet -> SUBSET Subnet]
  BY PollEffect
<1>2. ASSUME NEW d \in Subnet
      PROVE  /\ nb_states'[d] \in [Lists(d) -> Seq(Sample)]
             /\ nb_last_idx'[d] \in [Lists(d) -> 0..MaxIdx]
             /\ \A q \in Lists(d) : Len(nb_states'[d][q]) <= NB_QUEUE_SIZE
  <2>1. /\ nb_states[d] \in [Lists(d) -> Seq(Sample)]
        /\ nb_last_idx[d] \in [Lists(d) -> 0..MaxIdx]
        /\ \A q \in Lists(d) : Len(nb_states[d][q]) <= NB_QUEUE_SIZE
    BY <1>0 DEF TypeOK
  <2>2. CASE d # c
    BY <2>1, <2>2, PollEffect
  <2>3. CASE d = c
    <3>1. /\ nb_states'[c] = [q \in Lists(c) |->
                 IF Got(c, n, q) THEN Merged(c, n, q) ELSE nb_states[c][q]]
          /\ nb_last_idx'[c] = [q \in Lists(c) |->
                 IF Got(c, n, q) THEN Newest(Merged(c, n, q)).num ELSE nb_last_idx[c][q]]
      BY PollEffect
    <3>2. ASSUME NEW q \in Lists(c), Got(c, n, q)
          PROVE  /\ Merged(c, n, q) \in Seq(Sample) /\ Len(Merged(c, n, q)) <= NB_QUEUE_SIZE
                 /\ Newest(Merged(c, n, q)).num \in 0..MaxIdx
      <4>1. /\ Merged(c, n, q) \in Seq(Sample) /\ Len(Merged(c, n, q)) <= NB_QUEUE_SIZE
            /\ Merged(c, n, q) # <<>>
        BY <3>2, MergedFacts
      <4>2. Newest(Merged(c, n, q)) \in Sample
        BY <4>1, NewestFacts
      <4> QED
        BY <4>1, <4>2, Sizes
    <3>3. ASSUME NEW q \in Lists(c)
          PROVE  /\ (IF Got(c, n, q) THEN Merged(c, n, q) ELSE nb_states[c][q]) \in Seq(Sample)
                 /\ Len(IF Got(c, n, q) THEN Merged(c, n, q) ELSE nb_states[c][q]) <= NB_QUEUE_SIZE
                 /\ (IF Got(c, n, q) THEN Newest(Merged(c, n, q)).num ELSE nb_last_idx[c][q])
                       \in 0..MaxIdx
      <4>1. CASE Got(c, n, q)
        BY <3>2, <4>1
      <4>2. CASE ~Got(c, n, q)
        BY <2>1, <2>3, <4>2
      <4> QED
        BY <4>1, <4>2
    <3> QED
      BY <2>3, <3>1, <3>3
  <2> QED
    BY <2>2, <2>3
<1>3. \A d : Lists(d)' = Lists(d)
  BY <1>0, SameWatched
<1> QED
  BY <1>0, <1>1, <1>2, <1>3 DEF TypeOK

\* The lists, over a poll.
LEMMA PollLists ==
  ASSUME IInv, NEW c \in Subnet, NEW n \in Neighbours(c), Poll(c, n)
  PROVE  ListInv'
<1>0. /\ TypeOK /\ TableInv /\ ListInv /\ WatchedType /\ StepInv
      /\ watched' = watched /\ states' = states /\ idx' = idx /\ slips' = slips
  BY TypeFacts, PollEffect DEF IInv
<1>1. ASSUME NEW d \in Subnet, NEW m \in Neighbours(d), NEW q \in NbPaths(d, m) \intersect watched
      PROVE  Held(d, m, q)' /\ Heard(d, m, q)'
  <2>1. Held(d, m, q) /\ Heard(d, m, q)
    BY <1>0 DEF ListInv
  <2>2. m \in Subnet /\ m # d /\ q \in Watched(m) /\ q \in Lists(d)
    BY NeighbourFacts, ListFacts
  <2>3. /\ idx[m] \in Int /\ idx[d] \in Int /\ nb_last_idx[d][q] \in Nat
        /\ (states[m][q] = <<>> <=> idx[m] = 1)
        /\ slips = 0 => idx[d] <= idx[m] + 1
    BY <1>0, <2>2, TypeFacts, HeldFacts, TableFacts DEF StepInv
  <2>4. \A k : At(m, q, k)' = At(m, q, k)
    BY <1>0 DEF At
  <2>5. CASE d = c /\ m = n /\ states[m][q] # <<>>
    <3> DEFINE e == Newest(nb_states'[d][q])
    <3>1. /\ nb_last_idx'[d][q] = idx[m] - 1 /\ e.num = idx[m] - 1 /\ nb_states'[d][q] # <<>>
          /\ \/ e = Newest(states[m][q])
             \/ nb_states[d][q] # <<>> /\ e = Newest(nb_states[d][q])
      BY <2>5, PollList
    <3> HIDE DEF e
    <3>2. /\ InOrder(q, e) /\ (slips = 0 => Fresh(m, q, e))
          /\ \A k \in 1..Hops(q) : e.recs[k].at <= At(m, q, k)
      <4>1. CASE e = Newest(states[m][q])
        <5>1. InOrder(q, e) /\ (slips = 0 => Fresh(m, q, e))
          BY <1>0, <2>2, <2>5, <4>1, TableFacts
        <5>2. ASSUME NEW k \in 1..Hops(q) PROVE e.recs[k].at <= At(m, q, k)
          <6>1. At(m, q, k) = e.recs[k].at
            BY <2>5, <4>1 DEF At
          <6>2. At(m, q, k) \in Nat
            BY <1>0, <2>2, AtFacts
          <6> QED
            BY <6>1, <6>2
        <5> QED
          BY <5>1, <5>2
      <4>2. CASE nb_states[d][q] # <<>> /\ e = Newest(nb_states[d][q])
        BY <2>1, <4>2 DEF Held
      <4> QED
        BY <3>1, <4>1, <4>2
    <3>3. Held(d, m, q)'
      <4>1. nb_last_idx'[d][q] <= idx'[m] - 1
        BY <1>0, <2>3, <3>1
      <4>2. Newest(nb_states[d][q])' = e /\ e.num = nb_last_idx'[d][q]
        BY <3>1 DEF e, Newest
      <4>3. \A k \in 1..Hops(q) : e.recs[k].at <= At(m, q, k)'
        BY <2>4, <3>2
      <4>4. InOrder(q, Newest(nb_states[d][q]))'
        BY <3>2, <4>2, Zenon DEF InOrder
      <4>5. slips' = 0 => Fresh(m, q, Newest(nb_states[d][q]))'
        BY <1>0, <3>2, <4>2, Zenon DEF Fresh
      <4> QED
        BY <4>1, <4>2, <4>3, <4>4, <4>5, Zenon DEF Held
    <3>4. Heard(d, m, q)'
      BY <1>0, <2>3, <3>1 DEF Heard
    <3> QED
      BY <3>3, <3>4
  <2>6. CASE ~(d = c /\ m = n /\ states[m][q] # <<>>)
    <3>1. nb_states'[d][q] = nb_states[d][q] /\ nb_last_idx'[d][q] = nb_last_idx[d][q]
      BY <2>6, PollList
    <3>2. Held(d, m, q)'
      BY <1>0, <2>1, <2>4, <3>1 DEF Held, Newest, InOrder, Fresh
    <3>3. Heard(d, m, q)'
      <4>1. CASE d = c /\ m = n
        <5>1. idx[m] = 1
          BY <2>3, <2>6, <4>1
        <5> QED
          BY <1>0, <2>3, <3>1, <5>1 DEF Heard
      <4>2. CASE ~(d = c /\ m = n)
        <5>1. m \in polled'[d] => m \in polled[d]
          <6>1. d = c => polled'[d] = polled[d] \union {n} /\ m # n
            BY <4>2, PollEffect, Zenon
          <6>2. d # c => polled'[d] = polled[d]
            BY PollEffect, Zenon
          <6> QED
            BY <6>1, <6>2, Zenon
        <5> QED
          BY <1>0, <2>1, <3>1, <5>1 DEF Heard
      <4> QED
        BY <4>1, <4>2
    <3> QED
      BY <3>2, <3>3
  <2> QED
    BY <2>5, <2>6
<1>2. ASSUME NEW d \in Subnet, NEW m \in Neighbours(d), NEW q \in NbPaths(d, m) \intersect watched'
      PROVE  Held(d, m, q)' /\ Heard(d, m, q)'
  BY <1>0, <1>1
<1> QED
  BY <1>2 DEF ListInv

\* The rest of the invariant, over a poll: a list only gets newer.
LEMMA PollRest ==
  ASSUME IInv, NEW c \in Subnet, NEW n \in Neighbours(c), Poll(c, n)
  PROVE  TableInv' /\ UsedInv' /\ BehindInv' /\ StepInv'
<1>0. /\ TypeOK /\ TableInv /\ ListInv /\ UsedInv /\ BehindInv /\ StepInv /\ WatchedType
      /\ watched' = watched /\ states' = states /\ idx' = idx /\ slips' = slips
      /\ last_idx' = last_idx
  BY TypeFacts, PollEffect DEF IInv
<1>1. (\A d : Watched(d)' = Watched(d)) /\ (\A d : Lists(d)' = Lists(d))
  BY <1>0, SameWatched
<1>2. TableInv'
  <2>1. ASSUME NEW d \in Subnet, NEW p \in Watched(d) PROVE Kept(d, p)'
    <3>1. Kept(d, p)
      BY <1>0 DEF TableInv
    <3> QED
      BY <1>0, <3>1 DEF Kept, Newest, InOrder, Fresh
  <2> QED
    BY <1>1, <2>1 DEF TableInv
<1>3. StepInv'
  BY <1>0 DEF StepInv
<1>4. UsedInv'
  <2>1. ASSUME NEW d \in Subnet, NEW p \in Watched(d), ListFor(d, p) \in Lists(d)
        PROVE  last_idx'[d][p] <= nb_last_idx'[d][ListFor(d, p)]
    <3> DEFINE q == ListFor(d, p)
    <3>1. PICK m \in Neighbours(d) : q \in NbPaths(d, m) \intersect watched
      BY <2>1, ListOfNeighbour
    <3>2. last_idx[d][p] <= nb_last_idx[d][q] /\ last_idx[d][p] \in Int
      BY <1>0, <2>1, TypeFacts DEF UsedInv
    <3>3. nb_last_idx[d][q] <= idx[m] - 1 /\ nb_last_idx[d][q] \in Nat /\ idx[m] \in Int
      BY <1>0, <3>1, HeldFacts, TypeFacts, NeighbourFacts
    <3>4. nb_last_idx'[d][q] = idx[m] - 1 \/ nb_last_idx'[d][q] = nb_last_idx[d][q]
      BY <3>1, PollList
    <3> HIDE DEF q
    <3>5. last_idx[d][p] <= nb_last_idx'[d][q]
      BY <3>2, <3>3, <3>4
    <3> QED
      BY <1>0, <3>5 DEF q
  <2> QED
    BY <1>1, <2>1 DEF UsedInv
<1>5. BehindInv'
  <2>1. ASSUME NEW d \in Subnet, NEW p \in Watched(d), NEW k \in 1..Hops(p), ~Own(d, p, k)
        PROVE  Behind(d, p, k)'
    <3> DEFINE q == Src(d, p, k)
               j == SrcPos(d, p, k)
               m == Side(d, p)
    <3>1. /\ q \in NbPaths(d, m) \intersect watched /\ m \in Neighbours(d) /\ j \in 1..Hops(q)
      BY <1>0, <2>1, SourceFacts, SideFacts
    <3>2. Behind(d, p, k)
      BY <1>0, <2>1 DEF BehindInv
    <3>3. /\ At(d, p, k)' = At(d, p, k) /\ At(m, q, j)' = At(m, q, j)
      BY <1>0 DEF At
    <3>4. nb_states'[d][q] # <<>> => At(d, p, k) <= Newest(nb_states'[d][q]).recs[j].at
      <4>1. CASE d = c /\ m = n /\ states[m][q] # <<>>
        <5>1. \/ Newest(nb_states'[d][q]) = Newest(states[m][q])
              \/ nb_states[d][q] # <<>> /\ Newest(nb_states'[d][q]) = Newest(nb_states[d][q])
          BY <3>1, <4>1, PollList
        <5>2. At(m, q, j) = Newest(states[m][q]).recs[j].at
          BY <4>1 DEF At
        <5> QED
          BY <3>2, <5>1, <5>2 DEF Behind
      <4>2. CASE ~(d = c /\ m = n /\ states[m][q] # <<>>)
        <5>1. nb_states'[d][q] = nb_states[d][q]
          BY <3>1, <4>2, PollList
        <5> QED
          BY <3>2, <5>1 DEF Behind
      <4> QED
        BY <4>1, <4>2
    <3>5. At(d, p, k)' <= At(m, q, j)'
      BY <3>2, <3>3 DEF Behind
    <3> QED
      BY <3>3, <3>4, <3>5 DEF Behind, Newest
  <2> QED
    BY <1>1, <2>1 DEF BehindInv
<1> QED
  BY <1>2, <1>3, <1>4, <1>5
-----------------------------------------------------------------------------
(* The invariant and what follows from it.                                 *)

\* It holds when the controllers start: every table and list is empty.
LEMMA InitInv == Init => IInv
<1> SUFFICES ASSUME Init PROVE IInv
  OBVIOUS
<1>1. /\ WatchedType /\ idx = [c \in Subnet |-> 1]
      /\ DOMAIN states = Subnet /\ DOMAIN last_idx = Subnet
      /\ DOMAIN nb_states = Subnet /\ DOMAIN nb_last_idx = Subnet
      /\ polled = [c \in Subnet |-> {}] /\ slips = 0
  BY DEF Init, WatchedType
<1>2. \A c \in Subnet : /\ states[c] = [p \in Watched(c) |-> <<>>]
                        /\ last_idx[c] = [p \in Watched(c) |-> 0]
                        /\ nb_states[c] = [q \in Lists(c) |-> <<>>]
                        /\ nb_last_idx[c] = [q \in Lists(c) |-> 0]
                        /\ idx[c] = 1
  BY DEF Init, Watched
<1>3. <<>> \in Seq(Sample) /\ Len(<<>>) = 0 /\ 0 \in 0..MaxIdx /\ 1 \in 1..MaxIdx + 1
      /\ 0 \in 0..MaxSlips /\ 0 <= NS_QUEUE_SIZE /\ 0 <= NB_QUEUE_SIZE
  BY Sizes
<1>4. TypeOK
  <2>1. ASSUME NEW c \in Subnet
        PROVE  /\ states[c] \in [NsPaths(c) \intersect watched -> Seq(Sample)]
               /\ last_idx[c] \in [NsPaths(c) \intersect watched -> 0..MaxIdx]
               /\ nb_states[c] \in [Lists(c) -> Seq(Sample)]
               /\ nb_last_idx[c] \in [Lists(c) -> 0..MaxIdx]
               /\ \A p \in DOMAIN states[c] : Len(states[c][p]) <= NS_QUEUE_SIZE
               /\ \A q \in Lists(c) : Len(nb_states[c][q]) <= NB_QUEUE_SIZE
    BY <1>2, <1>3, ZenonT(30) DEF Watched
  <2>2. /\ idx \in [Subnet -> 1..MaxIdx + 1] /\ polled \in [Subnet -> SUBSET Subnet]
        /\ slips \in 0..MaxSlips /\ watched \in {Upward, Path \ Upward}
    BY <1>1, <1>3 DEF WatchedType
  <2> QED
    BY <1>1, <2>1, <2>2 DEF TypeOK
<1>5. \A c \in Subnet : \A p \in Watched(c) : states[c][p] = <<>> /\ last_idx[c][p] = 0
  BY <1>2, ZenonT(30)
<1>6. \A c \in Subnet : \A q \in Lists(c) : nb_states[c][q] = <<>> /\ nb_last_idx[c][q] = 0
  BY <1>2, ZenonT(30)
<1>7. TableInv
  <2>1. ASSUME NEW c \in Subnet, NEW p \in Watched(c) PROVE Kept(c, p)
    <3>1. states[c][p] = <<>> /\ idx[c] = 1
      BY <1>1, <1>5
    <3>2. \A j \in 1..Len(states[c][p]) : FALSE
      BY <3>1
    <3> QED
      BY <3>1, <3>2 DEF Kept
  <2> QED
    BY <2>1 DEF TableInv
<1>8. ListInv
  <2>1. ASSUME NEW c \in Subnet, NEW n \in Neighbours(c), NEW q \in NbPaths(c, n) \intersect watched
        PROVE  Held(c, n, q) /\ Heard(c, n, q)
    <3>1. nb_states[c][q] = <<>> /\ nb_last_idx[c][q] = 0 /\ idx[n] = 1 /\ idx[c] = 1
      BY <1>2, <1>6, ListFacts, NeighbourFacts
    <3> QED
      BY <3>1 DEF Held, Heard
  <2> QED
    BY <2>1 DEF ListInv
<1>9. UsedInv
  BY <1>5, <1>6 DEF UsedInv
<1>10. BehindInv
  <2>1. ASSUME NEW c \in Subnet, NEW p \in Watched(c), NEW k \in 1..Hops(p), ~Own(c, p, k)
        PROVE  Behind(c, p, k)
    <3> DEFINE q == Src(c, p, k)
               n == Side(c, p)
    <3>1. /\ q \in NbPaths(c, n) \intersect watched /\ n \in Neighbours(c)
      BY <1>1, <2>1, SourceFacts, SideFacts
    <3>2. nb_states[c][q] = <<>> /\ states[c][p] = <<>> /\ states[n][q] = <<>>
      BY <1>5, <1>6, <3>1, ListFacts, NeighbourFacts
    <3> QED
      BY <3>2 DEF Behind, At
  <2> QED
    BY <2>1 DEF BehindInv
<1>11. StepInv
  <2>1. \A c \in Subnet : idx[c] = 1
    BY <1>1
  <2> QED
    BY <2>1 DEF StepInv
<1> QED
  BY <1>4, <1>7, <1>8, <1>9, <1>10, <1>11 DEF IInv

\* Nothing in it depends on a variable that has not changed.
LEMMA StutterInv == IInv /\ UNCHANGED vars => IInv'
<1> SUFFICES ASSUME IInv, UNCHANGED vars PROVE IInv'
  OBVIOUS
<1>1. /\ watched' = watched /\ idx' = idx /\ states' = states /\ last_idx' = last_idx
      /\ nb_states' = nb_states /\ nb_last_idx' = nb_last_idx /\ polled' = polled
      /\ slips' = slips
  BY DEF vars
<1>2. (\A d : Watched(d)' = Watched(d)) /\ (\A d : Lists(d)' = Lists(d))
  BY <1>1, SameWatched
<1>3. TypeOK'
  BY <1>1, <1>2 DEF IInv, TypeOK
<1>4. TableInv'
  <2>1. ASSUME NEW d \in Subnet, NEW p \in Watched(d) PROVE Kept(d, p)'
    <3>1. Kept(d, p)
      BY DEF IInv, TableInv
    <3> QED
      BY <1>1, <3>1 DEF Kept, Newest, InOrder, Fresh
  <2> QED
    BY <1>2, <2>1 DEF TableInv
<1>5. ListInv'
  <2>1. ASSUME NEW d \in Subnet, NEW m \in Neighbours(d), NEW q \in NbPaths(d, m) \intersect watched
        PROVE  Held(d, m, q)' /\ Heard(d, m, q)'
    <3>1. Held(d, m, q) /\ Heard(d, m, q)
      BY DEF IInv, ListInv
    <3> QED
      BY <1>1, <3>1 DEF Held, Heard, Newest, InOrder, Fresh, At
  <2> QED
    BY <1>1, <2>1 DEF ListInv
<1>6. UsedInv'
  BY <1>1, <1>2 DEF IInv, UsedInv
<1>7. BehindInv'
  <2>1. ASSUME NEW d \in Subnet, NEW p \in Watched(d), NEW k \in 1..Hops(p), ~Own(d, p, k)
        PROVE  Behind(d, p, k)'
    <3>1. Behind(d, p, k)
      BY <2>1 DEF IInv, BehindInv
    <3> QED
      BY <1>1, <3>1 DEF Behind, At, Newest
  <2> QED
    BY <1>2, <2>1 DEF BehindInv
<1>8. StepInv'
  BY <1>1 DEF IInv, StepInv
<1> QED
  BY <1>3, <1>4, <1>5, <1>6, <1>7, <1>8 DEF IInv

\* Each action keeps it.
LEMMA StepInvariant == IInv /\ [Next]_vars => IInv'
<1> SUFFICES ASSUME IInv, [Next]_vars PROVE IInv'
  OBVIOUS
<1>1. ASSUME NEW c \in Subnet, Round(c) PROVE IInv'
  BY <1>1, RoundType, RoundTables, RoundLists, RoundUsed, RoundBehind, RoundSteps DEF IInv
<1>2. ASSUME NEW c \in Subnet, NEW n \in Neighbours(c), Poll(c, n) PROVE IInv'
  BY <1>2, PollType, PollLists, PollRest DEF IInv
<1> QED
  BY <1>1, <1>2, StutterInv DEF Next

\* The inductive invariant: the tables are numbered by the rounds, what is held
\* of a neighbour is no newer than what the neighbour has, and what has been
\* used of it no newer than what is held, hop by hop.
THEOREM Invariance == Spec => []IInv
BY InitInv, StepInvariant, PTL DEF Spec

\* Type correctness, with the bounds of all tables and lists.
THEOREM TypeCorrect == Spec => []TypeOK
<1>1. IInv => TypeOK
  BY DEF IInv
<1> QED
  BY <1>1, Invariance, PTL

\* For any number of subnets the k-th record of an entry is about the k-th hop of
\* its path or still empty (combine_entries and its offsets, ListFor, NbPaths).
THEOREM InHopOrder == Spec => []HopOrder
<1>1. IInv => HopOrder
  <2> SUFFICES ASSUME IInv, NEW c \in Subnet, NEW p \in DOMAIN states[c], NEW e \in Entries(c, p)
               PROVE  /\ Len(e.recs) = Hops(p)
                      /\ \A k \in 1..Hops(p) : e.recs[k] = NoRecord \/ e.recs[k].link = Hop(p, k)
    BY DEF HopOrder
  <2>1. p \in Watched(c) /\ states[c][p] \in Seq(Sample) /\ Kept(c, p)
    BY TypeFacts DEF IInv, TableInv
  <2>2. PICK j \in 1..Len(states[c][p]) : e = states[c][p][j]
    BY <2>1 DEF Entries
  <2> QED
    BY <2>1, <2>2 DEF Kept, InOrder
<1> QED
  BY <1>1, Invariance, PTL

\* With all controllers in step a record is at most two rounds old per
\* controller it came over, however long the chain is.
THEOREM FreshInStep == Spec => []FreshEnough
<1>1. IInv => FreshEnough
  <2> SUFFICES ASSUME IInv, slips = 0, NEW c \in Subnet, NEW p \in DOMAIN states[c],
                      NEW e \in Entries(c, p), NEW k \in 1..Hops(p)
               PROVE  e.recs[k].at >= e.num - 2 * Away(c, p, k)
    BY DEF FreshEnough, Away
  <2>1. p \in Watched(c) /\ states[c][p] \in Seq(Sample) /\ Kept(c, p)
    BY TypeFacts DEF IInv, TableInv
  <2>2. PICK j \in 1..Len(states[c][p]) : e = states[c][p][j]
    BY <2>1 DEF Entries
  <2> QED
    BY <2>1, <2>2 DEF Kept, Fresh
<1> QED
  BY <1>1, Invariance, PTL

\* What a controller says of a hop never gets older and is never lost: the lists
\* are taken whole, and what is missing is copied from the last entry.
THEOREM NeverOlderHolds == Spec => NeverOlder
<1> DEFINE Newer == \A c \in Subnet : \A p \in DOMAIN states[c] :
           states[c][p] # <<>> =>
               \A k \in 1..Hops(p) :
                   Newest(states'[c][p]).recs[k].at >= Newest(states[c][p]).recs[k].at
<1>1. IInv /\ [Next]_vars => [Newer]_vars
  <2> SUFFICES ASSUME IInv, Next, NEW c \in Subnet, NEW p \in DOMAIN states[c],
                      states[c][p] # <<>>, NEW k \in 1..Hops(p)
               PROVE  Newest(states'[c][p]).recs[k].at >= Newest(states[c][p]).recs[k].at
    BY Zenon
  <2>1. p \in Watched(c)
    BY TypeFacts DEF IInv
  <2>2. At(c, p, k) = Newest(states[c][p]).recs[k].at /\ At(c, p, k) \in Nat
    BY <2>1, AtFacts DEF IInv, At
  <2>3. ASSUME NEW d \in Subnet, Round(d)
        PROVE  Newest(states'[c][p]).recs[k].at >= At(c, p, k)
    <3>1. CASE c = d
      <4>1. Newest(states'[c][p]) = Entry(c, p) /\ idx[c] <= MaxIdx
        BY <2>1, <2>3, <3>1, RoundTable, RoundEffect
      <4>2. At(c, p, k) <= Entry(c, p).recs[k].at /\ Entry(c, p).recs[k].at \in Nat
        BY <2>1, <4>1, EntryRounds
      <4> QED
        BY <2>2, <4>1, <4>2
    <3>2. CASE c # d
      <4>1. states'[c] = states[c]
        BY <2>3, <3>2, RoundEffect
      <4> QED
        BY <2>2, <4>1
    <3> QED
      BY <3>1, <3>2
  <2>4. ASSUME NEW d \in Subnet, NEW n \in Neighbours(d), Poll(d, n)
        PROVE  Newest(states'[c][p]).recs[k].at >= At(c, p, k)
    <3>1. states' = states
      BY <2>4, PollEffect
    <3> QED
      BY <2>2, <3>1
  <2> QED
    BY <2>2, <2>3, <2>4 DEF Next
<1>2. Spec => [][Newer]_vars
  BY <1>1, Invariance, PTL DEF Spec
<1> QED
  BY <1>2 DEF NeverOlder
=============================================================================
