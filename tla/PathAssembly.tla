---------------------------- MODULE PathAssembly ----------------------------
(***************************************************************************)
(* How the controllers of a chain of subnets assemble the state of whole   *)
(* paths (network_state.run and combine_entries of combined1.py).  A       *)
(* controller measures the links to its two neighbours; of a longer path   *)
(* it knows the rest from the neighbour on that side, whose entry it puts  *)
(* before or behind its own part.  Which paths are asked about and which   *)
(* are kept is fixed by start_service.                                     *)
(* The exchange itself is StatsRelay's; here a poll is answered at once.   *)
(* A record is the link it is about and the round of its measurement.      *)
(***************************************************************************)
EXTENDS PyList, FiniteSets

CONSTANTS First, Last,      \* the subnets, 11 to 14 in the code
          NS_QUEUE_SIZE, NB_QUEUE_SIZE,
          MaxIdx,           \* bound: rounds of a controller
          MaxSlips          \* bound: rounds that were not in step (see Round)

ASSUME AssemblyAssumption ==
    /\ First \in Nat \ {0} /\ Last \in Nat /\ First < Last
    /\ NS_QUEUE_SIZE \in Nat \ {0} /\ NB_QUEUE_SIZE \in Nat \ {0} /\ MaxIdx \in Nat
    /\ MaxSlips \in Nat

Subnet == First..Last
Path   == {p \in Subnet \X Subnet : p[1] # p[2]}
Upward == {p \in Path : p[1] < p[2]}

VARIABLES
    watched,     \* the paths of one direction; the other shares nothing with it
    idx,         \* [Subnet -> number of its next round]
    states,      \* [Subnet -> [Path -> the last entries]]
    last_idx,    \* [Subnet -> [Path -> newest number used of the list for it]]
    nb_states, nb_last_idx,   \* [Subnet -> [Path -> list, number to ask from]]
    polled,      \* history: [Subnet -> lists polled since its last round]
    slips        \* history: how often a controller was not in step

vars == <<watched, idx, states, last_idx, nb_states, nb_last_idx, polled, slips>>

\* MUTANT of NbPaths: "range(this_subnet-2, 11, -1)", "range(this_subnet+3, 15)".
NbPathsNear(c, n) ==
    {<<n, c>>} \union {<<n, x>> : x \in IF n < c THEN First + 1..c - 2 ELSE c + 3..Last}
               \union {<<x, n>> : x \in IF n < c THEN First + 1..c - 2 ELSE c + 3..Last}

\* start_service: what controller c asks its neighbour n about.
NbPaths(c, n) ==
    LET beyond == IF n < c THEN First..c - 2 ELSE c + 2..Last
    IN {<<n, c>>} \union {<<n, x>> : x \in beyond} \union {<<x, n>> : x \in beyond}

\* start_service: the paths whose states controller c keeps.
NsPaths(c) == {p \in Path : p[1] = c \/ p[2] = c}

Neighbours(c) == {c - 1, c + 1} \intersect Subnet

\* The paths a controller has a list for; those of its two neighbours differ.
Lists(c) == (UNION {NbPaths(c, n) : n \in Neighbours(c)}) \intersect watched

Init ==
    /\ watched \in {Upward, Path \ Upward}
    /\ idx = [c \in Subnet |-> 1]
    /\ states = [c \in Subnet |-> [p \in NsPaths(c) \intersect watched |-> <<>>]]
    /\ last_idx = [c \in Subnet |-> [p \in NsPaths(c) \intersect watched |-> 0]]
    /\ nb_states = [c \in Subnet |-> [q \in Lists(c) |-> <<>>]]
    /\ nb_last_idx = [c \in Subnet |-> [q \in Lists(c) |-> 0]]
    /\ polled = [c \in Subnet |-> {}] /\ slips = 0
-----------------------------------------------------------------------------
Newest(list) == list[Len(list)]

\* rest_reply.index: s[-num_entries:] for the entries numbered i and later.
Reply(kept, i) ==
    LET n == Newest(kept).num - Larger(kept[1].num, i) + 1
    IN Slice(kept, -(IF n <= Len(kept) THEN n ELSE Len(kept)))

\* client.combine_bs.
Combined(old, new) ==
    KeepLast(IF old = <<>> THEN new
             ELSE old \o Slice(new, Larger(Newest(old).num + 1 - new[1].num, 0)),
             NB_QUEUE_SIZE)

\* The list for q with the answer of neighbour n to a GET.
Merged(c, n, q) == Combined(nb_states[c][q], Reply(states[n][q], nb_last_idx[c][q]))

\* neighbor_state.run: a GET for each list of neighbour n, and the answers;
\* any number of times between two rounds of network_state.run.
Poll(c, n) ==
    LET asked == NbPaths(c, n) \intersect watched
        got   == {q \in asked : q \in NsPaths(n) /\ states[n][q] # <<>>}
    IN /\ asked # {}
       /\ nb_states' = [nb_states EXCEPT ![c] =
             [q \in DOMAIN @ |-> IF q \in got THEN Merged(c, n, q) ELSE @[q]]]
       /\ nb_last_idx' = [nb_last_idx EXCEPT ![c] =
             [q \in DOMAIN @ |-> IF q \in got THEN Newest(Merged(c, n, q)).num ELSE @[q]]]
       /\ polled' = [polled EXCEPT ![c] = @ \union {n}]
       /\ UNCHANGED <<watched, idx, states, last_idx, slips>>
-----------------------------------------------------------------------------
(* A round of network_state.run.                                           *)

\* The far end of a path of controller c, and the neighbour on that side.
Far(c, p)  == IF p[1] = c THEN p[2] ELSE p[1]
Side(c, p) == IF Far(c, p) < c THEN c - 1 ELSE c + 1

\* The list path p is assembled from: (path[0], lnet) and so on; for a path
\* from the neighbour itself the one of r_entries.
ListFor(c, p) == IF p[2] = c /\ p[1] = Side(c, p) THEN p
                 ELSE IF p[2] = c THEN <<p[1], Side(c, p)>> ELSE <<Side(c, p), p[2]>>

\* nb.states[j][idx] where the list is polled, without what was used before.
Taken(c, p, q) ==
    IF q \notin Lists(c) \/ nb_states[c][q] = <<>> THEN <<>>
    ELSE Slice(nb_states[c][q], last_idx[c][p] - Newest(nb_states[c][q]).num)

NoRecord == [link |-> <<0, 0>>, at |-> 0]

\* MUTANT of Part: the last entry is not looked at.
PartOrZero(count, list, last, off) ==
    [k \in 1..count |-> IF list # <<>> THEN Newest(list).recs[k] ELSE NoRecord]

\* The records of one part of combine_entries: those of the newest entry of the
\* list, or of the last own entry, or zeros.
Part(count, list, last, off) ==
    [k \in 1..count |-> IF list # <<>> THEN Newest(list).recs[k]
                        ELSE IF last # <<>> THEN Newest(last).recs[off + k]
                        ELSE NoRecord]

\* What this controller has measured, as a list with one entry.
Measured(c, p) == <<[num |-> 0, recs |-> <<[link |-> <<c, Side(c, p)>>, at |-> idx[c]]>>]>>

\* MUTANT of Entry: an incoming path starts with the near part.
EntryNearFirst(c, p) ==
    LET near == <<Side(c, p), c>>
        hops == IF Far(c, p) < c THEN c - Far(c, p) ELSE Far(c, p) - c
        last == states[c][p]
        far  == IF hops = 1 THEN <<>> ELSE Taken(c, p, ListFor(c, p))
    IN [num  |-> idx[c],
        recs |-> IF p[1] = c
                 THEN Part(1, Measured(c, p), last, 0) \o Part(hops - 1, far, last, 1)
                 ELSE Part(1, Taken(c, near, near), last, 0) \o Part(hops - 1, far, last, 1)]

\* Out of the controller: its own part, then the neighbour's.  Into it: the
\* neighbour's list up to itself, then its link to here.
Entry(c, p) ==
    LET near == <<Side(c, p), c>>
        hops == IF Far(c, p) < c THEN c - Far(c, p) ELSE Far(c, p) - c
        last == states[c][p]
        far  == IF hops = 1 THEN <<>> ELSE Taken(c, p, ListFor(c, p))
    IN [num  |-> idx[c],
        recs |-> IF p[1] = c
                 THEN Part(1, Measured(c, p), last, 0) \o Part(hops - 1, far, last, 1)
                 ELSE Part(hops - 1, far, last, 0)
                      \o Part(1, Taken(c, near, near), last, hops - 1)]

\* MUTANT of WithEntry: the "del" is forgotten.
WithEntryUncut(c, p) == Append(states[c][p], Entry(c, p))

\* self.states[i].append(entry); del self.states[i][:-NS_QUEUE_SIZE]
WithEntry(c, p) == KeepLast(Append(states[c][p], Entry(c, p)), NS_QUEUE_SIZE)

\* No controller is a round ahead, and since its last round it has asked for
\* every list: all do this every 100 ms.
InStep(c) ==
    /\ \A n \in Subnet : idx[c] <= idx[n]
    /\ idx[c] > 1 => \A n \in Neighbours(c) :
                        NbPaths(c, n) \intersect watched # {} => n \in polled[c]

Round(c) ==
    /\ idx[c] <= MaxIdx
    /\ states' = [states EXCEPT ![c] =
          [p \in DOMAIN @ |-> WithEntry(c, p)]]
    /\ last_idx' = [last_idx EXCEPT ![c] =
          [p \in DOMAIN @ |-> IF Taken(c, p, ListFor(c, p)) = <<>> THEN @[p]
                              ELSE Newest(nb_states[c][ListFor(c, p)]).num]]
    /\ nb_states' = [nb_states EXCEPT ![c] =
          [q \in DOMAIN @ |-> IF \E p \in DOMAIN states[c] : q = ListFor(c, p)
                              THEN <<>> ELSE @[q]]]
    /\ idx' = [idx EXCEPT ![c] = @ + 1]
    /\ polled' = [polled EXCEPT ![c] = {}]
    /\ slips' = IF InStep(c) THEN slips ELSE slips + 1
    /\ slips' <= MaxSlips
    /\ UNCHANGED <<watched, nb_last_idx>>
-----------------------------------------------------------------------------
Next == \/ \E c \in Subnet : Round(c)
        \/ \E c \in Subnet : \E n \in Neighbours(c) : Poll(c, n)

Spec == Init /\ [][Next]_vars
-----------------------------------------------------------------------------
Record == [link : ({0} \union Subnet) \X ({0} \union Subnet), at : 0..MaxIdx]
Sample == [num : 1..MaxIdx, recs : Seq(Record)]

TypeOK ==
    /\ watched \in {Upward, Path \ Upward}
    /\ idx \in [Subnet -> 1..MaxIdx + 1]
    /\ DOMAIN states = Subnet /\ DOMAIN last_idx = Subnet
    /\ DOMAIN nb_states = Subnet /\ DOMAIN nb_last_idx = Subnet
    /\ \A c \in Subnet :
           /\ states[c] \in [NsPaths(c) \intersect watched -> Seq(Sample)]
           /\ last_idx[c] \in [NsPaths(c) \intersect watched -> 0..MaxIdx]
           /\ nb_states[c] \in [Lists(c) -> Seq(Sample)]
           /\ nb_last_idx[c] \in [Lists(c) -> 0..MaxIdx]
           /\ \A p \in DOMAIN states[c] : Len(states[c][p]) <= NS_QUEUE_SIZE
           /\ \A q \in Lists(c) : Len(nb_states[c][q]) <= NB_QUEUE_SIZE
    /\ polled \in [Subnet -> SUBSET Subnet]
    /\ slips \in 0..MaxSlips

Hops(p) == IF p[1] < p[2] THEN p[2] - p[1] ELSE p[1] - p[2]
Hop(p, k) == IF p[1] < p[2] THEN <<p[1] + k - 1, p[1] + k>> ELSE <<p[1] - k + 1, p[1] - k>>

Entries(c, p) == {states[c][p][j] : j \in DOMAIN states[c][p]}

\* An entry has a record for every hop of its path, and the k-th is about the
\* k-th hop or still empty, at every controller and however many controllers
\* it has come over (combine_entries and its offsets, ListFor).
HopOrder ==
    \A c \in Subnet : \A p \in DOMAIN states[c] : \A e \in Entries(c, p) :
        /\ Len(e.recs) = Hops(p)
        /\ \A k \in 1..Hops(p) : e.recs[k] = NoRecord \/ e.recs[k].link = Hop(p, k)

\* What a controller says of a hop never gets older from one entry to the next,
\* and is never lost again, whether the neighbour was heard in between not at
\* all, once, or several times (neighbor_state.run is a loop of its own).
NeverOlder ==
    [][\A c \in Subnet : \A p \in DOMAIN states[c] :
           states[c][p] # <<>> =>
               \A k \in 1..Hops(p) :
                   Newest(states'[c][p]).recs[k].at >= Newest(states[c][p]).recs[k].at]_vars

\* When every controller is heard in every round, what an entry says of a hop
\* was measured at most two rounds ago for each controller it came over:
\* every list a round needs is asked for, by everybody.
FreshEnough ==
    slips = 0 => \A c \in Subnet : \A p \in DOMAIN states[c] : \A e \in Entries(c, p) :
        \A k \in 1..Hops(p) :
            LET from == Hop(p, k)[1]
                away == IF from < c THEN c - from ELSE from - c
            IN e.recs[k].at >= e.num - 2 * away
=============================================================================
