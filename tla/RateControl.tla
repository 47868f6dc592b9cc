---------------------------- MODULE RateControl ----------------------------
(***************************************************************************)
(* The rates of one port of the switch (class rate_control of combined1.py,*)
(* called by every round of network_state.run): which flows are active, by *)
(* the dumps of the data path, the share of the interactive class, and the *)
(* two tc classes that divide the link.  Each protocol has four parallel   *)
(* lists; a dump is processed line by line and then the entries it did not *)
(* name are removed from each list by their positions.                     *)
(* The code's two ports do not share anything, so there is one.  Rates are *)
(* floats in the code and integers here (rounded down).  The counters stop *)
(* at the value they are compared with.                                    *)
(***************************************************************************)
EXTENDS Integers, Sequences, FiniteSets

CONSTANTS Tcp, Udp,       \* flows (their 4-tuples) by protocol
          Bytes,          \* byte counts of a flow, of which only changes matter
          Skip,           \* update_flows works in every Skip-th round
          ZERO_D_CNT,     \* dumps without traffic until a flow is idle
          ZERO_Q_CNT,     \* rounds without a queue until it is idle
          Ceil, Cmn,      \* rate of the link, and less the margin
          KShort, KLong   \* 1 / alp_short, 1 / alp_long

ASSUME RateAssumption ==
    /\ Tcp \intersect Udp = {}
    /\ Skip \in Nat \ {0} /\ ZERO_D_CNT \in Nat \ {0} /\ ZERO_Q_CNT \in Nat \ {0}
    /\ IsFiniteSet(Tcp) /\ IsFiniteSet(Udp)
    /\ Ceil \in Nat
    /\ Cmn \in Nat /\ 0 < Cmn /\ Cmn <= Ceil
    /\ KShort \in Nat \ {0} /\ KLong \in Nat \ {0}

Flow  == Tcp \union Udp
Proto == {"tcp", "udp"}
ProtoOf(f) == IF f \in Tcp THEN "tcp" ELSE "udp"

VARIABLES
    pc,           \* "wait", "dump", "rates", "class10" or "class20"
    skip_cnt,
    table,        \* [Proto -> flows, bytes, active, exist]: the eight lists
    lines,        \* lines of the dump still to be processed
    q_ni,         \* the non-interactive queue holds bytes (measured in this round)
    qni_cnt, short_rate, long_rate,
    reported,     \* intfs_info[idx][2] of network_state
    class10, class20,   \* rates of the tc classes
    history,      \* of the flows in the last dump: bytes, dumps unchanged
    moved         \* the last dump had a new flow or new bytes

ratesVars == <<qni_cnt, short_rate, long_rate, reported>>
vars == <<pc, skip_cnt, table, lines, q_ni, ratesVars, class10, class20, history, moved>>

EmptyTable == [flows |-> <<>>, bytes |-> <<>>, active |-> <<>>, exist |-> <<>>]

\* reconfig_interfaces: each class gets half of the link.
Reconfigured == class10 = Ceil \div 2 /\ class20 = Ceil \div 2

\* rate_control.__init__ after reconfig_interfaces.
Init ==
    /\ pc = "wait" /\ skip_cnt = 0
    /\ table = [p \in Proto |-> EmptyTable] /\ lines = <<>>
    /\ q_ni = FALSE /\ qni_cnt = ZERO_Q_CNT
    /\ short_rate = Ceil \div 2 /\ long_rate = Ceil \div 2 /\ reported = Ceil \div 2
    /\ Reconfigured
    /\ history = [f \in {} |-> 0] /\ moved = FALSE

\* One more, up to the value it is compared with.
CountTo(n, limit) == IF n < limit THEN n + 1 ELSE limit
-----------------------------------------------------------------------------
(* update_flows: the dump.                                                 *)

SkipRound ==
    /\ pc = "wait" /\ skip_cnt + 1 < Skip
    /\ skip_cnt' = skip_cnt + 1
    /\ UNCHANGED <<pc, table, lines, q_ni, ratesVars, class10, class20, history, moved>>

\* The dump names a flow once, in any order.
Dumps(flows) ==
    {d \in [1..Cardinality(flows) -> [flow : flows, bytes : Bytes]] :
        \A i, j \in DOMAIN d : d[i].flow = d[j].flow => i = j}

Unchanged(x) == x.flow \in DOMAIN history /\ history[x.flow].bytes = x.bytes

\* All entries are marked as not existing and the data path is asked.
TakeDump ==
    /\ pc = "wait" /\ skip_cnt + 1 >= Skip
    /\ skip_cnt' = 0
    /\ table' = [p \in Proto |->
                    [table[p] EXCEPT !.exist = [j \in DOMAIN @ |-> FALSE]]]
    /\ \E flows \in SUBSET Flow : \E d \in Dumps(flows) :
           /\ lines' = d
           /\ history' = [f \in flows |->
                 LET x == d[CHOOSE i \in DOMAIN d : d[i].flow = f]
                 IN [bytes |-> x.bytes,
                     idle |-> IF Unchanged(x) THEN CountTo(history[f].idle, ZERO_D_CNT) ELSE 0]]
           /\ moved' = \E i \in DOMAIN d : ~ Unchanged(d[i])
    /\ pc' = "dump"
    /\ UNCHANGED <<q_ni, ratesVars, class10, class20>>

Index(list, x) == CHOOSE j \in DOMAIN list : list[j] = x

\* A flow of the dump: found again or new.
Seen(t, x) ==
    IF \E j \in DOMAIN t.flows : t.flows[j] = x.flow
    THEN LET j == Index(t.flows, x.flow)
         IN [t EXCEPT !.active[j] = IF t.bytes[j] # x.bytes THEN 0 ELSE CountTo(@, ZERO_D_CNT),
                      !.bytes[j] = x.bytes, !.exist[j] = TRUE]
    ELSE [flows |-> Append(t.flows, x.flow), bytes |-> Append(t.bytes, x.bytes),
          active |-> Append(t.active, 0), exist |-> Append(t.exist, TRUE)]

SeeFlow ==
    /\ pc = "dump" /\ lines # <<>>
    /\ table' = [table EXCEPT ![ProtoOf(lines[1].flow)] = Seen(@, lines[1])]
    /\ lines' = Tail(lines)
    /\ UNCHANGED <<pc, skip_cnt, q_ni, ratesVars, class10, class20, history, moved>>

\* Positions in the order in which enumerate gives them.
Ascending(S) ==
    CHOOSE s \in [1..Cardinality(S) -> S] :
        \A i, j \in 1..Cardinality(S) : i < j => s[i] < s[j]

\* [j for j, y in enumerate(exist) if y == True]
Existing(exist) == Ascending({j \in DOMAIN exist : exist[j]})

\* [it for j, it in enumerate(list) if j in idcs]
Picked(list, idcs) == [k \in DOMAIN idcs |-> list[idcs[k]]]

\* MUTANT of WithoutStale: the counters are cut from the end.
WithoutStaleMisaligned(t) ==
    LET idcs == Existing(t.exist)
    IN [flows  |-> Picked(t.flows, idcs), bytes |-> Picked(t.bytes, idcs),
        active |-> SubSeq(t.active, 1, Len(idcs)), exist |-> Picked(t.exist, idcs)]

\* MUTANT of WithoutStale: exist is left as it was.
WithoutStaleKeepsExist(t) ==
    LET idcs == Existing(t.exist)
    IN [flows  |-> Picked(t.flows, idcs),  bytes |-> Picked(t.bytes, idcs),
        active |-> Picked(t.active, idcs), exist |-> t.exist]

\* The positions whose entry the dump has named stay, in each of the lists.
WithoutStale(t) ==
    LET idcs == Existing(t.exist)
    IN [flows  |-> Picked(t.flows, idcs),  bytes |-> Picked(t.bytes, idcs),
        active |-> Picked(t.active, idcs), exist |-> Picked(t.exist, idcs)]

RemoveStale ==
    /\ pc = "dump" /\ lines = <<>>
    /\ table' = [p \in Proto |-> WithoutStale(table[p])]
    /\ pc' = "rates"
    /\ UNCHANGED <<skip_cnt, lines, q_ni, ratesVars, class10, class20, history, moved>>
-----------------------------------------------------------------------------
(* find_rates and set_interactive_rate.                                    *)

\* MUTANT of ActiveFlows: idle flows count.
ListedFlows(p) == Len(table[p].active) + 1

\* One more than the flows that are not idle.
ActiveFlows(p) ==
    Cardinality({j \in DOMAIN table[p].active : table[p].active[j] < ZERO_D_CNT}) + 1

\* rate += alpha * (goal - rate)
Towards(rate, goal, k) == rate + (goal - rate) \div k

\* MUTANT of QueueCount: it starts again in every round.
QueueCountRestarts == IF q_ni' THEN 0 ELSE 1

QueueCount == IF q_ni' THEN 0 ELSE CountTo(qni_cnt, ZERO_Q_CNT)

\* Of the link, by the number of flows of each class.
Share == (Ceil * ActiveFlows("udp")) \div (ActiveFlows("udp") + ActiveFlows("tcp"))

\* network_state.update_reported_bw
UpdateReportedBw(rate) == reported' = rate

FindRates ==
    /\ pc = "rates"
    /\ q_ni' \in BOOLEAN
    /\ qni_cnt' = QueueCount
    /\ short_rate' = Towards(short_rate,
                             IF qni_cnt' < ZERO_Q_CNT THEN long_rate ELSE Cmn, KShort)
    /\ long_rate' = Towards(long_rate, Share, KLong)
    /\ UpdateReportedBw(short_rate')
    /\ pc' = "class10"
    /\ UNCHANGED <<skip_cnt, table, lines, class10, class20, history, moved>>

\* change_rates.sh for class 10, then for class 20.
SetInteractive ==
    /\ pc = "class10"
    /\ class10' = long_rate /\ pc' = "class20"
    /\ UNCHANGED <<skip_cnt, table, lines, q_ni, ratesVars, class20, history, moved>>

\* MUTANT of SetOther: what the reported rate leaves over.
SetOtherByReported ==
    /\ pc = "class20"
    /\ class20' = Ceil - short_rate /\ pc' = "wait"
    /\ UNCHANGED <<skip_cnt, table, lines, q_ni, ratesVars, class10, history, moved>>

SetOther ==
    /\ pc = "class20"
    /\ class20' = Ceil - long_rate /\ pc' = "wait"
    /\ UNCHANGED <<skip_cnt, table, lines, q_ni, ratesVars, class10, history, moved>>
-----------------------------------------------------------------------------
Next == SkipRound \/ TakeDump \/ SeeFlow \/ RemoveStale
        \/ FindRates \/ SetInteractive \/ SetOther

Spec == Init /\ [][Next]_vars

\* network_state.run calls update_flows every 100 ms.
FairSpec == Spec /\ WF_vars(Next)
-----------------------------------------------------------------------------
Lists == [flows : Seq(Flow), bytes : Seq(Bytes),
          active : Seq(0..ZERO_D_CNT), exist : Seq(BOOLEAN)]

Parallel(t) ==
    /\ Len(t.bytes) = Len(t.flows)
    /\ Len(t.active) = Len(t.flows)
    /\ Len(t.exist) = Len(t.flows)

\* The lists of a protocol are parallel and the counters stay in range.
TypeOK ==
    /\ pc \in {"wait", "dump", "rates", "class10", "class20"}
    /\ skip_cnt \in 0..Skip - 1
    /\ table \in [Proto -> Lists]
    /\ \A p \in Proto : Parallel(table[p])
    /\ lines \in Seq([flow : Flow, bytes : Bytes])
    /\ q_ni \in BOOLEAN /\ qni_cnt \in 0..ZERO_Q_CNT
    /\ {short_rate, long_rate, reported, class10, class20} \subseteq 0..Ceil
    /\ DOMAIN history \subseteq Flow
    /\ history \in [DOMAIN history -> [bytes : Bytes, idle : 0..ZERO_D_CNT]]
    /\ moved \in BOOLEAN

\* When rates are computed the lists say of every flow of the dump, and of no
\* other, its bytes and for how many dumps they have not changed: no entry
\* has been given the counter of another flow while flows come and go.
CountsIdle ==
    pc \in {"rates", "class10", "class20", "wait"} =>
        \A p \in Proto :
            LET t == table[p] IN
            /\ {t.flows[j] : j \in DOMAIN t.flows} = {f \in DOMAIN history : ProtoOf(f) = p}
            /\ \A j \in DOMAIN t.flows :
                   history[t.flows[j]] = [bytes |-> t.bytes[j], idle |-> t.active[j]]
            /\ \A i, j \in DOMAIN t.flows : t.flows[i] = t.flows[j] => i = j

\* Each command changes one class: between them the classes promise more or
\* less than the link, but never by more than one smoothing step (and the one
\* that rounding the halves of reconfig_interfaces costs).
LinkShared ==
    IF pc = "class20"
    THEN /\ (class10 + class20 - Ceil) * KLong <= Ceil
         /\ (Ceil - 1 - class10 - class20) * KLong < Ceil + KLong
    ELSE class10 + class20 \in {Ceil - 1, Ceil}

\* When the non-interactive queue stays empty, the reported rate goes up to
\* the rate of the link less the margin, whatever it was.
QueueIdleReported ==
    <>[](~ q_ni) => <>[](reported > Cmn - KShort)

\* When no flow sends any more the two classes get the same again.
IdleSplitsEvenly ==
    <>[](~ moved) => <>[](long_rate > Ceil \div 2 - KLong /\ long_rate <= Ceil \div 2)
=============================================================================
