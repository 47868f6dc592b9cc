----------------------------- MODULE StatsRelay -----------------------------
(***************************************************************************)
(* How the samples of one path travel from the controller that measures    *)
(* them to a neighbouring controller (combined1.py).  Four threads share   *)
(* three lists and every "mutex.acquire" of the source is commented out:   *)
(*   - network_state.run of the measuring controller appends a sample to   *)
(*     states and cuts the list to its last NS_QUEUE_SIZE elements;        *)
(*   - a CherryPy thread answers GET /stats/.../oldest_idx/0/ from states; *)
(*   - neighbor_state.run and the asyncore thread of the neighbour poll    *)
(*     and put the answers into nb_state (nb.states[j][idx]);              *)
(*   - network_state.run of the neighbour takes nb_state away, skips what  *)
(*     it has seen before and adds up the rest.                            *)
(* A sample is its number idx.  Every atomic action is one read or one     *)
(* write of a shared list; a Python list method is atomic.                 *)
(***************************************************************************)
EXTENDS PyList

CONSTANTS NS_QUEUE_SIZE,    \* samples the measuring controller keeps
          NB_QUEUE_SIZE,    \* samples the neighbour keeps
          MaxIdx,           \* bound: samples produced
          MaxOutstanding    \* bound: requests and replies under way

ASSUME ConstantsAssumption ==
    /\ NS_QUEUE_SIZE \in Nat \ {0}
    /\ NB_QUEUE_SIZE \in Nat \ {0}
    /\ MaxIdx \in Nat
    /\ MaxOutstanding \in Nat

VARIABLES
    \* network_state.run of the measuring controller
    idx,          \* number of the sample this round produces
    states,       \* the samples kept for the path
    run_pc,       \* "append" or "trim"
    \* the connection and the CherryPy thread that serves it
    gets,         \* requests on the way: the oldest_idx of each
    replies,      \* answers on the way: lists of samples, <<>> for any text
                  \* that is not a list (handle_read drops those)
    part,         \* a part of an answer is in rx_buf behind those of replies,
                  \* and the connection it came over is gone
    http_pc,      \* "idle", "oldest", "newest" or "slice"
    oldest_idx, l, num_entries,     \* locals of rest_reply.index
    \* the asyncore thread (client.handle_read)
    read_pc,      \* "read", "combine", "check" or "mark"
    lst,          \* the list object combine_bs works on: "none", nb_state
                  \* ("cur"), the one taken from it ("taken"), or garbage
    new_lst,      \* the samples of the answer being handled
    nb_state,     \* nb.states[j][idx]
    nb_last_idx,  \* nb.last_idx[j][idx], what the next poll asks for
    \* network_state.run of the neighbour
    take_pc,      \* "take", "last", "slice" or "combine"
    taken,        \* the list taken (s and u in run)
    li,           \* number of its last sample, as read
    last_idx      \* self.last_idx[i], newest sample accounted for

runVars  == <<idx, states, run_pc>>
netVars  == <<gets, replies, part>>
httpVars == <<http_pc, oldest_idx, l, num_entries>>
readVars == <<read_pc, new_lst, nb_last_idx>>
takeVars == <<take_pc, li, last_idx>>
vars == <<runVars, netVars, httpVars, readVars, lst, nb_state, taken, takeVars>>

Init ==
    /\ idx = 1 /\ states = <<>> /\ run_pc = "append"
    /\ gets = <<>> /\ replies = <<>> /\ part = FALSE
    /\ http_pc = "idle" /\ oldest_idx = 0 /\ l = 0 /\ num_entries = 0
    /\ read_pc = "read" /\ lst = "none" /\ new_lst = <<>>
    /\ nb_state = <<>> /\ nb_last_idx = 0
    /\ take_pc = "take" /\ taken = <<>> /\ li = 0 /\ last_idx = 0
-----------------------------------------------------------------------------
(* The measuring controller: one sample per round of network_state.run.    *)

AppendEntry ==
    /\ run_pc = "append" /\ idx <= MaxIdx
    /\ states' = Append(states, idx)
    /\ run_pc' = "trim"
    /\ UNCHANGED <<idx, netVars, httpVars, readVars, lst, nb_state, taken, takeVars>>

\* MUTANT of TrimStates: the "del" is forgotten.
TrimNothing ==
    /\ run_pc = "trim"
    /\ idx' = idx + 1
    /\ run_pc' = "append"
    /\ UNCHANGED <<states, netVars, httpVars, readVars, lst, nb_state, taken, takeVars>>

TrimStates ==
    /\ run_pc = "trim"
    /\ states' = KeepLast(states, NS_QUEUE_SIZE)
    /\ idx' = idx + 1
    /\ run_pc' = "append"
    /\ UNCHANGED <<netVars, httpVars, readVars, lst, nb_state, taken, takeVars>>
-----------------------------------------------------------------------------
(* rest_reply.index.  An exception ends the request with an HTTP 500,      *)
(* whose text is no list.                                                  *)

Outstanding == Len(gets) + Len(replies) + (IF http_pc = "idle" THEN 0 ELSE 1)

\* Its locals are gone.
IndexReturns == http_pc' = "idle" /\ oldest_idx' = 0 /\ l' = 0 /\ num_entries' = 0

ReadLength ==
    /\ http_pc = "idle" /\ gets # <<>>
    /\ gets' = Tail(gets)
    /\ IF states = <<>>                                    \* "No data yet"
       THEN replies' = Append(replies, <<>>) /\ UNCHANGED httpVars
       ELSE /\ oldest_idx' = Head(gets) /\ l' = Len(states)
            /\ http_pc' = "oldest"
            /\ UNCHANGED <<num_entries, replies>>
    /\ UNCHANGED <<part, runVars, readVars, lst, nb_state, taken, takeVars>>

ReadOldest ==
    /\ http_pc = "oldest"
    /\ oldest_idx' = Larger(states[1], oldest_idx)
    /\ http_pc' = "newest"
    /\ UNCHANGED <<l, num_entries, runVars, netVars, readVars, lst, nb_state, taken, takeVars>>

\* MUTANT of ReadNewest: the "+ 1" is forgotten.
ReadNewestOffByOne ==
    /\ http_pc = "newest"
    /\ l <= Len(states)
    /\ num_entries' = LET n == states[l] - oldest_idx IN IF n <= l THEN n ELSE l
    /\ http_pc' = "slice"
    /\ UNCHANGED <<oldest_idx, l, runVars, netVars, readVars, lst, nb_state, taken, takeVars>>

\* s[l-1]: l elements were there when the length was read.
ReadNewest ==
    /\ http_pc = "newest"
    /\ l <= Len(states)
    /\ num_entries' = LET n == states[l] - oldest_idx + 1 IN IF n <= l THEN n ELSE l
    /\ http_pc' = "slice"
    /\ UNCHANGED <<oldest_idx, l, runVars, netVars, readVars, lst, nb_state, taken, takeVars>>

NewestMissing ==
    /\ http_pc = "newest"
    /\ l > Len(states)                                             \* IndexError
    /\ replies' = Append(replies, <<>>)
    /\ IndexReturns
    /\ UNCHANGED <<gets, part, runVars, readVars, lst, nb_state, taken, takeVars>>

SendReply ==
    /\ http_pc = "slice"
    /\ replies' = Append(replies, Slice(states, -num_entries))
    /\ IndexReturns
    /\ UNCHANGED <<gets, part, runVars, readVars, lst, nb_state, taken, takeVars>>
-----------------------------------------------------------------------------
(* The neighbour: polling (neighbor_state.run) and receiving               *)
(* (client.handle_read on the asyncore thread).                            *)

\* Bytes of a new connection would be glued to the part of an old one: the
\* model does not follow what handle_read makes of them (see NeighborClient).
Poll ==
    /\ Outstanding < MaxOutstanding
    /\ ~ part
    /\ gets' = Append(gets, nb_last_idx)
    /\ UNCHANGED <<replies, part, runVars, httpVars, readVars, lst, nb_state, taken, takeVars>>

\* Takes the next answer; its list goes to combine_bs with states[p] as lst.
ReadReply ==
    /\ read_pc = "read" /\ replies # <<>>
    /\ replies' = Tail(replies)
    /\ IF Head(replies) = <<>>
       THEN UNCHANGED <<read_pc, lst, new_lst>>
       ELSE read_pc' = "combine" /\ lst' = "cur" /\ new_lst' = Head(replies)
    /\ UNCHANGED <<gets, part, nb_last_idx, runVars, httpVars, nb_state, taken, takeVars>>

\* MUTANT of CombineBS: the "+ 1" is forgotten.
CombineOffByOne(old, new) ==
    KeepLast(IF old = <<>> THEN new
             ELSE old \o Slice(new, Larger(End(old) - Head(new), 0)),
             NB_QUEUE_SIZE)

\* client.combine_bs: the list with what is new to it.
CombineBS(old, new) ==
    KeepLast(IF old = <<>> THEN new
             ELSE old \o Slice(new, Larger(End(old) + 1 - Head(new), 0)),
             NB_QUEUE_SIZE)

Combine ==
    /\ read_pc = "combine"
    /\ nb_state' = IF lst = "cur" THEN CombineBS(nb_state, new_lst) ELSE nb_state
    /\ taken' = IF lst = "taken" THEN CombineBS(taken, new_lst) ELSE taken
    /\ lst' = "none"
    /\ read_pc' = "check"
    /\ UNCHANGED <<new_lst, nb_last_idx, runVars, netVars, httpVars, takeVars>>

\* MUTANT of CheckState: the index is taken from the answer at once, without
\* looking at what run has left in nb_state.
MarkUnchecked ==
    /\ read_pc = "check"
    /\ nb_last_idx' = End(new_lst)
    /\ read_pc' = "read"
    /\ new_lst' = <<>>
    /\ UNCHANGED <<lst, nb_state, taken, runVars, netVars, httpVars, takeVars>>

\* if states[p] != []
CheckState ==
    /\ read_pc = "check"
    /\ read_pc' = IF nb_state = <<>> THEN "read" ELSE "mark"
    /\ new_lst' = IF nb_state = <<>> THEN <<>> ELSE new_lst
    /\ UNCHANGED <<lst, nb_last_idx, nb_state, taken, runVars, netVars, httpVars, takeVars>>

\* last_entry = states[p][-1]; last_idx[p] = int(...)
Mark ==
    /\ read_pc = "mark"
    /\ nb_state # <<>>
    /\ nb_last_idx' = End(nb_state)
    /\ read_pc' = "read"
    /\ new_lst' = <<>>
    /\ UNCHANGED <<lst, nb_state, taken, runVars, netVars, httpVars, takeVars>>

\* states[p][-1] on an empty list: asyncore calls handle_error, which connects
\* again and resets nothing.  The requests not answered yet are lost, of the
\* answers those beyond what rx_buf already holds; the first of these may be
\* there in part.
MarkFails ==
    /\ read_pc = "mark"
    /\ nb_state = <<>>
    /\ \E k \in 0..Len(replies) :
           /\ replies' = SubSeq(replies, 1, k)
           /\ part' \in {part, part \/ k < Len(replies)}
    /\ gets' = <<>>
    /\ IndexReturns
    /\ read_pc' = "read"
    /\ new_lst' = <<>>
    /\ UNCHANGED <<nb_last_idx, lst, nb_state, taken, runVars, takeVars>>
-----------------------------------------------------------------------------
(* The neighbour: network_state.run, once per round and path.              *)

\* u = states[j][idx]; states[j][idx] = []
TakeStates ==
    /\ take_pc = "take"
    /\ taken' = nb_state
    /\ nb_state' = <<>>
    /\ lst' = IF lst = "cur" THEN "taken" ELSE lst
    /\ take_pc' = "last"
    /\ UNCHANGED <<li, last_idx, runVars, netVars, httpVars, readVars>>

\* MUTANT of ReadLast: fi, the first index, is taken for li.
ReadFirst ==
    /\ take_pc = "last"
    /\ IF taken = <<>>
       THEN take_pc' = "combine" /\ li' = li
       ELSE take_pc' = "slice" /\ li' = Head(taken)
    /\ UNCHANGED <<lst, nb_state, taken, last_idx, runVars, netVars, httpVars, readVars>>

\* if u != []: li = int(u[-1]...)
ReadLast ==
    /\ take_pc = "last"
    /\ IF taken = <<>>
       THEN take_pc' = "combine" /\ li' = li
       ELSE take_pc' = "slice" /\ li' = End(taken)
    /\ UNCHANGED <<lst, nb_state, taken, last_idx, runVars, netVars, httpVars, readVars>>

\* MUTANT of SkipSeen: last_idx counts the samples of the slice from its first.
SkipFromFirst ==
    /\ take_pc = "slice"
    /\ taken' = Slice(taken, last_idx - li)
    /\ last_idx' = IF taken' = <<>> THEN last_idx ELSE Head(taken')
    /\ lst' = IF lst = "taken" THEN "garbage" ELSE lst
    /\ take_pc' = "combine" /\ li' = 0
    /\ UNCHANGED <<nb_state, runVars, netVars, httpVars, readVars>>

\* MUTANT of SkipSeen: the two numbers change places.
SkipSwapped ==
    /\ take_pc = "slice"
    /\ taken' = Slice(taken, li - last_idx)
    /\ last_idx' = IF taken' = <<>> THEN last_idx ELSE li
    /\ lst' = IF lst = "taken" THEN "garbage" ELSE lst
    /\ take_pc' = "combine" /\ li' = 0
    /\ UNCHANGED <<nb_state, runVars, netVars, httpVars, readVars>>

SkipSeen ==
    /\ take_pc = "slice"
    /\ taken' = Slice(taken, last_idx - li)
    /\ last_idx' = IF taken' = <<>> THEN last_idx ELSE li
    /\ lst' = IF lst = "taken" THEN "garbage" ELSE lst
    /\ take_pc' = "combine" /\ li' = 0
    /\ UNCHANGED <<nb_state, runVars, netVars, httpVars, readVars>>

\* combine_entries adds up every sample of the list; the next
\* round starts with another one.
CombineEntries ==
    /\ take_pc = "combine"
    /\ taken' = <<>>
    /\ lst' = IF lst = "taken" THEN "garbage" ELSE lst
    /\ take_pc' = "take"
    /\ UNCHANGED <<nb_state, li, last_idx, runVars, netVars, httpVars, readVars>>
-----------------------------------------------------------------------------
Measure == AppendEntry \/ TrimStates
Serve   == ReadLength \/ ReadOldest \/ ReadNewest \/ NewestMissing \/ SendReply
Receive == ReadReply \/ Combine \/ CheckState \/ Mark \/ MarkFails
Account == TakeStates \/ ReadLast \/ SkipSeen \/ CombineEntries

Next == Measure \/ Serve \/ Poll \/ Receive \/ Account

Spec == Init /\ [][Next]_vars

\* The two threads of network_state.run keep running.  combine_bs runs for
\* microseconds in rounds of 100 ms, so it does not for ever fall into the
\* window in which its list has just been taken away: the strong fairness.
\* Nothing is assumed of the connection.
Fairness == /\ WF_vars(Measure) /\ WF_vars(Account)
            /\ SF_vars(Combine /\ lst = "cur")

FairSpec == Spec /\ Fairness
-----------------------------------------------------------------------------
(* Types and invariants.                                                   *)

SampleList == Seq(1..MaxIdx)

TypeOK ==
    /\ idx \in 1..MaxIdx + 1 /\ run_pc \in {"append", "trim"}
    /\ states \in SampleList
    /\ Len(states) <= NS_QUEUE_SIZE + (IF run_pc = "trim" THEN 1 ELSE 0)
    /\ part \in BOOLEAN /\ gets \in Seq(0..MaxIdx) /\ replies \in Seq(SampleList)
    /\ http_pc \in {"idle", "oldest", "newest", "slice"}
    /\ oldest_idx \in 0..MaxIdx /\ l \in Nat /\ num_entries \in Int
    /\ read_pc \in {"read", "combine", "check", "mark"}
    /\ lst \in {"none", "cur", "taken", "garbage"}
    /\ new_lst \in SampleList /\ nb_state \in SampleList
    /\ Len(nb_state) <= NB_QUEUE_SIZE
    /\ nb_last_idx \in 0..MaxIdx
    /\ take_pc \in {"take", "last", "slice", "combine"}
    /\ taken \in SampleList /\ Len(taken) <= NB_QUEUE_SIZE
    /\ li \in 0..MaxIdx /\ last_idx \in 0..MaxIdx

\* Overlapping answers never put a sample twice, or out of order, into a list:
\* nb_state[-1] is its newest sample (combine_bs and the slices of run).
ListsIncreasing == Increasing(nb_state) /\ Increasing(taken)

\* rest_reply.index never slices with s[-num_entries:] for num_entries <= 0,
\* which would answer with old samples or the whole table: whatever the other
\* threads do between its reads, the sample asked for is not newer than s[l-1].
NumEntriesPositive == http_pc = "slice" => num_entries >= 1

\* The newest sample that this round of network_state.run will have accounted
\* for when it is over.
RoundAccounts == CASE take_pc = "last"  -> Larger(last_idx, End(taken))
                   [] take_pc = "slice" -> li
                   [] OTHER             -> last_idx

\* A poll never asks for the samples after one that run has not got: whatever
\* precedes nb_last_idx has been accounted for or is in a list run will use.
\* Otherwise samples lost in the neighbour would never be asked for again.
PollCovered == nb_last_idx <= Larger(End(nb_state), RoundAccounts)

\* A round never takes old answers for new ones: li, and with it last_idx, does
\* not go back, so last_idx - li is never a positive slice start.
LiNotBehind == take_pc = "slice" => last_idx <= li /\ li <= End(taken)
-----------------------------------------------------------------------------
(* The inductive invariant: the chain of ends, from last_idx over the      *)
(* lists of the neighbour and the answers under way to the newest sample.  *)

\* The newest sample in the neighbour's lists or accounted for.
Held == Larger(last_idx, Larger(End(taken), End(nb_state)))

\* The measuring controller numbers its samples in order.
StatesInv ==
    /\ Increasing(states)
    /\ End(states) = IF run_pc = "append" THEN idx - 1 ELSE idx
    /\ run_pc = "trim" => states # <<>> /\ idx <= MaxIdx

\* The request being served asks for nothing newer than the list's l-th sample.
ServeInv ==
    /\ \A k \in 1..Len(gets) : gets[k] <= End(states)
    /\ http_pc \in {"oldest", "newest"} =>
           /\ states # <<>> /\ l >= 1
           /\ oldest_idx <= End(states)
           /\ l <= Len(states) => oldest_idx <= states[l]
    /\ http_pc = "slice" => states # <<>>
    /\ NumEntriesPositive

\* Answers arrive in the order of their newest samples.
RepliesInv ==
    /\ \A k \in 1..Len(replies) :
           /\ Increasing(replies[k])
           /\ replies[k] # <<>> => Held <= End(replies[k])
           /\ End(replies[k]) <= End(states)
    /\ \A j, k \in 1..Len(replies) :
           j < k /\ replies[k] # <<>> => End(replies[j]) <= End(replies[k])

\* The answer being handled is newer than the lists, older than what follows.
NewInv ==
    /\ Increasing(new_lst)
    /\ lst = "cur" => read_pc = "combine"
    /\ lst = "taken" => read_pc = "combine" /\ nb_state = <<>> /\ take_pc # "take"
    /\ read_pc = "combine" =>
           /\ new_lst # <<>>
           /\ Held <= End(new_lst) /\ End(new_lst) <= End(states)
           /\ \A k \in 1..Len(replies) :
                  replies[k] # <<>> => End(new_lst) <= End(replies[k])

\* The lists of the neighbour.
TakenInv ==
    /\ ListsIncreasing /\ LiNotBehind
    /\ Held <= End(states)
    /\ taken # <<>> => last_idx <= End(taken)
    /\ nb_state # <<>> => last_idx <= End(nb_state) /\ End(taken) <= End(nb_state)
    /\ take_pc = "take" => taken = <<>>
    /\ take_pc = "slice" => taken # <<>>
    /\ PollCovered

IInv == TypeOK /\ StatesInv /\ ServeInv /\ RepliesInv /\ NewInv /\ TakenInv
-----------------------------------------------------------------------------
(* The abstract specification: produced is the newest sample of the table, *)
(* accounted is last_idx.                                                  *)

Feed == INSTANCE SampleFeed WITH produced <- End(states), accounted <- last_idx

\* The relay implements the feed: last_idx only moves forward, and only to
\* samples the peer has produced.
FeedSafety == Feed!Spec

\* In spite of the races, and of the exceptions they cause, the samples produced
\* are accounted for as long as the connection goes on handing answers over
\* (NeighborClient!GoesOn says when it does): the last sample is, and so every
\* one before it is by then accounted for or overtaken.
Freshness == []<><<ReadReply>>_vars => Feed!Fresh(MaxIdx)
-----------------------------------------------------------------------------
(* What the comments of the source say and the code does not do.           *)

\* combined1.py:485 "li - self.last_idx[i] last elements": what remains of a
\* taken list is at most the li - last_idx samples not seen before.
OnlyUnseen == [][take_pc = "slice" /\ take_pc' = "combine"
                    => Len(taken') <= li - last_idx]_vars

=============================================================================
