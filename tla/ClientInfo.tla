----------------------------- MODULE ClientInfo -----------------------------
(***************************************************************************)
(* How the UDP server keeps the readings of the switches on the way to a   *)
(* host (client_info, client_server/sdn_manager.h) in step with the table  *)
(* the controller keeps for that way (network_state and rest_reply,        *)
(* combined1.py), for one direction: over answers that are lost with the   *)
(* connection, hosts that leave and come back and restarts of the          *)
(* controller, whose numbers then start again while fidx (bidx) stays.     *)
(*                                                                         *)
(* The entries of the table are their numbers; each holds a reading of     *)
(* every switch.  StatsRelay has the interleavings of the controller's     *)
(* threads; here an answer is made in one step.                            *)
(***************************************************************************)
EXTENDS PyList, FiniteSets

CONSTANTS NS_QUEUE_SIZE,  \* entries in the table of the controller (15)
          Switches,       \* on the way to the host, 1..Switches
          MaxIdx,         \* bound: entries the controller makes in one run
          MaxEpoch        \* bound: runs of the controller, each MaxIdx entries longer

ASSUME ClientInfoAssumption ==
    /\ NS_QUEUE_SIZE \in Nat \ {0} /\ Switches \in Nat
    /\ MaxIdx \in Nat /\ MaxEpoch \in Nat \ {0}

VARIABLES
    epoch,    \* run of the controller
    states,   \* its table
    idx,      \* number of its newest entry, 0 if none
    fidx,     \* client_info.fidx or bidx
    asked,    \* oldest_idx of the request under way, in a list of at most one
    answers,  \* the answer under way, in a list of at most one
    message,  \* what process_message has not yet read of an answer
    added,    \* history: [switch -> readings its filters got, in order]
    trimmed   \* history: entries of this run that have left the table

vars == <<epoch, states, idx, fidx, asked, answers, message, added, trimmed>>

Limit(e) == e * MaxIdx
Reading(n) == <<epoch, n>>

\* Type correctness of the controller, the exchange and client_info.
TypeOK ==
    /\ epoch \in 1..MaxEpoch /\ idx \in 0..Limit(epoch)
    /\ states = [i \in 1..Len(states) |-> idx - Len(states) + i]
    /\ Len(states) <= NS_QUEUE_SIZE
    /\ fidx \in -1..Limit(epoch) /\ trimmed \subseteq 1..idx
    /\ Len(asked) + Len(answers) <= 1
    /\ \A i \in 1..Len(asked) : asked[i] \in 0..Limit(epoch)
    /\ \A i \in 1..Len(answers) : Len(answers[i]) <= NS_QUEUE_SIZE
    /\ Len(message) <= NS_QUEUE_SIZE

Init ==
    /\ epoch = 1 /\ states = <<>> /\ idx = 0 /\ fidx = -1
    /\ asked = <<>> /\ answers = <<>> /\ message = <<>>
    /\ added = [w \in 1..Switches |-> <<>>] /\ trimmed = {}
-----------------------------------------------------------------------------
(* The controller.                                                         *)

\* MUTANT of Trim: the table is not trimmed.
TrimNothing(s) == s

Trim(s) == KeepLast(s, NS_QUEUE_SIZE)

\* network_state.run adds an entry and trims the table.
Sample ==
    /\ idx < Limit(epoch)
    /\ idx' = idx + 1
    /\ states' = Trim(Append(states, idx'))
    /\ trimmed' = trimmed \cup {n \in 1..idx : \A i \in 1..Len(states') : states'[i] # n}
    /\ UNCHANGED <<epoch, fidx, asked, answers, message, added>>

\* MUTANT of NumEntries: the "+ 1" is missing.
NumEntriesShort(oldest) ==
    LET n == states[Len(states)] - Larger(states[1], oldest)
    IN  IF n <= Len(states) THEN n ELSE Len(states)

\* rest_reply.index with max_entries = 0; less than 1 if the number asked for
\* is from an earlier run.
NumEntries(oldest) ==
    LET n == states[Len(states)] - Larger(states[1], oldest) + 1
    IN  IF n <= Len(states) THEN n ELSE Len(states)

\* A table without entries is answered by a text, which ends the server
\* (AssertionHolds of SdnManager).
Index ==
    /\ asked # <<>> /\ states # <<>>
    /\ answers' = <<Slice(states, -NumEntries(Head(asked)))>>
    /\ asked' = <<>>
    /\ UNCHANGED <<epoch, states, idx, fidx, message, added, trimmed>>

\* The connection is lost with what is under way: try_connect clears requests.
ConnectionLost ==
    /\ asked # <<>> \/ answers # <<>>
    /\ asked' = <<>> /\ answers' = <<>>
    /\ UNCHANGED <<epoch, states, idx, fidx, message, added, trimmed>>

\* Not while process_message runs: nothing it reads would change.
Restart ==
    /\ epoch < MaxEpoch /\ message = <<>>
    /\ epoch' = epoch + 1 /\ states' = <<>> /\ idx' = 0 /\ trimmed' = {}
    /\ asked' = <<>> /\ answers' = <<>>
    /\ UNCHANGED <<fidx, message, added>>
-----------------------------------------------------------------------------
(* The server.                                                             *)

\* request_wait: no request before the last one is answered.
Ask ==
    /\ asked = <<>> /\ answers = <<>> /\ message = <<>>
    /\ asked' = <<IF fidx >= 0 THEN fidx ELSE 0>>
    /\ UNCHANGED <<epoch, states, idx, fidx, answers, message, added, trimmed>>

\* process_message goes through the entries of the answer.
ProcessMessage ==
    /\ answers # <<>> /\ message = <<>>
    /\ message' = Head(answers) /\ answers' = <<>>
    /\ UNCHANGED <<epoch, states, idx, fidx, asked, added, trimmed>>

\* MUTANT of IsNew: the entry asked from counts as new.
IsNotOlder(n) == n >= fidx

IsNew(n) == n > fidx

\* One entry: every switch compares its number with fidx, which is replaced
\* after the last of them, also by a smaller number.
ReadEntry ==
    /\ message # <<>>
    /\ LET n == Head(message)
       IN  /\ added' = [w \in 1..Switches |->
                           IF IsNew(n) THEN Append(added[w], Reading(n)) ELSE added[w]]
           /\ fidx' = n
    /\ message' = Tail(message)
    /\ UNCHANGED <<epoch, states, idx, asked, answers, trimmed>>

\* The last session of the host ends and a new one registers it again; an
\* answer to the old request is given to the new client_info.
Rejoin ==
    /\ fidx >= 0 /\ message = <<>>
    /\ fidx' = -1 /\ added' = [w \in 1..Switches |-> <<>>]
    /\ UNCHANGED <<epoch, states, idx, asked, answers, message, trimmed>>
-----------------------------------------------------------------------------
Next ==
    \/ Sample \/ Index \/ ConnectionLost \/ Restart
    \/ Ask \/ ProcessMessage \/ ReadEntry \/ Rejoin

Spec == Init /\ [][Next]_vars
-----------------------------------------------------------------------------
(* Properties.                                                             *)

Precedes(r, s) == r[1] < s[1] \/ (r[1] = s[1] /\ r[2] < s[2])

\* No filter gets a reading twice or an older one after a newer one
\* (sdn_manager.h:240, 259): requests repeat the entry asked from, answers get
\* lost, and after a restart s[-num_entries:] (combined1.py:862) may be the
\* whole table.
OnceInOrder ==
    \A w \in 1..Switches : \A i \in 1..(Len(added[w]) - 1) :
        Precedes(added[w][i], added[w][i + 1])

\* Between two readings of a run that were used none was skipped unless it had
\* left the table (combined1.py:858-862, sdn_manager.h:437).
NoneSkipped ==
    \A w \in 1..Switches : \A i \in 1..(Len(added[w]) - 1) :
        LET r == added[w][i]  s == added[w][i + 1]
        IN  r[1] = epoch /\ s[1] = epoch => (r[2] + 1)..(s[2] - 1) \subseteq trimmed
=============================================================================
