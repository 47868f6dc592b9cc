----------------------------- MODULE SampleFeed -----------------------------
(***************************************************************************)
(* What the exchange of samples between two controllers promises to the    *)
(* controller that assembles path states from them (combined1.py:161,      *)
(* "A class to obtain network state every 50ms"): the peer produces        *)
(* samples 1, 2, 3, ...; the assembling controller accounts for ever newer *)
(* ones, never for one that was not produced and never back in time.       *)
(***************************************************************************)
EXTENDS Integers

VARIABLES produced,   \* number of the newest sample of the peer
          accounted   \* number of the newest sample taken into account

feedVars == <<produced, accounted>>

Init == produced = 0 /\ accounted = 0

Produce == produced' = produced + 1 /\ accounted' = accounted

\* Samples may be skipped: both tables hold a bounded number of them.
Account == /\ accounted' \in accounted + 1 .. produced
           /\ produced' = produced

Next == Produce \/ Account

Spec == Init /\ [][Next]_feedVars

\* Every sample is eventually accounted for, or overtaken by a newer one.
Fresh(n) == (produced >= n) ~> (accounted >= n)
=============================================================================
