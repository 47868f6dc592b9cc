------------------------------ MODULE Exchange ------------------------------
(***************************************************************************)
(* What a connection to a neighbour promises to the controller that polls  *)
(* it: every answer is that of the oldest request without one, each        *)
(* request is answered at most once, and a closed connection, which is     *)
(* never made again, owes nothing.  An exception in a callback or a race   *)
(* of the two threads breaks the promise for good.                         *)
(***************************************************************************)
EXTENDS Integers, Sequences

CONSTANT Path

VARIABLES open,      \* the connection has not been closed
          broken,    \* an exception or a race has happened
          asked,     \* paths of the requests without answer, the oldest first
          answered   \* the last answer: the list it went to and what it is about

exchangeVars == <<open, broken, asked, answered>>

Init == /\ open = TRUE /\ broken = FALSE
        /\ asked = <<>> /\ answered = [to |-> 0, of |-> 0]

Ask == /\ open /\ \E p \in Path : asked' = Append(asked, p)
       /\ UNCHANGED <<open, answered>>

Answer == /\ open /\ asked # <<>>
          /\ answered' = [to |-> Head(asked), of |-> Head(asked)]
          /\ asked' = Tail(asked) /\ UNCHANGED open

Close == /\ open /\ open' = FALSE /\ asked' = <<>>
         /\ UNCHANGED answered

Next == \/ (Ask \/ Answer \/ Close) /\ UNCHANGED broken
        \/ broken' = TRUE

Spec == Init /\ [][Next]_exchangeVars
=============================================================================
