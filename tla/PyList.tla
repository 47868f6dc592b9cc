------------------------------- MODULE PyList -------------------------------
(***************************************************************************)
(* The Python list operations that combined1.py applies to its tables of   *)
(* samples, over TLA+ sequences.  An index beyond either end of the list   *)
(* is clamped by a slice and never an error, which is what makes s[-0:]    *)
(* the whole list and not the empty one.                                   *)
(***************************************************************************)
EXTENDS Integers, Sequences

\* The number of elements that s[k:] leaves out at the front.
SliceStart(len, k) ==
    IF k >= 0 THEN IF k <= len THEN k ELSE len
              ELSE IF k + len >= 0 THEN k + len ELSE 0

\* s[k:]
Slice(s, k) == SubSeq(s, SliceStart(Len(s), k) + 1, Len(s))

\* The list after "del s[:-n]", n > 0: at most its last n elements.
KeepLast(s, n) == Slice(s, -n)

\* The last element of a list of sample numbers, which start at 1; 0 if empty.
End(s) == IF s = <<>> THEN 0 ELSE s[Len(s)]

\* Strictly increasing lists of integers, in the form that does not need an
\* induction over the positions: elements are at least as far apart as those.
Increasing(s) == \A i, j \in 1..Len(s) : i < j => s[j] - s[i] >= j - i

\* The larger of two numbers.
Larger(a, b) == IF a >= b THEN a ELSE b
=============================================================================
