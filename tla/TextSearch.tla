----------------------------- MODULE TextSearch -----------------------------
(***************************************************************************)
(* What the three string searches of the repository promise: the index of  *)
(* the first occurrence of the pattern in the text, or -1.  Characters are *)
(* numbered from 0, as in C.                                               *)
(***************************************************************************)
EXTENDS Integers, Sequences

CONSTANTS
    Char,         \* the characters
    Texts,        \* the texts and patterns considered
    Patterns

VARIABLES text, pattern, result

Pending == -2
n == Len(text)
m == Len(pattern)

\* The pattern stands at index p of the text.
OccursAt(p) == /\ p \in 0 .. n - m
               /\ \A k \in 0 .. m - 1 : text[p + k + 1] = pattern[k + 1]

IsAnswer(r) == \/ OccursAt(r) /\ \A p \in 0 .. r - 1 : ~OccursAt(p)
               \/ r = -1 /\ \A p \in 0 .. n - m : ~OccursAt(p)

Init == text \in Texts /\ pattern \in Patterns /\ result = Pending

Answer == /\ result = Pending
          /\ IsAnswer(result')
          /\ UNCHANGED <<text, pattern>>

Spec == Init /\ [][Answer]_<<text, pattern, result>>
=============================================================================
