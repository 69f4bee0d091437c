----------------------------- MODULE SkipSearch -----------------------------
(***************************************************************************)
(* boyerMooreSearch() of simple/ssl_read.c, which looks for a key in the   *)
(* answer of the metadata server: badChar holds the distance of a          *)
(* character from the end of the pattern, and a mismatch shifts by all of  *)
(* it, wherever in the pattern the mismatch is.                            *)
(***************************************************************************)
EXTENDS Integers, Sequences

CONSTANTS Char, Texts, Patterns    \* the texts and patterns over Char

VARIABLES
    text, pattern, result,
    badChar,
    i,          \* the loop variable of the preprocessing
    s, j

vars == <<text, pattern, result, badChar, i, s, j>>

\* Characters are numbered from 0, as in C.
n == Len(text)
m == Len(pattern)
Pattern(k) == pattern[k + 1]
Text(k) == text[k + 1]

Pending == -2

Init ==
    /\ text \in Texts /\ pattern \in Patterns
    /\ result = Pending
    /\ badChar = [c \in Char |-> m]
    /\ i = 0
    /\ s = 0
    /\ j = m - 1

FillBadChar ==
    /\ i < m - 1
    /\ badChar' = [badChar EXCEPT ![Pattern(i)] = m - 1 - i]
    /\ i' = i + 1
    /\ UNCHANGED <<text, pattern, result, s, j>>

Searching == result = Pending /\ i >= m - 1 /\ s <= n - m

Mismatch == j >= 0 /\ Pattern(j) # Text(s + j)

KeepReducing ==
    /\ Searching /\ j >= 0 /\ ~Mismatch
    /\ j' = j - 1
    /\ UNCHANGED <<text, pattern, result, badChar, i, s>>

Found ==
    /\ Searching /\ j < 0
    /\ result' = s
    /\ UNCHANGED <<text, pattern, badChar, i, s, j>>

Shift == LET d == badChar[Text(s + j)]
         IN  IF d > m - 1 - j THEN d ELSE m - 1 - j

ShiftPattern ==
    /\ Searching /\ Mismatch
    /\ s' = s + Shift
    /\ j' = m - 1
    /\ UNCHANGED <<text, pattern, result, badChar, i>>

NotFound ==
    /\ result = Pending /\ i >= m - 1 /\ s > n - m
    /\ result' = -1
    /\ UNCHANGED <<text, pattern, badChar, i, s, j>>

Next == FillBadChar \/ KeepReducing \/ Found \/ ShiftPattern \/ NotFound

Spec == Init /\ [][Next]_vars

-----------------------------------------------------------------------------
Abstract == INSTANCE TextSearch

(***************************************************************************)
(* "Pattern not found" (simple/ssl_read.c:423): the search returns -1 only *)
(* when the pattern is not there.                                          *)
(***************************************************************************)
NoMiss == result = -1 => \A p \in 0 .. n - m : ~Abstract!OccursAt(p)
=============================================================================
