---------------------------- MODULE RestartSearch ----------------------------
(***************************************************************************)
(* boyerMooreSearch() of SSE3_ok.c: one index runs over the text, back     *)
(* along a partial match and forward by badChar of the character that did  *)
(* not match, and the comparison restarts at the end of the pattern.       *)
(***************************************************************************)
EXTENDS Integers, Sequences

CONSTANTS Char, Texts, Patterns    \* the texts and patterns over Char

VARIABLES
    text, pattern, result,
    badChar,
    f,          \* the loop variable of the preprocessing
    i,          \* the index into the text
    j           \* the index into the pattern

vars == <<text, pattern, result, badChar, f, i, j>>

\* Characters are numbered from 0, as in C.
n == Len(text)
m == Len(pattern)
Pattern(k) == pattern[k + 1]
Text(k) == text[k + 1]

\* Two values the function never returns: it has not returned yet, and it
\* has read memory in front of the text.
Pending == n + 1
Strayed == n + 2

Init ==
    /\ text \in Texts /\ pattern \in Patterns
    /\ result = Pending
    /\ badChar = [c \in Char |-> m]
    /\ f = 0
    /\ i = m - 1
    /\ j = m - 1

FillBadChar ==
    /\ f < m - 1
    /\ badChar' = [badChar EXCEPT ![Pattern(f)] = m - 1 - f]
    /\ f' = f + 1
    /\ UNCHANGED <<text, pattern, result, i, j>>

\* The outer loop tests i only before a comparison starts.
Started == j < m - 1
Searching == result = Pending /\ f >= m - 1 /\ (Started \/ i < n)

Match ==
    /\ Searching /\ j >= 0 /\ i >= 0 /\ Pattern(j) = Text(i)
    /\ i' = i - 1
    /\ j' = j - 1
    /\ UNCHANGED <<text, pattern, result, badChar, f>>

Found ==
    /\ Searching /\ j < 0
    /\ result' = i + 1
    /\ UNCHANGED <<text, pattern, badChar, f, i, j>>

\* (mutant) every mismatch shifts by the whole pattern
ShiftWhole ==
    /\ Searching /\ j >= 0 /\ i >= 0 /\ Pattern(j) # Text(i)
    /\ i' = i + m
    /\ j' = m - 1
    /\ UNCHANGED <<text, pattern, result, badChar, f>>

Shift ==
    /\ Searching /\ j >= 0 /\ i >= 0 /\ Pattern(j) # Text(i)
    /\ i' = i + badChar[Text(i)]
    /\ j' = m - 1
    /\ UNCHANGED <<text, pattern, result, badChar, f>>

\* The comparison has restarted less than a pattern into the text and runs
\* out at its front: what happens next depends on the memory there.
Stray ==
    /\ Searching /\ j >= 0 /\ i < 0
    /\ result' = Strayed
    /\ UNCHANGED <<text, pattern, badChar, f, i, j>>

NotFound ==
    /\ result = Pending /\ f >= m - 1 /\ ~Started /\ i >= n
    /\ result' = -1
    /\ UNCHANGED <<text, pattern, badChar, f, i, j>>

Next == FillBadChar \/ Match \/ Found \/ Shift \/ Stray \/ NotFound

Spec == Init /\ [][Next]_vars

-----------------------------------------------------------------------------
Abstract == INSTANCE TextSearch

(***************************************************************************)
(* An answer of the search is right: the first occurrence, or -1 if there  *)
(* is none.  However far the index has moved back, the next shift never    *)
(* jumps over an occurrence (SSE3_ok.c:222-241).                           *)
(***************************************************************************)
AnswersRight == result \in -1 .. n => Abstract!IsAnswer(result)
=============================================================================
