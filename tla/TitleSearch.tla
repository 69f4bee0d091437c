----------------------------- MODULE TitleSearch -----------------------------
(***************************************************************************)
(* searchArtist() of simple/search_title.c: a bad-character table that     *)
(* holds the last place of every character in the pattern, and a search    *)
(* that compares from the end of the pattern and shifts it to the right.   *)
(***************************************************************************)
EXTENDS Integers, Sequences

CONSTANTS Char, Texts, Patterns

ASSUME TitleAssumption ==
    Texts \subseteq Seq(Char) /\ Patterns \subseteq Seq(Char)

VARIABLES
    text, pattern,   \* the arguments
    result,          \* what the search returned, or Pending
    badChar,
    i,               \* the loop variable of badCharHeuristic()
    s,               \* the shift of the pattern with respect to the text
    j                \* the place in the pattern being compared

vars == <<text, pattern, result, badChar, i, s, j>>

\* Characters are numbered from 0, as in C.
n == Len(text)
m == Len(pattern)
Artist(k) == pattern[k + 1]
Text(k) == text[k + 1]

Pending == -2

Init ==
    /\ text \in Texts /\ pattern \in Patterns
    /\ result = Pending
    /\ badChar = [c \in Char |-> -1]
    /\ i = 0
    /\ s = 0
    /\ j = m - 1

\* (mutant) the first place of a character is kept, not the last
FillBadCharFirst ==
    /\ i < m
    /\ badChar' = IF badChar[Artist(i)] = -1
                  THEN [badChar EXCEPT ![Artist(i)] = i] ELSE badChar
    /\ i' = i + 1
    /\ UNCHANGED <<text, pattern, result, s, j>>

\* badChar[artist[i]] = i
FillBadChar ==
    /\ i < m
    /\ badChar' = [badChar EXCEPT ![Artist(i)] = i]
    /\ i' = i + 1
    /\ UNCHANGED <<text, pattern, result, s, j>>

\* The table is filled and the pattern at s does not pass the end.
Searching == result = Pending /\ i = m /\ s <= n - m

Mismatch == j >= 0 /\ Artist(j) # Text(s + j)

KeepReducing ==
    /\ Searching /\ j >= 0 /\ ~Mismatch
    /\ j' = j - 1
    /\ UNCHANGED <<text, pattern, result, badChar, i, s>>

Found ==
    /\ Searching /\ j < 0
    /\ result' = s
    /\ UNCHANGED <<text, pattern, badChar, i, s, j>>

\* (mutant) a mismatch may leave the pattern where it is
ShiftOrStay == LET d == j - badChar[Text(s + j)] IN IF d > 0 THEN d ELSE 0

\* How far a mismatch at j moves the pattern.
Shift == LET d == j - badChar[Text(s + j)] IN IF d > 0 THEN d ELSE 1

ShiftPattern ==
    /\ Searching /\ Mismatch
    /\ s' = s + Shift
    /\ j' = m - 1
    /\ UNCHANGED <<text, pattern, result, badChar, i>>

NotFound ==
    /\ result = Pending /\ i = m /\ s > n - m
    /\ result' = -1
    /\ UNCHANGED <<text, pattern, badChar, i, s, j>>

Next == FillBadChar \/ KeepReducing \/ Found \/ ShiftPattern \/ NotFound

Spec == Init /\ [][Next]_vars

FairSpec == Spec /\ WF_vars(Next)

-----------------------------------------------------------------------------
TypeOK == /\ text \in Seq(Char) /\ pattern \in Seq(Char)
          /\ result \in Int
          /\ badChar \in [Char -> Int]
          /\ i \in 0 .. m
          /\ s \in Nat
          /\ j \in -1 .. m - 1

Abstract == INSTANCE TextSearch

(***************************************************************************)
(* The search implements TextSearch: it returns the first occurrence, and  *)
(* -1 only if there is none; no shift jumps over an occurrence             *)
(* (simple/search_title.c:20-53).                                          *)
(***************************************************************************)
ImplementsSearch == Abstract!Spec

(***************************************************************************)
(* The search returns, whatever the text and the pattern are: no mismatch  *)
(* leaves the pattern where it is (simple/search_title.c:31-50).           *)
(***************************************************************************)
Terminates == <>(result # Pending)
=============================================================================
