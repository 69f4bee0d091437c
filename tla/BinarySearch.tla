---------------------------- MODULE BinarySearch ----------------------------
(***************************************************************************)
(* The loop of the three binary searches of utils.h over a range of a      *)
(* string: binary_search() and binary_search_gpt() are given its ends,     *)
(* binarySearch() a length.  test_main.c passes strlen() and sizeof - 1    *)
(* for the upper end, so the NUL, which is not in order, may be in range.  *)
(***************************************************************************)
EXTENDS Integers

CONSTANTS
    Chars,      \* the values of the characters of a string
    MaxLen      \* bound: its length

ASSUME BinaryAssumption == Chars \subseteq Int \ {0} /\ MaxLen \in Nat

VARIABLES
    array, len,     \* the string and its length
    x,              \* the character that is looked for
    first, last,    \* the range that was asked for
    low, high,      \* what is left of it
    place           \* where x is, -1, or Undecided

input == <<array, len, x, first, last>>
binaryVars == <<array, len, x, first, last, low, high, place>>

Undecided == -2
NUL == 0

BinaryInit ==
    /\ len \in 0 .. MaxLen
    /\ array \in [0 .. len -> Chars \cup {NUL}]
    /\ \A i \in 0 .. len : array[i] = NUL <=> i = len
    /\ x \in Chars
    /\ first \in 0 .. len /\ last \in first - 1 .. len
    /\ low = first /\ high = last
    /\ place = Undecided

StillSearching == place = Undecided /\ low <= high

Mid == low + (high - low) \div 2

FoundIt == /\ StillSearching /\ array[Mid] = x
           /\ place' = Mid
           /\ UNCHANGED <<input, low, high>>

GoRight == /\ StillSearching /\ array[Mid] < x
           /\ low' = Mid + 1
           /\ UNCHANGED <<input, high, place>>

\* (mutant) one character too many is given up
GoLeftTooFar == /\ StillSearching /\ array[Mid] > x
                /\ high' = Mid - 2
                /\ UNCHANGED <<input, low, place>>

GoLeft == /\ StillSearching /\ array[Mid] > x
          /\ high' = Mid - 1
          /\ UNCHANGED <<input, low, place>>

FoundNowhere == /\ place = Undecided /\ low > high
                /\ place' = -1
                /\ UNCHANGED <<input, low, high>>

BinaryNext == FoundIt \/ GoRight \/ GoLeft \/ FoundNowhere

BinarySpec == BinaryInit /\ [][BinaryNext]_binaryVars

-----------------------------------------------------------------------------
\* The characters in the range are in order, the NUL aside.
Sorted == \A i, k \in first .. last : i <= k /\ k < len => array[i] <= array[k]

(***************************************************************************)
(* In a range that is in order, but for a NUL at its end, the search finds *)
(* x if x is there, and says -1 if it is not (utils.h:13-25, 27-41, 46-60; *)
(* test_main.c:17-29 has the NUL in the range).                            *)
(***************************************************************************)
FindsWhatIsThere ==
    Sorted /\ place # Undecided =>
        IF place = -1 THEN \A i \in first .. last : array[i] # x
        ELSE place \in first .. last /\ array[place] = x

(***************************************************************************)
(* In order or not, nothing outside the range is read.                     *)
(***************************************************************************)
StaysInRange == StillSearching => Mid \in first .. last
=============================================================================
