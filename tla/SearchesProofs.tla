--------------------------- MODULE SearchesProofs ---------------------------
(***************************************************************************)
(* What the searches answer, for every alphabet, text and pattern:         *)
(* searchArtist() the first occurrence, boyerMooreSearch() of SSE3_ok.c    *)
(* the same if it answers at all; and the binary searches of utils.h, for  *)
(* strings of every length.                                                *)
(***************************************************************************)
EXTENDS MCSearches, TLAPS

-----------------------------------------------------------------------------
(* searchArtist() *)

\* badChar[c] is at or behind the last place of c among those looked at.
Table == \A c \in Char :
            /\ badChar[c] \in -1 .. i - 1
            /\ \A k \in 0 .. i - 1 : k > badChar[c] => Artist(k) # c

\* What has been compared agrees.
Matched == \A k \in j + 1 .. m - 1 : Artist(k) = Text(s + k)

\* No occurrence has been passed.
NoneBefore == \A p \in 0 .. s - 1 : ~Abstract!OccursAt(p)

IInv == TypeOK /\ Table /\ Matched /\ NoneBefore

-----------------------------------------------------------------------------
\* The lengths are numbers, and characters are characters.
LEMMA Lengths ==
    ASSUME TypeOK
    PROVE  /\ n \in Nat /\ m \in Nat
           /\ \A k \in 0 .. m - 1 : Artist(k) \in Char
           /\ \A k \in 0 .. n - 1 : Text(k) \in Char
BY DEF TypeOK, n, m, Artist, Text

LEMMA InitIInv == Init => IInv
<1> SUFFICES ASSUME Init PROVE IInv
  OBVIOUS
<1>1. text \in Seq(Char) /\ pattern \in Seq(Char)
  BY TitleAssumption DEF Init
<1>2. n \in Nat /\ m \in Nat
  BY <1>1 DEF n, m
<1>3. TypeOK
  BY <1>1, <1>2 DEF Init, TypeOK, Pending
<1>4. Table /\ Matched /\ NoneBefore
  BY <1>2 DEF Init, Table, Matched, NoneBefore
<1> QED
  BY <1>3, <1>4 DEF IInv

\* A shift passes no occurrence: at a place in between, the character that
\* did not match would stand in the pattern further right than its last
\* place.
LEMMA ShiftPassesNone ==
    ASSUME IInv, Searching, Mismatch,
           NEW p \in s .. s + Shift - 1
    PROVE  ~Abstract!OccursAt(p)
<1>1. /\ n \in Nat /\ m \in Nat /\ s \in Nat /\ j \in 0 .. m - 1
      /\ s <= n - m /\ i = m
  BY Lengths DEF IInv, TypeOK, Searching, Mismatch
<1>2. Text(s + j) \in Char
  BY <1>1, Lengths DEF IInv
<1>3. /\ badChar[Text(s + j)] \in -1 .. m - 1
      /\ \A k \in 0 .. m - 1 : k > badChar[Text(s + j)] => Artist(k) # Text(s + j)
  BY <1>1, <1>2 DEF IInv, Table
<1>4. CASE p = s
  BY <1>1, <1>4 DEF Mismatch, Artist, Text, Abstract!OccursAt, n, m, Abstract!m
<1>5. CASE p > s
  <2>1. p - s < j - badChar[Text(s + j)]
    BY <1>1, <1>3, <1>5 DEF Shift
  <2> DEFINE k == j - (p - s)
  <2>2. k \in 0 .. m - 1 /\ k > badChar[Text(s + j)] /\ p + k = s + j
    BY <1>1, <1>3, <1>5, <2>1
  <2>3. Artist(k) # Text(p + k)
    BY <1>3, <2>2
  <2> HIDE DEF k
  <2> QED
    BY <2>2, <2>3 DEF Artist, Text, Abstract!OccursAt, m, Abstract!m
<1> QED
  BY <1>1, <1>4, <1>5

LEMMA Step == IInv /\ [Next]_vars => IInv'
<1> SUFFICES ASSUME IInv, [Next]_vars PROVE IInv'
  OBVIOUS
<1>1. n \in Nat /\ m \in Nat
  BY Lengths DEF IInv
<1>2. text' = text /\ pattern' = pattern /\ n' = n /\ m' = m
  BY DEF Next, FillBadChar, KeepReducing, Found, ShiftPattern, NotFound, vars, n, m
<1>3. \A p : Abstract!OccursAt(p)' <=> Abstract!OccursAt(p)
  BY <1>2 DEF Abstract!OccursAt, Abstract!n, Abstract!m
<1>4. CASE FillBadChar
  <2>1. /\ i \in 0 .. m - 1 /\ i' = i + 1
        /\ badChar' = [badChar EXCEPT ![Artist(i)] = i]
        /\ UNCHANGED <<result, s, j>>
    BY <1>1, <1>4 DEF FillBadChar, IInv, TypeOK
  <2>2. Artist(i) \in Char
    BY <2>1, Lengths DEF IInv
  <2>3. TypeOK'
    BY <1>1, <1>2, <2>1, <2>2 DEF IInv, TypeOK
  <2>4. Table'
    <3> SUFFICES ASSUME NEW c \in Char
                 PROVE  /\ badChar'[c] \in -1 .. i
                        /\ \A k \in 0 .. i : k > badChar'[c] => Artist(k) # c
      BY <1>2, <2>1 DEF Table, Artist
    <3>1. badChar'[c] = IF c = Artist(i) THEN i ELSE badChar[c]
      BY <2>1, <2>2 DEF IInv, TypeOK
    <3>2. /\ badChar[c] \in -1 .. i - 1
          /\ \A k \in 0 .. i - 1 : k > badChar[c] => Artist(k) # c
      BY DEF IInv, Table
    <3>3. \A k \in 0 .. i : k \in 0 .. i - 1 \/ k = i
      BY <2>1
    <3> QED
      BY <2>1, <3>1, <3>2, <3>3
  <2>5. Matched' /\ NoneBefore'
    BY <1>2, <1>3, <2>1 DEF IInv, Matched, NoneBefore, Artist, Text
  <2> QED
    BY <2>3, <2>4, <2>5 DEF IInv
<1>5. CASE KeepReducing
  <2>1. /\ j \in 0 .. m - 1 /\ j' = j - 1 /\ Artist(j) = Text(s + j)
        /\ UNCHANGED <<result, badChar, i, s>>
    BY <1>1, <1>5 DEF KeepReducing, Mismatch, IInv, TypeOK
  <2>2. TypeOK'
    BY <1>1, <1>2, <2>1 DEF IInv, TypeOK
  <2>3. Matched'
    <3>1. \A k \in j .. m - 1 : k = j \/ k \in j + 1 .. m - 1
      BY <1>1, <2>1
    <3> QED
      BY <1>2, <2>1, <3>1 DEF IInv, Matched, Artist, Text
  <2>4. Table' /\ NoneBefore'
    BY <1>2, <1>3, <2>1 DEF IInv, Table, NoneBefore, Artist
  <2> QED
    BY <2>2, <2>3, <2>4 DEF IInv
<1>6. CASE Found \/ NotFound
  <2>1. /\ UNCHANGED <<badChar, i, s, j>>
        /\ result' \in {s, -1}
    BY <1>6 DEF Found, NotFound
  <2>2. TypeOK'
    BY <1>1, <1>2, <2>1 DEF IInv, TypeOK
  <2> QED
    BY <1>2, <1>3, <2>1, <2>2
       DEF IInv, Table, Matched, NoneBefore, Artist, Text
<1>7. CASE ShiftPattern
  <2>1. /\ Searching /\ Mismatch /\ s' = s + Shift /\ j' = m - 1
        /\ UNCHANGED <<result, badChar, i>>
    BY <1>7 DEF ShiftPattern
  <2>2. Shift \in Nat
    <3>1. Text(s + j) \in Char
      <4>1. s + j \in 0 .. n - 1
        BY <1>1, <2>1 DEF Searching, Mismatch, IInv, TypeOK
      <4> QED
        BY <4>1, Lengths DEF IInv
    <3> QED
      BY <3>1 DEF Shift, IInv, TypeOK
  <2>3. TypeOK'
    BY <1>1, <1>2, <2>1, <2>2 DEF IInv, TypeOK
  <2>4. Matched'
    BY <1>1, <1>2, <2>1 DEF Matched
  <2>5. NoneBefore'
    <3>1. \A p \in 0 .. s + Shift - 1 : p \in 0 .. s - 1 \/ p \in s .. s + Shift - 1
      BY <2>2 DEF IInv, TypeOK
    <3>2. \A p \in s .. s + Shift - 1 : ~Abstract!OccursAt(p)
      BY <2>1, ShiftPassesNone
    <3>3. \A p \in 0 .. s + Shift - 1 : ~Abstract!OccursAt(p)
      BY <3>1, <3>2 DEF IInv, NoneBefore
    <3>4. s' = s + Shift /\ s \in Nat
      BY <2>1 DEF IInv, TypeOK
    <3>5. \A p \in 0 .. s' - 1 : ~Abstract!OccursAt(p)'
      BY <1>3, <2>2, <3>3, <3>4
    <3> QED
      BY <3>5 DEF NoneBefore
  <2>6. Table'
    BY <1>2, <2>1 DEF IInv, Table, Artist
  <2> QED
    BY <2>3, <2>4, <2>5, <2>6 DEF IInv
<1>8. CASE UNCHANGED vars
  BY <1>2, <1>3, <1>8
     DEF vars, IInv, TypeOK, Table, Matched, NoneBefore, Artist, Text
<1> QED
  BY <1>4, <1>5, <1>6, <1>7, <1>8 DEF Next

THEOREM IInvHolds == Spec => []IInv
BY InitIInv, Step, PTL DEF Spec

\* The indices stay in the text and in the pattern
\* (simple/search_title.c:31-50).
THEOREM TypeCorrect == Spec => []TypeOK
BY IInvHolds, PTL DEF IInv

\* A step of the search is an answer, or no answer yet.
LEMMA AnswerStep == IInv /\ [Next]_vars => [Abstract!Answer]_<<text, pattern, result>>
<1> SUFFICES ASSUME IInv, Next
             PROVE  \/ Abstract!Answer
                    \/ UNCHANGED <<text, pattern, result>>
  BY DEF vars
<1>1. n \in Nat /\ m \in Nat /\ s \in Nat
  BY Lengths DEF IInv, TypeOK
<1>2. Abstract!n = n /\ Abstract!m = m
  BY DEF Abstract!n, Abstract!m, n, m
<1>3. CASE Found
  <2>1. /\ result = Pending /\ result' = s /\ UNCHANGED <<text, pattern>>
        /\ s <= n - m /\ j = -1
    BY <1>1, <1>3 DEF Found, Searching, IInv, TypeOK
  <2>2. Abstract!OccursAt(s)
    BY <1>1, <1>2, <2>1 DEF IInv, Matched, Artist, Text, Abstract!OccursAt
  <2>3. Abstract!IsAnswer(s)
    BY <2>2 DEF IInv, NoneBefore, Abstract!IsAnswer
  <2> QED
    BY <2>1, <2>3 DEF Abstract!Answer, Pending, Abstract!Pending
<1>4. CASE NotFound
  <2>1. /\ result = Pending /\ result' = -1 /\ UNCHANGED <<text, pattern>>
        /\ s > n - m
    BY <1>4 DEF NotFound
  <2>2. \A p \in 0 .. n - m : ~Abstract!OccursAt(p)
    BY <1>1, <2>1 DEF IInv, NoneBefore
  <2>3. Abstract!IsAnswer(-1)
    BY <1>2, <2>2 DEF Abstract!IsAnswer
  <2> QED
    BY <2>1, <2>3 DEF Abstract!Answer, Pending, Abstract!Pending
<1>5. CASE FillBadChar \/ KeepReducing \/ ShiftPattern
  BY <1>5 DEF FillBadChar, KeepReducing, ShiftPattern
<1> QED
  BY <1>3, <1>4, <1>5 DEF Next

\* searchArtist() implements the abstract search: its answer is the first
\* occurrence, or -1 when there is none (simple/search_title.c:20-53).
THEOREM Implements == Spec => ImplementsSearch
<1>1. Init => Abstract!Init
  BY DEF Init, Abstract!Init, Pending, Abstract!Pending
<1> QED
  BY <1>1, AnswerStep, IInvHolds, PTL DEF Spec, ImplementsSearch, Abstract!Spec

-----------------------------------------------------------------------------
(* boyerMooreSearch() of SSE3_ok.c *)

\* badChar of a character is at most the distance of any of its places but
\* the last from the end of the pattern.
Distances == \A k \in 0 .. m - 2 : k < reF => reBadChar[Artist(k)] <= m - 1 - k

RestartTypes ==
    /\ text \in Seq(Char) /\ pattern \in Seq(Char)
    /\ reBadChar \in [Char -> 0 .. m]
    /\ reF \in Nat
    /\ reI \in Int /\ reI >= -1
    /\ reJ \in -1 .. m - 1

\* What has been compared agrees, and lies in the text.
Agrees == /\ \A k \in reJ + 1 .. m - 1 : Artist(k) = Text(reI - reJ + k)
          /\ reJ < m - 1 => reI - reJ <= n - m

\* No occurrence ends in front of the place where the comparison began, be
\* it behind or in front of the one before.
NonePassed == \A p \in 0 .. n - m : Abstract!OccursAt(p) => reI - reJ <= p

RestartInv == RestartTypes /\ Distances /\ Agrees /\ NonePassed /\ Restart!AnswersRight

LEMMA RestartLengths ==
    ASSUME text \in Seq(Char), pattern \in Seq(Char)
    PROVE  /\ n \in Nat /\ m \in Nat
           /\ \A k \in 0 .. m - 1 : Artist(k) \in Char
           /\ \A k \in 0 .. n - 1 : Text(k) \in Char
BY DEF n, m, Artist, Text

\* The modules count alike.
LEMMA SameNames ==
    /\ Restart!n = n /\ Restart!m = m
    /\ Abstract!n = n /\ Abstract!m = m
    /\ \A k : Restart!Pattern(k) = Artist(k) /\ Restart!Text(k) = Text(k)
    /\ \A p : Restart!Abstract!OccursAt(p) <=> Abstract!OccursAt(p)
    /\ \A r : Restart!Abstract!IsAnswer(r) <=> Abstract!IsAnswer(r)
<1>1. /\ Restart!n = n /\ Restart!m = m /\ Abstract!n = n /\ Abstract!m = m
      /\ Restart!Abstract!n = n /\ Restart!Abstract!m = m
  BY DEF Restart!n, Restart!m, Abstract!n, Abstract!m, n, m, Restart!Abstract!n, Restart!Abstract!m
<1>2. \A k : Restart!Pattern(k) = Artist(k) /\ Restart!Text(k) = Text(k)
  BY DEF Restart!Pattern, Restart!Text, Artist, Text
<1>3. \A p : Restart!Abstract!OccursAt(p) <=> Abstract!OccursAt(p)
  BY <1>1 DEF Restart!Abstract!OccursAt, Abstract!OccursAt
<1> QED
  BY <1>1, <1>2, <1>3 DEF Restart!Abstract!IsAnswer, Abstract!IsAnswer

\* The next comparison ends at or in front of every occurrence: one that
\* holds the character that did not match has it further left than j, and
\* one that does not lies behind it.
LEMMA RestartPassesNone ==
    ASSUME RestartInv, Restart!Shift,
           NEW p \in 0 .. n - m, Abstract!OccursAt(p)
    PROVE  reI + reBadChar[Text(reI)] - (m - 1) <= p
<1>1. /\ n \in Nat /\ m \in Nat
      /\ reI \in Nat /\ reJ \in 0 .. m - 1 /\ reF \in Nat /\ reF >= m - 1
      /\ Artist(reJ) # Text(reI)
  BY RestartLengths, SameNames DEF Restart!Shift, Restart!Searching, RestartInv, RestartTypes
<1>2. reI \in 0 .. n - 1
  BY <1>1, SameNames DEF Restart!Shift, Restart!Searching, Restart!Started, RestartInv, Agrees
<1>3. Text(reI) \in Char
  BY <1>2, RestartLengths DEF RestartInv, RestartTypes
<1>4. reBadChar[Text(reI)] \in 0 .. m
  BY <1>3 DEF RestartInv, RestartTypes
<1>5. reI - reJ <= p
  BY DEF RestartInv, NonePassed
<1>6. CASE p > reI
  BY <1>1, <1>4, <1>6
<1>7. CASE p <= reI
  <2> DEFINE k == reI - p
  <2>1. k \in 0 .. reJ
    BY <1>1, <1>5, <1>7
  <2>2. Artist(k) = Text(reI)
    <3>1. k \in 0 .. m - 1 /\ p + k = reI
      BY <1>1, <2>1
    <3>2. text[p + k + 1] = pattern[k + 1]
      BY <3>1, SameNames DEF Abstract!OccursAt
    <3> QED
      BY <3>1, <3>2 DEF Artist, Text
  <2>3. k # reJ
    BY <1>1, <2>2
  <2>4. k \in 0 .. m - 2 /\ k < reF
    BY <1>1, <2>1, <2>3
  <2>5. reBadChar[Text(reI)] <= m - 1 - k
    BY <2>2, <2>4 DEF RestartInv, Distances
  <2> QED
    BY <1>1, <1>4, <2>5
<1> QED
  BY <1>1, <1>6, <1>7

LEMMA RestartStart == Restart!Init => RestartInv
<1> SUFFICES ASSUME Restart!Init PROVE RestartInv
  OBVIOUS
<1>1. text \in Seq(Char) /\ pattern \in Seq(Char)
  BY TitleAssumption DEF Restart!Init
<1>2. n \in Nat /\ m \in Nat
  BY <1>1, RestartLengths
<1>3. /\ reResult = n + 1 /\ reBadChar = [c \in Char |-> m] /\ reF = 0
      /\ reI = m - 1 /\ reJ = m - 1
  BY SameNames DEF Restart!Init, Restart!Pending
<1>4. RestartTypes
  BY <1>1, <1>2, <1>3 DEF RestartTypes
<1>5. Distances /\ Agrees /\ NonePassed
  BY <1>2, <1>3 DEF Distances, Agrees, NonePassed
<1>6. Restart!AnswersRight
  BY <1>2, <1>3, SameNames DEF Restart!AnswersRight
<1> QED
  BY <1>4, <1>5, <1>6 DEF RestartInv

LEMMA RestartStep == RestartInv /\ [Restart!Next]_Restart!vars => RestartInv'
<1> SUFFICES ASSUME RestartInv, [Restart!Next]_Restart!vars PROVE RestartInv'
  OBVIOUS
<1>1. n \in Nat /\ m \in Nat
  BY RestartLengths DEF RestartInv, RestartTypes
<1>2. text' = text /\ pattern' = pattern
  BY DEF Restart!Next, Restart!FillBadChar, Restart!Match, Restart!Found, Restart!Shift,
         Restart!Stray, Restart!NotFound, Restart!vars
<1>3. /\ n' = n /\ m' = m
      /\ \A k : Artist(k)' = Artist(k) /\ Text(k)' = Text(k)
  BY <1>2 DEF n, m, Artist, Text
<1>4. \A p : Abstract!OccursAt(p)' <=> Abstract!OccursAt(p)
  BY <1>2 DEF Abstract!OccursAt, Abstract!n, Abstract!m
<1>5. \A r : Restart!Abstract!IsAnswer(r)' <=> Restart!Abstract!IsAnswer(r)
  BY <1>2 DEF Restart!Abstract!IsAnswer, Restart!Abstract!OccursAt,
              Restart!Abstract!n, Restart!Abstract!m
<1>6. reResult' = reResult => Restart!AnswersRight'
  BY <1>3, <1>5, SameNames DEF RestartInv, Restart!AnswersRight, Restart!n, n
<1>7. CASE Restart!FillBadChar
  <2>1. /\ reF < m - 1 /\ reF' = reF + 1
        /\ reBadChar' = [reBadChar EXCEPT ![Artist(reF)] = m - 1 - reF]
        /\ UNCHANGED <<reResult, reI, reJ>>
    BY <1>7, SameNames DEF Restart!FillBadChar
  <2>2. Artist(reF) \in Char
    BY <1>1, <2>1, RestartLengths DEF RestartInv, RestartTypes
  <2>3. RestartTypes'
    BY <1>1, <1>2, <1>3, <2>1, <2>2 DEF RestartInv, RestartTypes
  <2>4. Distances'
    <3> SUFFICES ASSUME NEW k \in 0 .. m - 2, k < reF + 1
                 PROVE  reBadChar'[Artist(k)] <= m - 1 - k
      BY <1>3, <2>1 DEF Distances
    <3>1. Artist(k) \in Char
      BY <1>1, RestartLengths DEF RestartInv, RestartTypes
    <3>2. reF \in Nat /\ reBadChar \in [Char -> 0 .. m]
      BY DEF RestartInv, RestartTypes
    <3>3. reBadChar'[Artist(k)] = IF Artist(k) = Artist(reF) THEN m - 1 - reF
                                  ELSE reBadChar[Artist(k)]
      BY <2>1, <2>2, <3>1, <3>2
    <3>4. k < reF => reBadChar[Artist(k)] <= m - 1 - k
      BY DEF RestartInv, Distances
    <3> QED
      BY <1>1, <3>2, <3>3, <3>4
  <2>5. Agrees' /\ NonePassed'
    BY <1>3, <1>4, <2>1 DEF RestartInv, Agrees, NonePassed
  <2> QED
    BY <1>6, <2>1, <2>3, <2>4, <2>5 DEF RestartInv
<1>8. CASE Restart!Match
  <2>1. /\ reJ \in 0 .. m - 1 /\ reI \in Nat /\ Artist(reJ) = Text(reI)
        /\ reI' = reI - 1 /\ reJ' = reJ - 1
        /\ UNCHANGED <<reResult, reBadChar, reF>>
    BY <1>8, SameNames DEF Restart!Match, RestartInv, RestartTypes
  <2>2. RestartTypes'
    BY <1>1, <1>2, <1>3, <2>1 DEF RestartInv, RestartTypes
  <2>3. Agrees'
    <3>1. reI - reJ <= n - m
      BY <1>1, <1>8, <2>1, SameNames
         DEF Restart!Match, Restart!Searching, Restart!Started, RestartInv, Agrees
    <3>2. \A k \in reJ .. m - 1 : Artist(k) = Text(reI - reJ + k)
      <4> SUFFICES ASSUME NEW k \in reJ .. m - 1 PROVE Artist(k) = Text(reI - reJ + k)
        OBVIOUS
      <4>1. CASE k = reJ
        BY <2>1, <4>1
      <4>2. CASE k # reJ
        BY <1>1, <2>1, <4>2 DEF RestartInv, Agrees
      <4> QED
        BY <4>1, <4>2
    <3> QED
      BY <1>1, <1>3, <2>1, <3>1, <3>2 DEF Agrees
  <2>4. Distances' /\ NonePassed'
    BY <1>1, <1>3, <1>4, <2>1 DEF RestartInv, Distances, NonePassed
  <2> QED
    BY <1>6, <2>1, <2>2, <2>3, <2>4 DEF RestartInv
<1>9. CASE Restart!Shift
  <2>1. /\ reI' = reI + reBadChar[Text(reI)] /\ reJ' = m - 1 /\ reI \in Nat
        /\ UNCHANGED <<reResult, reBadChar, reF>>
    BY <1>9, SameNames DEF Restart!Shift, RestartInv, RestartTypes
  <2>2. reBadChar[Text(reI)] \in 0 .. m
    <3>1. reI \in 0 .. n - 1
      BY <1>1, <1>9, <2>1, SameNames
         DEF Restart!Shift, Restart!Searching, Restart!Started, RestartInv, RestartTypes, Agrees
    <3>2. Text(reI) \in Char
      BY <3>1, RestartLengths DEF RestartInv, RestartTypes
    <3> QED
      BY <3>2 DEF RestartInv, RestartTypes
  <2>3. RestartTypes'
    BY <1>1, <1>2, <1>3, <2>1, <2>2 DEF RestartInv, RestartTypes
  <2>4. NonePassed'
    <3>1. \A p \in 0 .. n - m :
             Abstract!OccursAt(p) => reI + reBadChar[Text(reI)] - (m - 1) <= p
      BY <1>9, RestartPassesNone
    <3>2. \A p \in 0 .. n - m : Abstract!OccursAt(p) => reI' - reJ' <= p
      BY <1>1, <2>1, <2>2, <3>1
    <3> QED
      BY <1>3, <1>4, <3>2 DEF NonePassed
  <2>5. Agrees' /\ Distances'
    BY <1>1, <1>3, <2>1 DEF RestartInv, Agrees, Distances
  <2> QED
    BY <1>6, <2>1, <2>3, <2>4, <2>5 DEF RestartInv
<1>10. CASE Restart!Found
  <2>1. /\ reJ = -1 /\ reResult' = reI + 1
        /\ UNCHANGED <<reBadChar, reF, reI, reJ>>
    BY <1>10 DEF Restart!Found, RestartInv, RestartTypes
  <2>2. reI + 1 \in 0 .. n - m
    BY <1>1, <1>10, <2>1, SameNames
       DEF Restart!Found, Restart!Searching, Restart!Started, RestartInv, RestartTypes, Agrees
  <2>3. Abstract!OccursAt(reI + 1)
    BY <1>1, <2>1, <2>2, SameNames
       DEF RestartInv, RestartTypes, Agrees, Artist, Text, Abstract!OccursAt
  <2>4. \A p \in 0 .. reI : ~Abstract!OccursAt(p)
    BY <1>1, <2>1, <2>2 DEF RestartInv, RestartTypes, NonePassed
  <2>5. Abstract!IsAnswer(reI + 1)
    <3>1. \A p \in 0 .. (reI + 1) - 1 : ~Abstract!OccursAt(p)
      BY <2>4 DEF RestartInv, RestartTypes
    <3> QED
      BY <2>3, <3>1 DEF Abstract!IsAnswer
  <2>6. Restart!AnswersRight'
    BY <1>5, <2>1, <2>5, SameNames DEF Restart!AnswersRight
  <2> QED
    BY <1>2, <1>3, <1>4, <2>1, <2>6
       DEF RestartInv, RestartTypes, Distances, Agrees, NonePassed
<1>11. CASE Restart!Stray \/ Restart!NotFound
  <2>1. UNCHANGED <<reBadChar, reF, reI, reJ>>
    BY <1>11 DEF Restart!Stray, Restart!NotFound
  <2>2. Restart!AnswersRight'
    <3>1. CASE Restart!Stray
      <4>1. reResult' = n + 2 /\ Restart!n' = n
        BY <1>3, <3>1, SameNames DEF Restart!Stray, Restart!Strayed, Restart!n, n
      <4> QED
        BY <1>1, <4>1 DEF Restart!AnswersRight
    <3>2. CASE Restart!NotFound
      <4>1. reResult' = -1 /\ reI >= n /\ reJ = m - 1
        BY <1>1, <3>2, SameNames DEF Restart!NotFound, Restart!Started, RestartInv, RestartTypes
      <4>2. \A p \in 0 .. n - m : ~Abstract!OccursAt(p)
        BY <1>1, <4>1 DEF RestartInv, RestartTypes, NonePassed
      <4>3. Abstract!IsAnswer(-1)
        BY <4>2, SameNames DEF Abstract!IsAnswer
      <4> QED
        BY <1>5, <4>1, <4>3, SameNames DEF Restart!AnswersRight
    <3> QED
      BY <1>11, <3>1, <3>2
  <2> QED
    BY <1>2, <1>3, <1>4, <2>1, <2>2
       DEF RestartInv, RestartTypes, Distances, Agrees, NonePassed
<1>12. CASE UNCHANGED Restart!vars
  <2>1. UNCHANGED <<reResult, reBadChar, reF, reI, reJ>>
    BY <1>12 DEF Restart!vars
  <2> QED
    BY <1>2, <1>3, <1>4, <1>6, <2>1
       DEF RestartInv, RestartTypes, Distances, Agrees, NonePassed
<1> QED
  BY <1>7, <1>8, <1>9, <1>10, <1>11, <1>12 DEF Restart!Next

LEMMA RestartAlone == Restart!Spec => []RestartInv
BY RestartStart, RestartStep, PTL DEF Restart!Spec

-----------------------------------------------------------------------------
(* The two one after the other *)

\* Each of the two searches takes its own steps only.
LEMMA TitleRuns == SearchesSpec => Spec
<1>1. SearchesInit => Init
  BY DEF SearchesInit
<1>2. [SearchesNext]_<<vars, skVars, reVars, binaryVars>> => [Next]_vars
  BY DEF SearchesNext
<1> QED
  BY <1>1, <1>2, PTL DEF SearchesSpec, Spec

LEMMA RestartRuns == SearchesSpec => Restart!Spec
<1>1. SearchesInit => Restart!Init
  BY DEF SearchesInit
<1>2. [SearchesNext]_<<vars, skVars, reVars, binaryVars>> => [Restart!Next]_Restart!vars
  <2>1. UNCHANGED vars /\ UNCHANGED reVars => UNCHANGED Restart!vars
    BY DEF vars, reVars, Restart!vars
  <2>2. Next /\ UNCHANGED reVars => UNCHANGED Restart!vars
    BY DEF Next, FillBadChar, KeepReducing, Found, ShiftPattern, NotFound, reVars, Restart!vars
  <2> QED
    BY <2>1, <2>2 DEF SearchesNext
<1> QED
  BY <1>1, <1>2, PTL DEF SearchesSpec, Restart!Spec

\* What searchArtist() has returned, and that it has when the other starts.
TitleAnswered ==
    /\ result # Pending => Abstract!IsAnswer(result)
    /\ reResult # Restart!Pending => result # Pending

LEMMA TitleAnswers ==
    IInv /\ TitleAnswered /\ [SearchesNext]_<<vars, skVars, reVars, binaryVars>>
        => TitleAnswered'
<1> SUFFICES ASSUME IInv, TitleAnswered,
                    [SearchesNext]_<<vars, skVars, reVars, binaryVars>>
             PROVE  TitleAnswered'
  OBVIOUS
<1>1. /\ text' = text /\ pattern' = pattern
      /\ result # Pending => result' = result
  <2>1. Next => text' = text /\ pattern' = pattern /\ (result # Pending => result' = result)
    BY DEF Next, FillBadChar, KeepReducing, Found, Searching, ShiftPattern, NotFound
  <2> QED
    BY <2>1 DEF SearchesNext, vars
<1>2. /\ \A r : Abstract!IsAnswer(r)' <=> Abstract!IsAnswer(r)
      /\ Restart!Pending' = Restart!Pending
  BY <1>1 DEF Abstract!IsAnswer, Abstract!OccursAt, Abstract!n, Abstract!m,
              Restart!Pending, Restart!n
<1>3. result' # Pending => Abstract!IsAnswer(result')
  <2>1. CASE Next
    BY <2>1, AnswerStep DEF Abstract!Answer, TitleAnswered, IInv
  <2>2. CASE UNCHANGED vars
    BY <2>2 DEF vars, TitleAnswered
  <2> QED
    BY <2>1, <2>2 DEF SearchesNext
<1>4. reResult' # reResult => result # Pending
  <2>1. UNCHANGED reVars => reResult' = reResult
    BY DEF reVars
  <2> QED
    BY <2>1 DEF SearchesNext
<1>5. Pending' = Pending
  BY DEF Pending
<1> QED
  BY <1>1, <1>2, <1>3, <1>4, <1>5 DEF TitleAnswered

\* boyerMooreSearch() of SSE3_ok.c, if it returns, has found what
\* searchArtist() has: it may go round in circles or run out of the text,
\* but it jumps over no occurrence (SSE3_ok.c:209-242).
THEOREM RestartRight == SearchesSpec => []RestartAnswersRight
<1>1. SearchesInit => TitleAnswered
  <2> SUFFICES ASSUME SearchesInit PROVE TitleAnswered
    OBVIOUS
  <2> QED
    BY DEF SearchesInit, Init, Restart!Init, TitleAnswered
<1>2. SearchesSpec => []TitleAnswered
  BY <1>1, TitleAnswers, TitleRuns, IInvHolds, PTL DEF SearchesSpec
<1>3. IInv /\ RestartInv /\ TitleAnswered => RestartAnswersRight
  <2> SUFFICES ASSUME IInv, RestartInv, TitleAnswered, reResult \in -1 .. n
               PROVE  reResult = result
    BY DEF RestartInv, RestartAnswersRight
  <2>1. n \in Nat /\ m \in Nat
    BY Lengths DEF IInv
  <2>2. Abstract!IsAnswer(reResult)
    BY SameNames DEF RestartInv, Restart!AnswersRight
  <2>3. reResult # Restart!Pending
    BY <2>1, SameNames DEF Restart!Pending
  <2>4. Abstract!IsAnswer(result)
    BY <2>3 DEF TitleAnswered
  <2>5. \A p, q \in Int : Abstract!IsAnswer(p) /\ Abstract!IsAnswer(q) => p = q
    <3> SUFFICES ASSUME NEW p \in Int, NEW q \in Int, p < q,
                        Abstract!IsAnswer(p), Abstract!IsAnswer(q)
                 PROVE  FALSE
      BY Z3
    <3>1. \A r \in Int : Abstract!OccursAt(r) => r \in 0 .. n - m
      BY SameNames DEF Abstract!OccursAt
    <3>2. CASE Abstract!OccursAt(p)
      <4>1. p \in 0 .. n - m /\ p \in 0 .. q - 1
        BY <3>1, <3>2
      <4> QED
        BY <3>1, <3>2, <4>1, SameNames DEF Abstract!IsAnswer
    <3>3. CASE ~Abstract!OccursAt(p)
      BY <3>1, <3>3, SameNames DEF Abstract!IsAnswer
    <3> QED
      BY <3>2, <3>3
  <2>6. reResult \in Int /\ result \in Int
    BY <2>1, <2>4, SameNames DEF Abstract!IsAnswer, Abstract!OccursAt
  <2> QED
    BY <2>2, <2>4, <2>5, <2>6
<1> QED
  BY <1>2, <1>3, TitleRuns, IInvHolds, RestartRuns, RestartAlone, PTL

-----------------------------------------------------------------------------
(* The binary searches *)

Types ==
    /\ len \in Nat
    /\ array \in [0 .. len -> Int]
    /\ \A k \in 0 .. len : array[k] = NUL <=> k = len
    /\ x \in Int \ {NUL}
    /\ first \in 0 .. len /\ last \in first - 1 .. len
    /\ low \in Int /\ high \in Int

\* What is left lies in what was asked for,
Within == first <= low /\ high <= last

\* and x is nowhere else.
NotOutside ==
    Sorted => \A k \in first .. last : k < low \/ k > high => array[k] # x

BinaryInv == Types /\ Within /\ NotOutside /\ FindsWhatIsThere

-----------------------------------------------------------------------------
\* The middle is in the middle: only the last one left is its own end.
LEMMA MidBetween ==
    ASSUME low \in Int, high \in Int, low <= high
    PROVE  Mid \in Int /\ low <= Mid /\ Mid <= high /\ (Mid = high => low = high)
<1> DEFINE d == high - low
           h == d \div 2
<1>1. d \in Nat
      OBVIOUS
<1> HIDE DEF d
<1>2. h \in Nat /\ 2 * h <= d /\ d <= 2 * h + 1
      BY <1>1
<1> HIDE DEF h
<1>3. Mid = low + h /\ d = high - low
      BY DEF Mid, h, d
<1> QED BY <1>1, <1>2, <1>3

\* Nothing up to a middle that is too small can be x,
LEMMA TooSmall ==
    ASSUME Types, Within, NotOutside, StillSearching, Sorted, array[Mid] < x,
           NEW k \in first .. last, k <= Mid
    PROVE  array[k] # x
<1>1. Mid \in first .. last /\ Mid <= high /\ (Mid = high => low = high)
      BY MidBetween DEF Types, Within, StillSearching
<1>2. CASE Mid < len
  <2>1. array[k] <= array[Mid]
        BY <1>1, <1>2 DEF Sorted, Types
  <2>2. array[k] \in Int /\ array[Mid] \in Int
        BY <1>1 DEF Types
  <2> QED BY <2>1, <2>2 DEF Types
<1>3. CASE ~(Mid < len)
  <2>1. Mid = len /\ low = len
        BY <1>1, <1>3 DEF Types, Within
  <2>2. CASE k = len
        BY <2>2 DEF Types
  <2>3. CASE k # len
        BY <2>1, <2>3 DEF Types, NotOutside
  <2> QED BY <2>2, <2>3
<1> QED BY <1>2, <1>3

\* nor anything from one that is too large.
LEMMA TooLarge ==
    ASSUME Types, Within, StillSearching, Sorted, array[Mid] > x,
           NEW k \in first .. last, k >= Mid
    PROVE  array[k] # x
<1>1. Mid \in first .. last
      BY MidBetween DEF Types, Within, StillSearching
<1>2. CASE k = len
      BY <1>2 DEF Types
<1>3. CASE k # len
  <2>1. array[Mid] <= array[k]
        BY <1>1, <1>3 DEF Sorted, Types
  <2>2. array[k] \in Int /\ array[Mid] \in Int
        BY <1>1 DEF Types
  <2> QED BY <2>1, <2>2 DEF Types
<1> QED BY <1>2, <1>3

-----------------------------------------------------------------------------
LEMMA BinaryStart == BinaryInit => BinaryInv
<1> SUFFICES ASSUME BinaryInit PROVE BinaryInv
    OBVIOUS
<1>1. len \in Nat /\ x \in Int \ {NUL} /\ Chars \cup {NUL} \subseteq Int
      BY BinaryAssumption DEF BinaryInit, NUL
<1>2. array \in [0 .. len -> Int]
      BY <1>1 DEF BinaryInit
<1>3. Types
      BY <1>1, <1>2 DEF BinaryInit, Types
<1> QED BY <1>3 DEF BinaryInit, BinaryInv, Types, Within, NotOutside, FindsWhatIsThere

LEMMA BinaryStep == BinaryInv /\ [BinaryNext]_binaryVars => BinaryInv'
<1> SUFFICES ASSUME BinaryInv, [BinaryNext]_binaryVars PROVE BinaryInv'
    OBVIOUS
<1> USE DEF BinaryInv
<1>1. UNCHANGED input /\ Types' /\ (Sorted' <=> Sorted)
  <2>1. UNCHANGED input
        BY DEF BinaryNext, FoundIt, GoRight, GoLeft, FoundNowhere, binaryVars, input
  <2>2. low' \in Int /\ high' \in Int
        BY MidBetween DEF BinaryNext, FoundIt, GoRight, GoLeft, FoundNowhere, binaryVars, Types, StillSearching
  <2> QED BY <2>1, <2>2 DEF input, Types, Sorted
<1>2. CASE FoundIt
  <2>1. Mid \in first .. last /\ array[Mid] = x
        BY <1>2, MidBetween DEF FoundIt, Types, Within, StillSearching
  <2>2. UNCHANGED <<low, high>> /\ place' = Mid /\ Mid >= 0
        BY <1>2, <2>1 DEF FoundIt, Types
  <2> QED BY <1>1, <2>1, <2>2 DEF Types, Within, NotOutside, FindsWhatIsThere, input
<1>3. CASE GoRight
  <2>1. StillSearching /\ array[Mid] < x /\ low' = Mid + 1 /\ UNCHANGED <<high, place>>
        BY <1>3 DEF GoRight
  <2>2. Mid \in Int /\ low <= Mid
        BY <2>1, MidBetween DEF Types, StillSearching
  <2>3. Within'
        BY <1>1, <2>1, <2>2 DEF Types, Within, input
  <2>4. NotOutside'
    <3>1. SUFFICES ASSUME Sorted, NEW k \in first .. last, k < Mid + 1 \/ k > high
                   PROVE  array[k] # x
          BY <1>1, <2>1 DEF NotOutside, input
    <3>2. CASE k > high
          BY <3>1, <3>2 DEF NotOutside
    <3>3. CASE k < Mid + 1
      <4>1. k <= Mid
            BY <2>2, <3>3 DEF Types
      <4> QED BY <2>1, <3>1, <4>1, TooSmall
    <3> QED BY <3>1, <3>2, <3>3
  <2> QED BY <1>1, <2>1, <2>3, <2>4 DEF FindsWhatIsThere, StillSearching
<1>4. CASE GoLeft
  <2>1. StillSearching /\ array[Mid] > x /\ high' = Mid - 1 /\ UNCHANGED <<low, place>>
        BY <1>4 DEF GoLeft
  <2>2. Mid \in Int /\ Mid <= high
        BY <2>1, MidBetween DEF Types, StillSearching
  <2>3. Within'
        BY <1>1, <2>1, <2>2 DEF Types, Within, input
  <2>4. NotOutside'
    <3>1. SUFFICES ASSUME Sorted, NEW k \in first .. last, k < low \/ k > Mid - 1
                   PROVE  array[k] # x
          BY <1>1, <2>1 DEF NotOutside, input
    <3>2. CASE k < low
          BY <3>1, <3>2 DEF NotOutside
    <3>3. CASE k > Mid - 1
      <4>1. k >= Mid
            BY <2>2, <3>3 DEF Types
      <4> QED BY <2>1, <3>1, <4>1, TooLarge
    <3> QED BY <3>1, <3>2, <3>3
  <2> QED BY <1>1, <2>1, <2>3, <2>4 DEF FindsWhatIsThere, StillSearching
<1>5. CASE FoundNowhere
  <2>1. low > high /\ place' = -1 /\ UNCHANGED <<low, high>>
        BY <1>5 DEF FoundNowhere
  <2>2. Sorted => \A k \in first .. last : array[k] # x
        BY <2>1 DEF NotOutside, Types
  <2> QED BY <1>1, <2>1, <2>2 DEF Within, NotOutside, FindsWhatIsThere, input
<1>6. CASE UNCHANGED binaryVars
      BY <1>1, <1>6 DEF binaryVars, input, Within, NotOutside, FindsWhatIsThere, Sorted
<1> QED BY <1>2, <1>3, <1>4, <1>5, <1>6 DEF BinaryNext

(***************************************************************************)
(* For every string in order, every range of it, with or without the NUL   *)
(* at its end, and every character: the search finds it if it is there,    *)
(* and says -1 if it is not (utils.h:13-25, 27-41, 46-60).                 *)
(***************************************************************************)
THEOREM Right == BinarySpec => []FindsWhatIsThere
<1>1. BinaryInit => BinaryInv
      BY BinaryStart
<1>2. BinaryInv => FindsWhatIsThere
      BY DEF BinaryInv
<1> QED BY <1>1, <1>2, BinaryStep, PTL DEF BinarySpec

(***************************************************************************)
(* In order or not, the search reads nothing outside the range it is given *)
(* (utils.h:15-17, 32-36, 49-51).                                          *)
(***************************************************************************)
THEOREM NeverOutside == BinarySpec => []StaysInRange
<1>1. BinaryInit => BinaryInv
      BY BinaryStart
<1>2. BinaryInv => StaysInRange
      BY MidBetween DEF BinaryInv, Types, Within, StillSearching, StaysInRange
<1> QED BY <1>1, <1>2, BinaryStep, PTL DEF BinarySpec
=============================================================================
