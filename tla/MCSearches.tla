----------------------------- MODULE MCSearches -----------------------------
(***************************************************************************)
(* The three searches on the same text and pattern, one after the other:   *)
(* every text of up to five and pattern of up to three characters of Char. *)
(* The two copies of boyerMooreSearch() are never given an empty pattern;  *)
(* the binary search runs in their place when the text is empty, too.      *)
(***************************************************************************)
EXTENDS TitleSearch, BinarySearch, SequencesExt

AllTexts == SeqOf(Char, 5)
AllPatterns == SeqOf(Char, 3)
SomeChars == {-1, 1, 2, 3}

VARIABLES
    skResult, skBadChar, skI, skS, skJ,    \* those of ssl_read.c
    reResult, reBadChar, reF, reI, reJ     \* those of SSE3_ok.c

skVars == <<skResult, skBadChar, skI, skS, skJ>>
reVars == <<reResult, reBadChar, reF, reI, reJ>>

Skip == INSTANCE SkipSearch WITH
    result <- skResult, badChar <- skBadChar, i <- skI, s <- skS, j <- skJ

Restart == INSTANCE RestartSearch WITH
    result <- reResult, badChar <- reBadChar, f <- reF, i <- reI, j <- reJ

NothingToSearch == text = << >> /\ pattern = << >>

SearchesInit ==
    /\ Init /\ Skip!Init /\ Restart!Init
    /\ IF NothingToSearch THEN BinaryInit
       ELSE /\ array = << >> /\ len = 0 /\ x = 0 /\ first = 0 /\ last = -1
            /\ low = 0 /\ high = 0 /\ place = -1

SearchesNext ==
    \/ Next /\ UNCHANGED <<skVars, reVars, binaryVars>>
    \/ result # Pending /\ m > 0 /\ Skip!Next /\ UNCHANGED <<vars, reVars, binaryVars>>
    \/ /\ result # Pending /\ skResult # Skip!Pending
       /\ Restart!Next /\ UNCHANGED <<vars, skVars, binaryVars>>
    \/ NothingToSearch /\ BinaryNext /\ UNCHANGED <<vars, skVars, reVars>>

SearchesSpec ==
    /\ SearchesInit /\ [][SearchesNext]_<<vars, skVars, reVars, binaryVars>>
    /\ WF_vars(Next)

-----------------------------------------------------------------------------
(***************************************************************************)
(* Whenever boyerMooreSearch() of SSE3_ok.c returns, it has found what     *)
(* searchArtist() has: however far its index has moved back, the next      *)
(* shift never jumps over an occurrence (SSE3_ok.c:222-241).               *)
(***************************************************************************)
RestartAnswersRight ==
    /\ Restart!AnswersRight
    /\ reResult \in -1 .. n => reResult = result
=============================================================================
