---------------------------- MODULE MCSkipSearch ----------------------------
(* Every text of up to five and pattern of one to three characters of Char. *)
EXTENDS SkipSearch, SequencesExt

AllTexts == SeqOf(Char, 5)
AllPatterns == SeqOf(Char, 3) \ {<< >>}
=============================================================================
