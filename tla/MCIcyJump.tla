------------------------------ MODULE MCIcyJump ------------------------------
(***************************************************************************)
(* The small instance TLC explores: a chunk that can hold two length bytes *)
(* (MaxChunk > METAINT, as 16384 > 16000), metadata blocks longer than the *)
(* smallest chunks, and one length that is negative as a signed char.      *)
(***************************************************************************)
EXTENDS IcyPlayer
=============================================================================
