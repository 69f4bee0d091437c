----------------------------- MODULE IcyPlayer -----------------------------
(***************************************************************************)
(* The ICY demultiplexer of test2.c, beside the one of index.c and on the  *)
(* same stream: play_stream2() counts every byte in the global bufferCount *)
(* and takes the byte at the count `interval' for a length byte, however   *)
(* the stream is cut into chunks.  It reads that byte as a char, which is  *)
(* signed, and takes the absolute value.                                   *)
(*                                                                         *)
(* The bytes of a chunk are counted as they arrive, not when the chunk is  *)
(* delivered: the loop sees each of them once and in order, and nothing    *)
(* else looks at the two counters.                                         *)
(***************************************************************************)
EXTENDS IcyJump

CONSTANT CHARW    \* char counts modulo CHARW: 2^8

ASSUME PlayerAssumption ==
    /\ CHARW \in Nat /\ MaxLen < CHARW /\ CHARW % 2 = 0
    /\ METAINT + 1 + UNIT * CHARW < INTW

VARIABLES
    bufferCount, interval,   \* the globals, modulo INTW
    small                    \* history: no length byte has been above CHARW \div 2

playerVars == <<vars, bufferCount, interval, small>>

PlayerInit == /\ Init
              /\ bufferCount = 0
              /\ interval = METAINT
              /\ small = TRUE

\* The result of an addition of int values that are taken modulo INTW: one
\* turn at most.
WrapInt(x) == IF x >= INTW THEN x - INTW ELSE x

\* abs((int)((char *)buffer)[i])
AbsChar(byte) == IF byte < CHARW \div 2 THEN byte ELSE CHARW - byte

\* (mutant) the length byte itself is not counted in the next interval
PlayShort(byte) ==
    /\ bufferCount' = WrapInt(bufferCount + 1)
    /\ interval' = IF bufferCount = interval
                   THEN WrapInt(interval + UNIT * AbsChar(byte) + METAINT)
                   ELSE interval

\* One round of the loop over the chunk.
Play(byte) ==
    /\ bufferCount' = WrapInt(bufferCount + 1)
    /\ interval' = IF bufferCount = interval
                   THEN WrapInt(interval + UNIT * AbsChar(byte) + 1 + METAINT)
                   ELSE interval

PlayPayloadByte ==
    /\ PayloadByte
    /\ \E byte \in 0 .. CHARW - 1 : Play(byte)
    /\ UNCHANGED small

PlayLengthByte(l) ==
    /\ LengthByte(l)
    /\ Play(l)
    /\ small' = (small /\ l <= CHARW \div 2)

PlayerNext == \/ PlayPayloadByte
              \/ \E l \in Lengths : PlayLengthByte(l)
              \/ Deliver /\ UNCHANGED <<bufferCount, interval, small>>

PlayerSpec == PlayerInit /\ [][PlayerNext]_playerVars

-----------------------------------------------------------------------------
PlayerTypeOK == /\ bufferCount \in 0 .. INTW - 1
                /\ interval \in 0 .. INTW - 1
                /\ small \in BOOLEAN

(***************************************************************************)
(* As long as no block was longer than 128 units, interval is the count at *)
(* which the next length byte comes, whatever the chunks were: the byte is *)
(* found though bufferCount and interval wrap around (test2.c:210-216).    *)
(***************************************************************************)
PlayerInSync == small => interval = WrapInt(bufferCount + METAINT - at)

(***************************************************************************)
(* "VALID HEADER?" (test2.c:214): while the blocks were no longer than     *)
(* that, a byte is taken for a length exactly when it is one.              *)
(***************************************************************************)
TakesLengthsOnly ==
    [][small' /\ size' > size => (interval' # interval <=> at = METAINT)]_playerVars
=============================================================================
