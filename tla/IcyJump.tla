------------------------------- MODULE IcyJump -------------------------------
(***************************************************************************)
(* The ICY demultiplexer of index.c, as test3.c drives it.                 *)
(*                                                                         *)
(* A radio server that was asked for "Icy-MetaData:1" sends METAINT bytes  *)
(* of audio, one length byte L, UNIT * L bytes of metadata, and starts     *)
(* again.  libcurl hands the stream to play_stream() in chunks whose ends  *)
(* have nothing to do with those boundaries, and play_stream() calls       *)
(* jump(), which keeps its place in the stream in the global size_t indx.  *)
(***************************************************************************)
EXTENDS Integers, Sequences

CONSTANTS
    METAINT,    \* bytes of audio between two length bytes: 16000 in index.c
    UNIT,       \* metadata bytes per unit of the length byte: 16 in index.c
    MaxLen,     \* bound: the largest length byte (255 in the protocol)
    MaxChunk,   \* the largest chunk libcurl delivers: CURL_MAX_WRITE_SIZE
    SIZEW,      \* size_t counts modulo SIZEW: 2^64
    INTW        \* int counts modulo INTW: 2^32

ASSUME IcyAssumption ==
    /\ METAINT \in Nat \ {0} /\ UNIT \in Nat \ {0}
    /\ MaxLen \in Nat /\ MaxChunk \in Nat \ {0}
    /\ INTW \in Nat /\ SIZEW \in Nat
    /\ METAINT + MaxChunk + UNIT * MaxLen + 1 < INTW \div 2
    /\ 2 * INTW <= SIZEW

Lengths == 0 .. MaxLen

VARIABLES
    at,        \* the true place in the stream: audio bytes since the last
               \* metadata block, or minus the metadata bytes still to come
    start,     \* where the pending chunk begins, in the same measure
    size,      \* bytes received that jump() has not seen: the pending chunk
    marks,     \* the length bytes among them, in order: offset and value
    indx,      \* the global size_t
    jumped,    \* what the last jump() returned
    friendly   \* history: every chunk so far was one jump() can follow

vars == <<at, start, size, marks, indx, jumped, friendly>>

-----------------------------------------------------------------------------
(* Conversions of C *)

\* The result of an addition or subtraction of size_t values, for operands
\* less than one turn away from 0 .. SIZEW - 1.
Wrap(x) == IF x < 0 THEN x + SIZEW ELSE IF x >= SIZEW THEN x - SIZEW ELSE x

\* int tmp = indx: the low bits of x, read as a signed number.
ToInt(x) ==
    IF x < INTW \div 2 THEN x
    ELSE IF x >= SIZEW - INTW \div 2 THEN x - SIZEW
    ELSE LET low == x % INTW IN IF low < INTW \div 2 THEN low ELSE low - INTW

-----------------------------------------------------------------------------
Init == /\ at = 0
        /\ start = 0
        /\ size = 0
        /\ marks = << >>
        /\ indx = 0
        /\ jumped = 0
        /\ friendly = TRUE

(***************************************************************************)
(* The server: its next byte reaches libcurl's buffer.                     *)
(***************************************************************************)
PayloadByte ==
    /\ size < MaxChunk
    /\ at < METAINT
    /\ at' = at + 1
    /\ size' = size + 1
    /\ UNCHANGED <<start, marks, indx, jumped, friendly>>

LengthByte(l) ==
    /\ size < MaxChunk
    /\ at = METAINT
    /\ at' = -(UNIT * l)
    /\ size' = size + 1
    /\ marks' = Append(marks, [off |-> size, len |-> l])
    /\ UNCHANGED <<start, indx, jumped, friendly>>

(***************************************************************************)
(* The values arr[i] can have when it is read as a length: the length byte *)
(* if there is one at offset i, else an audio or metadata byte or, outside *)
(* the chunk, whatever the memory holds.                                   *)
(***************************************************************************)
ByteRead(i) ==
    LET here == {k \in DOMAIN marks : marks[k].off = i}
    IN  IF here = {} THEN Lengths ELSE {marks[k].len : k \in here}

\* (mutant) the byte after the length byte
ReadIndexNext == METAINT - ToInt(indx) + 1

\* 16000 - tmp: where jump() looks for the length byte.
ReadIndex == METAINT - ToInt(indx)

\* jump() finds that the chunk passes the boundary.
PassesBoundary == Wrap(indx + size) >= METAINT

\* (mutant) the length byte itself is not skipped
JumpBoundaryShort ==
    \E byte \in ByteRead(ReadIndex) :
        /\ indx' = Wrap(size - ReadIndex - byte * UNIT)
        /\ jumped' = byte * UNIT + 1

JumpBoundary ==
    \E byte \in ByteRead(ReadIndex) :
        /\ indx' = Wrap(size - ReadIndex - byte * UNIT - 1)
        /\ jumped' = byte * UNIT + 1

JumpInside == /\ indx' = Wrap(indx + size)
              /\ jumped' = 0

(***************************************************************************)
(* The chunks jump() can follow: one with a single length byte, or one     *)
(* with none that neither stops right before a length byte nor ends inside *)
(* a metadata block.                                                       *)
(***************************************************************************)
Friendly == \/ Len(marks) = 1
            \/ marks = << >> /\ start + size \in 0 .. METAINT - 1

\* libcurl calls play_stream(), which calls jump() and returns: the code
\* after the return is never reached.
Deliver ==
    /\ size > 0
    /\ IF PassesBoundary THEN JumpBoundary ELSE JumpInside
    /\ start' = at
    /\ size' = 0
    /\ marks' = << >>
    /\ friendly' = (friendly /\ Friendly)
    /\ at' = at

Next == \/ PayloadByte
        \/ \E l \in Lengths : LengthByte(l)
        \/ Deliver

Spec == Init /\ [][Next]_vars

-----------------------------------------------------------------------------
TypeOK == /\ at \in -(UNIT * MaxLen) .. METAINT
          /\ start \in -(UNIT * MaxLen) .. METAINT
          /\ size \in 0 .. MaxChunk
          /\ marks \in Seq([off : 0 .. MaxChunk - 1, len : Lengths])
          /\ indx \in 0 .. SIZEW - 1
          /\ jumped \in 0 .. UNIT * MaxLen + 1
          /\ friendly \in BOOLEAN

(***************************************************************************)
(* As long as the chunks were friendly, indx is the true place in the      *)
(* stream whenever jump() is not running; inside a metadata block that is  *)
(* a negative number, which indx holds modulo 2^64 and the int tmp gets    *)
(* back from it (index.c:42-53).                                           *)
(***************************************************************************)
InSync == friendly => indx = Wrap(start)

(***************************************************************************)
(* As long as the chunks were friendly, and the pending one is, jump()     *)
(* sees a boundary exactly when there is one and reads the length from     *)
(* inside the chunk, at the place of the length byte (index.c:44-60).      *)
(***************************************************************************)
ReadsTheLength ==
    friendly /\ Friendly =>
        /\ PassesBoundary <=> marks # << >>
        /\ marks # << >> => ReadIndex = marks[1].off

(***************************************************************************)
(* After friendly chunks only, jump() returns the size of the metadata     *)
(* block the chunk starts, its length byte included, or 0 (index.c:75,78). *)
(***************************************************************************)
JumpedRight ==
    [][size' = 0 /\ friendly' =>
         jumped' = IF marks = << >> THEN 0 ELSE UNIT * marks[1].len + 1]_vars
=============================================================================
