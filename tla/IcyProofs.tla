----------------------------- MODULE IcyProofs -----------------------------
(***************************************************************************)
(* jump() keeps its place in the stream, for every interval, chunk size    *)
(* and length byte, as long as the chunks are ones it can follow; and      *)
(* play_stream2() finds every length byte, however the stream is cut, as   *)
(* long as no block is longer than 128 units.                              *)
(***************************************************************************)
EXTENDS IcyPlayer, TLAPS

-----------------------------------------------------------------------------
(* jump() *)

\* How the pending chunk, its length bytes and the true place go together.
Framing ==
    /\ marks = << >> => at = start + size
    /\ Len(marks) = 1 =>
         /\ marks[1].off = METAINT - start
         /\ marks[1].off < size
         /\ at = start + size - METAINT - 1 - UNIT * marks[1].len

IInv == TypeOK /\ Framing /\ InSync

-----------------------------------------------------------------------------
\* A metadata block is no longer than the longest one.
LEMMA BlockBound ==
    ASSUME NEW l \in Lengths
    PROVE  UNIT * l \in 0 .. UNIT * MaxLen
<1>1. UNIT \in Nat /\ MaxLen \in Nat /\ l \in Nat /\ l <= MaxLen
  BY IcyAssumption DEF Lengths
<1>2. UNIT * l \in Nat /\ UNIT * MaxLen \in Nat /\ UNIT * (MaxLen - l) \in Nat
  BY <1>1, SMT
<1>3. UNIT * MaxLen = UNIT * l + UNIT * (MaxLen - l)
  BY <1>1, SMT
<1> QED
  BY <1>1, <1>2, <1>3

\* The constants, as the arithmetic below uses them: Block is the longest
\* metadata block and Half the largest int plus one.
LEMMA Constants ==
    /\ METAINT \in Nat \ {0} /\ MaxChunk \in Nat \ {0}
    /\ UNIT * MaxLen \in Nat /\ INTW \in Nat /\ SIZEW \in Nat
    /\ INTW \div 2 \in Nat /\ 2 * (INTW \div 2) <= INTW
    /\ METAINT + MaxChunk + UNIT * MaxLen + 1 < INTW \div 2
    /\ 2 * INTW <= SIZEW
<1>1. UNIT * MaxLen \in Nat
  BY IcyAssumption
<1> QED
  BY <1>1, IcyAssumption

\* A place in the stream survives the trip through size_t and int.
LEMMA ToIntWrap ==
    ASSUME NEW p \in -(UNIT * MaxLen) .. METAINT
    PROVE  ToInt(Wrap(p)) = p
BY Constants DEF ToInt, Wrap

\* Advancing indx by a chunk, from any place outside the metadata or from
\* inside it, gives the same number as advancing the place, once it is not
\* negative.
LEMMA WrapAdvance ==
    ASSUME NEW p \in -(UNIT * MaxLen) .. METAINT, NEW n \in 0 .. MaxChunk,
           p + n >= 0
    PROVE  Wrap(Wrap(p) + n) = p + n
BY Constants DEF Wrap

\* The value of tmp is an int.
LEMMA ToIntRange ==
    ASSUME NEW x \in 0 .. SIZEW - 1
    PROVE  ToInt(x) \in -INTW .. INTW
<1>1. x % INTW \in 0 .. INTW - 1
  BY Constants
<1> QED
  BY <1>1, Constants DEF ToInt

\* What marks holds.
LEMMA MarkType ==
    ASSUME TypeOK
    PROVE  /\ \A k \in DOMAIN marks : /\ marks[k].off \in 0 .. MaxChunk - 1
                                      /\ marks[k].len \in Lengths
           /\ Len(marks) = 1 => marks # << >> /\ 1 \in DOMAIN marks
<1> DEFINE Mark == [off : 0 .. MaxChunk - 1, len : Lengths]
<1>1. marks \in Seq(Mark)
  BY DEF TypeOK
<1>2. ASSUME NEW k \in DOMAIN marks PROVE marks[k] \in Mark
  <2> HIDE DEF Mark
  <2> QED
    BY <1>1, <1>2
<1>3. Len(marks) = 1 => marks # << >> /\ 1 \in DOMAIN marks
  <2>1. DOMAIN marks = 1 .. Len(marks)
    <3> HIDE DEF Mark
    <3> QED
      BY <1>1
  <2>2. Len(<< >>) = 0
    OBVIOUS
  <2> QED
    BY <2>1, <2>2
<1> QED
  BY <1>2, <1>3

\* The length byte jump() may read is a legal length, and at the offset of
\* the only length byte it is that byte.
LEMMA ByteReadLengths ==
    ASSUME TypeOK, NEW i, NEW b \in ByteRead(i)
    PROVE  b \in Lengths
<1> DEFINE here == {k \in DOMAIN marks : marks[k].off = i}
<1>1. ASSUME NEW k \in DOMAIN marks PROVE marks[k].len \in Lengths
  BY <1>1, MarkType
<1>2. b \in Lengths \/ b \in {marks[k].len : k \in here}
  BY Zenon DEF ByteRead
<1> QED
  BY <1>1, <1>2

\* The only length byte of a chunk that has one.
LEMMA OneMark ==
    ASSUME TypeOK, Len(marks) = 1
    PROVE  /\ marks # << >>
           /\ marks[1].off \in 0 .. MaxChunk - 1
           /\ marks[1].len \in Lengths
           /\ UNIT * marks[1].len \in Nat
<1>1. /\ marks # << >>
      /\ marks[1].off \in 0 .. MaxChunk - 1 /\ marks[1].len \in Lengths
  BY MarkType
<1>2. UNIT * marks[1].len \in 0 .. UNIT * MaxLen
  BY <1>1, BlockBound
<1> QED
  BY <1>1, <1>2, Constants

LEMMA ByteReadOnly ==
    ASSUME TypeOK, Len(marks) = 1
    PROVE  ByteRead(marks[1].off) = {marks[1].len}
<1>1. DOMAIN marks = {1}
  BY DEF TypeOK
<1> QED
  BY <1>1 DEF ByteRead

-----------------------------------------------------------------------------
\* A chunk jump() can follow, starting at a place indx holds, leaves the
\* true place in indx; every fact about the step is here.
LEMMA FriendlyDelivery ==
    ASSUME IInv, friendly, Friendly, size > 0
    PROVE  /\ PassesBoundary <=> marks # << >>
           /\ marks # << >> => /\ ReadIndex = marks[1].off
                               /\ ReadIndex \in 0 .. size - 1
           /\ (IF PassesBoundary THEN JumpBoundary ELSE JumpInside)
                 => /\ indx' = Wrap(at)
                    /\ jumped' = IF marks = << >> THEN 0
                                 ELSE UNIT * marks[1].len + 1
<1>1. /\ start \in -(UNIT * MaxLen) .. METAINT
      /\ size \in 0 .. MaxChunk
      /\ marks \in Seq([off : 0 .. MaxChunk - 1, len : Lengths])
      /\ indx = Wrap(start)
  BY DEF IInv, TypeOK, InSync
<1>2. ToInt(indx) = start
  BY <1>1, ToIntWrap
<1>3. CASE Len(marks) = 1
  <2>1. /\ marks # << >>
        /\ marks[1].off = METAINT - start
        /\ marks[1].off < size
        /\ marks[1].off \in Nat
        /\ marks[1].len \in Lengths
        /\ at = start + size - METAINT - 1 - UNIT * marks[1].len
    BY <1>3, OneMark DEF IInv, Framing
  <2>2. PassesBoundary
    <3>1. start + size >= METAINT
      BY <1>1, <2>1, Constants
    <3> QED
      BY <1>1, <3>1, WrapAdvance, Constants DEF PassesBoundary
  <2>3. ReadIndex = marks[1].off /\ ReadIndex \in 0 .. size - 1
    BY <1>1, <1>2, <2>1, Constants DEF ReadIndex
  <2>4. ByteRead(ReadIndex) = {marks[1].len}
    BY <1>3, <2>3, ByteReadOnly DEF IInv
  <2>5. ASSUME JumpBoundary
        PROVE  /\ indx' = Wrap(size - ReadIndex - marks[1].len * UNIT - 1)
               /\ jumped' = marks[1].len * UNIT + 1
    BY <2>4, <2>5 DEF JumpBoundary
  <2>6. UNIT * marks[1].len \in Nat /\ marks[1].len * UNIT = UNIT * marks[1].len
    BY <2>1, IcyAssumption DEF Lengths
  <2>7. size - ReadIndex - marks[1].len * UNIT - 1 = at
    BY <1>1, <2>1, <2>3, <2>6, Constants
  <2> QED
    BY <2>1, <2>2, <2>3, <2>5, <2>6, <2>7
<1>4. CASE marks = << >>
  <2>1. start + size \in 0 .. METAINT - 1 /\ at = start + size
    BY <1>4 DEF Friendly, IInv, Framing
  <2>2. Wrap(indx + size) = start + size
    BY <1>1, <2>1, WrapAdvance
  <2>3. ~PassesBoundary
    BY <1>1, <2>1, <2>2, Constants DEF PassesBoundary
  <2>4. Wrap(at) = at
    BY <1>1, <2>1, Constants DEF Wrap
  <2> QED
    BY <1>4, <2>1, <2>2, <2>3, <2>4 DEF JumpInside
<1> QED
  BY <1>3, <1>4 DEF Friendly

-----------------------------------------------------------------------------
LEMMA InitIInv == Init => IInv
<1> SUFFICES ASSUME Init PROVE IInv
  OBVIOUS
<1>1. TypeOK
  BY Constants DEF Init, TypeOK
<1>2. Framing
  BY DEF Init, Framing
<1>3. InSync
  BY Constants DEF Init, InSync, Wrap
<1> QED
  BY <1>1, <1>2, <1>3 DEF IInv

LEMMA PayloadByteIInv ==
    ASSUME IInv, PayloadByte
    PROVE  IInv'
<1>1. TypeOK'
  BY Constants DEF IInv, TypeOK, PayloadByte
<1>2. Framing'
  <2>1. marks' = marks /\ start' = start /\ at' = at + 1 /\ size' = size + 1
    BY DEF PayloadByte
  <2>2. CASE marks = << >>
    BY <2>1, <2>2, Constants DEF IInv, TypeOK, Framing
  <2>3. CASE Len(marks) = 1
    <3>1. /\ marks[1].off = METAINT - start /\ marks[1].off < size
          /\ at = start + size - METAINT - 1 - UNIT * marks[1].len
          /\ UNIT * marks[1].len \in Nat
          /\ marks # << >>
      BY <2>3, OneMark DEF IInv, Framing
    <3>2. start \in Int /\ size \in Int /\ METAINT \in Int
      BY Constants DEF IInv, TypeOK
    <3> QED
      BY <2>1, <3>1, <3>2 DEF Framing
  <2>4. CASE marks # << >> /\ Len(marks) # 1
    BY <2>1, <2>4 DEF Framing
  <2> QED
    BY <2>2, <2>3, <2>4
<1>3. InSync'
  BY DEF IInv, InSync, PayloadByte, Wrap
<1> QED
  BY <1>1, <1>2, <1>3 DEF IInv

LEMMA LengthByteIInv ==
    ASSUME IInv, NEW l \in Lengths, LengthByte(l)
    PROVE  IInv'
<1>1. UNIT * l \in 0 .. UNIT * MaxLen
  BY BlockBound
<1>2. [off |-> size, len |-> l] \in [off : 0 .. MaxChunk - 1, len : Lengths]
  BY Constants DEF IInv, TypeOK, LengthByte
<1>3. TypeOK'
  BY <1>1, <1>2, Constants DEF IInv, TypeOK, LengthByte
<1>4. Framing'
  <2>1. marks' # << >>
    BY DEF IInv, TypeOK, LengthByte
  <2>2. ASSUME Len(marks') = 1
        PROVE  marks = << >> /\ marks'[1] = [off |-> size, len |-> l]
    BY <2>2 DEF IInv, TypeOK, LengthByte
  <2>3. start' = start /\ at = METAINT /\ at' = -(UNIT * l) /\ size' = size + 1
    BY DEF LengthByte
  <2>4. start \in Int /\ size \in Nat /\ METAINT \in Int
    BY Constants DEF IInv, TypeOK
  <2>5. ASSUME Len(marks') = 1
        PROVE  /\ marks'[1].off = METAINT - start
               /\ marks'[1].off < size + 1
               /\ at' = start + (size + 1) - METAINT - 1 - UNIT * marks'[1].len
    BY <1>1, <2>2, <2>3, <2>4, <2>5 DEF IInv, Framing
  <2> QED
    BY <2>1, <2>3, <2>5 DEF Framing
<1>5. InSync'
  BY DEF IInv, InSync, LengthByte, Wrap
<1> QED
  BY <1>3, <1>4, <1>5 DEF IInv

LEMMA DeliverIInv ==
    ASSUME IInv, Deliver
    PROVE  IInv'
<1>1. indx' \in 0 .. SIZEW - 1 /\ jumped' \in 0 .. UNIT * MaxLen + 1
  <2>1. CASE PassesBoundary
    <3>1. PICK byte \in ByteRead(ReadIndex) :
              /\ indx' = Wrap(size - ReadIndex - byte * UNIT - 1)
              /\ jumped' = byte * UNIT + 1
      BY <2>1 DEF Deliver, JumpBoundary
    <3>2. byte \in Lengths
      BY ByteReadLengths DEF IInv
    <3>3. UNIT * byte \in 0 .. UNIT * MaxLen
      BY <3>2, BlockBound
    <3>4. byte * UNIT = UNIT * byte
      BY <3>2, IcyAssumption DEF Lengths
    <3>5. ToInt(indx) \in -INTW .. INTW /\ size \in 0 .. MaxChunk
      BY ToIntRange DEF IInv, TypeOK
    <3>6. size - ReadIndex - byte * UNIT - 1 \in -SIZEW .. SIZEW - 1
      BY <3>3, <3>4, <3>5, Constants DEF ReadIndex
    <3> QED
      BY <3>1, <3>3, <3>4, <3>6, Constants DEF Wrap
  <2>2. CASE ~PassesBoundary
    <3>1. indx' = Wrap(indx + size) /\ jumped' = 0
      BY <2>2 DEF Deliver, JumpInside
    <3>2. indx + size \in 0 .. 2 * SIZEW - 1
      BY Constants DEF IInv, TypeOK
    <3> QED
      BY <3>1, <3>2, Constants DEF Wrap
  <2> QED
    BY <2>1, <2>2
<1>2. TypeOK'
  BY <1>1, Constants DEF IInv, TypeOK, Deliver
<1>3. Framing'
  BY Constants DEF IInv, TypeOK, Framing, Deliver
<1>4. InSync'
  <2> SUFFICES ASSUME friendly' PROVE indx' = Wrap(start')
    BY DEF InSync, Wrap
  <2>1. friendly /\ Friendly /\ start' = at
    BY DEF Deliver
  <2>2. indx' = Wrap(at)
    BY <2>1, FriendlyDelivery DEF Deliver
  <2> QED
    BY <2>1, <2>2
<1> QED
  BY <1>2, <1>3, <1>4 DEF IInv

LEMMA StutterIInv ==
    ASSUME IInv, UNCHANGED vars
    PROVE  IInv'
BY DEF IInv, TypeOK, Framing, InSync, Wrap, vars

THEOREM IInvHolds == Spec => []IInv
<1>1. IInv /\ [Next]_vars => IInv'
  BY PayloadByteIInv, LengthByteIInv, DeliverIInv, StutterIInv DEF Next
<1> QED
  BY <1>1, InitIInv, PTL DEF Spec

\* Every number stays in its range: the place in the stream, and the size_t
\* and the int jump() computes with (index.c:42-78).
THEOREM TypeCorrect == Spec => []TypeOK
BY IInvHolds, PTL DEF IInv

\* For every interval, chunk size and block length, indx holds the true
\* place in the stream after any number of friendly chunks (index.c:42-53).
THEOREM StaysInSync == Spec => []InSync
BY IInvHolds, PTL DEF IInv

\* jump() looks for the length where it is, inside the chunk, and only when
\* it is there (index.c:44-60).
THEOREM AlwaysReadsTheLength == Spec => []ReadsTheLength
<1>1. IInv => ReadsTheLength
  <2> SUFFICES ASSUME IInv, friendly, Friendly
               PROVE  /\ PassesBoundary <=> marks # << >>
                      /\ marks # << >> => ReadIndex = marks[1].off
    BY DEF ReadsTheLength
  <2>1. CASE size > 0
    BY <2>1, FriendlyDelivery
  <2>2. CASE size = 0
    <3>1. marks = << >>
      <4>1. ASSUME Len(marks) = 1 PROVE FALSE
        BY <2>2, <4>1, OneMark, Constants DEF IInv, Framing
      <4> QED
        BY <4>1 DEF Friendly
    <3>2. start \in 0 .. METAINT - 1 /\ indx = Wrap(start)
      BY <2>2, <3>1, Constants DEF IInv, TypeOK, InSync, Friendly
    <3> QED
      BY <2>2, <3>1, <3>2, Constants DEF PassesBoundary, Wrap
  <2> QED
    BY <2>1, <2>2 DEF IInv, TypeOK
<1> QED
  BY <1>1, IInvHolds, PTL

\* What jump() returns is the size of the metadata block the chunk starts
\* (index.c:75, 78).
THEOREM ReturnsTheBlock == Spec => JumpedRight
<1>1. IInv /\ [Next]_vars =>
        [size' = 0 /\ friendly' =>
           jumped' = IF marks = << >> THEN 0 ELSE UNIT * marks[1].len + 1]_vars
  <2> SUFFICES ASSUME IInv, Next, size' = 0, friendly'
               PROVE  jumped' = IF marks = << >> THEN 0
                                ELSE UNIT * marks[1].len + 1
    OBVIOUS
  <2>1. Deliver
    <3>1. size \in Nat
      BY Constants DEF IInv, TypeOK
    <3>2. PayloadByte \/ (\E l \in Lengths : LengthByte(l)) => size' = size + 1
      BY DEF PayloadByte, LengthByte
    <3> QED
      BY <3>1, <3>2 DEF Next
  <2> QED
    BY <2>1, FriendlyDelivery DEF Deliver
<1> QED
  BY <1>1, IInvHolds, PTL DEF Spec, JumpedRight

-----------------------------------------------------------------------------
(* play_stream2() *)

\* The place in the stream is all play_stream2() depends on of IcyJump.
PlaceOK == at \in -(UNIT * MaxLen) .. METAINT /\ size \in Nat

PlayerInv == PlaceOK /\ PlayerTypeOK /\ PlayerInSync

-----------------------------------------------------------------------------
\* A metadata block, as play_stream2() computes it, is less than a turn.
LEMMA BlockOfChar ==
    ASSUME NEW byte \in 0 .. CHARW - 1
    PROVE  /\ AbsChar(byte) \in 0 .. CHARW
           /\ UNIT * AbsChar(byte) \in 0 .. UNIT * CHARW
<1>1. AbsChar(byte) \in 0 .. CHARW
  BY PlayerAssumption DEF AbsChar
<1>2. ASSUME NEW a \in 0 .. CHARW
      PROVE  UNIT * a \in 0 .. UNIT * CHARW
  <2>1. UNIT \in Nat /\ CHARW \in Nat /\ a \in Nat /\ CHARW - a \in Nat
    BY PlayerAssumption, IcyAssumption
  <2>2. UNIT * a \in Nat /\ UNIT * (CHARW - a) \in Nat /\ UNIT * CHARW \in Nat
    BY <2>1, SMT
  <2>3. UNIT * CHARW = UNIT * a + UNIT * (CHARW - a)
    BY <2>1, SMT
  <2> QED
    BY <2>1, <2>2, <2>3
<1> QED
  BY <1>1, <1>2

\* A block of the stream is one play_stream2() can compute.
LEMMA BlockOfLength ==
    ASSUME NEW l \in Lengths
    PROVE  /\ l \in 0 .. CHARW - 1
           /\ UNIT * l \in 0 .. UNIT * MaxLen
<1>1. UNIT \in Nat /\ MaxLen \in Nat /\ l \in Nat /\ MaxLen - l \in Nat /\ l < CHARW
  BY IcyAssumption, PlayerAssumption DEF Lengths
<1>2. UNIT * l \in Nat /\ UNIT * (MaxLen - l) \in Nat /\ UNIT * MaxLen \in Nat
  BY <1>1, SMT
<1>3. UNIT * MaxLen = UNIT * l + UNIT * (MaxLen - l)
  BY <1>1, SMT
<1> QED
  BY <1>1, <1>2, <1>3, PlayerAssumption

\* Lengths up to 128 survive the char.
LEMMA AbsCharSmall ==
    ASSUME NEW l \in Lengths, l <= CHARW \div 2
    PROVE  AbsChar(l) = l
BY PlayerAssumption, IcyAssumption DEF AbsChar, Lengths

\* The constants, as the steps below use them.
LEMMA PlayerConstants ==
    /\ METAINT \in Nat \ {0} /\ INTW \in Nat /\ CHARW \in Nat
    /\ UNIT * MaxLen \in Nat /\ UNIT * CHARW \in Nat
    /\ UNIT * MaxLen <= UNIT * CHARW
    /\ METAINT + 1 + UNIT * CHARW < INTW
<1>1. UNIT \in Nat /\ MaxLen \in Nat /\ CHARW \in Nat /\ CHARW - MaxLen \in Nat
  BY IcyAssumption, PlayerAssumption
<1>2. UNIT * MaxLen \in Nat /\ UNIT * CHARW \in Nat /\ UNIT * (CHARW - MaxLen) \in Nat
  BY <1>1, SMT
<1>3. UNIT * CHARW = UNIT * MaxLen + UNIT * (CHARW - MaxLen)
  BY <1>1, SMT
<1> QED
  BY <1>1, <1>2, <1>3, IcyAssumption, PlayerAssumption

\* The counters stay ints, whatever is taken for a length.
LEMMA PlayTyped ==
    ASSUME PlayerTypeOK, NEW byte \in 0 .. CHARW - 1, Play(byte)
    PROVE  bufferCount' \in 0 .. INTW - 1 /\ interval' \in 0 .. INTW - 1
<1> DEFINE block == UNIT * AbsChar(byte)
<1>1. block \in 0 .. UNIT * CHARW
  BY BlockOfChar
<1>2. /\ bufferCount' = WrapInt(bufferCount + 1)
      /\ \/ interval' = WrapInt(interval + block + 1 + METAINT)
         \/ interval' = interval
  BY DEF Play
<1> HIDE DEF block
<1> QED
  BY <1>1, <1>2, PlayerConstants DEF WrapInt, PlayerTypeOK

\* A byte that is not a length byte leaves the next one where it is.
LEMMA PayloadInSync ==
    ASSUME PlayerInv, PlayPayloadByte
    PROVE  PlayerInv'
<1>1. PICK byte \in 0 .. CHARW - 1 : Play(byte)
  BY DEF PlayPayloadByte
<1>2. at < METAINT /\ at' = at + 1 /\ small' = small /\ size' = size + 1
  BY DEF PlayPayloadByte, PayloadByte
<1>3. PlaceOK' /\ PlayerTypeOK'
  BY <1>1, <1>2, PlayTyped, PlayerConstants DEF PlayerInv, PlaceOK, PlayerTypeOK
<1>4. ASSUME small PROVE interval' = WrapInt(bufferCount' + METAINT - at')
  <2>1. interval = WrapInt(bufferCount + METAINT - at) /\ at \in Int
    BY <1>4, PlayerConstants DEF PlayerInv, PlayerInSync, PlaceOK
  <2>2. bufferCount # interval
    BY <1>2, <2>1, PlayerConstants DEF PlayerInv, PlaceOK, PlayerTypeOK, WrapInt
  <2>3. interval' = interval /\ bufferCount' = WrapInt(bufferCount + 1)
    BY <1>1, <2>2 DEF Play
  <2> QED
    BY <1>2, <2>1, <2>2, <2>3, PlayerConstants
    DEF PlayerInv, PlaceOK, PlayerTypeOK, WrapInt
<1> QED
  BY <1>2, <1>3, <1>4 DEF PlayerInv, PlayerInSync

\* A length byte is at the count interval, and moves it behind its block.
LEMMA LengthInSync ==
    ASSUME PlayerInv, NEW l \in Lengths, PlayLengthByte(l)
    PROVE  PlayerInv' /\ (small => interval' # interval)
<1> DEFINE block == UNIT * l
<1>1. /\ at = METAINT /\ at' = -block /\ Play(l) /\ size' = size + 1
      /\ small' = (small /\ l <= CHARW \div 2)
  BY DEF PlayLengthByte, LengthByte
<1>2. /\ l \in 0 .. CHARW - 1
      /\ block \in 0 .. UNIT * MaxLen
  BY BlockOfLength
<1>3. PlaceOK' /\ PlayerTypeOK'
  <2> HIDE DEF block
  <2> QED
    BY <1>1, <1>2, PlayTyped, PlayerConstants DEF PlayerInv, PlaceOK, PlayerTypeOK
<1>4. ASSUME small
      PROVE  /\ bufferCount = interval
             /\ bufferCount' = WrapInt(bufferCount + 1)
             /\ interval' = WrapInt(interval + UNIT * AbsChar(l) + 1 + METAINT)
  <2>1. bufferCount = interval
    BY <1>1, <1>4, PlayerConstants
    DEF PlayerInv, PlayerInSync, PlayerTypeOK, WrapInt
  <2> QED
    BY <1>1, <2>1 DEF Play
<1>5. ASSUME small'
      PROVE  interval' = WrapInt(bufferCount' + METAINT - at')
  <2>1. AbsChar(l) = l /\ small
    BY <1>1, <1>5, AbsCharSmall
  <2>2. /\ bufferCount = interval
        /\ bufferCount' = WrapInt(bufferCount + 1)
        /\ interval' = WrapInt(interval + block + 1 + METAINT)
    BY <1>4, <2>1
  <2> HIDE DEF block
  <2> QED
    BY <1>1, <1>2, <2>2, PlayerConstants DEF PlayerInv, PlayerTypeOK, WrapInt
<1>6. small => interval' # interval
  <2> DEFINE read == UNIT * AbsChar(l)
  <2>1. read \in 0 .. UNIT * CHARW
    BY <1>2, BlockOfChar
  <2>2. small => interval' = WrapInt(interval + read + 1 + METAINT)
    BY <1>4
  <2> HIDE DEF read
  <2> QED
    BY <2>1, <2>2, PlayerConstants DEF PlayerInv, PlayerTypeOK, WrapInt
<1> QED
  BY <1>3, <1>5, <1>6 DEF PlayerInv, PlayerInSync

\* The initial state is in step.
LEMMA PlayerInitInv == PlayerInit => PlayerInv
BY PlayerConstants
DEF PlayerInit, Init, PlayerInv, PlaceOK, PlayerTypeOK, PlayerInSync, WrapInt

\* Every step stays in step.
LEMMA PlayerNextInv == PlayerInv /\ [PlayerNext]_playerVars => PlayerInv'
<1> SUFFICES ASSUME PlayerInv, [PlayerNext]_playerVars
             PROVE  PlayerInv'
  OBVIOUS
<1>1. CASE PlayPayloadByte
  BY <1>1, PayloadInSync
<1>2. ASSUME NEW l \in Lengths, PlayLengthByte(l)
      PROVE  PlayerInv'
  BY <1>2, LengthInSync
<1>3. CASE Deliver /\ UNCHANGED <<bufferCount, interval, small>>
  BY <1>3 DEF Deliver, PlayerInv, PlaceOK, PlayerTypeOK, PlayerInSync, WrapInt
<1>4. CASE UNCHANGED playerVars
  BY <1>4 DEF playerVars, vars, PlayerInv, PlaceOK, PlayerTypeOK, PlayerInSync, WrapInt
<1> QED
  BY <1>1, <1>2, <1>3, <1>4 DEF PlayerNext

\* The player takes no part in the stream, so that what IcyJumpProofs shows
\* of index.c holds beside it.
LEMMA PlayerWatches == PlayerSpec => Spec
<1>1. PlayerInit => Init
  BY DEF PlayerInit
<1>2. [PlayerNext]_playerVars => [Next]_vars
  BY DEF PlayerNext, Next, PlayPayloadByte, PlayLengthByte, playerVars, vars
<1> QED
  BY <1>1, <1>2, PTL DEF PlayerSpec, Spec

(***************************************************************************)
(* interval is the count of the next length byte as long as no block was   *)
(* longer than 128 units, though both counters wrap (test2.c:210-216).     *)
(***************************************************************************)
THEOREM PlayerKeepsPlace == PlayerSpec => []PlayerInSync
<1>1. PlayerInv => PlayerInSync
  BY DEF PlayerInv
<1> QED
  BY <1>1, PlayerInitInv, PlayerNextInv, PTL DEF PlayerSpec

\* The two counters of test2.c (test2.c:70-71) stay in the range of an int.
THEOREM PlayerTyped == PlayerSpec => []PlayerTypeOK
<1>1. PlayerInv => PlayerTypeOK
  BY DEF PlayerInv
<1> QED
  BY <1>1, PlayerInitInv, PlayerNextInv, PTL DEF PlayerSpec

(***************************************************************************)
(* While the blocks are no longer than 128 units, exactly the length bytes *)
(* are taken for lengths (test2.c:210-216).                                *)
(***************************************************************************)
THEOREM PlayerTakesLengths == PlayerSpec => TakesLengthsOnly
<1>1. ASSUME PlayerInv, PlayerNext, small', size' > size
      PROVE  interval' # interval <=> at = METAINT
  <2>1. CASE PlayPayloadByte
    <3>1. at < METAINT /\ small
      BY <1>1, <2>1 DEF PlayPayloadByte, PayloadByte
    <3>2. PICK byte \in 0 .. CHARW - 1 : Play(byte)
      BY <2>1 DEF PlayPayloadByte
    <3>3. bufferCount # interval
      BY <1>1, <3>1, PlayerConstants
      DEF PlayerInv, PlayerInSync, PlaceOK, PlayerTypeOK, WrapInt
    <3> QED
      BY <1>1, <3>1, <3>2, <3>3, PlayerConstants DEF Play, PlayerInv, PlaceOK
  <2>2. ASSUME NEW l \in Lengths, PlayLengthByte(l)
        PROVE  interval' # interval /\ at = METAINT
    <3>1. small
      BY <1>1, <2>2 DEF PlayLengthByte
    <3> QED
      BY <1>1, <2>2, <3>1, LengthInSync DEF PlayLengthByte, LengthByte
  <2>3. CASE Deliver
    BY <1>1, <2>3 DEF Deliver, PlayerInv, PlaceOK
  <2> QED
    BY <1>1, <2>1, <2>2, <2>3 DEF PlayerNext
<1>2. PlayerInv /\ [PlayerNext]_playerVars
        => [small' /\ size' > size => (interval' # interval <=> at = METAINT)]_playerVars
  BY <1>1
<1> QED
  BY <1>2, PlayerInitInv, PlayerNextInv, PTL DEF PlayerSpec, TakesLengthsOnly
=============================================================================
