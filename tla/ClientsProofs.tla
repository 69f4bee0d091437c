--------------------------- MODULE ClientsProofs ---------------------------
(***************************************************************************)
(* The clients, for any number of songs, requests and records on their     *)
(* way, any buffer, any stream and any status: each of them by itself, and *)
(* from that what holds of whichever of them runs.                         *)
(***************************************************************************)
EXTENDS MCClients, SequenceTheorems, FiniteSetTheorems, WellFoundedInduction, TLAPS

(***************************************************************************)
(* Whichever client runs behaves as its own specification says, and so do  *)
(* the others, which do nothing.                                           *)
(***************************************************************************)

LEMMA MetaRuns == ClientsSpec => Spec
<1>1. ClientsInit => Init
  BY DEF ClientsInit
<1>2. [ClientsNext]_allVars => [Next]_vars
  BY DEF ClientsNext, allVars
<1> QED
  BY <1>1, <1>2, PTL DEF ClientsSpec, Spec

LEMMA EventRuns == ClientsSpec => Event!Spec
<1>1. ClientsInit => Event!Init
  BY DEF ClientsInit
<1>2. [ClientsNext]_allVars => [Event!Next]_Event!vars
  BY DEF ClientsNext, allVars, eventVars, Event!vars
<1> QED
  BY <1>1, <1>2, PTL DEF ClientsSpec, Event!Spec

LEMMA UvRuns == ClientsSpec => Uv!Spec
<1>1. ClientsInit => Uv!Init
  BY DEF ClientsInit
<1>2. [ClientsNext]_allVars => [Uv!Next]_Uv!vars
  BY DEF ClientsNext, allVars, uvVars, Uv!vars
<1> QED
  BY <1>1, <1>2, PTL DEF ClientsSpec, Uv!Spec

LEMMA HttpRuns == ClientsSpec => Http!Spec
<1>1. ClientsInit => Http!Init
  BY DEF ClientsInit
<1>2. [ClientsNext]_allVars => [Http!Next]_Http!vars
  BY DEF ClientsNext, allVars, httpVars, Http!vars
<1> QED
  BY <1>1, <1>2, PTL DEF ClientsSpec, Http!Spec

LEMMA WsRuns == ClientsSpec => Ws!Spec
<1>1. ClientsInit => Ws!Init
  BY DEF ClientsInit
<1>2. [ClientsNext]_allVars => [Ws!Next]_Ws!vars
  BY DEF ClientsNext, allVars, wsVars, Ws!vars
<1> QED
  BY <1>1, <1>2, PTL DEF ClientsSpec, Ws!Spec

-----------------------------------------------------------------------------
(* The libwebsockets clients *)

\* The status comes with the connection, and "bad" is made from it when the
\* connection ends, as every one does before main() returns.
HttpInv ==
    /\ Http!TypeOK
    /\ wsi \in {"none", "connecting"} => status = 0
    /\ wsi # "closed" => bad # 0
    /\ wsi = "closed" => (bad = 0 <=> status = 200)
    /\ httpPc = "create" => wsi = "none"
    /\ httpPc \in {"bail", "exited"} => wsi \in {"none", "closed"}

LEMMA HttpStart == Http!Init => HttpInv
BY ClientsAssumption DEF Http!Init, Http!LwsAssumption, HttpInv, Http!TypeOK

LEMMA HttpStep == HttpInv /\ [Http!Next]_Http!vars => HttpInv'
<1> SUFFICES ASSUME HttpInv, [Http!Next]_Http!vars PROVE HttpInv'
  OBVIOUS
<1> USE ClientsAssumption DEF Http!LwsAssumption, HttpInv, Http!TypeOK
<1>1. CASE Http!CreateContext \/ Http!Test \/ Http!Enter \/ Http!Return \/ Http!Bail
  BY <1>1 DEF Http!CreateContext, Http!Test, Http!Enter, Http!Return, Http!Bail
<1>2. CASE Http!Destroy
  <2>1. /\ httpInterrupted' \in BOOLEAN /\ httpPc' = "bail"
        /\ UNCHANGED <<opts, status, long_poll>>
    BY <1>2 DEF Http!Destroy, Http!Closes, Http!Ends, Http!Fails
  <2>2. CASE wsi = "open"
    BY <1>2, <2>1, <2>2 DEF Http!Destroy, Http!Closes, Http!Ends
  <2>3. CASE wsi = "connecting"
    BY <1>2, <2>1, <2>3 DEF Http!Destroy, Http!Fails
  <2>4. CASE wsi \in {"none", "closed"}
    BY <1>2, <2>1, <2>4 DEF Http!Destroy
  <2> QED
    BY <2>2, <2>3, <2>4
<1>3. CASE Http!sigint_handler
  BY <1>3 DEF Http!sigint_handler
<1>4. CASE Http!system_notify_cb
  <2>1. /\ httpInterrupted' \in BOOLEAN /\ long_poll' \in BOOLEAN
        /\ UNCHANGED <<opts, status>> /\ httpPc' = "served" /\ wsi = "none"
    BY <1>4 DEF Http!system_notify_cb, Http!Serving, Http!Closes, Http!Ends, Http!Fails
  <2>2. status = 0 /\ bad # 0
    BY <2>1
  <2>3. \/ wsi' = "closed" /\ bad' = 2
        \/ wsi' = "connecting" /\ UNCHANGED bad
        \/ Http!Fails \/ Http!Closes
    BY <1>4 DEF Http!system_notify_cb
  <2>4. Http!Fails => wsi' = "closed" /\ bad' = 3
    BY DEF Http!Fails
  <2>5. Http!Closes => wsi' = "closed" /\ bad' = 1
    BY <2>2 DEF Http!Closes, Http!Ends
  <2> QED
    BY <2>1, <2>2, <2>3, <2>4, <2>5
<1>5. CASE Http!ConnectionError
  <2>1. /\ httpInterrupted' \in BOOLEAN /\ httpPc' = "served"
        /\ UNCHANGED <<opts, status, long_poll>>
        /\ wsi = "connecting" /\ wsi' = "closed" /\ bad' = 3
    BY <1>5 DEF Http!ConnectionError, Http!Serving, Http!Fails
  <2> QED
    BY <2>1
<1>6. CASE Http!Established \/ Http!Receive
  <2>1. /\ httpPc' = "served" /\ wsi' = "open"
        /\ UNCHANGED <<opts, httpInterrupted, bad, long_poll>>
        /\ status' \in Statuses \cup {0}
        /\ wsi # "closed"
    BY <1>6 DEF Http!Established, Http!Receive, Http!Serving
  <2> QED
    BY <2>1
<1>7. CASE Http!Completed \/ Http!Closed
  <2>1. /\ httpInterrupted' \in BOOLEAN /\ httpPc' = "served"
        /\ UNCHANGED <<opts, status, long_poll>>
        /\ wsi' = "closed" /\ bad' = IF status = 200 THEN 0 ELSE 1
    BY <1>7 DEF Http!Completed, Http!Closed, Http!Serving, Http!Closes, Http!Ends
  <2> QED
    BY <2>1
<1>8. CASE UNCHANGED Http!vars
  BY <1>8 DEF Http!vars
<1> QED
  BY <1>1, <1>2, <1>3, <1>4, <1>5, <1>6, <1>7, <1>8 DEF Http!Next, Http!Main, Http!Service

LEMMA HttpHolds == ClientsSpec => []HttpInv
BY HttpRuns, HttpStart, HttpStep, PTL DEF Http!Spec

\* SIGINT or not, context or not, connected or not: 0 is "the server has
\* answered 200" (minimal-http-client.c:181-196, 424, 430).
THEOREM ExitCodeRight == ClientsSpec => []ExitTellsStatus
<1>1. HttpInv => ExitTellsStatus
  BY ClientsAssumption DEF HttpInv, Http!TypeOK, Http!LwsAssumption,
                           ExitTellsStatus, Http!ExitTellsStatus
<1> QED
  BY <1>1, HttpHolds, PTL

LEMMA WsHolds == ClientsSpec => []Ws!TypeOK
<1> USE ClientsAssumption DEF Ws!WsAssumption, Ws!TypeOK
<1>1. ASSUME Ws!Init PROVE Ws!TypeOK
  <2>1. rx_seen \in 0 .. MaxSeen /\ inCall \in 0 .. Burst
    BY <1>1 DEF Ws!Init
  <2> QED
    BY <1>1, <2>1 DEF Ws!Init
<1>2. Ws!TypeOK /\ [Ws!Next]_Ws!vars => Ws!TypeOK'
  <2> SUFFICES ASSUME Ws!TypeOK, [Ws!Next]_Ws!vars PROVE Ws!TypeOK'
    OBVIOUS
  <2>1. CASE Ws!Main
    BY <2>1 DEF Ws!Main, Ws!Connect, Ws!Test, Ws!Enter, Ws!Return, Ws!Destroy
  <2>2. CASE Ws!Service
    BY <2>2 DEF Ws!Service, Ws!Established, Ws!Receive, Ws!Gone, Ws!Serving
  <2>3. CASE Ws!sigint_handler
    BY <2>3 DEF Ws!sigint_handler
  <2>4. CASE UNCHANGED Ws!vars
    BY <2>4 DEF Ws!vars
  <2> QED
    BY <2>1, <2>2, <2>3, <2>4 DEF Ws!Next
<1> QED
  BY <1>1, <1>2, WsRuns, PTL DEF Ws!Spec

-----------------------------------------------------------------------------
(* The event clients *)

\* Over plain TCP what was sent is either printed or still in the kernel, and
\* a program that ends of itself has seen the kernel empty and closed.
Plain == kind \in {"http", "sse"}

EventInv ==
    /\ Event!TypeOK
    /\ Plain => /\ eventPc \in {"poll", "read", "ended"}
                /\ sent = printed + Len(records)
                /\ eventPc = "ended" => broke \/ (records = << >> /\ ~open)

LEMMA EventStart == Event!Init => EventInv
<1> SUFFICES ASSUME Event!Init PROVE EventInv
  OBVIOUS
<1> USE ClientsAssumption DEF Event!Init, Event!EventAssumption
<1>1. /\ sent \in 0 .. MaxSent /\ pending \in 0 .. MaxRecord
      /\ records \in Seq(0 .. MaxRecord) /\ Len(records) = 0
      /\ printed \in Nat /\ taken \in Nat
  OBVIOUS
<1>2. eventPc \in {"poll", "read"} /\ open \in BOOLEAN /\ broke \in BOOLEAN /\ big \in BOOLEAN
  OBVIOUS
<1> QED
  BY <1>1, <1>2 DEF EventInv, Event!TypeOK, Plain

LEMMA PublishStep ==
    ASSUME EventInv, Event!Publish
    PROVE  EventInv'
<1>1. PICK n \in (IF Event!Tls THEN 0 ELSE 1) .. Event!MinOf(MaxRecord, MaxSent - sent) :
        /\ sent' = sent + n
        /\ records' = IF Event!Tls THEN Append(records, n)
                      ELSE records \o [j \in 1 .. n |-> 1]
        /\ big' = (big \/ n > BUF)
  BY DEF Event!Publish
<1>2. /\ sent \in 0 .. MaxSent /\ records \in Seq(0 .. MaxRecord) /\ printed \in Nat
      /\ MaxSent \in Nat /\ MaxRecord \in Nat
  BY ClientsAssumption DEF EventInv, Event!TypeOK, Event!EventAssumption
<1>3. /\ n \in 0 .. MaxRecord /\ sent' \in 0 .. MaxSent
      /\ ~Event!Tls => n > 0
      /\ big' \in BOOLEAN
  BY <1>1, <1>2 DEF Event!MinOf
<1>4. UNCHANGED <<kind, open, pending, printed, taken, eventPc, broke>> /\ open
  BY DEF Event!Publish
<1>5. /\ records' \in Seq(0 .. MaxRecord)
      /\ ~Event!Tls => Len(records') = Len(records) + n
  <2>1. CASE Event!Tls
    BY <1>1, <1>2, <1>3, <2>1
  <2>2. CASE ~Event!Tls
    <3>1. [j \in 1 .. n |-> 1] \in Seq(0 .. MaxRecord) /\ Len([j \in 1 .. n |-> 1]) = n
      BY <1>2, <1>3, <2>2
    <3> QED
      BY <1>1, <1>2, <2>2, <3>1
  <2> QED
    BY <2>1, <2>2
<1>6. Plain => ~Event!Tls /\ sent = printed + Len(records)
  BY DEF EventInv, Plain, Event!Tls
<1>7. Plain' => sent' = printed' + Len(records')
  <2>1. CASE Plain
    <3>1. Len(records) \in Nat /\ Len(records') = Len(records) + n
      BY <1>2, <1>5, <1>6, <2>1
    <3> QED
      BY <1>1, <1>2, <1>3, <1>4, <1>6, <2>1, <3>1
  <2> QED
    BY <1>4, <2>1 DEF Plain
<1> QED
  BY <1>3, <1>4, <1>5, <1>7 DEF EventInv, Event!TypeOK, Plain

LEMMA ReadStep ==
    ASSUME EventInv, Event!ReadHttp \/ Event!ReadSse
    PROVE  EventInv'
<1>1. /\ UNCHANGED <<kind, sent, open, pending, taken, broke, big>>
      /\ eventPc' \in {"poll", "read", "ended"}
  BY DEF Event!ReadHttp, Event!ReadSse
<1>2. /\ records \in Seq(0 .. MaxRecord) /\ Len(records) \in Nat /\ printed \in Nat
      /\ BUF \in Nat \ {0} /\ MaxRecord \in Nat
      /\ Plain => sent = printed + Len(records)
  BY ClientsAssumption DEF EventInv, Event!TypeOK, Event!EventAssumption
<1>3. CASE Event!TakeStream /\ eventPc' # "ended"
  <2> DEFINE n == Event!MinOf(BUF, Len(records))
  <2>1. n \in 1 .. Len(records)
    BY <1>2, <1>3 DEF Event!TakeStream, Event!MinOf
  <2>2. records' = SubSeq(records, n + 1, Len(records))
    BY <1>3 DEF Event!TakeStream
  <2>3. printed' = printed + n
    BY <1>3 DEF Event!TakeStream
  <2> HIDE DEF n
  <2>4. records' \in Seq(0 .. MaxRecord) /\ Len(records') = Len(records) - n
    BY <1>2, <2>1, <2>2
  <2>5. printed' \in Nat /\ printed' + Len(records') = printed + Len(records)
    BY <1>2, <2>1, <2>3, <2>4
  <2> QED
    BY <1>1, <1>2, <1>3, <2>4, <2>5 DEF EventInv, Event!TypeOK, Plain
<1>4. CASE records = << >> /\ ~open /\ UNCHANGED <<records, printed>>
  BY <1>1, <1>4 DEF EventInv, Event!TypeOK, Plain
<1> QED
  BY <1>3, <1>4 DEF Event!ReadHttp, Event!ReadSse

\* What the clients over TLS take, out of the kernel or out of the library.
LEMMA TlsReadStep ==
    ASSUME EventInv, Event!ReadSse3 \/ Event!ReadFirst \/ Event!RecvRaw \/ Event!SslReadTicket
    PROVE  EventInv'
<1>1. /\ UNCHANGED <<kind, sent, open, broke, big>> /\ ~Plain
      /\ eventPc' \in {"read", "sleep", "search", "send", "recv", "ended"}
  BY DEF EventInv, Event!TypeOK, Plain, Event!Tls,
         Event!ReadSse3, Event!ReadFirst, Event!RecvRaw, Event!SslReadTicket
<1>2. /\ records \in Seq(0 .. MaxRecord) /\ pending \in 0 .. MaxRecord
      /\ printed \in Nat /\ taken \in Nat
      /\ BUF \in Nat \ {0} /\ MaxRecord \in Nat
  BY ClientsAssumption DEF EventInv, Event!TypeOK, Event!EventAssumption
<1>3. records # << >> => Head(records) \in 0 .. MaxRecord /\ Tail(records) \in Seq(0 .. MaxRecord)
  BY <1>2
<1>4. /\ records' \in Seq(0 .. MaxRecord) /\ pending' \in 0 .. MaxRecord
      /\ printed' \in Nat /\ taken' \in Nat
  <2>1. CASE Event!RecvRaw
    <3>1. UNCHANGED <<pending, printed>>
      BY <2>1 DEF Event!RecvRaw
    <3>2. CASE records # << >> /\ taken' = taken + Head(records) /\ records' = Tail(records)
      BY <1>2, <1>3, <3>1, <3>2
    <3>3. CASE UNCHANGED <<records, taken>>
      BY <1>2, <3>1, <3>3
    <3> QED
      BY <2>1, <3>2, <3>3 DEF Event!RecvRaw
  <2>2. CASE Event!SslReadTicket
    BY <1>2, <1>3, <2>2 DEF Event!SslReadTicket
  <2>3. CASE Event!ReadSse3
    <3>1. taken' = taken
      BY <2>3 DEF Event!ReadSse3
    <3>2. CASE Event!SslReadPending
      BY <1>2, <3>1, <3>2 DEF Event!SslReadPending, Event!MinOf
    <3>3. CASE Event!SslReadRecord
      BY <1>2, <1>3, <3>1, <3>3 DEF Event!SslReadRecord, Event!MinOf
    <3>4. CASE UNCHANGED <<records, pending, printed>>
      BY <1>2, <3>1, <3>4
    <3> QED
      BY <2>3, <3>2, <3>3, <3>4 DEF Event!ReadSse3
  <2>4. CASE Event!ReadFirst
    <3>1. CASE Event!FirstRecord
      <4>1. records # << >> /\ Head(records) \in 0 .. MaxRecord /\ Tail(records) \in Seq(0 .. MaxRecord)
        BY <1>3, <3>1 DEF Event!FirstRecord
      <4>2. PICK n \in Nat : n = Event!MinOf(BUF, Head(records)) /\ n <= Head(records)
        BY <1>2, <4>1 DEF Event!MinOf
      <4>3. records' = Tail(records) /\ taken' = taken + n /\ pending' = Head(records) - n
        BY <3>1, <4>2 DEF Event!FirstRecord
      <4>4. printed' \in printed .. printed + n \/ printed' = printed
        BY <2>4, <4>2 DEF Event!ReadFirst
      <4>5. printed' \in Nat
        BY <1>2, <4>2, <4>4
      <4>6. taken' \in Nat /\ pending' \in 0 .. MaxRecord
        BY <1>2, <4>1, <4>2, <4>3
      <4> QED
        BY <4>1, <4>3, <4>5, <4>6
    <3>2. CASE UNCHANGED <<records, pending, printed, taken>>
      BY <1>2, <3>2
    <3> QED
      BY <2>4, <3>1, <3>2 DEF Event!ReadFirst
  <2> QED
    BY <2>1, <2>2, <2>3, <2>4
<1> QED
  BY <1>1, <1>4 DEF EventInv, Event!TypeOK, Plain

LEMMA EventStep == EventInv /\ [Event!Next]_Event!vars => EventInv'
<1> SUFFICES ASSUME EventInv, [Event!Next]_Event!vars PROVE EventInv'
  OBVIOUS
<1>1. CASE Event!Close \/ Event!Poll \/ Event!Sleep \/ Event!SendPlain \/ Event!Fail \/ Event!FirstReadFails
  BY <1>1 DEF Event!Close, Event!Poll, Event!Sleep, Event!SendPlain, Event!Fail,
              Event!FirstReadFails, Event!network, EventInv, Event!TypeOK, Plain
<1>2. CASE UNCHANGED Event!vars
  BY <1>2 DEF Event!vars, EventInv, Event!TypeOK, Plain
<1> QED
  BY <1>1, <1>2, PublishStep, ReadStep, TlsReadStep DEF Event!Next, Event!Program

LEMMA EventHolds == ClientsSpec => []EventInv
BY EventRuns, EventStart, EventStep, PTL DEF Event!Spec

\* However the stream is cut and whenever the server closes, http.c and sse.c
\* print all of it before they end (simple/http.c:67-81, sse.c:148-152).
THEOREM AllOfTheStream == ClientsSpec => []EndsBehindTheLast
<1>1. EventInv => EndsBehindTheLast
  BY DEF EventInv, Event!TypeOK, Plain, EndsBehindTheLast, Event!EndsBehindTheLast
<1> QED
  BY <1>1, EventHolds, PTL
-----------------------------------------------------------------------------
(* The libuv client *)

\* A piece of two texts that agree on it.
LEMMA SamePiece ==
    ASSUME NEW s, NEW u, NEW i \in Nat \ {0}, NEW j \in Int, i <= j + 1,
           \A k \in i .. j : s[k] = u[k]
    PROVE  SubSeq(s, i, j) = SubSeq(u, i, j)
<1>1. PICK n \in Nat : n = j - i + 1
  OBVIOUS
<1>2. /\ SubSeq(s, i, j) = [k \in 1 .. n |-> s[i + k - 1]]
      /\ SubSeq(u, i, j) = [k \in 1 .. n |-> u[i + k - 1]]
  BY <1>1
<1>3. \A k \in 1 .. n : i + k - 1 \in i .. j
  BY <1>1
<1> QED
  BY <1>2, <1>3

\* What is in front of the chunk, and how far the stream has been taken apart.
Base == Len(stream) - Len(data)
Scanned == Base + message_start - 1

UpTo(i) == {k \in Uv!LineEnds : k <= i}

\* The message of the line that ends at i is a piece of that line, up to its end.
Printed(i) ==
    /\ Cardinality(UpTo(i)) \in 1 .. Len(messages)
    /\ \E first \in 1 .. i :
         /\ \A h \in first .. i - 1 : h \notin Uv!LineEnds
         /\ messages[Cardinality(UpTo(i))] = SubSeq(stream, first, i - 1)

UvInv ==
    /\ Uv!TypeOK
    /\ uvPc # "scan" => data = << >> /\ message_start = 1
    /\ Base \in Nat /\ \A j \in 1 .. Len(data) : stream[Base + j] = data[j]
    /\ Len(messages) = Cardinality(UpTo(Scanned))
    /\ \A i \in UpTo(Scanned) : Printed(i)

\* The cardinality of the client's module is the one of this module.
LEMMA OneCardinality == ASSUME NEW S PROVE Uv!Cardinality(S) = Cardinality(S)
BY DEF Uv!Cardinality, Cardinality

LEMMA UvTypes ==
    ASSUME Uv!TypeOK
    PROVE  /\ stream \in Seq(0 .. MaxStream) /\ Len(stream) \in Nat /\ MaxStream \in Nat
           /\ data \in Seq(0 .. MaxStream) /\ Len(data) \in Nat
           /\ message_start \in 1 .. Len(data) + 1
           /\ messages \in Seq(Seq(1 .. MaxStream)) /\ Len(messages) \in Nat
           /\ Uv!LineEnds \subseteq 1 .. Len(stream)
           /\ \A i : IsFiniteSet(UpTo(i)) /\ Cardinality(UpTo(i)) \in Nat
<1>1. /\ stream \in Seq(0 .. MaxStream) /\ Len(stream) \in Nat /\ MaxStream \in Nat
      /\ data \in Seq(0 .. MaxStream) /\ Len(data) \in Nat
      /\ message_start \in 1 .. Len(data) + 1
      /\ messages \in Seq(Seq(1 .. MaxStream)) /\ Len(messages) \in Nat
  BY ClientsAssumption DEF Uv!TypeOK, Uv!UvAssumption
<1>2. Uv!LineEnds \subseteq 1 .. Len(stream)
  BY <1>1 DEF Uv!LineEnds
<1>3. ASSUME NEW i PROVE IsFiniteSet(UpTo(i)) /\ Cardinality(UpTo(i)) \in Nat
  <2>1. IsFiniteSet(1 .. Len(stream))
    BY <1>1, FS_Interval
  <2>2. UpTo(i) \in SUBSET (1 .. Len(stream))
    BY <1>2 DEF UpTo
  <2> QED
    BY <2>1, <2>2, FS_Subset, FS_CardinalityType
<1> QED
  BY <1>1, <1>2, <1>3

LEMMA UvStart == Uv!Init => UvInv
<1> SUFFICES ASSUME Uv!Init PROVE UvInv
  OBVIOUS
<1>1. /\ uvPc = "connect" /\ stream = << >> /\ data = << >>
      /\ message_start = 1 /\ messages = << >>
  BY DEF Uv!Init
<1>2. Uv!TypeOK
  BY <1>1, ClientsAssumption DEF Uv!TypeOK, Uv!UvAssumption
<1>3. Base = 0 /\ Scanned = 0
  BY <1>1 DEF Base, Scanned
<1>4. UpTo(Scanned) = {}
  BY <1>1 DEF UpTo, Uv!LineEnds
<1> QED
  BY <1>1, <1>2, <1>3, <1>4, FS_EmptySet DEF UvInv

\* What is given to on_read() comes behind what was there.
LEMMA UvReadStep ==
    ASSUME UvInv, Uv!on_read
    PROVE  UvInv'
<1>1. PICK n \in 1 .. MaxChunk : \E newlines \in SUBSET (1 .. n) :
        /\ Len(stream) + n <= MaxStream
        /\ data' = [j \in 1 .. n |-> IF j \in newlines THEN 0 ELSE Len(stream) + j]
  BY DEF Uv!on_read
<1>2. /\ uvPc = "read" /\ uvPc' = "scan" /\ stream' = stream \o data'
      /\ message_start' = 1 /\ messages' = messages
  BY DEF Uv!on_read
<1>3. /\ stream \in Seq(0 .. MaxStream) /\ Len(stream) \in Nat /\ MaxStream \in Nat
      /\ n \in Nat /\ n > 0 /\ Uv!LineEnds \subseteq 1 .. Len(stream)
  BY UvTypes, ClientsAssumption DEF UvInv, Uv!UvAssumption
<1>4. data' \in Seq(0 .. MaxStream) /\ Len(data') = n
  <2>0. PICK newlines \in SUBSET (1 .. n) :
          data' = [j \in 1 .. n |-> IF j \in newlines THEN 0 ELSE Len(stream) + j]
    BY <1>1
  <2>1. \A j \in 1 .. n : (IF j \in newlines THEN 0 ELSE Len(stream) + j) \in 0 .. MaxStream
    BY <1>1, <1>3
  <2>2. data' \in [1 .. n -> 0 .. MaxStream]
    BY <2>0, <2>1
  <2> QED
    BY <1>3, <2>2
<1>5. /\ stream' \in Seq(0 .. MaxStream) /\ Len(stream') = Len(stream) + n
      /\ \A k \in 1 .. Len(stream) : stream'[k] = stream[k]
      /\ \A j \in 1 .. n : stream'[Len(stream) + j] = data'[j]
  <2>1. /\ stream \o data' \in Seq(0 .. MaxStream)
        /\ Len(stream \o data') = Len(stream) + Len(data')
        /\ \A k \in 1 .. Len(stream) + Len(data') :
             (stream \o data')[k] = IF k <= Len(stream) THEN stream[k] ELSE data'[k - Len(stream)]
    BY <1>3, <1>4, ConcatProperties
  <2>2. ASSUME NEW k \in 1 .. Len(stream) PROVE stream'[k] = stream[k]
    BY <1>2, <1>3, <1>4, <2>1
  <2>3. ASSUME NEW j \in 1 .. n PROVE stream'[Len(stream) + j] = data'[j]
    <3>1. /\ Len(stream) + j \in 1 .. Len(stream) + n /\ ~(Len(stream) + j <= Len(stream))
          /\ (Len(stream) + j) - Len(stream) = j
      BY <1>3
    <3> QED
      BY <1>2, <1>4, <2>1, <3>1
  <2> QED
    BY <1>2, <1>4, <2>1, <2>2, <2>3
<1>6. Uv!TypeOK'
  <2>1. Len(stream') <= MaxStream /\ message_start' \in 1 .. Len(data') + 1
    BY <1>1, <1>2, <1>3, <1>4, <1>5
  <2> QED
    BY <1>2, <1>4, <1>5, <2>1 DEF Uv!TypeOK, UvInv
<1>7. Base' = Len(stream) /\ Scanned' = Len(stream) /\ Scanned = Len(stream)
  BY <1>2, <1>3, <1>4, <1>5 DEF Base, Scanned, UvInv
<1>8. /\ \A k \in 1 .. Len(stream) : k \in Uv!LineEnds' <=> k \in Uv!LineEnds
      /\ Uv!LineEnds' \subseteq 1 .. Len(stream) + n
  BY <1>3, <1>5 DEF Uv!LineEnds
<1>9. ASSUME NEW i \in 0 .. Len(stream) PROVE UpTo(i)' = UpTo(i)
  <2>1. ASSUME NEW k PROVE k \in Uv!LineEnds' /\ k <= i <=> k \in Uv!LineEnds /\ k <= i
    <3>1. k \in Uv!LineEnds' => k \in 1 .. Len(stream) + n
      BY <1>8
    <3>2. k \in Uv!LineEnds => k \in 1 .. Len(stream)
      BY <1>3
    <3>3. k \in 1 .. Len(stream) + n /\ k <= i => k \in 1 .. Len(stream)
      BY <1>3
    <3> QED
      BY <1>8, <3>1, <3>2, <3>3
  <2> QED
    BY <2>1 DEF UpTo
<1>10. UpTo(Scanned)' = UpTo(Scanned)
  <2>1. PICK l \in Nat : l = Len(stream)
    BY <1>3
  <2>2. {k \in Uv!LineEnds' : k <= l} = {k \in Uv!LineEnds : k <= l}
    BY <1>9, <2>1 DEF UpTo
  <2> QED
    BY <1>7, <2>1, <2>2 DEF UpTo
<1>11. ASSUME NEW i \in UpTo(Scanned) PROVE Printed(i)'
  <2>1. i \in 1 .. Len(stream) /\ Printed(i)
    BY <1>3 DEF UpTo, UvInv
  <2>2. PICK first \in 1 .. i :
          /\ \A h \in first .. i - 1 : h \notin Uv!LineEnds
          /\ messages[Cardinality(UpTo(i))] = SubSeq(stream, first, i - 1)
    BY <2>1 DEF Printed
  <2>3. \A h \in first .. i - 1 : h \in 1 .. Len(stream)
    BY <1>3, <2>1
  <2>4. \A h \in first .. i - 1 : h \notin Uv!LineEnds'
    BY <1>8, <2>2, <2>3
  <2>5. SubSeq(stream', first, i - 1) = SubSeq(stream, first, i - 1)
    <3>1. first \in 1 .. Len(stream) /\ i - 1 \in first - 1 .. Len(stream)
      BY <1>3, <2>1
    <3>2. \A h \in first .. i - 1 : h \in 1 .. Len(stream)
      BY <1>3, <3>1
    <3>3. \A h \in first .. i - 1 : stream'[h] = stream[h]
      BY <1>5, <3>2
    <3>4. first \in Nat \ {0} /\ i - 1 \in Int /\ first <= (i - 1) + 1
      BY <2>1
    <3> QED
      BY <3>3, <3>4, SamePiece
  <2> QED
    BY <1>2, <1>9, <2>1, <2>2, <2>4, <2>5 DEF Printed
<1> QED
  BY <1>2, <1>3, <1>4, <1>5, <1>6, <1>7, <1>10, <1>11 DEF UvInv

\* One more newline of the chunk, one more message.
LEMMA UvMessageStep ==
    ASSUME UvInv, Uv!on_read_message
    PROVE  UvInv'
<1>1. PICK newline \in message_start .. Len(data) :
        /\ data[newline] = 0
        /\ \A h \in message_start .. newline - 1 : data[h] # 0
        /\ messages' = Append(messages, SubSeq(data, message_start, newline - 1))
        /\ message_start' = newline + 1
  BY DEF Uv!on_read_message, Uv!Newline
<1>2. uvPc = "scan" /\ UNCHANGED <<uvPc, stream, data>>
  BY DEF Uv!on_read_message
<1>3. /\ stream \in Seq(0 .. MaxStream) /\ Len(stream) \in Nat /\ MaxStream \in Nat
      /\ data \in Seq(0 .. MaxStream) /\ Len(data) \in Nat
      /\ message_start \in 1 .. Len(data) + 1
      /\ messages \in Seq(Seq(1 .. MaxStream)) /\ Len(messages) \in Nat
      /\ Uv!LineEnds \subseteq 1 .. Len(stream)
      /\ Base \in Nat /\ \A j \in 1 .. Len(data) : stream[Base + j] = data[j]
  BY UvTypes DEF UvInv
<1> DEFINE message == SubSeq(data, message_start, newline - 1)
           end == Base + newline
           start == Base + message_start
<1>4. message \in Seq(1 .. MaxStream)
  <2>1. \A h \in message_start .. newline - 1 : h \in 1 .. Len(data) /\ data[h] \in 1 .. MaxStream
    <3> SUFFICES ASSUME NEW h \in message_start .. newline - 1
                 PROVE  h \in 1 .. Len(data) /\ data[h] \in 1 .. MaxStream
      OBVIOUS
    <3>1. h \in 1 .. Len(data)
      BY <1>3
    <3>2. data[h] \in 0 .. MaxStream /\ data[h] # 0
      BY <1>1, <1>3, <3>1, ElementOfSeq
    <3> QED
      BY <1>3, <3>1, <3>2
  <2>2. /\ message = [j \in 1 .. newline - message_start |-> data[message_start + j - 1]]
        /\ newline - message_start \in Nat
    BY <1>1, <1>3
  <2>3. \A j \in 1 .. newline - message_start : data[message_start + j - 1] \in 1 .. MaxStream
    BY <1>3, <2>1
  <2> HIDE DEF message
  <2>4. PICK m \in Nat : m = newline - message_start
    BY <2>2
  <2>5. message \in [1 .. m -> 1 .. MaxStream]
    BY <2>2, <2>3, <2>4
  <2> QED
    BY <2>4, <2>5, SeqDef
<1>5. /\ messages' \in Seq(Seq(1 .. MaxStream)) /\ Len(messages') = Len(messages) + 1
      /\ messages'[Len(messages) + 1] = message
      /\ \A j \in 1 .. Len(messages) : messages'[j] = messages[j]
  BY <1>1, <1>3, <1>4
<1>6. Uv!TypeOK'
  <2>1. message_start' \in 1 .. Len(data) + 1
    BY <1>1, <1>3
  <2> QED
    BY <1>2, <1>5, <2>1 DEF Uv!TypeOK, UvInv
<1>7. /\ end \in Uv!LineEnds /\ Base' = Base /\ Scanned' = end
      /\ Scanned = start - 1 /\ start \in 1 .. end
  <2>1. Len(stream) = Base + Len(data)
    BY <1>3 DEF Base
  <2>2. end \in 1 .. Len(stream) /\ stream[end] = 0
    <3>1. newline \in 1 .. Len(data) /\ data[newline] = 0
      BY <1>1, <1>3
    <3>2. stream[Base + newline] = data[newline]
      BY <1>3, <3>1
    <3>3. Base + newline \in 1 .. Len(stream)
      BY <1>3, <2>1, <3>1
    <3> QED
      BY <3>1, <3>2, <3>3
  <2>3. Base' = Base
    BY <1>2 DEF Base
  <2>4. Scanned' = end
    BY <1>1, <1>3, <2>3 DEF Scanned
  <2> QED
    BY <1>3, <2>2, <2>3, <2>4 DEF Scanned, Uv!LineEnds
<1>8. Uv!LineEnds' = Uv!LineEnds /\ \A i : UpTo(i)' = UpTo(i)
  BY <1>2 DEF Uv!LineEnds, UpTo
<1>9. \A h \in start .. end - 1 : h \notin Uv!LineEnds
  <2> SUFFICES ASSUME NEW h \in start .. end - 1 PROVE stream[h] # 0
    BY DEF Uv!LineEnds
  <2>1. h - Base \in message_start .. newline - 1 /\ Base + (h - Base) = h
    BY <1>1, <1>3
  <2>2. h - Base \in 1 .. Len(data)
    BY <1>1, <1>3, <2>1
  <2>3. stream[Base + (h - Base)] = data[h - Base] /\ data[h - Base] # 0
    BY <1>1, <1>3, <2>1, <2>2
  <2> QED
    BY <2>1, <2>3
<1>10. SubSeq(stream, start, end - 1) = message
  <2>1. /\ message = [j \in 1 .. newline - message_start |-> data[message_start + j - 1]]
        /\ newline - message_start \in Nat
    BY <1>1, <1>3
  <2>2. SubSeq(stream, start, end - 1) = [j \in 1 .. newline - message_start |-> stream[start + j - 1]]
    BY <1>1, <1>3
  <2>3. ASSUME NEW j \in 1 .. newline - message_start
        PROVE  stream[start + j - 1] = data[message_start + j - 1]
    <3>1. message_start + j - 1 \in 1 .. Len(data)
      BY <1>1, <1>3
    <3>2. Base + (message_start + j - 1) = start + j - 1
      BY <1>3
    <3> QED
      BY <1>3, <3>1, <3>2
  <2> HIDE DEF message, start, end
  <2> QED
    BY <2>1, <2>2, <2>3
<1> HIDE DEF message, start, end
<1>11. /\ UpTo(end) = UpTo(Scanned) \cup {end} /\ end \notin UpTo(Scanned)
       /\ end \in Nat /\ start \in Nat
  <2>1. end \in Nat /\ start \in Nat
    BY <1>3, <1>7
  <2>2. ASSUME NEW k \in Uv!LineEnds PROVE k <= end <=> k <= Scanned \/ k = end
    <3>1. k \in Nat
      BY <1>3
    <3>2. k \notin start .. end - 1
      BY <1>9
    <3> QED
      BY <1>7, <2>1, <3>1, <3>2
  <2>3. ASSUME NEW k PROVE k \in UpTo(end) <=> k \in UpTo(Scanned) \/ k = end
    BY <1>7, <2>2 DEF UpTo
  <2>4. end \notin UpTo(Scanned)
    BY <1>7, <2>1 DEF UpTo
  <2> QED
    BY <2>1, <2>3, <2>4
<1>12. /\ Cardinality(UpTo(end)) = Len(messages) + 1
       /\ Len(messages') = Cardinality(UpTo(Scanned))'
  <2>1. Cardinality(UpTo(end)) = Cardinality(UpTo(Scanned)) + 1
    BY <1>11, UvTypes, FS_AddElement DEF UvInv
  <2>2. UpTo(Scanned)' = UpTo(end)
    BY <1>7, <1>2 DEF UpTo, Uv!LineEnds
  <2> QED
    BY <1>5, <2>1, <2>2 DEF UvInv
<1>13. ASSUME NEW i \in UpTo(Scanned)' PROVE Printed(i)'
  <2>1. i \in UpTo(Scanned) \/ i = end
    BY <1>2, <1>7, <1>11 DEF UpTo, Uv!LineEnds
  <2>2. CASE i \in UpTo(Scanned)
    <3>1. Printed(i)
      BY <2>2 DEF UvInv
    <3>2. /\ Cardinality(UpTo(i)) \in 1 .. Len(messages')
          /\ messages'[Cardinality(UpTo(i))] = messages[Cardinality(UpTo(i))]
      <4>1. PICK c \in 1 .. Len(messages) : c = Cardinality(UpTo(i))
        BY <3>1 DEF Printed
      <4>2. c \in 1 .. Len(messages') /\ messages'[c] = messages[c]
        BY <1>3, <1>5
      <4> QED
        BY <4>1, <4>2
    <3> QED
      BY <1>2, <1>8, <3>1, <3>2 DEF Printed
  <2>3. CASE i = end
    <3>1. /\ Cardinality(UpTo(end)) \in 1 .. Len(messages')
          /\ messages'[Cardinality(UpTo(end))] = SubSeq(stream, start, end - 1)
      <4>1. PICK c \in Nat : c = Len(messages) + 1
        BY <1>3
      <4>2. c \in 1 .. Len(messages') /\ messages'[c] = message
        BY <1>3, <1>5, <4>1
      <4> QED
        BY <1>10, <1>12, <4>1, <4>2
    <3>2. start \in 1 .. end
      BY <1>7
    <3> QED
      BY <1>2, <1>8, <1>9, <2>3, <3>1, <3>2 DEF Printed
  <2> QED
    BY <2>1, <2>2, <2>3
<1> QED
  BY <1>2, <1>3, <1>6, <1>7, <1>12, <1>13 DEF UvInv

\* What is behind the last newline of the chunk has no end, and is passed.
LEMMA UvDoneStep ==
    ASSUME UvInv, Uv!on_read_done
    PROVE  UvInv'
<1>1. /\ \A k \in message_start .. Len(data) : data[k] # 0
      /\ uvPc' = "read" /\ data' = << >> /\ message_start' = 1
      /\ UNCHANGED <<stream, messages>>
  BY DEF Uv!on_read_done
<1>2. /\ Len(stream) \in Nat /\ Len(data) \in Nat /\ message_start \in 1 .. Len(data) + 1
      /\ Uv!LineEnds \subseteq 1 .. Len(stream)
      /\ Base \in Nat /\ \A j \in 1 .. Len(data) : stream[Base + j] = data[j]
  BY UvTypes DEF UvInv
<1>3. Uv!TypeOK'
  BY <1>1 DEF Uv!TypeOK, UvInv
<1>4. Base' = Len(stream) /\ Scanned' = Len(stream)
  BY <1>1, <1>2 DEF Base, Scanned
<1>5. ASSUME NEW k \in Uv!LineEnds PROVE k <= Scanned
  <2>1. k \in 1 .. Len(stream) /\ stream[k] = 0
    BY <1>2 DEF Uv!LineEnds
  <2>2. ASSUME k > Scanned PROVE FALSE
    <3>1. /\ k - Base \in message_start .. Len(data) /\ k - Base \in 1 .. Len(data)
          /\ Base + (k - Base) = k
      BY <1>2, <2>1, <2>2 DEF Base, Scanned
    <3> QED
      BY <1>1, <1>2, <2>1, <3>1
  <2> QED
    BY <1>2, <2>1, <2>2 DEF Scanned
<1>6. UpTo(Scanned)' = UpTo(Scanned)
  BY <1>1, <1>2, <1>4, <1>5 DEF UpTo, Uv!LineEnds
<1>7. \A i : Printed(i)' = Printed(i)
  BY <1>1 DEF Printed, UpTo, Uv!LineEnds
<1> QED
  BY <1>1, <1>2, <1>3, <1>4, <1>6, <1>7 DEF UvInv

LEMMA UvStep == UvInv /\ [Uv!Next]_Uv!vars => UvInv'
<1> SUFFICES ASSUME UvInv, [Uv!Next]_Uv!vars PROVE UvInv'
  OBVIOUS
<1>1. CASE Uv!on_connect \/ Uv!on_write \/ Uv!on_read_end \/ UNCHANGED Uv!vars
  <2>1. /\ UNCHANGED <<stream, data, message_start, messages>>
        /\ uvPc' \in {"connect", "write", "read", "scan", "returned", "crashed"}
        /\ uvPc' # "scan" => uvPc # "scan"
    BY <1>1 DEF Uv!on_connect, Uv!on_write, Uv!on_read_end, Uv!vars, UvInv, Uv!TypeOK
  <2>2. /\ Base' = Base /\ Scanned' = Scanned /\ UpTo(Scanned)' = UpTo(Scanned)
        /\ \A i : Printed(i)' = Printed(i)
    BY <2>1 DEF Base, Scanned, Printed, UpTo, Uv!LineEnds
  <2> QED
    BY <2>1, <2>2 DEF UvInv, Uv!TypeOK
<1> QED
  BY <1>1, UvReadStep, UvMessageStep, UvDoneStep DEF Uv!Next

LEMMA UvHolds == ClientsSpec => []UvInv
BY UvRuns, UvStart, UvStep, PTL DEF Uv!Spec

\* However the stream is cut, on_read() prints a piece of each line that has
\* ended, up to its end, and of no other (simple/uvv.c:28-36).
THEOREM EachLineOnce == ClientsSpec => []OneMessageForEachLine
<1>1. UvInv => OneMessageForEachLine
  <2> SUFFICES ASSUME UvInv, uvPc # "scan"
               PROVE  /\ Len(messages) = Cardinality(Uv!LineEnds)
                      /\ \A i \in Uv!LineEnds : Printed(i)
    <3>1. ASSUME NEW i \in Uv!LineEnds, Printed(i)
          PROVE  \E first \in 1 .. i :
                   /\ \A h \in first .. i - 1 : h \notin Uv!LineEnds
                   /\ messages[Cardinality({k \in Uv!LineEnds : k <= i})]
                         = SubSeq(stream, first, i - 1)
      BY <3>1, Zenon DEF Printed, UpTo
    <3> QED
      BY <3>1, OneCardinality, Zenon DEF OneMessageForEachLine, Uv!OneMessageForEachLine
  <2>1. Scanned = Len(stream) /\ Uv!LineEnds \subseteq 1 .. Len(stream) /\ Len(stream) \in Nat
    BY UvTypes DEF UvInv, Scanned, Base
  <2>2. ASSUME NEW k PROVE k \in UpTo(Scanned) <=> k \in Uv!LineEnds
    <3>1. k \in Uv!LineEnds => k <= Scanned
      BY <2>1
    <3> QED
      BY <3>1 DEF UpTo
  <2>3. UpTo(Scanned) = Uv!LineEnds
    BY <2>2
  <2> QED
    BY <2>3 DEF UvInv
<1> QED
  BY <1>1, UvHolds, PTL

-----------------------------------------------------------------------------
(* The metadata client: what the search finds *)

LEMMA SongsAreSongs ==
    /\ Len(Songs) \in Nat \ {0} /\ DOMAIN Songs = 1 .. Len(Songs)
    /\ \A s \in DOMAIN Songs :
         /\ Songs[s].artist \in Seq(Chars) /\ Songs[s].title \in Seq(Chars)
         /\ Len(Songs[s].artist) \in Nat /\ Len(Songs[s].title) \in Nat
<1>1. Len(Songs) \in Nat \ {0} /\ DOMAIN Songs = 1 .. Len(Songs)
  BY MetaAssumption
<1>2. ASSUME NEW s \in 1 .. Len(Songs)
      PROVE  /\ Songs[s].artist \in Seq(Chars) /\ Songs[s].title \in Seq(Chars)
             /\ Len(Songs[s].artist) \in Nat /\ Len(Songs[s].title) \in Nat
  <2>1. Songs[s] \in [artist : Seq(Letters), title : Seq(Letters)]
    BY <1>1, MetaAssumption, ElementOfSeq
  <2>2. Letters \subseteq Chars
    BY DEF Chars
  <2> QED
    BY <2>1, <2>2, SeqMonotonic
<1> QED
  BY <1>1, <1>2

\* A set of numbers has a least one.
LEMMA Least ==
    ASSUME NEW S \in SUBSET Nat, S # {}
    PROVE  \E m \in S : \A h \in S : m <= h
<1> DEFINE Less == {ss \in Nat \X Nat : ss[1] < ss[2]}
<1>1. IsWellFoundedOn(Less, Nat)
  BY NatLessThanWellFounded DEF OpToRel
<1>2. PICK m \in S : \A h \in S : ~(<<h, m>> \in Less)
  <2> HIDE DEF Less
  <2> QED
    BY <1>1, WFMin
<1>3. ASSUME NEW h \in S PROVE m <= h
  <2>1. <<h, m>> \in Nat \X Nat /\ ~(<<h, m>> \in Less)
    BY <1>2
  <2>2. ~(h < m)
    BY <2>1
  <2> QED
    BY <2>2
<1> QED
  BY <1>3

\* while (*p++ != c) stops at the first c, if there is one.
LEMMA FirstFound ==
    ASSUME NEW text, Len(text) \in Nat, NEW c, NEW b \in Nat,
           NEW k \in b .. Len(text), text[k] = c
    PROVE  /\ FirstFrom(text, c, b) \in b .. k
           /\ text[FirstFrom(text, c, b)] = c
           /\ \A h \in b .. FirstFrom(text, c, b) - 1 : text[h] # c
<1> DEFINE Places == {h \in b .. Len(text) : text[h] = c}
           First(h) == text[h] = c /\ \A g \in b .. h - 1 : text[g] # c
<1>1. Places \in SUBSET Nat /\ k \in Places
  OBVIOUS
<1>2. PICK m \in Places : \A h \in Places : m <= h
  BY <1>1, Least
<1>3. m \in b .. Len(text) /\ First(m)
  BY <1>2
<1>4. FirstFrom(text, c, b) = CHOOSE h \in b .. Len(text) : First(h)
  BY DEF FirstFrom
<1> HIDE DEF First
<1>5. FirstFrom(text, c, b) \in b .. Len(text) /\ First(FirstFrom(text, c, b))
  BY <1>3, <1>4
<1>6. ~(FirstFrom(text, c, b) > k)
  BY <1>5 DEF First
<1> QED
  BY <1>5, <1>6 DEF First

\* Two texts, one behind the other.
LEMMA Joined ==
    ASSUME NEW s \in Seq(Chars), NEW u \in Seq(Chars)
    PROVE  /\ s \o u \in Seq(Chars) /\ Len(s \o u) = Len(s) + Len(u)
           /\ \A j \in 1 .. Len(s) : (s \o u)[j] = s[j]
           /\ \A j \in 1 .. Len(u) : (s \o u)[Len(s) + j] = u[j]
<1>1. /\ s \o u \in Seq(Chars) /\ Len(s \o u) = Len(s) + Len(u)
      /\ \A j \in 1 .. Len(s) + Len(u) : (s \o u)[j] = IF j <= Len(s) THEN s[j] ELSE u[j - Len(s)]
  BY ConcatProperties
<1>2. Len(s) \in Nat /\ Len(u) \in Nat
  OBVIOUS
<1>3. ASSUME NEW j \in 1 .. Len(s) PROVE (s \o u)[j] = s[j]
  BY <1>1, <1>2
<1>4. ASSUME NEW j \in 1 .. Len(u) PROVE (s \o u)[Len(s) + j] = u[j]
  <2>1. Len(s) + j \in 1 .. Len(s) + Len(u) /\ ~(Len(s) + j <= Len(s)) /\ (Len(s) + j) - Len(s) = j
    BY <1>2
  <2> QED
    BY <1>1, <2>1
<1> QED
  BY <1>1, <1>3, <1>4

\* Where the parts of an answer are.
LEMMA TextShape ==
    ASSUME NEW song \in DOMAIN Songs
    PROVE  \E a, t \in Nat :
             /\ a = Len(Songs[song].artist) /\ t = Len(Songs[song].title)
             /\ Text(song) \in Seq(Chars) /\ Len(Text(song)) = a + t + 12
             /\ Text(song)[1] = "k" /\ Text(song)[2] = "q" /\ Text(song)[3] = ":"
             /\ \A j \in 1 .. a : Text(song)[4 + j] = Songs[song].artist[j]
             /\ Text(song)[a + 5] = "q" /\ Text(song)[a + 10] = ":"
             /\ Text(song)[a + t + 12] = "q"
<1> DEFINE A == Songs[song].artist
           T == Songs[song].title
           head == <<"k", "q", ":", "q">>
           mid == <<"q", ",", "q", "k", "q", ":", "q">>
           quote == <<"q">>
           upToArtist == head \o A
           upToKey == upToArtist \o mid
           upToTitle == upToKey \o T
<1>0. PICK a \in Nat, t \in Nat : a = Len(A) /\ t = Len(T)
  BY SongsAreSongs
<1>1. A \in Seq(Chars) /\ T \in Seq(Chars) /\ Len(A) = a /\ Len(T) = t
  BY <1>0, SongsAreSongs
<1>2. /\ head \in Seq(Chars) /\ Len(head) = 4
      /\ head[1] = "k" /\ head[2] = "q" /\ head[3] = ":"
      /\ mid \in Seq(Chars) /\ Len(mid) = 7 /\ mid[1] = "q" /\ mid[6] = ":"
      /\ quote \in Seq(Chars) /\ Len(quote) = 1 /\ quote[1] = "q" /\ 1 \in 1 .. 1
  BY DEF Chars
<1>3. Text(song) = upToTitle \o quote
  BY DEF Text
<1> HIDE DEF A, T, head, mid, quote
<1>4. /\ upToArtist \in Seq(Chars) /\ Len(upToArtist) = 4 + a
      /\ \A j \in 1 .. 4 : upToArtist[j] = head[j]
      /\ \A j \in 1 .. a : upToArtist[4 + j] = A[j]
  <2>1. /\ upToArtist \in Seq(Chars) /\ Len(upToArtist) = Len(head) + Len(A)
        /\ \A j \in 1 .. Len(head) : upToArtist[j] = head[j]
        /\ \A j \in 1 .. Len(A) : upToArtist[Len(head) + j] = A[j]
    BY <1>1, <1>2, Joined
  <2> QED
    BY <1>1, <1>2, <2>1
<1> HIDE DEF upToArtist
<1>5. /\ upToKey \in Seq(Chars) /\ Len(upToKey) = (4 + a) + 7
      /\ \A j \in 1 .. 4 + a : upToKey[j] = upToArtist[j]
      /\ \A j \in 1 .. 7 : upToKey[(4 + a) + j] = mid[j]
  <2>1. /\ upToKey \in Seq(Chars) /\ Len(upToKey) = Len(upToArtist) + Len(mid)
        /\ \A j \in 1 .. Len(upToArtist) : upToKey[j] = upToArtist[j]
        /\ \A j \in 1 .. Len(mid) : upToKey[Len(upToArtist) + j] = mid[j]
    BY <1>2, <1>4, Joined
  <2> QED
    BY <1>2, <1>4, <2>1
<1> HIDE DEF upToKey
<1>6. /\ upToTitle \in Seq(Chars) /\ Len(upToTitle) = a + t + 11
      /\ \A j \in 1 .. a + 11 : upToTitle[j] = upToKey[j]
  <2>1. /\ upToTitle \in Seq(Chars) /\ Len(upToTitle) = Len(upToKey) + Len(T)
        /\ \A j \in 1 .. Len(upToKey) : upToTitle[j] = upToKey[j]
    BY <1>1, <1>5, Joined
  <2> HIDE DEF upToTitle
  <2>2. Len(upToKey) = a + 11 /\ Len(T) = t
    BY <1>1, <1>5
  <2> QED
    BY <2>1, <2>2
<1> HIDE DEF upToTitle
<1>7. /\ Text(song) \in Seq(Chars) /\ Len(Text(song)) = (a + t + 11) + 1
      /\ \A j \in 1 .. a + t + 11 : Text(song)[j] = upToTitle[j]
      /\ Text(song)[(a + t + 11) + 1] = "q"
  <2>1. upToTitle \in Seq(Chars) /\ quote \in Seq(Chars)
    BY <1>2, <1>6
  <2>2. /\ upToTitle \o quote \in Seq(Chars)
        /\ Len(upToTitle \o quote) = Len(upToTitle) + Len(quote)
        /\ \A j \in 1 .. Len(upToTitle) : (upToTitle \o quote)[j] = upToTitle[j]
        /\ \A j \in 1 .. Len(quote) : (upToTitle \o quote)[Len(upToTitle) + j] = quote[j]
    BY <2>1, Joined
  <2> QED
    BY <1>2, <1>3, <1>6, <2>2
<1>8. \A j \in 1 .. a + 11 : Text(song)[j] = upToKey[j]
  <2>1. ASSUME NEW j \in 1 .. a + 11 PROVE Text(song)[j] = upToKey[j]
    <3>1. j \in 1 .. a + t + 11
      OBVIOUS
    <3> QED
      BY <1>6, <1>7, <3>1
  <2> QED
    BY <2>1
<1>9. \A j \in 1 .. 4 + a : Text(song)[j] = upToArtist[j]
  <2>1. ASSUME NEW j \in 1 .. 4 + a PROVE Text(song)[j] = upToArtist[j]
    <3>1. j \in 1 .. a + 11
      OBVIOUS
    <3> QED
      BY <1>5, <1>8, <3>1
  <2> QED
    BY <2>1
<1>10. Text(song)[1] = "k" /\ Text(song)[2] = "q" /\ Text(song)[3] = ":"
  <2>1. 1 \in 1 .. 4 + a /\ 2 \in 1 .. 4 + a /\ 3 \in 1 .. 4 + a
    OBVIOUS
  <2> QED
    BY <1>2, <1>4, <1>9, <2>1
<1>11. \A j \in 1 .. a : Text(song)[4 + j] = A[j]
  <2>1. ASSUME NEW j \in 1 .. a PROVE Text(song)[4 + j] = A[j]
    <3>1. 4 + j \in 1 .. 4 + a
      OBVIOUS
    <3> QED
      BY <1>4, <1>9, <3>1
  <2> QED
    BY <2>1
<1>12. Text(song)[a + 5] = "q" /\ Text(song)[a + 10] = ":"
  <2>1. /\ a + 5 \in 1 .. a + 11 /\ a + 10 \in 1 .. a + 11
        /\ a + 5 = (4 + a) + 1 /\ a + 10 = (4 + a) + 6
    OBVIOUS
  <2>2. upToKey[(4 + a) + 1] = "q" /\ upToKey[(4 + a) + 6] = ":"
    BY <1>2, <1>5
  <2> QED
    BY <1>8, <2>1, <2>2
<1>13. a + t + 12 = (a + t + 11) + 1
  OBVIOUS
<1> QED
  BY <1>0, <1>7, <1>10, <1>11, <1>12, <1>13 DEF A, T

\* Whatever the songs are called, the searches end inside a whole answer, and
\* the lengths are not negative: the NULs go into the array.
LEMMA ParseTypes ==
    ASSUME NEW song \in DOMAIN Songs
    PROVE  /\ Parse(Text(song)) \in [artist : Strings, title : Strings]
           /\ Marked(Text(song)) \in Seq(Chars \cup {"nul"})
<1> DEFINE text == Text(song)
           colon1 == FirstFrom(text, ":", 1)
           quote1 == FirstFrom(text, "q", colon1 + 2)
           colon2 == FirstFrom(text, ":", quote1 - 1)
           quote2 == FirstFrom(text, "q", colon2 + 2)
<1>1. PICK a \in Nat, t \in Nat :
        /\ text \in Seq(Chars) /\ Len(text) = a + t + 12
        /\ text[1] = "k" /\ text[2] = "q" /\ text[3] = ":"
        /\ text[a + 5] = "q" /\ text[a + 10] = ":" /\ text[a + t + 12] = "q"
  BY TextShape
<1>2. Parse(text) =
        [artist |-> [data |-> colon1 + 2, len |-> quote1 - colon1 - 2],
         title  |-> [data |-> colon2 + 2, len |-> quote2 - colon2 - 2]]
  BY DEF Parse
<1>3. Marked(text) \in Seq(Chars \cup {"nul"})
  <2> DEFINE ends == {Parse(text).artist.data + Parse(text).artist.len,
                      Parse(text).title.data + Parse(text).title.len - 1}
  <2>1. Marked(text) = [j \in 1 .. Len(text) |-> IF j \in ends THEN "nul" ELSE text[j]]
    BY DEF Marked
  <2> HIDE DEF ends, text
  <2>2. \A j \in 1 .. Len(text) : text[j] \in Chars
    BY <1>1, ElementOfSeq
  <2> QED
    BY <1>1, <2>1, <2>2
<1> HIDE DEF text
<1>4. colon1 = 3
  <2>1. colon1 \in 1 .. 3 /\ text[colon1] = ":"
    <3>1. Len(text) \in Nat /\ 3 \in 1 .. Len(text) /\ 1 \in Nat
      BY <1>1
    <3> QED
      BY <1>1, <3>1, FirstFound
  <2> QED
    BY <1>1, <2>1
<1>5. quote1 \in 5 .. a + 5
  BY <1>1, <1>4, FirstFound
<1> HIDE DEF colon1, quote1
<1>6. colon2 \in quote1 - 1 .. a + 10
  BY <1>1, <1>5, FirstFound
<1> HIDE DEF colon2
<1>7. quote2 \in colon2 + 2 .. a + t + 12
  BY <1>1, <1>5, <1>6, FirstFound
<1> HIDE DEF quote2
<1>8. /\ colon1 + 2 \in Nat /\ quote1 - colon1 - 2 \in Nat
      /\ colon2 + 2 \in Nat /\ quote2 - colon2 - 2 \in Nat
  BY <1>1, <1>4, <1>5, <1>6, <1>7
<1> QED
  BY <1>2, <1>3, <1>8 DEF text, Strings

\* An artist whose name holds no quote is found whole, and so he is in the
\* array when both NULs have been put: that of the title goes behind him.
LEMMA ParseArtist ==
    ASSUME NEW song \in DOMAIN Songs,
           \A j \in DOMAIN Songs[song].artist : Songs[song].artist[j] # "q"
    PROVE  LET artist == Parse(Text(song)).artist
           IN  /\ SubSeq(Marked(Text(song)), artist.data, artist.data + artist.len - 1)
                     = Songs[song].artist
               /\ Marked(Text(song))[artist.data + artist.len] = "nul"
<1> DEFINE text == Text(song)
           A == Songs[song].artist
           colon1 == FirstFrom(text, ":", 1)
           quote1 == FirstFrom(text, "q", colon1 + 2)
           colon2 == FirstFrom(text, ":", quote1 - 1)
           quote2 == FirstFrom(text, "q", colon2 + 2)
           array == Marked(text)
<1>1. PICK a \in Nat, t \in Nat :
        /\ a = Len(A)
        /\ text \in Seq(Chars) /\ Len(text) = a + t + 12
        /\ text[1] = "k" /\ text[2] = "q" /\ text[3] = ":"
        /\ \A j \in 1 .. a : text[4 + j] = A[j]
        /\ text[a + 5] = "q" /\ text[a + 10] = ":" /\ text[a + t + 12] = "q"
  BY TextShape
<1>2. A \in Seq(Chars) /\ Len(A) = a /\ \A j \in 1 .. a : A[j] # "q"
  BY <1>1, SongsAreSongs
<1>3. /\ Parse(text).artist.data = colon1 + 2
      /\ Parse(text).artist.len = quote1 - colon1 - 2
      /\ Parse(text).title.data = colon2 + 2
      /\ Parse(text).title.len = quote2 - colon2 - 2
  BY DEF Parse
<1>4. array = [j \in 1 .. Len(text) |->
                 IF j \in {Parse(text).artist.data + Parse(text).artist.len,
                           Parse(text).title.data + Parse(text).title.len - 1}
                 THEN "nul" ELSE text[j]]
  BY DEF Marked
<1> HIDE DEF text, A, array
<1>5. /\ Len(text) = a + t + 12
      /\ text[1] = "k" /\ text[2] = "q" /\ text[3] = ":" /\ text[a + 5] = "q"
      /\ text[a + 10] = ":" /\ text[a + t + 12] = "q"
  BY <1>1
<1>6. colon1 = 3
  <2>1. colon1 \in 1 .. 3 /\ text[colon1] = ":"
    BY <1>5, FirstFound
  <2> QED
    BY <1>5, <2>1
<1>7. quote1 = a + 5
  <2>1. quote1 \in 5 .. a + 5 /\ text[quote1] = "q"
    BY <1>6, <1>5, FirstFound
  <2>2. ASSUME quote1 # a + 5 PROVE FALSE
    <3>1. quote1 - 4 \in 1 .. a /\ 4 + (quote1 - 4) = quote1
      BY <2>1, <2>2
    <3>2. text[4 + (quote1 - 4)] = A[quote1 - 4] /\ A[quote1 - 4] # "q"
      BY <1>1, <1>2, <3>1
    <3> QED
      BY <2>1, <3>1, <3>2
  <2> QED
    BY <2>2
<1> HIDE DEF colon1, quote1
<1>8. colon2 \in a + 4 .. a + 10
  <2>1. quote1 - 1 = a + 4 /\ a + 4 \in Nat \ {0} /\ a + 10 \in a + 4 .. Len(text)
    BY <1>5, <1>7
  <2> QED
    BY <1>1, <1>5, <2>1, FirstFound
<1> HIDE DEF colon2
<1>9. quote2 \in colon2 + 2 .. a + t + 12
  BY <1>5, <1>8, FirstFound
<1> HIDE DEF quote2
<1>10. PICK e \in Nat : /\ e >= a + 5 /\ e = quote2 - 1
                        /\ Parse(text).artist.data = 5 /\ Parse(text).artist.len = a
                        /\ Parse(text).title.data + Parse(text).title.len - 1 = e
  BY <1>3, <1>6, <1>7, <1>8, <1>9
<1>11. array = [j \in 1 .. a + t + 12 |-> IF j \in {a + 5, e} THEN "nul" ELSE text[j]]
  <2>1. 5 + a = a + 5
    OBVIOUS
  <2> QED
    BY <1>4, <1>5, <1>10, <2>1
<1>12. array[a + 5] = "nul"
  <2>1. a + 5 \in 1 .. a + t + 12
    OBVIOUS
  <2> QED
    BY <1>11, <2>1
<1>13. \A j \in 1 .. a : array[4 + j] = A[j]
  <2>1. ASSUME NEW j \in 1 .. a PROVE array[4 + j] = A[j]
    <3>1. 4 + j \in 1 .. a + t + 12 /\ 4 + j \notin {a + 5, e}
      BY <1>10
    <3> QED
      BY <1>1, <1>11, <3>1
  <2> QED
    BY <2>1
<1>14. SubSeq(array, 5, a + 4) = A
  <2>1. /\ SubSeq(array, 5, a + 4) = [j \in 1 .. a |-> array[5 + j - 1]]
    <3>1. a + 4 - 5 + 1 = a
      OBVIOUS
    <3> QED
      BY <3>1
  <2>2. \A j \in 1 .. a : array[5 + j - 1] = A[j]
    <3>1. \A j \in 1 .. a : 5 + j - 1 = 4 + j
      OBVIOUS
    <3> QED
      BY <1>13, <3>1
  <2>3. A = [j \in 1 .. a |-> A[j]]
    BY <1>2
  <2> QED
    BY <2>1, <2>2, <2>3
<1>15. /\ Parse(text).artist.data + Parse(text).artist.len = a + 5
       /\ Parse(text).artist.data + Parse(text).artist.len - 1 = a + 4
  BY <1>10
<1> QED
  BY <1>10, <1>12, <1>14, <1>15 DEF text, A, array
-----------------------------------------------------------------------------
(* The metadata client: what is on its way *)

\* The answer the server is at.
Busy == IF left > 0 THEN 1 ELSE 0

Records == [song : DOMAIN Songs, ends : 0 .. 2]

\* How many answers end in the records from each of them on.
Ends(queue, rest) ==
    /\ rest \in [1 .. Len(queue) + 1 -> Nat]
    /\ rest[Len(queue) + 1] = 0
    /\ \A p \in 1 .. Len(queue) : rest[p] = rest[p + 1] + queue[p].ends

\* An answer that has not been read is a request on its way, or the answer
\* the server is at, or ends in one of the records on their way back.
Accounted == \E rest : Ends(inbox, rest) /\ lag = requests + Busy + rest[1]

\* As long as every answer is one record
OneRecordEach ==
    /\ left <= 1
    /\ \A p \in 1 .. Len(inbox) : inbox[p].ends = 1
    /\ lag = requests + left + Len(inbox)

\* the thread has sent one request more than it has read answers, and while
\* it reads one more than that;
InStep ==
    /\ pc \in {"start", "first"} => lag = 0
    /\ pc \in {"send", "return", "sleep"} => lag = 1
    /\ pc = "read" => lag = 2

\* and the answers come in the order of the requests: the one that is read
\* next is about what was playing at its request, or something later.
Due(first) == IF pc = "read" /\ first THEN before ELSE last

InOrder ==
    pc \in {"send", "read", "return", "sleep"} =>
        /\ \A p \in 1 .. Len(inbox) : inbox[p].song >= Due(p = 1)
        /\ left > 0 => current >= Due(inbox = << >>)

ShownInOrder == pc \in {"return", "sleep"} => missed \/ shown >= before

OneEach == oneEach => OneRecordEach /\ InStep /\ InOrder /\ ShownInOrder

Remembered == before <= last /\ last <= now

MetaInv == TypeOK /\ Remembered /\ Accounted /\ OneEach
LEMMA EndsAppended ==
    ASSUME NEW queue \in Seq(Records), NEW r \in Records, NEW rest, Ends(queue, rest)
    PROVE  \E more : Ends(Append(queue, r), more) /\ more[1] = rest[1] + r.ends
<1> DEFINE n == Len(queue)
           more == [p \in 1 .. n + 2 |-> IF p <= n + 1 THEN rest[p] + r.ends ELSE 0]
<1>1. n \in Nat /\ r.ends \in Nat /\ Len(Append(queue, r)) = n + 1
  BY DEF Records
<1>2. /\ rest \in [1 .. n + 1 -> Nat] /\ rest[n + 1] = 0
      /\ \A p \in 1 .. n : rest[p] = rest[p + 1] + queue[p].ends
  BY DEF Ends
<1>3. /\ \A p \in 1 .. n : Append(queue, r)[p] = queue[p]
      /\ Append(queue, r)[n + 1] = r
  OBVIOUS
<1>7. ASSUME NEW p \in 1 .. n PROVE queue[p].ends \in Nat
  <2>1. queue[p] \in Records
    BY ElementOfSeq
  <2> QED
    BY <2>1 DEF Records
<1> HIDE DEF n
<1>4. /\ more \in [1 .. n + 2 -> Nat] /\ more[n + 2] = 0
      /\ \A p \in 1 .. n + 1 : more[p] = rest[p] + r.ends
  BY <1>1, <1>2
<1> HIDE DEF more
<1>5. ASSUME NEW p \in 1 .. n + 1
      PROVE  more[p] = more[p + 1] + Append(queue, r)[p].ends
  <2>1. CASE p = n + 1
    BY <1>1, <1>2, <1>3, <1>4, <2>1
  <2>2. CASE p \in 1 .. n
    <3>1. p + 1 \in 1 .. n + 1 /\ rest[p + 1] \in Nat /\ queue[p].ends \in Nat
      BY <1>1, <1>2, <1>7, <2>2
    <3>2. more[p] = rest[p] + r.ends /\ more[p + 1] = rest[p + 1] + r.ends
      BY <1>4, <3>1
    <3>3. rest[p] = rest[p + 1] + queue[p].ends
      BY <1>2, <2>2
    <3>4. Append(queue, r)[p] = queue[p]
      BY <1>3, <2>2
    <3> QED
      BY <1>1, <3>1, <3>2, <3>3, <3>4
  <2> QED
    BY <1>1, <2>1, <2>2
<1>6. n + 2 = (n + 1) + 1 /\ 1 \in 1 .. n + 1
  BY <1>1
<1> QED
  BY <1>1, <1>4, <1>5, <1>6 DEF Ends

LEMMA EndsTaken ==
    ASSUME NEW queue \in Seq(Records), queue # << >>, NEW rest, Ends(queue, rest)
    PROVE  \E more : Ends(Tail(queue), more) /\ rest[1] = more[1] + Head(queue).ends /\ more[1] \in Nat
<1> DEFINE n == Len(queue)
           more == [p \in 1 .. n |-> rest[p + 1]]
<1>1. n \in Nat \ {0} /\ Len(Tail(queue)) = n - 1 /\ Head(queue) = queue[1]
  OBVIOUS
<1>2. /\ rest \in [1 .. n + 1 -> Nat] /\ rest[n + 1] = 0
      /\ \A p \in 1 .. n : rest[p] = rest[p + 1] + queue[p].ends
  BY DEF Ends
<1>3. \A p \in 1 .. n - 1 : Tail(queue)[p] = queue[p + 1]
  OBVIOUS
<1> HIDE DEF n
<1>4. /\ more \in [1 .. n -> Nat] /\ more[n] = 0
      /\ \A p \in 1 .. n : more[p] = rest[p + 1]
  BY <1>1, <1>2
<1> HIDE DEF more
<1>5. ASSUME NEW p \in 1 .. n - 1
      PROVE  more[p] = more[p + 1] + Tail(queue)[p].ends
  <2>1. p \in 1 .. n /\ p + 1 \in 1 .. n
    BY <1>1
  <2> QED
    BY <1>2, <1>3, <1>4, <2>1
<1>6. n = (n - 1) + 1 /\ 1 \in 1 .. n
  BY <1>1
<1> QED
  BY <1>1, <1>2, <1>4, <1>5, <1>6 DEF Ends

-----------------------------------------------------------------------------
(* The metadata client: every step keeps it *)

LEMMA EmptyText == ASSUME NEW S PROVE << >> \in Seq(S)
OBVIOUS

LEMMA MetaStart == Init => MetaInv
<1> SUFFICES ASSUME Init PROVE MetaInv
  OBVIOUS
<1>1. Len(Songs) \in Nat \ {0} /\ DOMAIN Songs = 1 .. Len(Songs)
  BY SongsAreSongs
<1>2. TypeOK
  <2>1. metadata \in [artist : Strings, title : Strings] /\ buffer \in Seq(Chars \cup {"nul"})
    BY DEF Init, Nothing, Strings
  <2>2. inbox \in Seq([song : DOMAIN Songs, ends : 0 .. 2]) /\ Len(inbox) = 0
    BY DEF Init
  <2>3. /\ now \in DOMAIN Songs /\ current \in DOMAIN Songs
        /\ before \in DOMAIN Songs /\ last \in DOMAIN Songs
        /\ shown \in 0 .. Len(Songs) /\ lag \in Nat
    BY <1>1 DEF Init
  <2>4. requests \in 0 .. REQCAP /\ left \in 0 .. MaxPieces /\ Len(inbox) <= ANSCAP
    BY <2>2, MetaAssumption DEF Init
  <2>5. pc = "start" /\ oneEach \in BOOLEAN /\ missed \in BOOLEAN
    BY DEF Init
  <2> QED
    BY <2>1, <2>2, <2>3, <2>4, <2>5 DEF TypeOK
<1>3. Accounted
  <2>1. Ends(<< >>, [p \in 1 .. 1 |-> 0])
    BY DEF Ends
  <2> QED
    BY <2>1 DEF Init, Accounted, Busy
<1>4. OneEach /\ Remembered
  BY DEF Init, OneEach, OneRecordEach, InStep, InOrder, ShownInOrder, Remembered
<1> QED
  BY <1>2, <1>3, <1>4 DEF MetaInv

\* What the type invariant says in the terms of these proofs.
LEMMA MetaTypes ==
    ASSUME TypeOK
    PROVE  /\ inbox \in Seq(Records) /\ Len(inbox) \in 0 .. ANSCAP
           /\ requests \in 0 .. REQCAP /\ left \in 0 .. MaxPieces
           /\ REQCAP \in Nat \ {0} /\ ANSCAP \in Nat \ {0} /\ MaxPieces \in Nat \ {0}
           /\ Len(Songs) \in Nat \ {0} /\ DOMAIN Songs = 1 .. Len(Songs)
           /\ now \in 1 .. Len(Songs) /\ current \in 1 .. Len(Songs)
           /\ before \in 1 .. Len(Songs) /\ last \in 1 .. Len(Songs)
           /\ shown \in 0 .. Len(Songs) /\ lag \in Nat
           /\ \A p \in 1 .. Len(inbox) :
                inbox[p].song \in 1 .. Len(Songs) /\ inbox[p].ends \in 0 .. 2
<1>1. /\ inbox \in Seq(Records) /\ Len(inbox) \in 0 .. ANSCAP
  BY MetaAssumption DEF TypeOK, Records
<1>2. Len(Songs) \in Nat \ {0} /\ DOMAIN Songs = 1 .. Len(Songs)
  BY SongsAreSongs
<1>3. ASSUME NEW p \in 1 .. Len(inbox)
      PROVE  inbox[p].song \in 1 .. Len(Songs) /\ inbox[p].ends \in 0 .. 2
  <2>1. inbox[p] \in Records
    BY <1>1, ElementOfSeq
  <2> QED
    BY <1>2, <2>1 DEF Records
<1>4. /\ requests \in 0 .. REQCAP /\ left \in 0 .. MaxPieces
      /\ now \in DOMAIN Songs /\ current \in DOMAIN Songs
      /\ before \in DOMAIN Songs /\ last \in DOMAIN Songs
      /\ shown \in 0 .. Len(Songs) /\ lag \in Nat
  BY DEF TypeOK
<1> QED
  BY <1>1, <1>2, <1>3, <1>4, MetaAssumption

LEMMA TakeRequestStep ==
    ASSUME MetaInv, TakeRequest
    PROVE  MetaInv'
<1> USE DEF MetaInv
<1>1. /\ left = 0 /\ requests > 0 /\ requests' = requests - 1
      /\ current' = now /\ left' \in 1 .. MaxPieces /\ oneEach' = (oneEach /\ left' = 1)
      /\ UNCHANGED <<now, inbox, pc, shown, buffer, metadata, lag, before, last, missed>>
  BY DEF TakeRequest
<1>2. /\ requests \in 0 .. REQCAP /\ MaxPieces \in Nat \ {0} /\ REQCAP \in Nat
      /\ Len(inbox) \in Nat /\ now \in Nat /\ before \in Nat /\ last \in Nat /\ lag \in Nat
  BY MetaTypes
<1>3. oneEach' \in BOOLEAN /\ requests' \in 0 .. REQCAP /\ left' \in 0 .. MaxPieces
  BY <1>1, <1>2
<1>4. TypeOK'
  BY <1>1, <1>3 DEF TypeOK
<1>5. Remembered'
  BY <1>1 DEF Remembered
<1>6. Accounted'
  <2>1. PICK rest : Ends(inbox, rest) /\ lag = requests + Busy + rest[1]
    BY DEF Accounted
  <2>2. rest[1] \in Nat
    BY <1>2, <2>1 DEF Ends
  <2>3. lag' = requests' + Busy' + rest[1]
    BY <1>1, <1>2, <2>1, <2>2 DEF Busy
  <2> QED
    BY <1>1, <2>1, <2>3 DEF Accounted
<1>7. OneEach'
  <2> SUFFICES ASSUME oneEach' PROVE OneRecordEach' /\ InStep' /\ InOrder' /\ ShownInOrder'
    BY DEF OneEach
  <2>1. oneEach /\ left' = 1
    BY <1>1
  <2>2. OneRecordEach /\ InStep /\ InOrder /\ ShownInOrder
    BY <2>1 DEF OneEach
  <2>3. OneRecordEach'
    BY <1>1, <1>2, <2>1, <2>2 DEF OneRecordEach
  <2>4. InStep' /\ ShownInOrder'
    BY <1>1, <2>2 DEF InStep, ShownInOrder
  <2>5. InOrder'
    BY <1>1, <1>2, <2>2 DEF InOrder, Due, Remembered
  <2> QED
    BY <2>3, <2>4, <2>5
<1> QED
  BY <1>4, <1>5, <1>6, <1>7
LEMMA SendRecordStep ==
    ASSUME MetaInv, SendRecord
    PROVE  MetaInv'
<1> USE DEF MetaInv
<1> DEFINE r == [song |-> current, ends |-> IF left = 1 THEN 1 ELSE 0]
<1>1. /\ left > 0 /\ Len(inbox) < ANSCAP
      /\ inbox' = Append(inbox, r) /\ left' = left - 1
      /\ UNCHANGED <<now, requests, current, pc, shown, buffer, metadata,
                      lag, before, last, oneEach, missed>>
  BY DEF SendRecord
<1>2. /\ inbox \in Seq(Records) /\ Len(inbox) \in Nat /\ ANSCAP \in Nat
      /\ left \in 0 .. MaxPieces /\ MaxPieces \in Nat /\ requests \in Nat /\ lag \in Nat
      /\ before \in Nat /\ last \in Nat
  BY MetaTypes
<1>3. r \in Records /\ r.song = current /\ r.ends = IF left = 1 THEN 1 ELSE 0
  BY DEF TypeOK, Records
<1> HIDE DEF r
<1>4. /\ inbox' \in Seq(Records) /\ Len(inbox') = Len(inbox) + 1 /\ inbox' # << >>
      /\ \A p \in 1 .. Len(inbox) : inbox'[p] = inbox[p]
      /\ inbox'[Len(inbox) + 1] = r
  BY <1>1, <1>2, <1>3
<1>5. TypeOK'
  <2>1. left' \in 0 .. MaxPieces /\ Len(inbox') <= ANSCAP
    BY <1>1, <1>2, <1>4
  <2> QED
    BY <1>1, <1>4, <2>1 DEF TypeOK, Records
<1>6. Remembered'
  BY <1>1 DEF Remembered
<1>7. Accounted'
  <2>1. PICK rest : Ends(inbox, rest) /\ lag = requests + Busy + rest[1]
    BY DEF Accounted
  <2>2. rest[1] \in Nat
    BY <1>2, <2>1 DEF Ends
  <2>3. PICK more : Ends(Append(inbox, r), more) /\ more[1] = rest[1] + r.ends
    BY <1>2, <1>3, <2>1, EndsAppended
  <2>4. lag' = requests' + Busy' + more[1]
    BY <1>1, <1>2, <1>3, <2>1, <2>2, <2>3 DEF Busy
  <2>5. Ends(inbox', more)
    BY <1>1, <2>3
  <2> QED
    BY <2>4, <2>5 DEF Accounted
<1>8. OneEach'
  <2> SUFFICES ASSUME oneEach' PROVE OneRecordEach' /\ InStep' /\ InOrder' /\ ShownInOrder'
    BY DEF OneEach
  <2>1. OneRecordEach /\ InStep /\ InOrder /\ ShownInOrder
    BY <1>1 DEF OneEach
  <2>2. left = 1 /\ left' = 0 /\ r.ends = 1
    BY <1>1, <1>2, <1>3, <2>1 DEF OneRecordEach
  <2>3. \A p \in 1 .. Len(inbox') : p \in 1 .. Len(inbox) \/ p = Len(inbox) + 1
    BY <1>2, <1>4
  <2>4. OneRecordEach'
    <3>1. \A p \in 1 .. Len(inbox') : inbox'[p].ends = 1
      BY <1>4, <2>1, <2>2, <2>3 DEF OneRecordEach
    <3>2. lag' = requests' + left' + Len(inbox')
      BY <1>1, <1>2, <1>4, <2>1, <2>2 DEF OneRecordEach
    <3> QED
      BY <2>2, <3>1, <3>2 DEF OneRecordEach
  <2>5. InStep' /\ ShownInOrder'
    BY <1>1, <2>1 DEF InStep, ShownInOrder
  <2>6. InOrder'
    <3> SUFFICES ASSUME pc \in {"send", "read", "return", "sleep"}, NEW p \in 1 .. Len(inbox')
                 PROVE  inbox'[p].song >= Due(p = 1)'
      BY <1>1, <2>2 DEF InOrder
    <3>1. Due(p = 1)' = Due(p = 1)
      BY <1>1 DEF Due
    <3>2. CASE p \in 1 .. Len(inbox)
      BY <1>4, <2>1, <3>1, <3>2 DEF InOrder
    <3>3. CASE p = Len(inbox) + 1
      <4>1. inbox = << >> <=> p = 1
        BY <1>2, <3>3
      <4>2. current >= Due(inbox = << >>)
        BY <2>1, <2>2 DEF InOrder
      <4> QED
        BY <1>3, <1>4, <3>1, <3>3, <4>1, <4>2 DEF Due
    <3> QED
      BY <2>3, <3>2, <3>3
  <2> QED
    BY <2>4, <2>5, <2>6
<1> QED
  BY <1>5, <1>6, <1>7, <1>8

LEMMA SendTwoStep ==
    ASSUME MetaInv, SendTwo
    PROVE  MetaInv'
<1> USE DEF MetaInv
<1> DEFINE r == [song |-> current, ends |-> 2]
<1>1. /\ left = 1 /\ requests > 0 /\ Len(inbox) < ANSCAP
      /\ inbox' = Append(inbox, r) /\ left' = 0 /\ requests' = requests - 1
      /\ oneEach' = FALSE
      /\ UNCHANGED <<now, current, pc, shown, buffer, metadata, lag, before, last, missed>>
  BY DEF SendTwo
<1>2. /\ inbox \in Seq(Records) /\ Len(inbox) \in Nat /\ ANSCAP \in Nat
      /\ MaxPieces \in Nat /\ requests \in 0 .. REQCAP /\ REQCAP \in Nat /\ lag \in Nat
  BY MetaTypes
<1>3. r \in Records /\ r.ends = 2
  BY DEF TypeOK, Records
<1> HIDE DEF r
<1>4. TypeOK'
  <2>1. /\ inbox' \in Seq(Records) /\ Len(inbox') <= ANSCAP
        /\ left' \in 0 .. MaxPieces /\ requests' \in 0 .. REQCAP
    BY <1>1, <1>2, <1>3
  <2> QED
    BY <1>1, <2>1 DEF TypeOK, Records
<1>5. Accounted'
  <2>1. PICK rest : Ends(inbox, rest) /\ lag = requests + Busy + rest[1]
    BY DEF Accounted
  <2>2. rest[1] \in Nat
    BY <1>2, <2>1 DEF Ends
  <2>3. PICK more : Ends(Append(inbox, r), more) /\ more[1] = rest[1] + r.ends
    BY <1>2, <1>3, <2>1, EndsAppended
  <2>4. lag' = requests' + Busy' + more[1]
    <3>1. Busy = 1 /\ Busy' = 0
      BY <1>1 DEF Busy
    <3>2. more[1] = rest[1] + 2
      BY <1>3, <2>3
    <3>3. lag' = lag /\ requests' = requests - 1 /\ lag \in Nat /\ requests \in Nat
      BY <1>1, <1>2
    <3> QED
      BY <2>1, <2>2, <3>1, <3>2, <3>3
  <2>5. Ends(inbox', more)
    BY <1>1, <2>3
  <2> QED
    BY <2>4, <2>5 DEF Accounted
<1>6. OneEach' /\ Remembered'
  BY <1>1 DEF OneEach, Remembered
<1> QED
  BY <1>4, <1>5, <1>6

\* Nothing but the song that plays changes, or the thread moves without one
\* of the server's or its own counts.
LEMMA QuietStep ==
    ASSUME MetaInv, NextSong \/ Start \/ Return \/ Broken \/ Sleep \/ UNCHANGED vars
    PROVE  MetaInv'
<1> USE DEF MetaInv
<1>1. /\ UNCHANGED <<requests, left, current, inbox, shown, metadata,
                      lag, before, last, oneEach, missed>>
      /\ now' \in DOMAIN Songs /\ now' >= now
      /\ \/ pc' = pc
         \/ pc = "start" /\ pc' \in {"first", "spin"}
         \/ pc' = "ended"
         \/ pc = "return" /\ pc' = "sleep"
         \/ pc = "sleep" /\ pc' = "send"
      /\ buffer' \in {buffer, << >>}
  <2>1. now \in 1 .. Len(Songs) /\ Len(Songs) \in Nat /\ DOMAIN Songs = 1 .. Len(Songs)
    BY MetaTypes
  <2>2. CASE NextSong
    BY <2>1, <2>2 DEF NextSong
  <2>3. CASE Start \/ Return \/ Broken \/ Sleep \/ UNCHANGED vars
    BY <2>1, <2>3 DEF Start, Return, Broken, Sleep, vars, server
  <2> QED
    BY <2>2, <2>3
<1>2. TypeOK'
  <2>1. buffer' \in Seq(Chars \cup {"nul"})
    <3> DEFINE Arrays == Seq(Chars \cup {"nul"})
    <3>1. buffer \in Arrays /\ << >> \in Arrays
      BY EmptyText DEF TypeOK
    <3> HIDE DEF Arrays
    <3>2. buffer' \in Arrays
      BY <1>1, <3>1
    <3> QED
      BY <3>2 DEF Arrays
  <2> QED
    BY <1>1, <2>1 DEF TypeOK
<1>3. Remembered'
  <2>1. before \in Nat /\ last \in Nat /\ now \in Nat /\ now' \in Nat
    BY <1>1, MetaTypes
  <2> QED
    BY <1>1, <2>1 DEF Remembered
<1>4. Accounted'
  BY <1>1 DEF Accounted, Busy
<1>5. OneEach'
  <2> SUFFICES ASSUME oneEach' PROVE OneRecordEach' /\ InStep' /\ InOrder' /\ ShownInOrder'
    BY DEF OneEach
  <2>1. OneRecordEach /\ InStep /\ InOrder /\ ShownInOrder
    BY <1>1 DEF OneEach
  <2>2. OneRecordEach'
    BY <1>1, <2>1 DEF OneRecordEach
  <2>3. InStep' /\ ShownInOrder'
    BY <1>1, <2>1 DEF InStep, ShownInOrder
  <2>4. InOrder'
    BY <1>1, <2>1 DEF InOrder, Due
  <2> QED
    BY <2>2, <2>3, <2>4
<1> QED
  BY <1>2, <1>3, <1>4, <1>5

\* The first request, and the one of each round.
LEMMA SendStep ==
    ASSUME MetaInv, SendFirst \/ Send
    PROVE  MetaInv'
<1> USE DEF MetaInv
<1>1. /\ requests < REQCAP /\ requests' = requests + 1 /\ lag' = lag + 1
      /\ before' = last /\ last' = now
      /\ UNCHANGED <<now, left, current, inbox, shown, buffer, metadata, oneEach, missed>>
      /\ \/ pc = "first" /\ pc' = "send"
         \/ pc = "send" /\ pc' = "read"
  BY DEF SendFirst, Send, SendRequest
<1>2. /\ requests \in 0 .. REQCAP /\ REQCAP \in Nat /\ lag \in Nat /\ left \in Nat
      /\ Len(inbox) \in Nat /\ now \in Nat /\ before \in Nat /\ last \in Nat
      /\ inbox \in Seq(Records)
  BY MetaTypes
<1>3. TypeOK'
  <2>1. requests' \in 0 .. REQCAP /\ lag' \in Nat
    BY <1>1, <1>2
  <2> QED
    BY <1>1, <2>1 DEF TypeOK
<1>4. Remembered'
  BY <1>1, <1>2 DEF Remembered
<1>5. Accounted'
  <2>1. PICK rest : Ends(inbox, rest) /\ lag = requests + Busy + rest[1]
    BY DEF Accounted
  <2>2. rest[1] \in Nat
    BY <1>2, <2>1 DEF Ends
  <2>3. Busy \in Nat /\ Busy' = Busy
    BY <1>1 DEF Busy
  <2>4. lag' = requests' + Busy' + rest[1]
    BY <1>1, <1>2, <2>1, <2>2, <2>3
  <2> QED
    BY <1>1, <2>1, <2>4 DEF Accounted
<1>6. OneEach'
  <2> SUFFICES ASSUME oneEach' PROVE OneRecordEach' /\ InStep' /\ InOrder' /\ ShownInOrder'
    BY DEF OneEach
  <2>1. OneRecordEach /\ InStep /\ InOrder
    BY <1>1 DEF OneEach
  <2>2. OneRecordEach'
    BY <1>1, <1>2, <2>1 DEF OneRecordEach
  <2>3. InStep'
    BY <1>1, <2>1 DEF InStep
  <2>4. ShownInOrder'
    BY <1>1 DEF ShownInOrder
  <2>5. requests + left + Len(inbox) <= 1
    BY <1>1, <2>1 DEF InStep, OneRecordEach
  <2>6. CASE pc = "first"
    <3>1. lag = 0 /\ lag = requests + left + Len(inbox)
      BY <2>1, <2>6 DEF InStep, OneRecordEach
    <3>2. left = 0 /\ Len(inbox) = 0
      BY <1>2, <3>1
    <3> QED
      BY <1>1, <2>2, <2>3, <2>4, <3>2 DEF InOrder
  <2>7. CASE pc = "send"
    <3>1. /\ Due(TRUE)' = last /\ pc' = "read"
          /\ \A first \in BOOLEAN : Due(first) = last
      BY <1>1, <2>7 DEF Due
    <3>2. ASSUME NEW p \in 1 .. Len(inbox') PROVE inbox'[p].song >= Due(p = 1)'
      <4>1. p \in 1 .. Len(inbox) /\ p = 1
        BY <1>1, <1>2, <2>5
      <4>2. inbox[p].song >= last
        BY <2>1, <2>7, <3>1, <4>1 DEF InOrder
      <4> QED
        BY <1>1, <3>1, <4>1, <4>2
    <3>3. ASSUME left' > 0 PROVE current' >= Due(inbox = << >>)'
      <4>1. inbox = << >> /\ left > 0
        BY <1>1, <1>2, <2>5, <3>3
      <4>2. current >= last
        BY <2>1, <2>7, <3>1, <4>1 DEF InOrder
      <4> QED
        BY <1>1, <3>1, <4>1, <4>2
    <3> QED
      BY <2>2, <2>3, <2>4, <3>2, <3>3 DEF InOrder
  <2> QED
    BY <1>1, <2>6, <2>7
<1> QED
  BY <1>3, <1>4, <1>5, <1>6

LEMMA ReadAnswerStep ==
    ASSUME MetaInv, Read
    PROVE  MetaInv'
<1> USE DEF MetaInv
<1> DEFINE song == Head(inbox).song
           ends == Head(inbox).ends
<1>1. /\ pc = "read" /\ inbox # << >> /\ inbox' = Tail(inbox) /\ lag' = lag - ends
      /\ UNCHANGED <<now, requests, left, current, before, last, oneEach>>
      /\ pc' \in {"return", "ended"} /\ missed' \in BOOLEAN
      /\ \/ shown' = song /\ metadata' \in {Found[song], Nothing}
         \/ UNCHANGED <<shown, metadata>> /\ missed' = TRUE
      /\ buffer' \in {Array[song], << >>}
  BY DEF Read, TypeOK
<1>2. /\ inbox \in Seq(Records) /\ Len(inbox) \in 0 .. ANSCAP /\ ANSCAP \in Nat
      /\ requests \in Nat /\ left \in Nat /\ lag \in Nat /\ before \in Nat
      /\ Len(Songs) \in Nat /\ DOMAIN Songs = 1 .. Len(Songs)
  BY MetaTypes
<1>3. /\ inbox' \in Seq(Records) /\ Len(inbox') = Len(inbox) - 1
      /\ Head(inbox) = inbox[1] /\ 1 \in 1 .. Len(inbox)
      /\ \A p \in 1 .. Len(inbox') : inbox'[p] = inbox[p + 1] /\ p + 1 \in 2 .. Len(inbox)
  BY <1>1, <1>2
<1>4. song \in 1 .. Len(Songs) /\ ends \in 0 .. 2
  BY <1>3, MetaTypes
<1>5. PICK rest : Ends(inbox, rest) /\ lag = requests + Busy + rest[1]
  BY DEF Accounted
<1>6. PICK more : Ends(Tail(inbox), more) /\ rest[1] = more[1] + ends /\ more[1] \in Nat
  BY <1>1, <1>2, <1>5, EndsTaken
<1>7. Busy \in Nat /\ Busy' = Busy
  BY <1>1 DEF Busy
<1>8. song \in DOMAIN Songs
  BY <1>2, <1>4
<1>9. /\ Nothing \in [artist : Strings, title : Strings]
      /\ Found[song] \in [artist : Strings, title : Strings]
      /\ Array[song] \in Seq(Chars \cup {"nul"})
  BY <1>8, ParseTypes DEF Nothing, Strings, Found, Array
<1> HIDE DEF song, ends
<1>10. lag' \in Nat /\ lag' = requests' + Busy' + more[1]
  BY <1>1, <1>2, <1>4, <1>5, <1>6, <1>7
<1>11. TypeOK'
  <2>1. shown' \in 0 .. Len(Songs)
    BY <1>1, <1>2, <1>4 DEF TypeOK
  <2>2. metadata' \in [artist : Strings, title : Strings] /\ buffer' \in Seq(Chars \cup {"nul"})
    <3>1. metadata' \in {Found[song], Nothing, metadata} /\ buffer' \in {Array[song], << >>}
      BY <1>1
    <3> DEFINE Arrays == Seq(Chars \cup {"nul"})
               Values == [artist : Strings, title : Strings]
    <3>2. metadata \in Values /\ Found[song] \in Values /\ Nothing \in Values
      BY <1>9 DEF TypeOK
    <3>3. Array[song] \in Arrays /\ << >> \in Arrays
      BY <1>9, EmptyText
    <3> HIDE DEF Arrays, Values
    <3>4. metadata' \in Values
      BY <3>1, <3>2
    <3>5. buffer' \in Arrays
      BY <3>1, <3>3
    <3> QED
      BY <3>4, <3>5 DEF Arrays, Values
  <2>3. Len(inbox') <= ANSCAP /\ inbox' \in Seq([song : DOMAIN Songs, ends : 0 .. 2])
    BY <1>2, <1>3 DEF Records
  <2> QED
    BY <1>1, <1>10, <2>1, <2>2, <2>3 DEF TypeOK
<1>12. Remembered'
  BY <1>1 DEF Remembered
<1>13. Accounted'
  BY <1>1, <1>6, <1>10 DEF Accounted
<1>14. OneEach'
  <2> SUFFICES ASSUME oneEach' PROVE OneRecordEach' /\ InStep' /\ InOrder' /\ ShownInOrder'
    BY DEF OneEach
  <2>1. OneRecordEach /\ InStep /\ InOrder /\ ShownInOrder
    BY <1>1 DEF OneEach
  <2>2. /\ ends = 1 /\ lag = requests + left + Len(inbox) /\ left <= 1 /\ lag = 2
        /\ \A p \in 1 .. Len(inbox) : inbox[p].ends = 1
    BY <1>1, <1>3, <2>1 DEF OneRecordEach, InStep, ends
  <2>3. OneRecordEach'
    <3>1. \A p \in 1 .. Len(inbox') : inbox'[p].ends = 1
      BY <1>3, <2>2
    <3>2. lag' = requests' + left' + Len(inbox')
      BY <1>1, <1>2, <1>3, <2>2
    <3> QED
      BY <1>1, <2>2, <3>1, <3>2 DEF OneRecordEach
  <2>4. InStep'
    BY <1>1, <2>2 DEF InStep
  <2>5. \A p \in 1 .. Len(inbox) : inbox[p].song >= (IF p = 1 THEN before ELSE last)
    BY <1>1, <2>1 DEF InOrder, Due
  <2>6. ShownInOrder'
    <3>1. song >= before
      BY <1>3, <2>5 DEF song
    <3> QED
      BY <1>1, <3>1 DEF ShownInOrder
  <2>7. InOrder'
    <3>1. Due(TRUE)' = last /\ Due(FALSE)' = last
      BY <1>1 DEF Due
    <3>2. ASSUME NEW p \in 1 .. Len(inbox') PROVE inbox'[p].song >= last
      <4>1. inbox'[p] = inbox[p + 1] /\ p + 1 \in 1 .. Len(inbox) /\ p + 1 # 1
        BY <1>3
      <4>2. inbox[p + 1].song >= last
        BY <2>5, <4>1
      <4> QED
        BY <4>1, <4>2
    <3>3. left > 0 => current >= last
      BY <1>1, <2>1 DEF InOrder, Due
    <3> QED
      BY <1>1, <3>1, <3>2, <3>3 DEF InOrder, Due
  <2> QED
    BY <2>3, <2>4, <2>6, <2>7
<1> QED
  BY <1>11, <1>12, <1>13, <1>14

LEMMA MetaStep == MetaInv /\ [Next]_vars => MetaInv'
BY TakeRequestStep, SendRecordStep, SendTwoStep, QuietStep, SendStep, ReadAnswerStep
   DEF Next, Server, Thread

LEMMA MetaHolds == ClientsSpec => []MetaInv
BY MetaRuns, MetaStart, MetaStep, PTL DEF Spec

-----------------------------------------------------------------------------
(* The metadata client: what follows *)

\* One request before the loop and one in each round: the answer shown is
\* the one before the last (ssl_read.c:127-135).
THEOREM AlwaysOneBehind == ClientsSpec => []OneBehind
<1>1. MetaInv => OneBehind
  BY DEF MetaInv, OneEach, InStep, ShownInOrder, OneBehind
<1> QED
  BY <1>1, MetaHolds, PTL

\* With room for one request and one record, the thread in SSL_write() and
\* the server in its send never wait for each other (ssl_read.c:127-135).
THEOREM NeverBothWaiting == ClientsSpec => []NeverStuck
<1>1. MetaInv => NeverStuck
  <2> SUFFICES ASSUME MetaInv, oneEach, pc = "send", requests = REQCAP, left > 0 PROVE FALSE
    BY DEF NeverStuck
  <2>1. lag = 1 /\ lag = requests + left + Len(inbox)
    BY DEF MetaInv, OneEach, InStep, OneRecordEach
  <2>2. REQCAP \in Nat \ {0} /\ left \in Nat /\ Len(inbox) \in Nat
    BY MetaTypes DEF MetaInv
  <2> QED
    BY <2>1, <2>2
<1> QED
  BY <1>1, MetaHolds, PTL

\* While read_response()'s array exists, an artist without a quote in his name
\* stands in it where metadata points to, whole and ended (ssl_read.c:362-381);
\* nothing is said of the pointer once the array is gone.
THEOREM ArtistOfTheSong ==
    ASSUME \A s \in DOMAIN Songs :
             \A j \in DOMAIN Songs[s].artist : Songs[s].artist[j] # "q"
    PROVE  ClientsSpec => []ArtistRight
<1>1. Init => ArtistRight
  BY DEF Init, ArtistRight
<1>2. MetaInv /\ ArtistRight /\ [Next]_vars => ArtistRight'
  <2> SUFFICES ASSUME MetaInv, ArtistRight, [Next]_vars PROVE ArtistRight'
    OBVIOUS
  <2>1. CASE Read
    <3> DEFINE song == Head(inbox).song
    <3>1. song \in DOMAIN Songs
      <4>1. inbox \in Seq(Records) /\ inbox # << >>
        BY <2>1, MetaTypes DEF Read, MetaInv
      <4>2. Head(inbox) \in Records
        BY <4>1
      <4> QED
        BY <4>2 DEF Records
    <3>2. \/ shown' = song /\ metadata' = Found[song] /\ buffer' = Array[song]
          \/ buffer' = << >>
      BY <2>1 DEF Read
    <3>3. Found[song] = Parse(Text(song)) /\ Array[song] = Marked(Text(song))
      BY <3>1 DEF Found, Array
    <3> HIDE DEF song
    <3>4. CASE buffer' = << >>
      BY <3>4 DEF ArtistRight
    <3>5. CASE shown' = song /\ metadata' = Found[song] /\ buffer' = Array[song]
      <4>1. ~(buffer' = << >>) =>
              LET artist == metadata'.artist
              IN  /\ SubSeq(buffer', artist.data, artist.data + artist.len - 1)
                        = Songs[shown'].artist
                  /\ buffer'[artist.data + artist.len] = "nul"
        BY <3>1, <3>3, <3>5, ParseArtist
      <4> QED
        BY <4>1 DEF ArtistRight
    <3> QED
      BY <3>2, <3>4, <3>5
  <2>2. CASE ~Read
    <3>1. UNCHANGED <<shown, metadata, buffer>> \/ buffer' = << >>
      BY <2>2 DEF Next, Server, Thread, NextSong, TakeRequest, SendRecord, SendTwo,
                  Start, SendFirst, Send, SendRequest, Return, Sleep, Broken, vars, server
    <3> QED
      BY <3>1 DEF ArtistRight
  <2> QED
    BY <2>1, <2>2
<1> QED
  BY <1>1, <1>2, MetaRuns, MetaHolds, PTL DEF Spec

-----------------------------------------------------------------------------
\* The types of all five.
THEOREM ClientsTypes == ClientsSpec => []TypesOK
<1>1. MetaInv /\ EventInv /\ UvInv /\ HttpInv /\ Ws!TypeOK => TypesOK
  BY DEF MetaInv, EventInv, UvInv, HttpInv, TypesOK
<1> QED
  BY <1>1, MetaHolds, EventHolds, UvHolds, HttpHolds, WsHolds, PTL
=============================================================================
