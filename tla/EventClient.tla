----------------------------- MODULE EventClient -----------------------------
(***************************************************************************)
(* The loops in which the event clients read what their server sends, from *)
(* the request on:                                                         *)
(*   http     simple/http.c: poll(), then recv();                          *)
(*   sse      sse.c and sse1.c: a blocking read();                         *)
(*   sse3     SSE3.c: poll() on the socket, then SSL_read(), then a sleep; *)
(*   sse3_ok  SSE3_ok.c: one SSL_read(), a search in what it returns, then *)
(*            a request in plain text, and recv() on the socket below the  *)
(*            TLS connection.                                              *)
(* A TLS record is taken out of the kernel as a whole; what does not fit   *)
(* into the buffer of SSL_read() waits inside the library, where poll()    *)
(* does not see it.                                                        *)
(***************************************************************************)
EXTENDS Naturals, Sequences

CONSTANTS
    Kinds,      \* the programs
    BUF,        \* what one read takes
    MaxRecord,  \* bound: the largest record
    MaxSent     \* bound: what the server sends altogether

EventAssumption == /\ Kinds \subseteq {"http", "sse", "sse3", "sse3_ok"}
                   /\ BUF \in Nat \ {0} /\ MaxRecord \in Nat /\ MaxSent \in Nat

VARIABLES
    kind,       \* which program it is
    sent,       \* what the server has sent
    open,       \* the server has not closed
    records,    \* the records in the kernel (of plain TCP: of size 1)
    pending,    \* the rest of a record inside the TLS library
    shown,      \* what has been printed
    taken,      \* what SSE3_ok.c has taken off the connection; it prints some of it
    pc,         \* where the program is
    broke,      \* history: a call has failed
    big         \* history: a record did not fit into the buffer

network == <<kind, sent, open, records>>
vars == <<kind, sent, open, records, pending, shown, taken, pc, broke, big>>

Init == /\ kind \in Kinds
        /\ sent = 0 /\ open = TRUE /\ records = << >>
        /\ pending = 0 /\ shown = 0 /\ taken = 0
        /\ pc = IF kind \in {"http", "sse3"} THEN "poll" ELSE "read"
        /\ broke = FALSE /\ big = FALSE

Tls == kind \in {"sse3", "sse3_ok"}

MinOf(a, b) == IF a < b THEN a ELSE b

-----------------------------------------------------------------------------
(* The server.  A TLS record of size 0 is one without data for the         *)
(* program: a session ticket.                                              *)

Publish ==
    /\ open
    /\ \E n \in (IF Tls THEN 0 ELSE 1) .. MinOf(MaxRecord, MaxSent - sent) :
          /\ n = 0 => Len(records) < 2          \* a bound
          /\ sent' = sent + n
          /\ records' = IF Tls THEN Append(records, n)
                        ELSE records \o [i \in 1 .. n |-> 1]
          /\ big' = (big \/ n > BUF)
    /\ UNCHANGED <<kind, open, pending, shown, taken, pc, broke>>

Close == /\ open
         /\ open' = FALSE
         /\ UNCHANGED <<kind, sent, records, pending, shown, taken, pc, broke, big>>

-----------------------------------------------------------------------------
(* poll() returns when the kernel has something, or the end.               *)

Poll ==
    /\ pc = "poll"
    /\ records # << >> \/ ~open
    /\ pc' = "read"
    /\ UNCHANGED <<network, pending, shown, taken, broke, big>>

\* recv() and read() take what is there, up to the size of the buffer.
TakeStream ==
    LET n == MinOf(BUF, Len(records))
    IN  /\ pc = "read" /\ n > 0
        /\ records' = SubSeq(records, n + 1, Len(records))
        /\ shown' = shown + n

\* (mutant) the end is looked at first
ReadHttpEndFirst ==
    /\ kind = "http" /\ pc = "read"
    /\ \/ open /\ TakeStream /\ pc' = "poll"
       \/ ~open /\ pc' = "ended" /\ UNCHANGED <<records, shown>>
    /\ UNCHANGED <<kind, sent, open, pending, taken, broke, big>>

ReadHttp ==
    /\ kind = "http" /\ pc = "read"
    /\ \/ TakeStream /\ pc' = "poll"
       \/ records = << >> /\ ~open /\ pc' = "ended" /\ UNCHANGED <<records, shown>>
    /\ UNCHANGED <<kind, sent, open, pending, taken, broke, big>>

ReadSse ==
    /\ kind = "sse" /\ pc = "read"
    /\ \/ TakeStream /\ pc' = "read"
       \/ records = << >> /\ ~open /\ pc' = "ended" /\ UNCHANGED <<records, shown>>
    /\ UNCHANGED <<kind, sent, open, pending, taken, broke, big>>

-----------------------------------------------------------------------------
(* SSL_read() gives the rest of the last record, or waits for a record     *)
(* with data in it.                                                        *)

SslReadPending ==
    /\ pc = "read" /\ pending > 0
    /\ shown' = shown + MinOf(BUF, pending)
    /\ pending' = pending - MinOf(BUF, pending)
    /\ UNCHANGED records

\* (mutant) the buffer without room for a NUL
SslReadShort ==
    /\ pc = "read" /\ pending = 0 /\ records # << >> /\ Head(records) > 0
    /\ records' = Tail(records)
    /\ shown' = shown + MinOf(BUF - 1, Head(records))
    /\ pending' = Head(records) - MinOf(BUF - 1, Head(records))

SslReadRecord ==
    /\ pc = "read" /\ pending = 0 /\ records # << >> /\ Head(records) > 0
    /\ records' = Tail(records)
    /\ shown' = shown + MinOf(BUF, Head(records))
    /\ pending' = Head(records) - MinOf(BUF, Head(records))

\* A ticket: SSL_read() takes it and waits on.
SslReadTicket ==
    /\ Tls /\ pc = "read" /\ pending = 0 /\ records # << >> /\ Head(records) = 0
    /\ records' = Tail(records)
    /\ UNCHANGED <<kind, sent, open, pending, shown, taken, pc, broke, big>>

SslReadEnd == pending = 0 /\ records = << >> /\ ~open

\* SSE3.c: the end of the stream is 0, not -1, and the loop goes on.  What
\* resp still holds behind the bytes read is printed with them, up to a zero
\* byte, and not counted.
ReadSse3 ==
    /\ kind = "sse3" /\ pc = "read"
    /\ \/ SslReadPending
       \/ SslReadRecord
       \/ SslReadEnd /\ UNCHANGED <<records, pending, shown>>
    /\ pc' = "sleep"
    /\ UNCHANGED <<kind, sent, open, taken, broke, big>>

Sleep == /\ pc = "sleep" /\ pc' = "poll"
         /\ UNCHANGED <<network, pending, shown, taken, broke, big>>

\* SSE3_ok.c: what the only SSL_read() returns.
FirstRecord ==
    /\ pending = 0 /\ records # << >> /\ Head(records) > 0
    /\ records' = Tail(records)
    /\ taken' = taken + MinOf(BUF, Head(records))
    /\ pending' = Head(records) - MinOf(BUF, Head(records))

\* It is not printed.  The text is searched for "artist": what stands there
\* is printed from it on, or nothing, if there is none; and the search, which
\* can go back as far as it has come, may not end (RestartSearch).
ReadFirst ==
    /\ kind = "sse3_ok" /\ pc = "read"
    /\ \/ FirstRecord /\ shown' \in shown .. shown + MinOf(BUF, Head(records)) /\ pc' = "send"
       \/ FirstRecord /\ UNCHANGED shown /\ pc' = "search"
       \/ SslReadEnd /\ UNCHANGED <<records, pending, shown, taken>> /\ pc' = "send"
    /\ UNCHANGED <<kind, sent, open, broke, big>>

\* Its result is not looked at.
FirstReadFails ==
    /\ kind = "sse3_ok" /\ pc = "read"
    /\ pc' = "send" /\ broke' = TRUE
    /\ UNCHANGED <<network, pending, shown, taken, big>>

\* A failed send() is only reported.
SendPlain == /\ pc = "send" /\ pc' = "recv"
             /\ UNCHANGED <<network, pending, shown, taken, broke, big>>

\* recv() takes ciphertext, here a record at a time, and printf() shows what
\* is in front of its first zero byte.
RecvRaw ==
    /\ pc = "recv"
    /\ \/ /\ records # << >>
          /\ taken' = taken + Head(records)
          /\ records' = Tail(records)
          /\ UNCHANGED pc
       \/ /\ records = << >> /\ ~open
          /\ pc' = "ended"
          /\ UNCHANGED <<records, taken>>
    /\ UNCHANGED <<kind, sent, open, pending, shown, broke, big>>

-----------------------------------------------------------------------------
\* A call fails: every program ends.
Fail ==
    /\ pc \in {"poll", "recv"} \/ (pc = "read" /\ kind # "sse3_ok")
    /\ pc' = "ended" /\ broke' = TRUE
    /\ UNCHANGED <<network, pending, shown, taken, big>>

Program == Poll \/ ReadHttp \/ ReadSse \/ SslReadTicket \/ ReadSse3 \/ Sleep
             \/ ReadFirst \/ SendPlain \/ RecvRaw

Next == Publish \/ Close \/ Program \/ FirstReadFails \/ Fail

Spec == Init /\ [][Next]_vars

FairSpec == Spec /\ WF_vars(Program)

-----------------------------------------------------------------------------
TypeOK ==
    /\ kind \in Kinds
    /\ sent \in 0 .. MaxSent
    /\ open \in BOOLEAN
    /\ records \in Seq(0 .. MaxRecord)
    /\ pending \in 0 .. MaxRecord
    /\ shown \in Nat /\ taken \in Nat
    /\ pc \in {"poll", "read", "sleep", "search", "send", "recv", "ended"}
    /\ broke \in BOOLEAN /\ big \in BOOLEAN

(***************************************************************************)
(* http.c and sse.c end behind the last thing their server has sent,       *)
(* unless a call fails (simple/http.c:67-81, sse.c:148-152).               *)
(***************************************************************************)
EndsBehindTheLast ==
    kind \in {"http", "sse"} /\ pc = "ended" /\ ~broke => shown = sent

(***************************************************************************)
(* Nothing the server sends stays behind in the connection for ever, as    *)
(* long as every TLS record fits into the buffer and no call fails: it is  *)
(* printed by http.c, sse.c and SSE3.c, and taken by SSE3_ok.c, which      *)
(* prints little of it, unless its search does not end (SSE3.c:366-386,    *)
(* SSE3_ok.c:395-456).                                                     *)
(***************************************************************************)
NothingLeftBehind ==
    \A k \in 1 .. MaxSent :
        sent >= k ~> \/ (IF kind = "sse3_ok" THEN taken ELSE shown) >= k
                     \/ pc = "search" \/ big \/ broke
=============================================================================
