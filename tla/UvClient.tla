------------------------------ MODULE UvClient ------------------------------
(***************************************************************************)
(* The libuv client of simple/uvv.c from uv_tcp_connect() on: callbacks of *)
(* one event loop, which ends by itself when no request and no reading is  *)
(* left, for uv_stop() is called on another loop.  Each chunk is taken     *)
(* apart at each of its newlines, on its own: the start of its first line  *)
(* and what is behind its last newline are not kept from one chunk to the  *)
(* next, and the blank line that ends an event is a message like another.  *)
(***************************************************************************)
EXTENDS Integers, Sequences, FiniteSets

CONSTANTS
    MaxStream,  \* bound: characters of the stream
    MaxChunk    \* bound: characters of a chunk

UvAssumption == MaxStream \in Nat /\ MaxChunk \in Nat \ {0}

VARIABLES
    pc,             \* what the loop waits for, or "scan" within on_read()
    stream,         \* the text on_read() has been given: a newline is 0, any
                    \* other character the place it stands at
    data,           \* the copy of the chunk that is taken apart
    message_start,  \* where in it the next message starts
    messages        \* what parse_sse_message() has printed

vars == <<pc, stream, data, message_start, messages>>

Init == /\ pc = "connect"
        /\ stream = << >> /\ data = << >> /\ message_start = 1
        /\ messages = << >>

-----------------------------------------------------------------------------
\* on_connect() writes the request; an error leaves the loop nothing to do.
on_connect == /\ pc = "connect" /\ pc' \in {"write", "returned"}
              /\ UNCHANGED <<stream, data, message_start, messages>>

\* on_write() is called with a request that was a local variable of
\* on_connect(): req->handle is whatever the stack holds by now.  A failed
\* write is reported, and reading started all the same.
on_write == /\ pc = "write" /\ pc' \in {"read", "returned", "crashed"}
            /\ UNCHANGED <<stream, data, message_start, messages>>

-----------------------------------------------------------------------------
(* on_read() *)

on_read ==
    /\ pc = "read" /\ pc' = "scan"
    /\ \E n \in 1 .. MaxChunk : \E newlines \in SUBSET (1 .. n) :
          /\ Len(stream) + n <= MaxStream
          /\ data' = [j \in 1 .. n |-> IF j \in newlines THEN 0 ELSE Len(stream) + j]
    /\ stream' = stream \o data'
    /\ message_start' = 1
    /\ UNCHANGED messages

\* What strchr() finds from message_start on.
Newline(k) == /\ k \in message_start .. Len(data) /\ data[k] = 0
              /\ \A h \in message_start .. k - 1 : data[h] # 0

\* (mutant) if (newline) for while (newline)
on_read_first_message ==
    /\ pc = "scan"
    /\ \E newline \in 1 .. Len(data) :
          /\ Newline(newline)
          /\ messages' = Append(messages, SubSeq(data, message_start, newline - 1))
    /\ message_start' = Len(data) + 1
    /\ UNCHANGED <<pc, stream, data>>

on_read_message ==
    /\ pc = "scan"
    /\ \E newline \in 1 .. Len(data) :
          /\ Newline(newline)
          /\ messages' = Append(messages, SubSeq(data, message_start, newline - 1))
          /\ message_start' = newline + 1
    /\ UNCHANGED <<pc, stream, data>>

\* No newline is left, and the copy is freed with what is behind the last.
on_read_done ==
    /\ pc = "scan" /\ \A k \in message_start .. Len(data) : data[k] # 0
    /\ pc' = "read"
    /\ data' = << >> /\ message_start' = 1
    /\ UNCHANGED <<stream, messages>>

\* UV_EOF or an error: libuv stops reading, and the loop is empty.
on_read_end == /\ pc = "read" /\ pc' = "returned"
               /\ UNCHANGED <<stream, data, message_start, messages>>

Next == \/ on_connect \/ on_write
        \/ on_read \/ on_read_message \/ on_read_done \/ on_read_end

Spec == Init /\ [][Next]_vars

-----------------------------------------------------------------------------
LineEnds == {i \in DOMAIN stream : stream[i] = 0}

TypeOK ==
    /\ pc \in {"connect", "write", "read", "scan", "returned", "crashed"}
    /\ stream \in Seq(0 .. MaxStream) /\ Len(stream) <= MaxStream
    /\ data \in Seq(0 .. MaxStream) /\ message_start \in 1 .. Len(data) + 1
    /\ messages \in Seq(Seq(1 .. MaxStream))

(***************************************************************************)
(* However the stream is cut into chunks, whenever a chunk is done there   *)
(* is one message for each line so far, in order; it may lack the start of *)
(* its line but has nothing of another one (simple/uvv.c:28-36).  This is  *)
(* what the scan does, blank lines and each line of one event included,    *)
(* and not what its comment says: "SSE messages are typically separated by *)
(* double newlines" (23).                                                  *)
(***************************************************************************)
OneMessageForEachLine ==
    pc # "scan" =>
        /\ Len(messages) = Cardinality(LineEnds)
        /\ \A i \in LineEnds : \E first \in 1 .. i :
              /\ \A h \in first .. i - 1 : h \notin LineEnds
              /\ messages[Cardinality({k \in LineEnds : k <= i})]
                    = SubSeq(stream, first, i - 1)
=============================================================================
