----------------------------- MODULE FormServer -----------------------------
(***************************************************************************)
(* The servers of web_server/server.c and web_server/win/server.c, which   *)
(* differ in layout only: on blocking sockets, one client at a time.  The  *)
(* client is accepted, one recv() takes what there is of its request, the  *)
(* page is sent and the connection closed, and then the request is looked  *)
(* at: if it submits a form, the input is printed.                         *)
(***************************************************************************)
EXTENDS Naturals, FiniteSets

CONSTANTS
    Clients,    \* each connects once
    LINES,      \* the lines of the page; piece 0 is the HTTP header
    SOCKBUF     \* pieces a client's connection holds before send() waits

ASSUME FormAssumption == LINES \in Nat /\ SOCKBUF \in Nat \ {0}

VARIABLES
    conn,       \* per client: its connection, at the server's end
    peer,       \* per client: its end is "up" or "gone"
    asks,       \* per client: its request, for the page or with a form, and
                \* leaving room in the buffer or filling it
    said,       \* per client: how much of its request has arrived
    unread,     \* per client: the pieces it has not read yet
    cur,        \* client_socket: the client accepted last
    buffer,     \* whose request it holds, and how much of it
    line,       \* the piece handle_client() is at
    pc,
    inputs,     \* what has been printed: behind which client, and whose
    heard       \* history: the clients whose whole form recv() has returned

clients == <<conn, peer, asks, said, unread>>
vars == <<conn, peer, asks, said, unread, cur, buffer, line, pc, inputs, heard>>

Requests == {"page", "form", "hugepage", "hugeform"}
Amounts == {"nothing", "start", "whole"}

IsForm(c) == asks[c] \in {"form", "hugeform"}
Fills(c) == asks[c] \in {"hugepage", "hugeform"}

Init == /\ conn = [c \in Clients |-> "none"]
        /\ peer = [c \in Clients |-> "up"]
        /\ asks \in [Clients -> Requests]
        /\ said = [c \in Clients |-> "nothing"]
        /\ unread = [c \in Clients |-> 0]
        /\ cur = {}
        /\ buffer \in [from : Clients, holds : {"nothing"}]
        /\ line = 0
        /\ pc = "accept"
        /\ inputs = {} /\ heard = {}

Stopped == pc \in {"exited", "crashed"}
Waiting == {c \in Clients : conn[c] = "queued"}

-----------------------------------------------------------------------------
(* The clients *)

Connect(c) ==
    /\ conn[c] = "none"
    /\ conn' = [conn EXCEPT ![c] = "queued"]
    /\ UNCHANGED <<peer, asks, said, unread, cur, buffer, line, pc, inputs, heard>>

\* A segment of the request arrives, or all of it.
Say(c) ==
    /\ conn[c] \in {"queued", "open"} /\ peer[c] = "up" /\ said[c] # "whole"
    /\ \E more \in {"start", "whole"} \ {said[c]} : said' = [said EXCEPT ![c] = more]
    /\ UNCHANGED <<conn, peer, asks, unread, cur, buffer, line, pc, inputs, heard>>

Drain(c) ==
    /\ unread[c] > 0
    /\ unread' = [unread EXCEPT ![c] = @ - 1]
    /\ UNCHANGED <<conn, peer, asks, said, cur, buffer, line, pc, inputs, heard>>

Leave(c) ==
    /\ conn[c] \in {"queued", "open"} /\ peer[c] = "up"
    /\ peer' = [peer EXCEPT ![c] = "gone"]
    /\ UNCHANGED <<conn, asks, said, unread, cur, buffer, line, pc, inputs, heard>>

-----------------------------------------------------------------------------
(* The server *)

\* (mutant) the buffer is not cleared
AcceptKeepsBuffer(c) ==
    /\ pc = "accept" /\ c \in Waiting
    /\ conn' = [conn EXCEPT ![c] = "open"]
    /\ cur' = {c}
    /\ pc' = "recv"
    /\ UNCHANGED <<peer, asks, said, unread, buffer, line, inputs, heard>>

\* accept(), and memset() of the buffer.
Accept(c) ==
    /\ pc = "accept" /\ c \in Waiting
    /\ conn' = [conn EXCEPT ![c] = "open"]
    /\ cur' = {c}
    /\ buffer' = [buffer EXCEPT !.holds = "nothing"]
    /\ pc' = "recv"
    /\ UNCHANGED <<peer, asks, said, unread, line, inputs, heard>>

AcceptFails ==
    /\ pc = "accept" /\ pc' = "exited"
    /\ UNCHANGED <<clients, cur, buffer, line, inputs, heard>>

\* One recv(), its result ignored: what has arrived of the request, or
\* nothing when the client is gone.
Recv(c) ==
    /\ pc = "recv" /\ c \in cur
    /\ \/ said[c] # "nothing" /\ buffer' = [from |-> c, holds |-> said[c]]
       \/ peer[c] = "gone" /\ UNCHANGED buffer
    /\ heard' = IF buffer'.holds = "whole" /\ IsForm(buffer'.from)
                THEN heard \cup {c} ELSE heard
    /\ pc' = "open"
    /\ UNCHANGED <<clients, cur, line, inputs>>

\* fopen() of the page; without it, exit().
OpenPage ==
    /\ pc = "open"
    /\ line' = 0
    /\ pc' \in {"send", "exited"}
    /\ UNCHANGED <<clients, cur, buffer, inputs, heard>>

\* send() waits for room; to a client that is gone it fails, unnoticed.
SendPiece(c) ==
    /\ pc = "send" /\ c \in cur /\ line <= LINES
    /\ \/ peer[c] = "gone" /\ UNCHANGED unread
       \/ /\ peer[c] = "up" /\ unread[c] < SOCKBUF
          /\ unread' = [unread EXCEPT ![c] = @ + 1]
    /\ line' = line + 1
    /\ UNCHANGED <<conn, peer, asks, said, cur, buffer, pc, inputs, heard>>

\* (mutant) the request of a client that is gone is forgotten
ClosePageForgets(c) ==
    /\ pc = "send" /\ c \in cur /\ line > LINES
    /\ conn' = [conn EXCEPT ![c] = "closed"]
    /\ pc' = IF peer[c] = "gone" THEN "accept" ELSE "form"
    /\ UNCHANGED <<peer, asks, said, unread, cur, buffer, line, inputs, heard>>

\* (mutant) the connection is not closed
ClosePageOnly(c) ==
    /\ pc = "send" /\ c \in cur /\ line > LINES
    /\ pc' = "form"
    /\ UNCHANGED <<clients, cur, buffer, line, inputs, heard>>

ClosePage(c) ==
    /\ pc = "send" /\ c \in cur /\ line > LINES
    /\ conn' = [conn EXCEPT ![c] = "closed"]
    /\ pc' = "form"
    /\ UNCHANGED <<peer, asks, said, unread, cur, buffer, line, inputs, heard>>

\* What handle_form_submission() may print of a request, if anything: the
\* start of a form ends before "GET /submit", before "userInput=" or behind it.
Printed(request) ==
    IF ~IsForm(request.from) \/ request.holds = "nothing" THEN {{}}
    ELSE {{request.from}} \cup (IF request.holds = "start" THEN {{}} ELSE {})

\* A request that fills the buffer, a form or not, has no NUL behind it:
\* strstr() reads on in what is there.
HandleForm ==
    /\ pc = "form"
    /\ \/ /\ \E whose \in Printed(buffer) :
                inputs' = inputs \cup [behind : cur, from : whose]
          /\ pc' = "accept"
       \/ /\ Fills(buffer.from) /\ buffer.holds = "whole"
          /\ pc' = "crashed"
          /\ UNCHANGED inputs
       \/ /\ Printed(buffer) # {{}}                 \* no memory
          /\ pc' = "exited"
          /\ UNCHANGED inputs
    /\ UNCHANGED <<clients, cur, buffer, line, heard>>

-----------------------------------------------------------------------------
Server == \/ OpenPage \/ HandleForm
          \/ \E c \in Clients : Accept(c) \/ Recv(c) \/ SendPiece(c) \/ ClosePage(c)

Client(c) == Connect(c) \/ Say(c) \/ Drain(c) \/ Leave(c)

Next == ~Stopped /\ (Server \/ AcceptFails \/ \E c \in Clients : Client(c))

Spec == Init /\ [][Next]_vars

\* The process is scheduled.
FairSpec == Spec /\ WF_vars(~Stopped /\ Server)

-----------------------------------------------------------------------------
TypeOK ==
    /\ conn \in [Clients -> {"none", "queued", "open", "closed"}]
    /\ peer \in [Clients -> {"up", "gone"}]
    /\ asks \in [Clients -> Requests]
    /\ said \in [Clients -> Amounts]
    /\ unread \in [Clients -> 0 .. SOCKBUF]
    /\ cur \in SUBSET Clients
    /\ buffer \in [from : Clients, holds : Amounts]
    /\ line \in 0 .. LINES + 1
    /\ pc \in {"accept", "recv", "open", "send", "form", "exited", "crashed"}
    /\ inputs \in SUBSET [behind : Clients, from : Clients]
    /\ heard \in SUBSET Clients

(***************************************************************************)
(* What is printed behind a client's page is the input of that client's    *)
(* own form, never one that an earlier client left in the buffer           *)
(* (web_server/server.c:163-173).                                          *)
(***************************************************************************)
PrintsItsOwn ==
    \A input \in inputs : input.behind = input.from /\ IsForm(input.from)

(***************************************************************************)
(* A form that one recv() returns whole is printed before the next client  *)
(* is accepted, also when its client has not waited for the page.          *)
(***************************************************************************)
NoFormLost ==
    pc = "accept" => \A c \in heard : [behind |-> c, from |-> c] \in inputs

(***************************************************************************)
(* The server serves one client at a time (OneAtATime).                    *)
(***************************************************************************)
Abstract == INSTANCE OneAtATime WITH
                waiting <- Waiting,
                serving <- {c \in Clients : conn[c] = "open"},
                served  <- {c \in Clients : conn[c] = "closed"}

OneClientAtATime == Abstract!Spec

(***************************************************************************)
(* A client that has connected is answered and closed unless the server    *)
(* stops, as long as nobody it serves is silent, or does not read, for     *)
(* ever: with one such client it is stuck for all (web_server/server.c:58, *)
(* 164).                                                                   *)
(***************************************************************************)
HeldUp == \E c \in cur :
             /\ peer[c] = "up"
             /\ \/ pc = "recv" /\ said[c] = "nothing"
                \/ pc = "send" /\ line <= LINES /\ unread[c] = SOCKBUF

EventuallyAnswered ==
    []<>~HeldUp => \A c \in Clients : conn[c] = "queued" ~> (conn[c] = "closed" \/ Stopped)
=============================================================================
