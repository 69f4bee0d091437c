----------------------------- MODULE PollServer -----------------------------
(***************************************************************************)
(* The single-threaded HTTP server of web_server/mac/server_mac_poll.c.    *)
(*                                                                         *)
(* main() polls the listening socket and at most MAX_CLIENTS clients, and  *)
(* walks over the array once per poll: slot 0 accepts one connection, the  *)
(* slot of a readable client is answered, closed and filled with the last  *)
(* slot of the array.  A descriptor is named by the client it belongs to.  *)
(* The clients and the network are the environment: they connect, send,    *)
(* hang up or reset between any two steps of the server.                   *)
(***************************************************************************)
EXTENDS Integers, FiniteSets

CONSTANTS
    Clients,       \* the clients that may connect, each over and over
    NoClient,      \* what an unused slot holds
    MAX_CLIENTS,   \* slots for clients (10 in the code)
    Backlog,       \* bound on connections waiting to be accepted (SOMAXCONN)
    SOCKBUF        \* writes a connection holds before write() waits

ASSUME PollAssumption ==
    /\ MAX_CLIENTS \in Nat \ {0} /\ Backlog \in Nat \ {0} /\ SOCKBUF \in Nat \ {0}
    /\ NoClient \notin Clients

VARIABLES
    conn,        \* per client: its connection, as the kernels see it
    peer,        \* per client: whether its end is up, closed or reset
    data,        \* per client: whether it has sent its request
    reply,       \* per client: what the server has written to it
    unread,      \* per client: how many of these writes it has not read
    html,        \* htmlContent # NULL: the page was found at start-up
    fd,          \* pollfds[1 ..].fd
    revents,     \* pollfds[0 ..].revents & POLLIN
    numClients,
    i,           \* the loop variable of main()
    pc           \* where the server is

env == <<conn, peer, data>>
array == <<fd, numClients>>
vars == <<conn, peer, data, reply, unread, html, fd, revents, numClients, i, pc>>

Slots == 1 .. MAX_CLIENTS

TypeOK ==
    /\ conn \in [Clients -> {"none", "queued", "open", "refused", "served"}]
    /\ peer \in [Clients -> {"up", "closed", "reset"}]
    /\ data \in [Clients -> BOOLEAN]
    /\ reply \in [Clients -> {"nothing", "head", "page", "error"}]
    /\ unread \in [Clients -> 0 .. SOCKBUF]
    /\ html \in BOOLEAN
    /\ fd \in [Slots -> Clients \cup {NoClient}]
    /\ revents \in [0 .. MAX_CLIENTS -> BOOLEAN]
    /\ numClients \in 0 .. MAX_CLIENTS
    /\ i \in 0 .. MAX_CLIENTS + 1
    /\ pc \in {"poll", "scan", "body", "close", "exited", "killed"}

Init ==
    /\ conn = [c \in Clients |-> "none"]
    /\ peer = [c \in Clients |-> "up"]
    /\ data = [c \in Clients |-> FALSE]
    /\ reply = [c \in Clients |-> "nothing"]
    /\ unread = [c \in Clients |-> 0]
    /\ html \in BOOLEAN
    /\ fd = [s \in Slots |-> NoClient]
    /\ revents = [s \in 0 .. MAX_CLIENTS |-> FALSE]
    /\ numClients = 0
    /\ i = 0
    /\ pc = "poll"

Stopped == pc \in {"exited", "killed"}

-----------------------------------------------------------------------------
(* The clients and the network *)

Waiting == {c \in Clients : conn[c] = "queued"}

\* poll() reports a client that has sent something or has gone away.
Readable(c) == conn[c] = "open" /\ (data[c] \/ peer[c] # "up")

Connect(c) ==
    /\ conn[c] \in {"none", "refused", "served"}
    /\ Cardinality(Waiting) < Backlog
    /\ conn' = [conn EXCEPT ![c] = "queued"]
    /\ peer' = [peer EXCEPT ![c] = "up"]
    /\ data' = [data EXCEPT ![c] = FALSE]
    /\ reply' = [reply EXCEPT ![c] = "nothing"]
    /\ unread' = [unread EXCEPT ![c] = 0]
    /\ UNCHANGED <<html, array, revents, i, pc>>

Send(c) ==
    /\ conn[c] \in {"queued", "open"} /\ peer[c] = "up" /\ ~data[c]
    /\ data' = [data EXCEPT ![c] = TRUE]
    /\ UNCHANGED <<conn, peer, reply, unread, html, array, revents, i, pc>>

Hangup(c) ==
    /\ conn[c] \in {"queued", "open"} /\ peer[c] = "up"
    /\ peer' = [peer EXCEPT ![c] = "closed"]
    /\ UNCHANGED <<conn, data, reply, unread, html, array, revents, i, pc>>

\* A connection reset before it is accepted leaves the backlog.
AbortQueued(c) ==
    /\ conn[c] = "queued"
    /\ conn' = [conn EXCEPT ![c] = "none"]
    /\ UNCHANGED <<peer, data, reply, unread, html, array, revents, i, pc>>

\* A client resets its connection, or answers what the server wrote to its
\* closed socket with a reset.
Reset(c) ==
    /\ conn[c] = "open"
    /\ peer[c] = "up" \/ (peer[c] = "closed" /\ reply[c] # "nothing")
    /\ peer' = [peer EXCEPT ![c] = "reset"]
    /\ UNCHANGED <<conn, data, reply, unread, html, array, revents, i, pc>>

\* A client reads a part of its answer, or never does.
Drain(c) ==
    /\ conn[c] = "open" /\ peer[c] # "reset" /\ unread[c] > 0
    /\ unread' = [unread EXCEPT ![c] = @ - 1]
    /\ UNCHANGED <<conn, peer, data, reply, html, array, revents, i, pc>>

-----------------------------------------------------------------------------
(* The server *)

\* (mutant) poll() is called with numClients for numClients + 1
PollOneShort ==
    /\ pc = "poll"
    /\ revents' = [s \in 0 .. MAX_CLIENTS |->
                     IF s = 0 THEN Waiting # {}
                     ELSE IF s < numClients THEN Readable(fd[s])
                     ELSE revents[s]]
    /\ i' = 0
    /\ pc' = "scan"
    /\ UNCHANGED <<env, reply, unread, html, array>>

\* poll() returns when a descriptor is ready or the timeout has passed.
Poll ==
    /\ pc = "poll"
    /\ revents' = [s \in 0 .. MAX_CLIENTS |->
                     IF s = 0 THEN Waiting # {}
                     ELSE IF s <= numClients THEN Readable(fd[s])
                     ELSE revents[s]]
    /\ i' = 0
    /\ pc' = "scan"
    /\ UNCHANGED <<env, reply, unread, html, array>>

Skip ==
    /\ pc = "scan" /\ i <= numClients /\ ~revents[i]
    /\ i' = i + 1
    /\ UNCHANGED <<env, reply, unread, html, array, revents, pc>>

AtAccept == pc = "scan" /\ i = 0 /\ revents[0]

\* (mutant) the table is taken to have one slot more
AcceptOverrun(c) ==
    /\ AtAccept /\ c \in Waiting
    /\ IF numClients <= MAX_CLIENTS
       THEN /\ conn' = [conn EXCEPT ![c] = "open"]
            /\ fd' = [fd EXCEPT ![numClients + 1] = c]
            /\ revents' = [revents EXCEPT ![numClients + 1] = FALSE]
            /\ numClients' = numClients + 1
       ELSE /\ conn' = [conn EXCEPT ![c] = "refused"]
            /\ UNCHANGED <<array, revents>>
    /\ i' = 1
    /\ UNCHANGED <<peer, data, reply, unread, html, pc>>

\* accept_new_connection(): takes a slot, or closes the new connection.
Accept(c) ==
    /\ AtAccept /\ c \in Waiting
    /\ IF numClients < MAX_CLIENTS
       THEN /\ conn' = [conn EXCEPT ![c] = "open"]
            /\ fd' = [fd EXCEPT ![numClients + 1] = c]
            /\ revents' = [revents EXCEPT ![numClients + 1] = FALSE]
            /\ numClients' = numClients + 1
       ELSE /\ conn' = [conn EXCEPT ![c] = "refused"]
            /\ UNCHANGED <<array, revents>>
    /\ i' = 1
    /\ UNCHANGED <<peer, data, reply, unread, html, pc>>

\* The connection poll() reported is gone.  accept() blocks, or fails, and
\* log_message(ERROR, ...) exits.
Stalled == AtAccept /\ Waiting = {}

AcceptFails ==
    /\ Stalled
    /\ pc' = "exited"
    /\ UNCHANGED <<env, reply, unread, html, array, revents, i>>

\* A write() of handle_client() to client c: it waits until the connection has
\* room, for ever if the client does not read, or the connection is reset and
\* write() fails unnoticed or raises SIGPIPE.
Write(c, what, next) ==
    /\ \/ /\ peer[c] # "reset" /\ unread[c] < SOCKBUF
          /\ reply' = [reply EXCEPT ![c] = what]
          /\ unread' = [unread EXCEPT ![c] = @ + 1]
          /\ pc' = next
       \/ /\ peer[c] = "reset"
          /\ UNCHANGED <<reply, unread>>
          /\ pc' \in {next, "killed"}
    /\ UNCHANGED <<env, html, array, revents, i>>

\* (mutant) a page is closed after its head
WriteHeadOnly ==
    /\ pc = "scan" /\ i \in 1 .. numClients /\ revents[i]
    /\ Write(fd[i], IF html THEN "head" ELSE "error", "close")

WriteHead ==
    /\ pc = "scan" /\ i \in 1 .. numClients /\ revents[i]
    /\ IF html THEN Write(fd[i], "head", "body") ELSE Write(fd[i], "error", "close")

WriteBody == pc = "body" /\ Write(fd[i], "page", "close")

\* The slot handle_client_data() finds for a descriptor.
SlotOf(c) == CHOOSE s \in 1 .. numClients :
                /\ fd[s] = c
                /\ \A t \in 1 .. s - 1 : fd[t] # c

\* (mutant) the last slot is dropped instead of moved
CloseClientInPlace ==
    /\ pc = "close"
    /\ conn' = [conn EXCEPT ![fd[i]] = "served"]
    /\ unread' = [unread EXCEPT ![fd[i]] = 0]
    /\ numClients' = numClients - 1
    /\ i' = i + 1
    /\ pc' = "scan"
    /\ UNCHANGED <<peer, data, reply, unread, html, fd, revents>>

\* close() in handle_client(), and the last slot moves into the free one:
\* with its revents, and behind the loop variable.
CloseClient ==
    /\ pc = "close"
    /\ LET s == SlotOf(fd[i])
       IN  /\ fd' = [fd EXCEPT ![s] = fd[numClients]]
           /\ revents' = [revents EXCEPT ![s] = revents[numClients]]
    /\ conn' = [conn EXCEPT ![fd[i]] = "served"]
    /\ unread' = [unread EXCEPT ![fd[i]] = 0]
    /\ numClients' = numClients - 1
    /\ i' = i + 1
    /\ pc' = "scan"
    /\ UNCHANGED <<peer, data, reply, html>>

\* The pass is over; update_sliding_window() is module PollWindow.
EndPass ==
    /\ pc = "scan" /\ i > numClients
    /\ pc' = "poll"
    /\ UNCHANGED <<env, reply, unread, html, array, revents, i>>

\* handle_sigint(): exit(0) wherever the server is.
Sigint ==
    /\ ~Stopped
    /\ pc' = "exited"
    /\ UNCHANGED <<env, reply, unread, html, array, revents, i>>

-----------------------------------------------------------------------------
\* Nothing is left to see once the process has ended.
Environment(c) ==
    ~Stopped /\ \/ Connect(c) \/ Send(c) \/ Hangup(c)
                \/ AbortQueued(c) \/ Reset(c) \/ Drain(c)

Server == \/ Poll \/ Skip \/ (\E c \in Clients : Accept(c))
          \/ WriteHead \/ WriteBody \/ CloseClient \/ EndPass

Next == Server \/ AcceptFails \/ Sigint \/ (\E c \in Clients : Environment(c))

Spec == Init /\ [][Next]_vars

\* The process is scheduled: an enabled step of main() is taken.
FairSpec == Spec /\ WF_vars(Server)

-----------------------------------------------------------------------------
(***************************************************************************)
(* The clients in the array are the accepted ones that are not closed yet, *)
(* each in one slot: no descriptor leaks, and none is answered twice       *)
(* (server_mac_poll.c:145-154 and 161-168).                                *)
(***************************************************************************)
SlotsAreOpen ==
    /\ {fd[s] : s \in 1 .. numClients} = {c \in Clients : conn[c] = "open"}
    /\ \A s, t \in 1 .. numClients : fd[s] = fd[t] => s = t

(***************************************************************************)
(* A client that was answered and did not go away has the whole answer     *)
(* (server_mac_poll.c:99-126).                                             *)
(***************************************************************************)
AnswerComplete ==
    \A c \in Clients : conn[c] = "served" /\ peer[c] = "up" =>
        reply[c] = IF html THEN "page" ELSE "error"

(***************************************************************************)
(* Compaction never moves a client away from the head of the array: the    *)
(* reason why a client skipped by one pass is not skipped for ever         *)
(* (server_mac_poll.c:162-166, 246).                                       *)
(***************************************************************************)
NeverMovesBack ==
    [][\A s \in 1 .. numClients, t \in 1 .. numClients' :
         fd'[t] = fd[s] => t <= s]_vars

\* The body waits for a client that does not read what it has: the whole
\* server waits.
HeldUp == pc = "body" /\ peer[fd[i]] # "reset" /\ unread[fd[i]] = SOCKBUF

(***************************************************************************)
(* A client that has sent its request, or has gone, is answered and        *)
(* closed, unless the server stops, or accept() waits, again and again,    *)
(* for a connection that is gone, or write() waits for ever for one client *)
(* that does not read (server_mac_poll.c:239-263, 134-139, 111).           *)
(***************************************************************************)
EventuallyClosed ==
    []<>Stalled \/ <>[]HeldUp
    \/ \A c \in Clients : Readable(c) ~> (conn[c] # "open" \/ Stopped)
=============================================================================
