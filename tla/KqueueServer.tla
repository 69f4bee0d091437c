---------------------------- MODULE KqueueServer ----------------------------
(***************************************************************************)
(* The event loop of web_server/server_mac.c.                              *)
(*                                                                         *)
(* main() waits on a kqueue that holds the non-blocking listening socket.  *)
(* When it fires, main() accepts until nobody is left; each connection is  *)
(* made non-blocking, sent the page line by line, closed, and then added   *)
(* to the kqueue.  Header and lines are pieces of PIECE units; a client's  *)
(* socket buffer holds SOCKBUF units that the client drains when it wants. *)
(***************************************************************************)
EXTENDS Integers, Sequences, FiniteSets

CONSTANTS
    Clients,    \* each connects once
    LINES,      \* the lines of the page; piece 0 is the HTTP header
    PIECE,      \* units in a piece
    SOCKBUF     \* units the socket buffer of a connection holds

ASSUME KqueueAssumption ==
    LINES \in Nat /\ PIECE \in Nat \ {0} /\ SOCKBUF \in Nat \ {0}

VARIABLES
    conn,       \* per client: its connection, at the server's end
    peer,       \* per client: its end is "up" or "gone"
    buffered,   \* per client: the units in its socket buffer
    sent,       \* per client: the pieces the kernel took, with their sizes
    kq,         \* the client sockets registered with the kqueue
    cur,        \* clientSocket
    line,       \* the piece handle_client() is at
    pc

net == <<conn, peer, buffered, sent>>
vars == <<conn, peer, buffered, sent, kq, cur, line, pc>>

Stopped == pc \in {"exited", "killed"}
Waiting == {c \in Clients : conn[c] = "queued"}
Pieces == 0 .. LINES

TypeOK ==
    /\ conn \in [Clients -> {"none", "queued", "open", "closed"}]
    /\ peer \in [Clients -> {"up", "gone"}]
    /\ buffered \in [Clients -> 0 .. SOCKBUF]
    /\ sent \in [Clients -> Seq([piece : Pieces, units : 1 .. PIECE])]
    /\ kq \subseteq Clients
    /\ cur \in Clients
    /\ line \in 0 .. LINES + 1
    /\ pc \in {"wait", "accept", "open", "send", "register", "exited", "killed"}

Init ==
    /\ conn = [c \in Clients |-> "none"]
    /\ peer = [c \in Clients |-> "up"]
    /\ buffered = [c \in Clients |-> 0]
    /\ sent = [c \in Clients |-> << >>]
    /\ kq = {}
    /\ cur \in Clients
    /\ line = 0
    /\ pc = "wait"

-----------------------------------------------------------------------------
(* The clients *)

Connect(c) ==
    /\ conn[c] = "none"
    /\ conn' = [conn EXCEPT ![c] = "queued"]
    /\ UNCHANGED <<peer, buffered, sent, kq, cur, line, pc>>

\* The client's kernel takes a unit out of the socket buffer.
Drain(c) ==
    /\ buffered[c] > 0
    /\ buffered' = [buffered EXCEPT ![c] = @ - 1]
    /\ UNCHANGED <<conn, peer, sent, kq, cur, line, pc>>

Leave(c) ==
    /\ conn[c] \in {"queued", "open"} /\ peer[c] = "up"
    /\ peer' = [peer EXCEPT ![c] = "gone"]
    /\ UNCHANGED <<conn, buffered, sent, kq, cur, line, pc>>

-----------------------------------------------------------------------------
(* The server *)

\* kevent() returns: the listening socket is readable, whatever number of
\* connections it holds.  No other socket fires while kq is empty, which it
\* is (WaitsForNobody), so the branch for client data is left out.
Wait ==
    /\ pc = "wait" /\ Waiting # {}
    /\ pc' = "accept"
    /\ UNCHANGED <<net, kq, cur, line>>

Accept(c) ==
    /\ pc = "accept" /\ c \in Waiting
    /\ conn' = [conn EXCEPT ![c] = "open"]
    /\ cur' = c
    /\ pc' = "open"
    /\ UNCHANGED <<peer, buffered, sent, kq, line>>

\* accept() returns -1: with EAGAIN when nobody is left, or with another
\* error, which ends the loop as well, whoever still waits.
AcceptFails ==
    /\ pc = "accept"
    /\ pc' = "wait"
    /\ UNCHANGED <<net, kq, cur, line>>

\* (mutant) the page stays open and is not rewound
OpenPageOnce ==
    /\ pc = "open"
    /\ pc' \in {"send", "exited"}
    /\ UNCHANGED <<net, kq, cur, line>>

\* fopen() of the page, for every connection again; without it, exit().
OpenPage ==
    /\ pc = "open"
    /\ line' = 0
    /\ pc' \in {"send", "exited"}
    /\ UNCHANGED <<net, kq, cur>>

\* What send() takes of a piece: what there is room for.
Taken(c) == LET room == SOCKBUF - buffered[c]
            IN  IF room < PIECE THEN room ELSE PIECE

\* send() of the header or of a line, its result ignored.  If the client
\* has gone it fails or raises SIGPIPE.
SendPiece ==
    /\ pc = "send" /\ line <= LINES
    /\ IF peer[cur] = "gone"
       THEN pc' \in {"send", "killed"} /\ UNCHANGED <<buffered, sent>>
       ELSE /\ buffered' = [buffered EXCEPT ![cur] = @ + Taken(cur)]
            /\ sent' = IF Taken(cur) = 0 THEN sent
                       ELSE [sent EXCEPT ![cur] =
                               Append(@, [piece |-> line, units |-> Taken(cur)])]
            /\ pc' = pc
    /\ line' = line + 1
    /\ UNCHANGED <<conn, peer, kq, cur>>

\* (mutant) the connection stays open after the answer
ClosePageOnly ==
    /\ pc = "send" /\ line > LINES
    /\ pc' = "register"
    /\ UNCHANGED <<net, kq, cur, line>>

ClosePage ==
    /\ pc = "send" /\ line > LINES
    /\ conn' = [conn EXCEPT ![cur] = "closed"]
    /\ pc' = "register"
    /\ UNCHANGED <<peer, buffered, sent, kq, cur, line>>

\* EV_ADD of the client socket, which fails with EBADF if it is closed; the
\* server then closes and shuts down the same number once more, in vain.
Register ==
    /\ pc = "register"
    /\ kq' = IF conn[cur] = "open" THEN kq \cup {cur} ELSE kq
    /\ pc' = "accept"
    /\ UNCHANGED <<net, cur, line>>

Sigint ==
    /\ pc' = "exited"
    /\ UNCHANGED <<net, kq, cur, line>>

-----------------------------------------------------------------------------
Server == \/ Wait \/ (\E c \in Clients : Accept(c)) \/ AcceptFails
          \/ OpenPage \/ SendPiece \/ ClosePage \/ Register

Client(c) == Connect(c) \/ Drain(c) \/ Leave(c)

Next == ~Stopped /\ (Server \/ Sigint \/ \E c \in Clients : Client(c))

Spec == Init /\ [][Next]_vars

Taking == ~Stopped /\ \E c \in Clients : Accept(c)

\* The process is scheduled, and accept() does not fail for ever while a
\* client waits: kevent() reports it again, and the next try may succeed.
FairSpec == Spec /\ WF_vars(~Stopped /\ Server) /\ SF_vars(Taking)

-----------------------------------------------------------------------------
\* The first k pieces, complete and in order.
Whole(k) == [p \in 1 .. k |-> [piece |-> p - 1, units |-> PIECE]]

(***************************************************************************)
(* "Send the content of index.html" (server_mac.c:93): a client that did   *)
(* not leave is sent the header and every line, complete and in order.     *)
(***************************************************************************)
ContentSent ==
    \A c \in Clients : conn[c] = "closed" /\ peer[c] = "up" => sent[c] = Whole(LINES + 1)

(***************************************************************************)
(* ContentSent, for a page that fits into the socket buffer as a whole.    *)
(***************************************************************************)
SmallPageSent == PIECE * (LINES + 1) <= SOCKBUF => ContentSent

(***************************************************************************)
(* The event loop never waits with a client's connection open, nor with a  *)
(* client's socket registered: the branch "Handle data from client" is     *)
(* never reached, and with it its read of the stale clientSocket           *)
(* (server_mac.c:192-244).                                                 *)
(***************************************************************************)
WaitsForNobody ==
    kq = {} /\ (pc \in {"wait", "accept"} => \A c \in Clients : conn[c] # "open")

(***************************************************************************)
(* For all its non-blocking sockets and its event queue, the server serves *)
(* one client at a time, each once (OneAtATime).                           *)
(***************************************************************************)
Abstract == INSTANCE OneAtATime WITH
                waiting <- Waiting,
                serving <- {c \in Clients : conn[c] = "open"},
                served  <- {c \in Clients : conn[c] = "closed"}

ServesOneAtATime == Abstract!Spec

(***************************************************************************)
(* A client that has connected is answered and closed unless the server    *)
(* stops: neither connections made while the accept loop runs nor those    *)
(* left behind when it ends with an error are forgotten (server_mac.c:165, *)
(* 192-211).                                                               *)
(***************************************************************************)
EventuallyClosed ==
    \A c \in Clients : conn[c] = "queued" ~> (conn[c] = "closed" \/ Stopped)
=============================================================================
