---------------------------- MODULE ThreadServer ----------------------------
(***************************************************************************)
(* The thread-per-connection server of simple/server.c.                    *)
(*                                                                         *)
(* main() accepts a connection into its local variable clientSocket and    *)
(* gives the new thread a pointer to that variable, not a copy; the thread *)
(* reads the descriptor through it whenever it is scheduled.  The threads  *)
(* share the descriptor table of the process, whose numbers the kernel     *)
(* hands out again, lowest first, as soon as they are closed.  A thread is *)
(* named by the client it was created for, and each client connects once.  *)
(***************************************************************************)
EXTENDS Integers, FiniteSets

CONSTANTS
    Clients,
    MaxFd,      \* descriptors the process may have beside its own three and
                \* the listening socket
    Free,       \* an unused entry of the descriptor table
    File        \* an entry that refers to client.html

ASSUME ThreadAssumption ==
    /\ MaxFd \in Nat
    /\ Free \notin Clients /\ File \notin Clients /\ Free # File

Fds == 1 .. MaxFd
NoFd == 0

VARIABLES
    conn,          \* per client: its connection, at the server's end
    data,          \* per client: its request has been sent and not read
    peer,          \* per client: its end is "up" or "gone"
    answers,       \* per client: the answers sent on its connection
    table,         \* the descriptor table
    clientSocket,  \* main()'s variable, which the threads read
    newest,        \* history: the client clientSocket was assigned for
    mainPc,
    tpc,           \* per thread: where it is
    sock,          \* per thread: its own clientSocket
    file,          \* per thread: its descriptor of client.html
    raced          \* history: clientSocket was assigned while a thread that
                   \* had been given its address had not read it

net == <<conn, data, peer>>
main == <<clientSocket, newest, mainPc>>
vars == <<conn, data, peer, answers, table, clientSocket, newest, mainPc,
          tpc, sock, file, raced>>

Running == mainPc # "exited"

TypeOK ==
    /\ conn \in [Clients -> {"none", "queued", "open", "closed"}]
    /\ data \in [Clients -> BOOLEAN]
    /\ peer \in [Clients -> {"up", "gone"}]
    /\ answers \in [Clients -> Nat]
    /\ table \in [Fds -> Clients \cup {Free, File}]
    /\ clientSocket \in Fds \cup {NoFd}
    /\ newest \in Clients \cup {Free}
    /\ mainPc \in {"accept", "create", "exited"}
    /\ tpc \in [Clients -> {"none", "start", "read", "open", "send", "close", "done"}]
    /\ sock \in [Clients -> Fds \cup {NoFd}]
    /\ file \in [Clients -> Fds \cup {NoFd}]
    /\ raced \in BOOLEAN

Init ==
    /\ conn = [c \in Clients |-> "none"]
    /\ data = [c \in Clients |-> FALSE]
    /\ peer = [c \in Clients |-> "up"]
    /\ answers = [c \in Clients |-> 0]
    /\ table = [f \in Fds |-> Free]
    /\ clientSocket = NoFd
    /\ newest = Free
    /\ mainPc = "accept"
    /\ tpc = [c \in Clients |-> "none"]
    /\ sock = [c \in Clients |-> NoFd]
    /\ file = [c \in Clients |-> NoFd]
    /\ raced = FALSE

-----------------------------------------------------------------------------
(* The clients *)

Connect(c) ==
    /\ conn[c] = "none"
    /\ conn' = [conn EXCEPT ![c] = "queued"]
    /\ UNCHANGED <<data, peer, answers, table, main, tpc, sock, file, raced>>

Send(c) ==
    /\ conn[c] \in {"queued", "open"} /\ peer[c] = "up" /\ ~data[c]
    /\ data' = [data EXCEPT ![c] = TRUE]
    /\ UNCHANGED <<conn, peer, answers, table, main, tpc, sock, file, raced>>

Leave(c) ==
    /\ conn[c] \in {"queued", "open"} /\ peer[c] = "up"
    /\ peer' = [peer EXCEPT ![c] = "gone"]
    /\ UNCHANGED <<conn, data, answers, table, main, tpc, sock, file, raced>>

-----------------------------------------------------------------------------
(* main() *)

\* The descriptor the kernel hands out.
IsLowestFree(f) == table[f] = Free /\ \A g \in 1 .. f - 1 : table[g] # Free

\* (mutant) main() joins its thread before it accepts again
AcceptAfterJoin(c) ==
    /\ mainPc = "accept" /\ conn[c] = "queued"
    /\ \A t \in Clients : tpc[t] \in {"none", "done"}
    /\ \E f \in Fds :
          /\ IsLowestFree(f)
          /\ table' = [table EXCEPT ![f] = c]
          /\ clientSocket' = f
    /\ conn' = [conn EXCEPT ![c] = "open"]
    /\ newest' = c
    /\ mainPc' = "create"
    /\ raced' = raced
    /\ UNCHANGED <<data, peer, answers, tpc, sock, file>>

Accept(c) ==
    /\ mainPc = "accept" /\ conn[c] = "queued"
    /\ \E f \in Fds :
          /\ IsLowestFree(f)
          /\ table' = [table EXCEPT ![f] = c]
          /\ clientSocket' = f
    /\ conn' = [conn EXCEPT ![c] = "open"]
    /\ newest' = c
    /\ mainPc' = "create"
    /\ raced' = (raced \/ \E t \in Clients : tpc[t] = "start")
    /\ UNCHANGED <<data, peer, answers, tpc, sock, file>>

\* accept() fails, with EMFILE or because the connection was aborted:
\* perror() and exit().
AcceptFails ==
    /\ mainPc = "accept"
    /\ \E c \in Clients :
          conn[c] = "queued" /\ (peer[c] = "gone" \/ \A f \in Fds : table[f] # Free)
    /\ mainPc' = "exited"
    /\ UNCHANGED <<net, answers, table, clientSocket, newest, tpc, sock, file, raced>>

\* (mutant) main() closes its clientSocket as a forking server does
CreateAndClose ==
    /\ mainPc = "create"
    /\ tpc' = [tpc EXCEPT ![newest] = "start"]
    /\ table' = [table EXCEPT ![clientSocket] = Free]
    /\ mainPc' = "accept"
    /\ UNCHANGED <<net, answers, clientSocket, newest, sock, file, raced>>

\* pthread_create(..., handleClient, &clientSocket) and pthread_detach().
Create ==
    /\ mainPc = "create"
    /\ tpc' = [tpc EXCEPT ![newest] = "start"]
    /\ mainPc' = "accept"
    /\ UNCHANGED <<net, answers, table, clientSocket, newest, sock, file, raced>>

\* pthread_create() fails: perror() and exit().
CreateFails ==
    /\ mainPc = "create"
    /\ mainPc' = "exited"
    /\ UNCHANGED <<net, answers, table, clientSocket, newest, tpc, sock, file, raced>>

-----------------------------------------------------------------------------
(* handleClient(), in thread t *)

Goto(t, next) == tpc' = [tpc EXCEPT ![t] = next]

\* int clientSocket = *(int *)socketDesc;
LoadSocket(t) ==
    /\ tpc[t] = "start"
    /\ sock' = [sock EXCEPT ![t] = clientSocket]
    /\ Goto(t, "read")
    /\ UNCHANGED <<net, answers, table, main, file, raced>>

\* read() returns a request, the end of the connection, some of client.html
\* or an error, depending on what the descriptor refers to by now.
Read(t) ==
    /\ tpc[t] = "read"
    /\ LET on == table[sock[t]]
       IN  IF on \in Clients
           THEN /\ data[on] \/ peer[on] = "gone"
                /\ data' = [data EXCEPT ![on] = FALSE]
           ELSE data' = data
    /\ Goto(t, "open")
    /\ UNCHANGED <<conn, peer, answers, table, main, sock, file, raced>>

\* The answer is the size of the file and a header, and three bytes more than
\* its buffer: that goes unnoticed, or the heap is corrupt and the process dies.
OpenFile(t) ==
    /\ tpc[t] = "open"
    /\ \E f \in Fds :
          /\ IsLowestFree(f)
          /\ table' = [table EXCEPT ![f] = File]
          /\ file' = [file EXCEPT ![t] = f]
    /\ Goto(t, "send")
    /\ mainPc' \in {mainPc, "exited"}
    /\ UNCHANGED <<net, answers, clientSocket, newest, sock, raced>>

\* client.html is missing or there is no free descriptor.  Its size becomes
\* (size_t)-1 and the answer is built past the end of its buffer: the
\* process goes on or dies.
OpenFails(t) ==
    /\ tpc[t] = "open"
    /\ \/ Goto(t, "send") /\ mainPc' = mainPc
       \/ tpc' = tpc /\ mainPc' = "exited"
    /\ UNCHANGED <<net, answers, table, clientSocket, newest, sock, file, raced>>

\* (mutant) the answer goes to main()'s clientSocket
SendAnswerToNewest(t) ==
    /\ tpc[t] = "send"
    /\ LET on == table[clientSocket]
       IN  answers' = IF on \in Clients
                      THEN [answers EXCEPT ![on] = @ + 1] ELSE answers
    /\ Goto(t, "close")
    /\ UNCHANGED <<net, table, main, sock, file, raced>>

\* send() goes to whoever the descriptor refers to; a send to a client that
\* has gone may raise SIGPIPE.
SendAnswer(t) ==
    /\ tpc[t] = "send"
    /\ LET on == table[sock[t]]
       IN  /\ answers' = IF on \in Clients
                         THEN [answers EXCEPT ![on] = @ + 1] ELSE answers
           /\ \/ mainPc' = mainPc
              \/ on \in Clients /\ peer[on] = "gone" /\ mainPc' = "exited"
    /\ Goto(t, "close")
    /\ UNCHANGED <<net, table, clientSocket, newest, sock, file, raced>>

\* (mutant) close(file) for close(clientSocket)
CloseFile(t) ==
    /\ tpc[t] = "close"
    /\ table' = IF file[t] # NoFd THEN [table EXCEPT ![file[t]] = Free] ELSE table
    /\ Goto(t, "done")
    /\ UNCHANGED <<net, answers, main, sock, file, raced>>

\* close(clientSocket); the descriptor of client.html is never closed.
Close(t) ==
    /\ tpc[t] = "close"
    /\ LET on == table[sock[t]]
       IN  conn' = IF on \in Clients
                   THEN [conn EXCEPT ![on] = "closed"] ELSE conn
    /\ table' = [table EXCEPT ![sock[t]] = Free]
    /\ Goto(t, "done")
    /\ UNCHANGED <<data, peer, answers, main, sock, file, raced>>

-----------------------------------------------------------------------------
Main == (\E c \in Clients : Accept(c)) \/ AcceptFails \/ Create \/ CreateFails

Thread(t) == \/ LoadSocket(t) \/ Read(t) \/ OpenFile(t) \/ OpenFails(t)
             \/ SendAnswer(t) \/ Close(t)

Client(c) == Connect(c) \/ Send(c) \/ Leave(c)

\* Threads and connections end with the process.
Next == Running /\ (Main \/ \E c \in Clients : Thread(c) \/ Client(c))

Spec == Init /\ [][Next]_vars

\* main() and every thread are scheduled; the clients owe nothing.
FairSpec == /\ Spec
            /\ WF_vars(Running /\ Main)
            /\ \A t \in Clients : WF_vars(Running /\ Thread(t))

-----------------------------------------------------------------------------
(***************************************************************************)
(* Without the race on clientSocket every thread works on the connection   *)
(* it was created for, from reading the request to closing it: no thread   *)
(* answers, or closes under its reader, the connection of another one      *)
(* (simple/server.c:19-46 and 84-105).                                     *)
(***************************************************************************)
OwnsClient ==
    ~raced => \A t \in Clients :
        tpc[t] \in {"read", "open", "send", "close"} =>
            table[sock[t]] = t /\ conn[t] = "open"

(***************************************************************************)
(* Without the race a connection gets its answer once, before it is closed.*)
(***************************************************************************)
AnsweredOnce ==
    ~raced => \A c \in Clients :
        answers[c] = IF tpc[c] \in {"close", "done"} THEN 1 ELSE 0

(***************************************************************************)
(* Every answer that could open client.html costs a descriptor for ever,   *)
(* and without the race nothing gives one back (simple/server.c:33).       *)
(***************************************************************************)
DescriptorsLeak ==
    ~raced =>
        /\ {f \in Fds : table[f] = File}
              = {file[t] : t \in {u \in Clients : file[u] # NoFd}}
        /\ \A t, u \in Clients : file[t] = file[u] /\ file[t] # NoFd => t = u

(***************************************************************************)
(* A client that has connected and sent its request is answered, unless    *)
(* the race happens, the process dies or the client leaves.                *)
(***************************************************************************)
EventuallyAnswered ==
    \A c \in Clients :
        conn[c] = "queued" /\ data[c] ~>
            (answers[c] > 0 \/ peer[c] = "gone" \/ raced \/ ~Running)

(***************************************************************************)
(* "Create a thread to handle the client" (simple/server.c:95): the thread *)
(* created for a client reads from that client.                            *)
(***************************************************************************)
HandlesTheClient == \A t \in Clients : tpc[t] = "read" => table[sock[t]] = t
=============================================================================
