------------------------- MODULE ThreadServerProofs -------------------------
(***************************************************************************)
(* Without the race on clientSocket the threads do not meet, for any       *)
(* number of clients and descriptors.                                      *)
(***************************************************************************)
EXTENDS ThreadServer, TLAPS

Working == {"read", "open", "send", "close"}

\* A connection that is not accepted has no thread.
NoThreadYet ==
    \A c \in Clients : conn[c] \in {"none", "queued"} => tpc[c] = "none"

\* Between accept() and pthread_create() no thread waits to read
\* clientSocket, which holds the descriptor of the newest connection.
AboutToCreate ==
    mainPc = "create" =>
        /\ newest \in Clients /\ tpc[newest] = "none"
        /\ clientSocket \in Fds /\ table[clientSocket] = newest
        /\ conn[newest] = "open"
        /\ \A t \in Clients : tpc[t] # "start"

\* A thread that has not read clientSocket will read its own descriptor.
WillLoadItsOwn ==
    \A t \in Clients : tpc[t] = "start" =>
        clientSocket \in Fds /\ table[clientSocket] = t /\ conn[t] = "open"

Owns == \A t \in Clients : tpc[t] \in Working =>
            sock[t] \in Fds /\ table[sock[t]] = t /\ conn[t] = "open"

Once == \A c \in Clients :
            answers[c] = IF tpc[c] \in {"close", "done"} THEN 1 ELSE 0

Leak == /\ \A t \in Clients : file[t] # NoFd => table[file[t]] = File
        /\ \A f \in Fds : table[f] = File => \E t \in Clients : file[t] = f
        /\ \A t \in Clients :
             tpc[t] \in {"none", "start", "read", "open"} => file[t] = NoFd
        /\ \A t, u \in Clients : file[t] = file[u] /\ file[t] # NoFd => t = u

RaceFree == /\ NoThreadYet /\ AboutToCreate /\ WillLoadItsOwn
            /\ Owns /\ Once /\ Leak

IInv == TypeOK /\ (~raced => RaceFree)

-----------------------------------------------------------------------------
LEMMA InitIInv == Init => IInv
<1> SUFFICES ASSUME Init PROVE IInv
  OBVIOUS
<1>1. TypeOK
  BY DEF Init, TypeOK
<1>2. RaceFree
  BY ThreadAssumption
     DEF Init, RaceFree, NoThreadYet, AboutToCreate, WillLoadItsOwn, Owns,
         Once, Leak, Working
<1> QED
  BY <1>1, <1>2 DEF IInv

LEMMA TypeStep == TypeOK /\ [Next]_vars => TypeOK'
<1> SUFFICES ASSUME TypeOK, [Next]_vars PROVE TypeOK'
  OBVIOUS
<1> USE DEF TypeOK
<1>1. ASSUME NEW c \in Clients, Client(c) PROVE TypeOK'
  BY <1>1 DEF Client, Connect, Send, Leave, main
<1>2. ASSUME NEW c \in Clients, Accept(c) PROVE TypeOK'
  BY <1>2 DEF Accept
<1>3. CASE AcceptFails \/ Create \/ CreateFails
  BY <1>3 DEF AcceptFails, Create, CreateFails, net
<1>4. ASSUME NEW t \in Clients, LoadSocket(t) PROVE TypeOK'
  BY <1>4 DEF LoadSocket, Goto, net, main
<1>5. ASSUME NEW t \in Clients, Read(t) PROVE TypeOK'
  BY <1>5 DEF Read, Goto, main
<1>6. ASSUME NEW t \in Clients, OpenFile(t) PROVE TypeOK'
  BY <1>6 DEF OpenFile, Goto, net, main
<1>7. ASSUME NEW t \in Clients, OpenFails(t) PROVE TypeOK'
  BY <1>7 DEF OpenFails, Goto, net
<1>8. ASSUME NEW t \in Clients, SendAnswer(t) PROVE TypeOK'
  <2>1. answers' \in [Clients -> Nat]
    BY <1>8 DEF SendAnswer
  <2> QED
    BY <1>8, <2>1 DEF SendAnswer, Goto, net
<1>9. ASSUME NEW t \in Clients, Close(t) PROVE TypeOK'
  <2>1. conn' \in [Clients -> {"none", "queued", "open", "closed"}]
    BY <1>9 DEF Close
  <2> QED
    BY <1>9, <2>1 DEF Close, Goto, main
<1>10. CASE UNCHANGED vars
  BY <1>10 DEF vars
<1> QED
  BY <1>1, <1>2, <1>3, <1>4, <1>5, <1>6, <1>7, <1>8, <1>9, <1>10
     DEF Next, Main, Thread

-----------------------------------------------------------------------------
(* The steps of main() and of the clients *)

LEMMA ClientRaceFree ==
    ASSUME TypeOK, RaceFree, NEW c \in Clients, Client(c)
    PROVE  RaceFree'
<1>1. UNCHANGED <<answers, table, clientSocket, newest, mainPc, tpc, sock, file>>
  BY DEF Client, Connect, Send, Leave, main
<1>2. \A d \in Clients :
        /\ conn[d] = "open" => conn'[d] = "open"
        /\ conn'[d] \in {"none", "queued"} => conn[d] \in {"none", "queued"}
  BY DEF Client, Connect, Send, Leave, TypeOK
<1> QED
  BY <1>1, <1>2
     DEF RaceFree, NoThreadYet, AboutToCreate, WillLoadItsOwn, Owns, Once, Leak

LEMMA AcceptRaceFree ==
    ASSUME TypeOK, RaceFree, NEW c \in Clients, Accept(c), ~raced'
    PROVE  RaceFree'
<1>1. PICK f \in Fds : /\ table[f] = Free
                       /\ table' = [table EXCEPT ![f] = c]
                       /\ clientSocket' = f
  BY DEF Accept, IsLowestFree
<1>2. /\ UNCHANGED <<answers, tpc, sock, file>>
      /\ conn[c] = "queued" /\ conn' = [conn EXCEPT ![c] = "open"]
      /\ newest' = c /\ tpc[c] = "none"
      /\ \A t \in Clients : tpc[t] # "start"
  BY DEF Accept, RaceFree, NoThreadYet
<1>3. \A g \in Fds : table[g] # Free => table'[g] = table[g]
  BY <1>1 DEF TypeOK
<1>4. table'[f] = c /\ conn'[c] = "open"
  BY <1>1, <1>2 DEF TypeOK
<1>5. NoThreadYet' /\ AboutToCreate' /\ WillLoadItsOwn'
  BY <1>1, <1>2, <1>4
     DEF RaceFree, NoThreadYet, AboutToCreate, WillLoadItsOwn, TypeOK
<1>6. Owns'
  BY <1>2, <1>3, ThreadAssumption DEF RaceFree, Owns, TypeOK, Working
<1>7. Once'
  BY <1>2 DEF RaceFree, Once
<1>8. Leak'
  BY <1>1, <1>2, <1>3, <1>4, ThreadAssumption DEF RaceFree, Leak, TypeOK
<1> QED
  BY <1>5, <1>6, <1>7, <1>8 DEF RaceFree

LEMMA CreateRaceFree ==
    ASSUME TypeOK, RaceFree, Create
    PROVE  RaceFree'
<1>1. /\ UNCHANGED <<conn, answers, table, clientSocket, newest, sock, file>>
      /\ newest \in Clients /\ tpc[newest] = "none"
      /\ clientSocket \in Fds /\ table[clientSocket] = newest
      /\ conn[newest] = "open"
      /\ \A t \in Clients : tpc[t] # "start"
      /\ tpc' = [tpc EXCEPT ![newest] = "start"] /\ mainPc' = "accept"
  BY DEF Create, RaceFree, AboutToCreate, net
<1>2. tpc'[newest] = "start" /\ \A t \in Clients : t # newest => tpc'[t] = tpc[t]
  BY <1>1 DEF TypeOK
<1>3. NoThreadYet' /\ AboutToCreate' /\ WillLoadItsOwn'
  BY <1>1, <1>2
     DEF RaceFree, NoThreadYet, AboutToCreate, WillLoadItsOwn
<1>4. Owns' /\ Once' /\ Leak'
  BY <1>1, <1>2 DEF RaceFree, Owns, Once, Leak, Working
<1> QED
  BY <1>3, <1>4 DEF RaceFree

LEMMA ExitRaceFree ==
    ASSUME TypeOK, RaceFree, AcceptFails \/ CreateFails \/ UNCHANGED vars
    PROVE  RaceFree'
<1>1. /\ UNCHANGED <<conn, answers, table, clientSocket, newest, tpc, sock, file>>
      /\ mainPc' \in {mainPc, "exited"}
  BY DEF AcceptFails, CreateFails, vars, net
<1> QED
  BY <1>1
     DEF RaceFree, NoThreadYet, AboutToCreate, WillLoadItsOwn, Owns, Once, Leak

-----------------------------------------------------------------------------
(* The steps of a thread *)

\* Whatever a thread does, it has a thread's place in handleClient() before
\* and after, and the other threads stay where they are.
LEMMA GotoOthers ==
    ASSUME TypeOK, NEW t \in Clients, NEW next, Goto(t, next)
    PROVE  tpc'[t] = next /\ \A u \in Clients : u # t => tpc'[u] = tpc[u]
BY DEF Goto, TypeOK

LEMMA LoadSocketRaceFree ==
    ASSUME TypeOK, RaceFree, NEW t \in Clients, LoadSocket(t)
    PROVE  RaceFree'
<1>1. /\ UNCHANGED <<conn, answers, table, clientSocket, newest, mainPc, file>>
      /\ sock' = [sock EXCEPT ![t] = clientSocket] /\ tpc[t] = "start"
      /\ tpc'[t] = "read" /\ \A u \in Clients : u # t => tpc'[u] = tpc[u]
  BY GotoOthers DEF LoadSocket, net, main
<1>2. sock'[t] = clientSocket /\ \A u \in Clients : u # t => sock'[u] = sock[u]
  BY <1>1 DEF TypeOK
<1>3. clientSocket \in Fds /\ table[clientSocket] = t /\ conn[t] = "open"
  BY <1>1 DEF RaceFree, WillLoadItsOwn
<1>4. NoThreadYet' /\ AboutToCreate' /\ WillLoadItsOwn'
  BY <1>1, <1>3 DEF RaceFree, NoThreadYet, AboutToCreate, WillLoadItsOwn
<1>5. Owns' /\ Once' /\ Leak'
  BY <1>1, <1>2, <1>3 DEF RaceFree, Owns, Once, Leak, Working
<1> QED
  BY <1>4, <1>5 DEF RaceFree

LEMMA ReadRaceFree ==
    ASSUME TypeOK, RaceFree, NEW t \in Clients, Read(t)
    PROVE  RaceFree'
<1>1. /\ UNCHANGED <<conn, answers, table, clientSocket, newest, mainPc, sock, file>>
      /\ tpc[t] = "read"
      /\ tpc'[t] = "open" /\ \A u \in Clients : u # t => tpc'[u] = tpc[u]
  BY GotoOthers DEF Read, main
<1>2. conn[t] = "open"
  BY <1>1 DEF RaceFree, Owns, Working
<1>3. NoThreadYet' /\ AboutToCreate' /\ WillLoadItsOwn'
  BY <1>1, <1>2 DEF RaceFree, NoThreadYet, AboutToCreate, WillLoadItsOwn
<1>4. Owns' /\ Once' /\ Leak'
  BY <1>1 DEF RaceFree, Owns, Once, Leak, Working
<1> QED
  BY <1>3, <1>4 DEF RaceFree

LEMMA OpenFileRaceFree ==
    ASSUME TypeOK, RaceFree, NEW t \in Clients, OpenFile(t)
    PROVE  RaceFree'
<1>1. PICK f \in Fds : /\ table[f] = Free
                       /\ table' = [table EXCEPT ![f] = File]
                       /\ file' = [file EXCEPT ![t] = f]
  BY DEF OpenFile, IsLowestFree
<1>2. /\ UNCHANGED <<conn, answers, clientSocket, newest, sock>>
      /\ mainPc' \in {mainPc, "exited"}
      /\ tpc[t] = "open"
      /\ tpc'[t] = "send" /\ \A u \in Clients : u # t => tpc'[u] = tpc[u]
  BY GotoOthers DEF OpenFile, net
<1>3. conn[t] = "open"
  BY <1>2 DEF RaceFree, Owns, Working
<1>4. /\ table'[f] = File
      /\ \A g \in Fds : g # f => table'[g] = table[g]
      /\ file'[t] = f /\ \A u \in Clients : u # t => file'[u] = file[u]
  BY <1>1 DEF TypeOK
<1>5. \A g \in Fds : table[g] # Free => table'[g] = table[g]
  BY <1>1, <1>4
<1>6. NoThreadYet' /\ Once'
  BY <1>2, <1>3 DEF RaceFree, NoThreadYet, Once
<1>7. AboutToCreate' /\ WillLoadItsOwn'
  BY <1>2, <1>3, <1>5, ThreadAssumption
     DEF RaceFree, AboutToCreate, WillLoadItsOwn
<1>8. Owns'
  BY <1>2, <1>5, ThreadAssumption DEF RaceFree, Owns, Working
<1>9. Leak'
  <2>1. f # NoFd
    BY DEF Fds, NoFd
  <2>2. ASSUME NEW u \in Clients, file'[u] # NoFd PROVE table'[file'[u]] = File
    <3>1. CASE u = t
      BY <1>4, <3>1
    <3>2. CASE u # t
      <4>1. file[u] \in Fds /\ table[file[u]] = File
        BY <1>4, <2>2, <3>2 DEF RaceFree, Leak, TypeOK
      <4> QED
        BY <1>4, <1>5, <3>2, <4>1, ThreadAssumption
    <3> QED
      BY <3>1, <3>2
  <2>3. ASSUME NEW g \in Fds, table'[g] = File
        PROVE  \E u \in Clients : file'[u] = g
    <3>1. CASE g = f
      BY <1>4, <3>1
    <3>2. CASE g # f
      <4>1. PICK u \in Clients : file[u] = g
        BY <1>4, <2>3, <3>2 DEF RaceFree, Leak
      <4>2. CASE u # t
        BY <1>4, <4>1, <4>2
      <4>3. CASE u = t
        <5>1. file[t] = NoFd
          BY <1>2 DEF RaceFree, Leak
        <5> QED
          BY <4>1, <4>3, <5>1 DEF Fds, NoFd
      <4> QED
        BY <4>2, <4>3
    <3> QED
      BY <3>1, <3>2
  <2>4. ASSUME NEW u \in Clients, tpc'[u] \in {"none", "start", "read", "open"}
        PROVE  file'[u] = NoFd
    BY <1>2, <1>4, <2>4 DEF RaceFree, Leak
  <2>5. \A u \in Clients : file[u] # f
    BY <1>1, <2>1, ThreadAssumption DEF RaceFree, Leak
  <2>6. ASSUME NEW u \in Clients, NEW v \in Clients,
               file'[u] = file'[v], file'[u] # NoFd
        PROVE  u = v
    BY <1>4, <2>5, <2>6 DEF RaceFree, Leak
  <2> QED
    BY <2>2, <2>3, <2>4, <2>6 DEF Leak
<1> QED
  BY <1>6, <1>7, <1>8, <1>9 DEF RaceFree

LEMMA OpenFailsRaceFree ==
    ASSUME TypeOK, RaceFree, NEW t \in Clients, OpenFails(t)
    PROVE  RaceFree'
<1>1. /\ UNCHANGED <<conn, answers, table, clientSocket, newest, sock, file>>
      /\ mainPc' \in {mainPc, "exited"}
      /\ tpc[t] = "open" /\ tpc'[t] \in {"open", "send"}
      /\ \A u \in Clients : u # t => tpc'[u] = tpc[u]
  BY GotoOthers DEF OpenFails, net
<1>2. conn[t] = "open"
  BY <1>1 DEF RaceFree, Owns, Working
<1>3. NoThreadYet' /\ AboutToCreate' /\ WillLoadItsOwn'
  BY <1>1, <1>2 DEF RaceFree, NoThreadYet, AboutToCreate, WillLoadItsOwn
<1>4. Owns' /\ Once' /\ Leak'
  BY <1>1 DEF RaceFree, Owns, Once, Leak, Working
<1> QED
  BY <1>3, <1>4 DEF RaceFree

LEMMA SendAnswerRaceFree ==
    ASSUME TypeOK, RaceFree, NEW t \in Clients, SendAnswer(t)
    PROVE  RaceFree'
<1>1. /\ UNCHANGED <<conn, table, clientSocket, newest, sock, file>>
      /\ mainPc' \in {mainPc, "exited"}
      /\ tpc[t] = "send" /\ tpc'[t] = "close"
      /\ \A u \in Clients : u # t => tpc'[u] = tpc[u]
  BY GotoOthers DEF SendAnswer, net
<1>2. conn[t] = "open" /\ table[sock[t]] = t /\ answers[t] = 0
  BY <1>1 DEF RaceFree, Owns, Once, Working
<1>3. answers'[t] = 1 /\ \A u \in Clients : u # t => answers'[u] = answers[u]
  BY <1>2 DEF SendAnswer, TypeOK
<1>4. NoThreadYet' /\ AboutToCreate' /\ WillLoadItsOwn'
  BY <1>1, <1>2 DEF RaceFree, NoThreadYet, AboutToCreate, WillLoadItsOwn
<1>5. Owns' /\ Once' /\ Leak'
  BY <1>1, <1>3 DEF RaceFree, Owns, Once, Leak, Working
<1> QED
  BY <1>4, <1>5 DEF RaceFree

LEMMA CloseRaceFree ==
    ASSUME TypeOK, RaceFree, NEW t \in Clients, Close(t)
    PROVE  RaceFree'
<1>1. /\ UNCHANGED <<answers, clientSocket, newest, mainPc, sock, file>>
      /\ table' = [table EXCEPT ![sock[t]] = Free]
      /\ tpc[t] = "close" /\ tpc'[t] = "done"
      /\ \A u \in Clients : u # t => tpc'[u] = tpc[u]
  BY GotoOthers DEF Close, main
<1>2. sock[t] \in Fds /\ table[sock[t]] = t /\ conn[t] = "open"
  BY <1>1 DEF RaceFree, Owns, Working
<1>3. conn' = [conn EXCEPT ![t] = "closed"]
  BY <1>2 DEF Close
<1>4. conn'[t] = "closed" /\ \A u \in Clients : u # t => conn'[u] = conn[u]
  BY <1>3 DEF TypeOK
<1>5. /\ table'[sock[t]] = Free
      /\ \A g \in Fds : table[g] # t => table'[g] = table[g]
  BY <1>1, <1>2 DEF TypeOK
<1>6. NoThreadYet' /\ AboutToCreate' /\ WillLoadItsOwn'
  BY <1>1, <1>4, <1>5 DEF RaceFree, NoThreadYet, AboutToCreate, WillLoadItsOwn
<1>7. Owns' /\ Once'
  BY <1>1, <1>4, <1>5 DEF RaceFree, Owns, Once, Working
<1>8. Leak'
  <2>1. ASSUME NEW u \in Clients, file[u] # NoFd
        PROVE  file[u] \in Fds /\ table'[file[u]] = File
    BY <1>5, <2>1, ThreadAssumption DEF RaceFree, Leak, TypeOK
  <2>2. ASSUME NEW g \in Fds, table'[g] = File PROVE table[g] = File
    BY <1>1, <1>5, <2>2, ThreadAssumption DEF TypeOK
  <2> QED
    BY <1>1, <2>1, <2>2 DEF RaceFree, Leak
<1> QED
  BY <1>6, <1>7, <1>8 DEF RaceFree

-----------------------------------------------------------------------------
THEOREM IInvHolds == Spec => []IInv
<1>1. TypeOK /\ RaceFree /\ ~raced' /\ [Next]_vars => RaceFree'
  BY ClientRaceFree, AcceptRaceFree, CreateRaceFree, ExitRaceFree,
     LoadSocketRaceFree, ReadRaceFree, OpenFileRaceFree, OpenFailsRaceFree,
     SendAnswerRaceFree, CloseRaceFree
     DEF Next, Main, Thread
<1>2. TypeOK /\ [Next]_vars /\ ~raced' => ~raced
  BY DEF Next, Main, Thread, Client, Connect, Send, Leave, Accept, AcceptFails,
         Create, CreateFails, LoadSocket, Read, OpenFile, OpenFails, SendAnswer,
         Close, vars
<1>3. IInv /\ [Next]_vars => IInv'
  BY <1>1, <1>2, TypeStep DEF IInv
<1> QED
  BY <1>3, InitIInv, PTL DEF Spec

\* Whatever the race does, descriptors and connections stay what they are
\* (simple/server.c:52-105).
THEOREM TypeCorrect == Spec => []TypeOK
BY IInvHolds, PTL DEF IInv

\* Without the race a thread works on its own client, for any number of
\* clients and descriptors (simple/server.c:19-46, 84-105).
THEOREM ThreadsKeepApart == Spec => []OwnsClient
<1>1. IInv => OwnsClient
  BY DEF IInv, RaceFree, Owns, Working, OwnsClient
<1> QED
  BY <1>1, IInvHolds, PTL

\* Without the race a connection is answered once (simple/server.c:42-46).
THEOREM OneAnswer == Spec => []AnsweredOnce
<1>1. IInv => AnsweredOnce
  BY DEF IInv, RaceFree, Once, AnsweredOnce
<1> QED
  BY <1>1, IInvHolds, PTL

\* Without the race the descriptors of client.html pile up, one for each
\* answer that opened it (simple/server.c:33).
THEOREM FilesPileUp == Spec => []DescriptorsLeak
<1>1. IInv => DescriptorsLeak
  <2> SUFFICES ASSUME TypeOK, Leak
               PROVE  {f \in Fds : table[f] = File}
                        = {file[t] : t \in {u \in Clients : file[u] # NoFd}}
    BY DEF IInv, RaceFree, Leak, DescriptorsLeak
  <2>1. ASSUME NEW f \in Fds, table[f] = File
        PROVE  \E t \in Clients : file[t] # NoFd /\ file[t] = f
    BY <2>1 DEF Leak, Fds, NoFd
  <2>2. ASSUME NEW t \in Clients, file[t] # NoFd
        PROVE  file[t] \in Fds /\ table[file[t]] = File
    BY <2>2 DEF TypeOK, Leak
  <2> QED
    BY <2>1, <2>2
<1> QED
  BY <1>1, IInvHolds, PTL
=============================================================================
