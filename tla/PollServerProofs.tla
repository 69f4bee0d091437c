-------------------------- MODULE PollServerProofs --------------------------
(***************************************************************************)
(* The array of pollfds and the connections agree, for any number of       *)
(* clients and slots and whatever the clients do; the page is freed once   *)
(* and always; and the timeout of the loop is bounded by its passes.       *)
(***************************************************************************)
EXTENDS MCPollServer, TLAPS

(***************************************************************************)
(* The array of the server, by itself                                      *)
(***************************************************************************)

\* While a client is answered, the loop variable is at its slot.
AtSlot == pc \in {"body", "close"} => i \in 1 .. numClients

\* How far the answer to the client at hand has got.
Answering ==
    /\ pc = "body" => html
    /\ pc = "close" /\ peer[fd[i]] = "up" =>
         reply[fd[i]] = IF html THEN "page" ELSE "error"

IInv == TypeOK /\ SlotsAreOpen /\ AtSlot /\ Answering /\ AnswerComplete

-----------------------------------------------------------------------------
\* A slot in use holds an open client.
LEMMA SlotOpen ==
    ASSUME SlotsAreOpen, NEW s \in 1 .. numClients
    PROVE  fd[s] \in Clients /\ conn[fd[s]] = "open"
BY DEF SlotsAreOpen

\* An open client has a slot.
LEMMA OpenSlot ==
    ASSUME SlotsAreOpen, NEW c \in Clients, conn[c] = "open"
    PROVE  \E s \in 1 .. numClients : fd[s] = c
BY DEF SlotsAreOpen

\* handle_client_data() finds the slot the loop is at.
LEMMA FindsSlot ==
    ASSUME TypeOK, SlotsAreOpen, NEW k \in 1 .. numClients
    PROVE  SlotOf(fd[k]) = k
<1> DEFINE P(s) == /\ fd[s] = fd[k]
                   /\ \A t \in 1 .. s - 1 : fd[t] # fd[k]
<1>1. P(k)
  <2>1. numClients \in Nat
    BY DEF TypeOK
  <2> QED
    BY <2>1 DEF SlotsAreOpen
<1>2. \A s \in 1 .. numClients : P(s) => s = k
  BY DEF SlotsAreOpen
<1>3. SlotOf(fd[k]) = CHOOSE s \in 1 .. numClients : P(s)
  BY DEF SlotOf
<1> HIDE DEF P
<1> QED
  BY <1>1, <1>2, <1>3

-----------------------------------------------------------------------------
LEMMA InitIInv == Init => IInv
<1> SUFFICES ASSUME Init PROVE IInv
  OBVIOUS
<1>1. TypeOK
  BY PollAssumption DEF Init, TypeOK, Slots
<1>2. SlotsAreOpen
  BY DEF Init, SlotsAreOpen
<1> QED
  BY <1>1, <1>2 DEF Init, IInv, AtSlot, Answering, AnswerComplete

\* The environment changes no slot, closes no open connection and answers no
\* client; a client that was up and is no longer stays away.
LEMMA EnvironmentIInv ==
    ASSUME IInv, NEW c \in Clients, Environment(c)
    PROVE  IInv'
<1> USE DEF IInv
<1>1. UNCHANGED <<html, array, revents, i, pc>> /\ TypeOK'
  <2>1. /\ UNCHANGED <<html, array, revents, i, pc>>
        /\ conn' \in [Clients -> {"none", "queued", "open", "refused", "served"}]
        /\ peer' \in [Clients -> {"up", "closed", "reset"}]
        /\ data' \in [Clients -> BOOLEAN]
        /\ reply' \in [Clients -> {"nothing", "head", "page", "error"}]
    BY DEF Environment, Connect, Send, Hangup, AbortQueued, Reset, Drain, TypeOK
  <2>2. unread' \in [Clients -> 0 .. SOCKBUF]
    <3>1. \/ unread' = unread \/ unread' = [unread EXCEPT ![c] = 0]
          \/ unread[c] > 0 /\ unread' = [unread EXCEPT ![c] = @ - 1]
      BY DEF Environment, Connect, Send, Hangup, AbortQueued, Reset, Drain
    <3> QED
      BY <3>1, PollAssumption DEF TypeOK
  <2> QED
    BY <2>1, <2>2 DEF TypeOK, array
<1>2. \A d \in Clients : conn'[d] = "open" <=> conn[d] = "open"
  BY DEF Environment, Connect, Send, Hangup, AbortQueued, Reset, Drain, TypeOK
<1>3. \A d \in Clients :
        /\ conn[d] = "open" /\ peer'[d] = "up" => peer[d] = "up"
        /\ conn[d] = "open" => reply'[d] = reply[d]
  BY DEF Environment, Connect, Send, Hangup, AbortQueued, Reset, Drain, TypeOK
<1>4. SlotsAreOpen'
  BY <1>1, <1>2 DEF SlotsAreOpen, array
<1>5. AtSlot'
  BY <1>1 DEF AtSlot, array
<1>6. Answering'
  <2>1. ASSUME pc = "close"
        PROVE  fd[i] \in Clients /\ conn[fd[i]] = "open"
    BY <2>1, SlotOpen DEF AtSlot
  <2> QED
    BY <1>1, <1>3, <2>1 DEF Answering, array
<1>7. AnswerComplete'
  <2>1. \A d \in Clients : conn'[d] = "served" =>
          /\ conn[d] = "served" /\ peer'[d] = peer[d] /\ reply'[d] = reply[d]
    BY DEF Environment, Connect, Send, Hangup, AbortQueued, Reset, Drain, TypeOK
  <2> QED
    BY <1>1, <2>1 DEF AnswerComplete
<1> QED
  BY <1>1, <1>4, <1>5, <1>6, <1>7

LEMMA PollIInv ==
    ASSUME IInv, Poll
    PROVE  IInv'
<1> USE DEF IInv
<1>1. UNCHANGED <<conn, peer, data, reply, unread, html, fd, numClients>> /\ pc' = "scan"
  BY DEF Poll, env, array
<1>2. revents' \in [0 .. MAX_CLIENTS -> BOOLEAN]
  BY DEF Poll, TypeOK, Readable
<1>3. TypeOK'
  BY <1>1, <1>2, PollAssumption DEF Poll, TypeOK
<1> QED
  BY <1>1, <1>3 DEF SlotsAreOpen, AtSlot, Answering, AnswerComplete

LEMMA AcceptIInv ==
    ASSUME IInv, NEW c \in Clients, Accept(c)
    PROVE  IInv'
<1> USE DEF IInv
<1>1. /\ conn[c] = "queued" /\ pc = "scan" /\ pc' = "scan" /\ i' = 1
      /\ UNCHANGED <<peer, data, reply, unread, html>>
  BY DEF Accept, AtAccept, Waiting
<1>2. CASE numClients < MAX_CLIENTS
  <2>1. /\ conn' = [conn EXCEPT ![c] = "open"]
        /\ fd' = [fd EXCEPT ![numClients + 1] = c]
        /\ revents' = [revents EXCEPT ![numClients + 1] = FALSE]
        /\ numClients' = numClients + 1
    BY <1>2 DEF Accept
  <2>2. numClients \in Nat /\ numClients + 1 \in Slots
    BY <1>2, PollAssumption DEF TypeOK, Slots
  <2>3. TypeOK'
    BY <1>1, <2>1, <2>2, PollAssumption DEF TypeOK, Slots
  <2>4. \A s \in 1 .. numClients : fd'[s] = fd[s] /\ fd[s] # c
    BY <1>1, <2>1, <2>2, SlotOpen DEF TypeOK, Slots
  <2>5. fd'[numClients + 1] = c
    BY <2>1, <2>2 DEF TypeOK
  <2>6. 1 .. numClients' = (1 .. numClients) \cup {numClients + 1}
    BY <2>1, <2>2
  <2>7. {fd'[s] : s \in 1 .. numClients'} = {fd[s] : s \in 1 .. numClients} \cup {c}
    BY <2>4, <2>5, <2>6
  <2>8. {d \in Clients : conn'[d] = "open"} = {d \in Clients : conn[d] = "open"} \cup {c}
    BY <2>1 DEF TypeOK
  <2>9. SlotsAreOpen'
    BY <2>4, <2>5, <2>6, <2>7, <2>8 DEF SlotsAreOpen
  <2>10. AnswerComplete'
    BY <1>1, <2>1 DEF AnswerComplete, TypeOK
  <2> QED
    BY <1>1, <2>3, <2>9, <2>10 DEF AtSlot, Answering
<1>3. CASE ~(numClients < MAX_CLIENTS)
  <2>1. /\ conn' = [conn EXCEPT ![c] = "refused"]
        /\ UNCHANGED <<fd, numClients, revents>>
    BY <1>3 DEF Accept, array
  <2>2. TypeOK'
    BY <1>1, <2>1, PollAssumption DEF TypeOK
  <2>3. {d \in Clients : conn'[d] = "open"} = {d \in Clients : conn[d] = "open"}
    BY <1>1, <2>1 DEF TypeOK
  <2>4. SlotsAreOpen'
    BY <2>1, <2>3 DEF SlotsAreOpen
  <2>5. AnswerComplete'
    BY <1>1, <2>1 DEF AnswerComplete, TypeOK
  <2> QED
    BY <1>1, <2>2, <2>4, <2>5 DEF AtSlot, Answering
<1> QED
  BY <1>2, <1>3

\* Both writes: only the reply to the client at hand changes.
LEMMA WriteHeadIInv ==
    ASSUME IInv, WriteHead
    PROVE  IInv'
<1> USE DEF IInv
<1>1. /\ UNCHANGED <<conn, peer, data, html, fd, numClients, revents, i>>
      /\ i \in 1 .. numClients
  BY DEF WriteHead, Write, env, array
<1>2. fd[i] \in Clients /\ conn[fd[i]] = "open"
  BY <1>1, SlotOpen
<1>3. /\ reply' \in [Clients -> {"nothing", "head", "page", "error"}]
      /\ pc' \in {"body", "close", "killed"}
      /\ pc' = "body" => html
      /\ pc' = "close" /\ peer[fd[i]] = "up" => ~html /\ reply'[fd[i]] = "error"
      /\ \A d \in Clients : d # fd[i] => reply'[d] = reply[d]
  BY <1>2 DEF WriteHead, Write, TypeOK
<1>4. TypeOK'
  <2>1. \/ unread' = unread
        \/ unread[fd[i]] < SOCKBUF /\ unread' = [unread EXCEPT ![fd[i]] = @ + 1]
    BY DEF WriteHead, Write
  <2>2. unread' \in [Clients -> 0 .. SOCKBUF]
    BY <1>2, <2>1, PollAssumption DEF TypeOK
  <2> QED
    BY <1>1, <1>3, <2>2 DEF TypeOK
<1>5. AnswerComplete'
  BY <1>1, <1>2, <1>3 DEF AnswerComplete
<1> QED
  BY <1>1, <1>3, <1>4, <1>5 DEF SlotsAreOpen, AtSlot, Answering

LEMMA WriteBodyIInv ==
    ASSUME IInv, WriteBody
    PROVE  IInv'
<1> USE DEF IInv
<1>1. /\ UNCHANGED <<conn, peer, data, html, fd, numClients, revents, i>>
      /\ i \in 1 .. numClients /\ html
  BY DEF WriteBody, Write, env, array, AtSlot, Answering
<1>2. fd[i] \in Clients /\ conn[fd[i]] = "open"
  BY <1>1, SlotOpen
<1>3. /\ reply' \in [Clients -> {"nothing", "head", "page", "error"}]
      /\ pc' \in {"close", "killed"}
      /\ pc' = "close" /\ peer[fd[i]] = "up" => reply'[fd[i]] = "page"
      /\ \A d \in Clients : d # fd[i] => reply'[d] = reply[d]
  BY <1>2 DEF WriteBody, Write, TypeOK
<1>4. TypeOK'
  <2>1. \/ unread' = unread
        \/ unread[fd[i]] < SOCKBUF /\ unread' = [unread EXCEPT ![fd[i]] = @ + 1]
    BY DEF WriteBody, Write
  <2>2. unread' \in [Clients -> 0 .. SOCKBUF]
    BY <1>2, <2>1, PollAssumption DEF TypeOK
  <2> QED
    BY <1>1, <1>3, <2>2 DEF TypeOK
<1>5. AnswerComplete'
  BY <1>1, <1>2, <1>3 DEF AnswerComplete
<1> QED
  BY <1>1, <1>3, <1>4, <1>5 DEF SlotsAreOpen, AtSlot, Answering

\* What CloseClient does to the array, once it is known which slot it finds.
LEMMA Compaction ==
    ASSUME IInv, CloseClient
    PROVE  /\ i \in 1 .. numClients
           /\ fd' = [fd EXCEPT ![i] = fd[numClients]]
           /\ revents' = [revents EXCEPT ![i] = revents[numClients]]
           /\ numClients' = numClients - 1
           /\ numClients' \in 0 .. MAX_CLIENTS
           /\ \A s \in 1 .. numClients' :
                fd'[s] = IF s = i THEN fd[numClients] ELSE fd[s]
<1> USE DEF IInv
<1>1. i \in 1 .. numClients
  BY DEF CloseClient, AtSlot
<1>2. SlotOf(fd[i]) = i
  BY <1>1, FindsSlot
<1>3. /\ fd' = [fd EXCEPT ![i] = fd[numClients]]
      /\ revents' = [revents EXCEPT ![i] = revents[numClients]]
      /\ numClients' = numClients - 1
  BY <1>2 DEF CloseClient
<1>4. numClients' \in 0 .. MAX_CLIENTS /\ numClients \in 1 .. MAX_CLIENTS
  BY <1>1, <1>3, PollAssumption DEF TypeOK
<1>5. ASSUME NEW s \in 1 .. numClients'
      PROVE  fd'[s] = IF s = i THEN fd[numClients] ELSE fd[s]
  <2>1. s \in Slots
    BY <1>3, <1>4, PollAssumption DEF Slots
  <2> QED
    BY <1>3, <2>1 DEF TypeOK
<1> QED
  BY <1>1, <1>3, <1>4, <1>5

LEMMA CloseClientIInv ==
    ASSUME IInv, CloseClient
    PROVE  IInv'
<1> USE DEF IInv
<1>1. /\ i \in 1 .. numClients
      /\ fd' = [fd EXCEPT ![i] = fd[numClients]]
      /\ revents' = [revents EXCEPT ![i] = revents[numClients]]
      /\ numClients' = numClients - 1
      /\ numClients' \in 0 .. MAX_CLIENTS
      /\ \A s \in 1 .. numClients' :
           fd'[s] = IF s = i THEN fd[numClients] ELSE fd[s]
  BY Compaction
<1>2. /\ UNCHANGED <<peer, data, reply, html>>
      /\ conn' = [conn EXCEPT ![fd[i]] = "served"]
      /\ unread' = [unread EXCEPT ![fd[i]] = 0]
      /\ i' = i + 1 /\ pc = "close" /\ pc' = "scan"
  BY DEF CloseClient
<1>3. fd[i] \in Clients /\ conn[fd[i]] = "open"
  BY <1>1, SlotOpen
<1>4. TypeOK'
  <2>1. fd' \in [Slots -> Clients \cup {NoClient}]
    BY <1>1, PollAssumption DEF TypeOK, Slots
  <2>2. revents' \in [0 .. MAX_CLIENTS -> BOOLEAN]
    BY <1>1, PollAssumption DEF TypeOK
  <2>3. i' \in 0 .. MAX_CLIENTS + 1
    BY <1>1, <1>2, PollAssumption DEF TypeOK
  <2>4. conn' \in [Clients -> {"none", "queued", "open", "refused", "served"}]
    BY <1>2, <1>3 DEF TypeOK
  <2>5. unread' \in [Clients -> 0 .. SOCKBUF]
    BY <1>2, <1>3, PollAssumption DEF TypeOK
  <2> QED
    BY <1>1, <1>2, <2>1, <2>2, <2>3, <2>4, <2>5 DEF TypeOK
<1>5. SlotsAreOpen'
  <2>1. {fd'[s] : s \in 1 .. numClients'} = {fd[s] : s \in 1 .. numClients} \ {fd[i]}
    <3>1. ASSUME NEW s \in 1 .. numClients'
          PROVE  \E t \in 1 .. numClients : fd'[s] = fd[t] /\ t # i
      BY <1>1 DEF TypeOK
    <3>2. ASSUME NEW t \in 1 .. numClients, t # i
          PROVE  \E s \in 1 .. numClients' : fd'[s] = fd[t]
      BY <1>1, <3>2 DEF TypeOK
    <3>3. \A s, t \in 1 .. numClients : fd[s] = fd[t] => s = t
      BY DEF SlotsAreOpen
    <3> QED
      BY <1>1, <3>1, <3>2, <3>3
  <2>2. {c \in Clients : conn'[c] = "open"} = {c \in Clients : conn[c] = "open"} \ {fd[i]}
    BY <1>2, <1>3 DEF TypeOK
  <2>3. ASSUME NEW s \in 1 .. numClients', NEW t \in 1 .. numClients', fd'[s] = fd'[t]
        PROVE  s = t
    BY <1>1, <2>3 DEF TypeOK, SlotsAreOpen
  <2> QED
    BY <2>1, <2>2, <2>3 DEF SlotsAreOpen
<1>6. AnswerComplete'
  BY <1>2, <1>3 DEF AnswerComplete, Answering, TypeOK
<1> QED
  BY <1>2, <1>4, <1>5, <1>6 DEF AtSlot, Answering

\* Steps that move nothing but the control.
LEMMA ControlIInv ==
    ASSUME IInv, Skip \/ EndPass \/ AcceptFails \/ Sigint \/ UNCHANGED vars
    PROVE  IInv'
<1> USE DEF IInv
<1>1. CASE Skip
  <2>1. /\ UNCHANGED <<conn, peer, data, reply, unread, html, fd, numClients, revents, pc>>
        /\ pc = "scan"
    BY <1>1 DEF Skip, env, array
  <2>2. TypeOK'
    BY <1>1, <2>1, PollAssumption DEF Skip, TypeOK
  <2> QED
    BY <2>1, <2>2 DEF SlotsAreOpen, AtSlot, Answering, AnswerComplete
<1>2. CASE EndPass \/ AcceptFails \/ Sigint
  <2>1. /\ UNCHANGED <<conn, peer, data, reply, unread, html, fd, numClients, revents, i>>
        /\ pc' \in {"poll", "exited"}
    BY <1>2 DEF EndPass, AcceptFails, Sigint, env, array
  <2> QED
    BY <2>1 DEF TypeOK, SlotsAreOpen, AtSlot, Answering, AnswerComplete
<1>3. CASE UNCHANGED vars
  BY <1>3 DEF vars, array, TypeOK, SlotsAreOpen, AtSlot, Answering, AnswerComplete
<1> QED
  BY <1>1, <1>2, <1>3

LEMMA IInvStep == IInv /\ [Next]_vars => IInv'
BY EnvironmentIInv, PollIInv, AcceptIInv, WriteHeadIInv, WriteBodyIInv,
   CloseClientIInv, ControlIInv
   DEF Next, Server

THEOREM IInvHolds == Spec => []IInv
BY InitIInv, IInvStep, PTL DEF Spec

\* The loop variable, the slots and the number of clients stay in range, and
\* so does every index into pollfds (server_mac_poll.c:145-168, 246).
THEOREM TypeCorrect == Spec => []TypeOK
BY IInvHolds, PTL DEF IInv

\* The array holds the accepted connections that are not closed, each once,
\* for every number of slots (server_mac_poll.c:145-154, 161-168).
THEOREM NoDescriptorLost == Spec => []SlotsAreOpen
BY IInvHolds, PTL DEF IInv

\* A client the server closed and that is still there has the whole answer
\* (server_mac_poll.c:99-126).
THEOREM AnswersComplete == Spec => []AnswerComplete
BY IInvHolds, PTL DEF IInv

\* Compaction moves clients towards the head of the array only
\* (server_mac_poll.c:162-168).
THEOREM MovesForward == Spec => NeverMovesBack
<1>1. IInv /\ [Next]_vars =>
        [\A s \in 1 .. numClients, t \in 1 .. numClients' :
           fd'[t] = fd[s] => t <= s]_vars
  <2> SUFFICES ASSUME IInv, Next,
                      NEW s \in 1 .. numClients, NEW t \in 1 .. numClients',
                      fd'[t] = fd[s]
               PROVE  t <= s
    OBVIOUS
  <2>1. numClients \in 0 .. MAX_CLIENTS /\ \A p, q \in 1 .. numClients : fd[p] = fd[q] => p = q
    BY DEF IInv, TypeOK, SlotsAreOpen
  <2>2. CASE CloseClient
    <3>1. /\ i \in 1 .. numClients /\ numClients' = numClients - 1
          /\ \A p \in 1 .. numClients' :
               fd'[p] = IF p = i THEN fd[numClients] ELSE fd[p]
      BY <2>2, Compaction
    <3> QED
      BY <2>1, <3>1
  <2>3. CASE \E c \in Clients : Accept(c)
    <3>1. PICK c \in Clients : Accept(c)
      BY <2>3
    <3>2. CASE numClients < MAX_CLIENTS
      <4>1. /\ fd' = [fd EXCEPT ![numClients + 1] = c]
            /\ numClients' = numClients + 1
            /\ conn[c] = "queued"
        BY <3>1, <3>2 DEF Accept, Waiting
      <4>2. fd[s] # c
        BY <4>1, SlotOpen DEF IInv
      <4>3. numClients + 1 \in Slots /\ t \in Slots
        BY <2>1, <3>2, <4>1, PollAssumption DEF Slots
      <4>4. t # numClients + 1
        BY <4>1, <4>2, <4>3 DEF IInv, TypeOK
      <4>5. fd'[t] = fd[t] /\ t \in 1 .. numClients
        BY <2>1, <4>1, <4>3, <4>4 DEF IInv, TypeOK
      <4>6. t = s
        BY <4>5 DEF IInv, SlotsAreOpen
      <4> QED
        BY <2>1, <4>6
    <3>3. CASE ~(numClients < MAX_CLIENTS)
      BY <2>1, <3>1, <3>3 DEF Accept, array
    <3> QED
      BY <3>2, <3>3
  <2>4. CASE fd' = fd /\ numClients' = numClients
    BY <2>1, <2>4
  <2>5. ~CloseClient /\ ~(\E c \in Clients : Accept(c)) =>
           fd' = fd /\ numClients' = numClients
    BY DEF Next, Server, Environment, Connect, Send, Hangup, AbortQueued, Reset,
           Drain, Poll, Skip, WriteHead, WriteBody, Write, EndPass, AcceptFails, Sigint,
           env, array
  <2> QED
    BY <2>2, <2>3, <2>4, <2>5
<1> QED
  BY <1>1, IInvHolds, PTL DEF Spec, NeverMovesBack

(***************************************************************************)
(* The server together with its timeout and its page                       *)
(***************************************************************************)

LEMMA ServerRuns == LoopSpec => Spec
<1>1. LoopInit => Init
  BY DEF LoopInit
<1>2. [LoopNext]_<<vars, inspected, windowVars, downVars>> => [Next]_vars
  BY DEF LoopNext
<1> QED
  BY <1>1, <1>2, PTL DEF LoopSpec, Spec

LEMMA WindowRuns == LoopSpec => Window!Spec
<1>1. LoopInit => Window!Init
  BY DEF LoopInit
<1>2. [LoopNext]_<<vars, inspected, windowVars, downVars>> => [Window!Next]_Window!vars
  BY DEF LoopNext, windowVars, Window!vars
<1> QED
  BY <1>1, <1>2, PTL DEF LoopSpec, Window!Spec

LEMMA DownRuns == LoopSpec => Down!Spec
<1>1. LoopInit => Down!Init
  BY DEF LoopInit
<1>2. [LoopNext]_<<vars, inspected, windowVars, downVars>> => [Down!Next]_Down!vars
  BY DEF LoopNext, downVars, Down!vars
<1> QED
  BY <1>1, <1>2, PTL DEF LoopSpec, Down!Spec

-----------------------------------------------------------------------------
(* The page: module PollShutdown *)

PageTypes ==
    /\ page \in {"null", "live", "dangling"}
    /\ downPc \in (Down!Who \X {"read", "serve", "close", "free", "clear", "exit"})
                  \cup {Down!Exited, Down!Crashed, Down!Stuck}
    /\ signalled \in BOOLEAN /\ begun \in BOOLEAN
    /\ cut \in BOOLEAN /\ twice \in BOOLEAN

\* Outside free_html_content() a pointer to freed memory is left behind by
\* the interrupted call only, and SIGINT interrupts once.
Dangling ==
    /\ page = "dangling" => cut \/ downPc[2] = "clear"
    /\ cut => signalled
    /\ twice => cut

\* The destructor, once entered, is left to itself or to the handler, and
\* whoever of them is at its end has seen the page freed.  A failure of
\* main() that exits with its page has the destructor before it.
Released ==
    /\ begun => downPc[1] \notin {"main", "failure"}
    /\ downPc[2] = "exit" /\ downPc[1] # "failure" => page = "null"
    /\ downPc = Down!Exited => page = "null"

DownInv == PageTypes /\ Dangling /\ Released

LEMMA DownStart == Down!Init => DownInv
<1> SUFFICES ASSUME Down!Init PROVE DownInv
  OBVIOUS
<1>1. /\ downPc = <<"main", "read">> /\ downPc # Down!Exited
      /\ downPc[1] = "main" /\ downPc[2] = "read"
  BY DEF Down!Init, Down!Exited
<1>2. PageTypes
  BY <1>1 DEF Down!Init, PageTypes, Down!Who
<1> QED
  BY <1>1, <1>2 DEF Down!Init, DownInv, Dangling, Released

LEMMA DownStep == DownInv /\ [Down!Next]_Down!vars => DownInv'
<1> SUFFICES ASSUME DownInv, [Down!Next]_Down!vars PROVE DownInv'
  OBVIOUS
<1> USE DEF DownInv, PageTypes, Dangling, Released,
            Down!Who, Down!Exited, Down!Crashed, Down!Stuck
<1>1. CASE Down!read_html_file
  BY <1>1 DEF Down!read_html_file
<1>2. CASE Down!Failure
  BY <1>2 DEF Down!Failure
<1>3. CASE Down!handle_sigint
  <2>1. /\ ~signalled /\ ~cut /\ ~twice
        /\ UNCHANGED <<page, begun, twice>> /\ signalled' = TRUE
        /\ cut' = (downPc[2] = "clear")
    BY <1>3 DEF Down!handle_sigint
  <2>2. CASE downPc' = <<"handler", "free">>
    <3>1. downPc'[1] = "handler" /\ downPc'[2] = "free" /\ downPc' # Down!Exited
      BY <2>2
    <3>2. PageTypes'
      BY <2>1, <2>2
    <3> QED
      BY <2>1, <3>1, <3>2
  <2>3. CASE downPc' = Down!Stuck
    <3>1. downPc'[1] = "exit" /\ downPc'[2] = "stuck" /\ downPc' # Down!Exited
      BY <2>3
    <3>2. PageTypes'
      BY <2>1, <2>3
    <3> QED
      BY <2>1, <3>1, <3>2
  <2> QED
    BY <1>3, <2>2, <2>3 DEF Down!handle_sigint
<1>4. CASE Down!Exit
  BY <1>4 DEF Down!Exit
<1>5. CASE Down!clean_exit
  BY <1>5 DEF Down!clean_exit
<1>6. CASE Down!Leave
  BY <1>6 DEF Down!Leave
<1>7. ASSUME NEW who \in Down!Who, Down!Free(who)
      PROVE  DownInv'
  BY <1>7 DEF Down!Free
<1>8. ASSUME NEW who \in Down!Who, Down!Clear(who)
      PROVE  DownInv'
  BY <1>8 DEF Down!Clear
<1>9. CASE UNCHANGED Down!vars
  BY <1>9 DEF Down!vars
<1> QED
  BY <1>1, <1>2, <1>3, <1>4, <1>5, <1>6, <1>7, <1>8, <1>9 DEF Down!Next

LEMMA DownHolds == LoopSpec => []DownInv
BY DownRuns, DownStart, DownStep, PTL DEF Down!Spec

\* Only an interruption between free() and the assignment after it makes the
\* page be freed once more (server_mac_poll.c:58-60, 83, 216, 223).
THEOREM PageFreedOnce == LoopSpec => []FreedOnce
<1>1. DownInv => FreedOnce
  BY DEF DownInv, Dangling, FreedOnce, Down!FreedOnce
<1> QED
  BY <1>1, DownHolds, PTL

\* Whichever way the process exits, its page is freed
\* (server_mac_poll.c:69-86).
THEOREM PageFreedAtExit == LoopSpec => []FreedAtExit
<1>1. DownInv => FreedAtExit
  BY DEF DownInv, Released, FreedAtExit, Down!FreedAtExit
<1> QED
  BY <1>1, DownHolds, PTL

-----------------------------------------------------------------------------
(* The timeout: module PollWindow *)

LEMMA TimesNat ==
    ASSUME NEW a \in Nat, NEW b \in Nat
    PROVE  a * b \in Nat
BY Z3

LEMMA TimesGrows ==
    ASSUME NEW a \in Int, NEW b \in Int, NEW c \in Nat, a <= b
    PROVE  a * c <= b * c
<1>1. (b - a) * c >= 0
  BY Z3
<1>2. (b - a) * c = b * c - a * c
  BY Z3
<1> QED
  BY <1>1, <1>2

\* A quotient, by its two bounds.
LEMMA Quotient ==
    ASSUME NEW a \in Nat, NEW b \in Nat \ {0}
    PROVE  /\ a \div b \in Nat
           /\ b * (a \div b) <= a
           /\ a < b * (a \div b) + b
BY Z3

\* A new timeout, times the passes it is made from, is within the time that
\* has passed.
LEMMA IntervalBounded ==
    ASSUME NEW count \in Nat \ {0}, NEW elapsed \in Nat, NEW t \in Window!Interval(count, elapsed)
    PROVE  t \in Nat /\ t * count <= SEC * elapsed
<1> DEFINE exact == (SEC * elapsed) \div count
<1>1. SEC * elapsed \in Nat
  BY LoopAssumption DEF Window!WindowAssumption
<1>2. exact \in Nat /\ count * exact <= SEC * elapsed
  BY <1>1, Quotient
<1>3. t = exact \/ (exact > 0 /\ t = exact - 1)
  BY DEF Window!Interval
<1> HIDE DEF exact
<1>4. t \in Nat /\ t <= exact
  BY <1>2, <1>3
<1>5. t * count <= exact * count
  BY <1>2, <1>4, TimesGrows
<1>6. exact * count = count * exact
  BY <1>2
<1> QED
  BY <1>1, <1>2, <1>4, <1>5, <1>6

\* The passes of a window are counted, and each took at most the longest of
\* them; the second the window began in may have been over when it began.
PassesCounted ==
    /\ eventsCount > 0 => passes = eventsCount
    /\ ticks <= SEC - 1 + (IF eventsCount = 0 THEN 0 ELSE longest * passes)

WindowInv == Window!TypeOK /\ PassesCounted /\ WindowGrowsByLongPassesOnly

LEMMA WindowStart == Window!Init => WindowInv
<1> SUFFICES ASSUME Window!Init PROVE WindowInv
  OBVIOUS
<1> USE LoopAssumption DEF Window!WindowAssumption
<1>1. SEC <= SEC * SLIDING_WINDOW
  BY TimesGrows
<1> QED
  BY <1>1 DEF Window!Init, WindowInv, Window!TypeOK, PassesCounted,
              WindowGrowsByLongPassesOnly, Window!GrowsByLongPassesOnly

\* One pass more is one duration more, of at most the longest of them.
LEMMA OnePassMore ==
    ASSUME NEW t \in Nat, NEW d \in Nat, NEW s \in Nat,
           NEW l \in Nat, NEW h \in Nat, NEW n \in Nat, NEW m \in Nat,
           m = n + 1, d <= h, n > 0 => l <= h,
           t <= s - 1 + (IF n = 0 THEN 0 ELSE l * n)
    PROVE  t + d <= s - 1 + h * m
<1>1. l * n \in Nat /\ h * n \in Nat
  BY TimesNat
<1>2. h * m = h * n + h
  BY Z3
<1>3. CASE n = 0
  <2>1. h * n = 0
    BY <1>3, Z3
  <2> QED
    BY <1>2, <1>3, <2>1
<1>4. CASE n > 0
  <2>1. l * n <= h * n
    BY <1>4, TimesGrows
  <2> QED
    BY <1>1, <1>2, <1>4, <2>1
<1> QED
  BY <1>3, <1>4

LEMMA PassStep ==
    ASSUME WindowInv, NEW d \in Nat, NEW ready \in BOOLEAN, Window!Pass(d, ready)
    PROVE  WindowInv'
<1> USE LoopAssumption DEF Window!WindowAssumption, WindowInv
<1> DEFINE now == ticks + d
           elapsed == now \div SEC
<1>1. /\ ticks \in Nat /\ eventsCount \in Nat /\ pollTimeout \in Nat
      /\ passes \in Nat /\ longest \in Nat /\ SEC \in Nat \ {0} /\ now \in Nat
  BY DEF Window!TypeOK, Window!Pass
<1>2. elapsed \in Nat /\ SEC * elapsed <= now /\ now < SEC * elapsed + SEC
  BY <1>1, Quotient
<1>3. /\ passes' = eventsCount + 1 /\ passes' \in 1 .. MaxCount /\ passes' \in Nat \ {0}
      /\ longest' \in Nat /\ longest' >= d
      /\ eventsCount > 0 => longest' >= longest /\ passes = eventsCount
  BY <1>1 DEF Window!TypeOK, Window!Pass, PassesCounted
<1>4. now <= SEC - 1 + longest' * passes'
  <2>1. ticks <= SEC - 1 + (IF eventsCount = 0 THEN 0 ELSE longest * eventsCount)
    BY <1>1, <1>3 DEF PassesCounted
  <2> QED
    BY <1>1, <1>3, <2>1, OnePassMore
<1> HIDE DEF now, elapsed
<1>5. CASE elapsed >= SLIDING_WINDOW
  <2>1. /\ pollTimeout' \in Window!Interval(passes', elapsed)
        /\ ticks' = now - SEC * elapsed /\ eventsCount' = 0
    BY <1>1, <1>3, <1>5 DEF Window!Pass, Window!UpdateSlidingWindow, Window!Count, now, elapsed
  <2>2. pollTimeout' \in Nat /\ pollTimeout' * passes' <= SEC * elapsed
    BY <1>2, <1>3, <2>1, IntervalBounded
  <2>3. SEC * elapsed \in Nat /\ ticks' \in 0 .. SEC - 1
    BY <1>1, <1>2, <2>1
  <2>4. SEC <= SEC * SLIDING_WINDOW
    BY TimesGrows
  <2>5. Window!TypeOK'
    BY <1>1, <1>3, <2>1, <2>2, <2>3, <2>4 DEF Window!TypeOK
  <2>6. pollTimeout' * passes' \in Nat /\ longest' * passes' \in Nat
    BY <1>3, <2>2, TimesNat
  <2>7. pollTimeout' * passes' <= longest' * passes' + SEC - 1
    BY <1>1, <1>2, <1>4, <2>2, <2>3, <2>6
  <2> QED
    BY <1>1, <2>1, <2>3, <2>5, <2>7
       DEF PassesCounted, WindowGrowsByLongPassesOnly, Window!GrowsByLongPassesOnly
<1>6. CASE ~(elapsed >= SLIDING_WINDOW)
  <2>1. eventsCount' = passes' /\ ticks' = now /\ pollTimeout' = pollTimeout
    BY <1>3, <1>6 DEF Window!Pass, Window!UpdateSlidingWindow, Window!Count, now, elapsed
  <2>2. now <= SEC * SLIDING_WINDOW - 1
    <3>1. elapsed + 1 <= SLIDING_WINDOW
      BY <1>2, <1>6
    <3>2. (elapsed + 1) * SEC <= SLIDING_WINDOW * SEC
      BY <1>2, <3>1, TimesGrows
    <3>3. (elapsed + 1) * SEC = SEC * elapsed + SEC /\ SLIDING_WINDOW * SEC = SEC * SLIDING_WINDOW
      BY <1>2, Z3
    <3>4. SEC * elapsed \in Nat /\ SEC * SLIDING_WINDOW \in Nat
      BY <1>2
    <3> QED
      BY <1>1, <1>2, <3>2, <3>3, <3>4
  <2>3. Window!TypeOK'
    BY <1>1, <1>3, <2>1, <2>2 DEF Window!TypeOK
  <2> QED
    BY <1>1, <1>3, <1>4, <2>1, <2>3
       DEF PassesCounted, WindowGrowsByLongPassesOnly, Window!GrowsByLongPassesOnly
<1> QED
  BY <1>5, <1>6

LEMMA WindowStep == WindowInv /\ [Window!Next]_Window!vars => WindowInv'
<1> SUFFICES ASSUME WindowInv, [Window!Next]_Window!vars PROVE WindowInv'
  OBVIOUS
<1>1. CASE Window!ReadyPass
  <2>1. PICK wait \in 0 .. pollTimeout, work \in 0 .. MaxWork : Window!Pass(wait + work, TRUE)
    BY <1>1 DEF Window!ReadyPass
  <2>2. wait + work \in Nat
    BY LoopAssumption DEF Window!WindowAssumption, WindowInv, Window!TypeOK
  <2> QED
    BY <2>1, <2>2, PassStep
<1>2. CASE Window!TimeoutPass
  <2>1. PICK late \in 0 .. MaxLate : Window!Pass(pollTimeout + late, FALSE)
    BY <1>2 DEF Window!TimeoutPass
  <2>2. pollTimeout + late \in Nat
    BY LoopAssumption DEF Window!WindowAssumption, WindowInv, Window!TypeOK
  <2> QED
    BY <2>1, <2>2, PassStep
<1>3. CASE UNCHANGED Window!vars
  BY <1>3 DEF Window!vars, WindowInv, Window!TypeOK, PassesCounted,
              WindowGrowsByLongPassesOnly, Window!GrowsByLongPassesOnly
<1> QED
  BY <1>1, <1>2, <1>3 DEF Window!Next

LEMMA WindowHolds == LoopSpec => []WindowInv
BY WindowRuns, WindowStart, WindowStep, PTL DEF Window!Spec

\* The server indexes its array within its bounds, and its timeout, which
\* poll() would take for "for ever" if it were negative, never is
\* (server_mac_poll.c:145-187, 233, 246).
THEOREM LoopTypes == LoopSpec => []TypesOK
<1>1. IInv /\ WindowInv => TypesOK
  BY DEF IInv, WindowInv, TypesOK
<1> QED
  BY <1>1, ServerRuns, IInvHolds, WindowHolds, PTL

\* Whatever the passes of a window took, and whatever part of a second time()
\* hides, the next timeout is no longer than the longest of them and that part
\* (server_mac_poll.c:171-187).
THEOREM WindowBounded == LoopSpec => []WindowGrowsByLongPassesOnly
<1>1. WindowInv => WindowGrowsByLongPassesOnly
  BY DEF WindowInv
<1> QED
  BY <1>1, WindowHolds, PTL
=============================================================================
