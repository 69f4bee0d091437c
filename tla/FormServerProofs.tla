-------------------------- MODULE FormServerProofs --------------------------
(* What the sequential servers of web_server/ keep, for every number of    *)
(* clients, every page and every socket buffer.                            *)
EXTENDS FormServer, TLAPS

(***************************************************************************)
(* The only open connection is that of the client in client_socket.        *)
(***************************************************************************)
OnlyCurIsOpen ==
    /\ \A c, d \in cur : c = d
    /\ \A c \in Clients : conn[c] = "open" => c \in cur /\ (pc \in {"recv", "open", "send"} \/ Stopped)
    /\ pc \in {"recv", "open", "send"} => \A c \in cur : conn[c] = "open"

(***************************************************************************)
(* The buffer is empty, or holds what the client in client_socket said.    *)
(***************************************************************************)
HoldsItsOwn ==
    /\ pc = "recv" => buffer.holds = "nothing"
    /\ pc \in {"open", "send", "form"} /\ buffer.holds # "nothing" => cur = {buffer.from}

(***************************************************************************)
(* A whole form is in the buffer until it is printed.                      *)
(***************************************************************************)
HeldUntilPrinted ==
    \A c \in heard :
        \/ [behind |-> c, from |-> c] \in inputs
        \/ /\ pc \in {"open", "send", "form"} /\ cur = {c}
           /\ buffer.from = c /\ buffer.holds = "whole" /\ IsForm(c)
        \/ Stopped

IInv == TypeOK /\ OnlyCurIsOpen /\ HoldsItsOwn /\ HeldUntilPrinted /\ PrintsItsOwn

LEMMA InitIInv == Init => IInv
BY FormAssumption DEF Init, IInv, TypeOK, OnlyCurIsOpen, HoldsItsOwn, HeldUntilPrinted,
       PrintsItsOwn, Requests, Amounts, IsForm

-----------------------------------------------------------------------------
(* Type correctness *)

LEMMA PrintedType ==
    ASSUME TypeOK, NEW whose \in Printed(buffer)
    PROVE  whose \subseteq {buffer.from} /\ buffer.from \in Clients
BY DEF TypeOK, Printed

LEMMA NextTypeOK == TypeOK /\ [Next]_vars => TypeOK'
<1> SUFFICES ASSUME TypeOK, [Next]_vars PROVE TypeOK'
    OBVIOUS
<1> USE DEF TypeOK, Requests, Amounts
<1>1. CASE UNCHANGED vars
      BY <1>1 DEF vars
<1>2. ASSUME NEW c \in Clients, Connect(c) PROVE TypeOK'
      BY <1>2 DEF Connect
<1>3. ASSUME NEW c \in Clients, Say(c) PROVE TypeOK'
      BY <1>3 DEF Say
<1>4. ASSUME NEW c \in Clients, Drain(c) PROVE TypeOK'
  <2>1. unread[c] - 1 \in 0 .. SOCKBUF
        BY <1>4, FormAssumption DEF Drain
  <2> QED BY <1>4, <2>1 DEF Drain
<1>5. ASSUME NEW c \in Clients, Leave(c) PROVE TypeOK'
      BY <1>5 DEF Leave
<1>6. ASSUME NEW c \in Clients, Accept(c) PROVE TypeOK'
      BY <1>6 DEF Accept
<1>7. ASSUME NEW c \in Clients, Recv(c) PROVE TypeOK'
  <2>1. buffer' \in [from : Clients, holds : Amounts]
        BY <1>7 DEF Recv
  <2>2. heard' \in SUBSET Clients
        BY <1>7 DEF Recv
  <2> QED BY <1>7, <2>1, <2>2 DEF Recv, clients
<1>8. CASE OpenPage
      BY <1>8, FormAssumption DEF OpenPage, clients
<1>9. ASSUME NEW c \in Clients, SendPiece(c) PROVE TypeOK'
  <2>1. line' \in 0 .. LINES + 1
        BY <1>9, FormAssumption DEF SendPiece
  <2>2. unread' \in [Clients -> 0 .. SOCKBUF]
        BY <1>9, FormAssumption DEF SendPiece
  <2> QED BY <1>9, <2>1, <2>2 DEF SendPiece
<1>10. ASSUME NEW c \in Clients, ClosePage(c) PROVE TypeOK'
      BY <1>10 DEF ClosePage
<1>11. CASE HandleForm
  <2>1. inputs' \in SUBSET [behind : Clients, from : Clients]
        BY <1>11, PrintedType DEF HandleForm
  <2> QED BY <1>11, <2>1 DEF HandleForm, clients
<1>12. CASE AcceptFails
      BY <1>12 DEF AcceptFails, clients
<1> QED BY <1>1, <1>2, <1>3, <1>4, <1>5, <1>6, <1>7, <1>8, <1>9, <1>10, <1>11, <1>12
        DEF Next, Server, Client

-----------------------------------------------------------------------------
(* One connection *)

LEMMA NextOnlyCurIsOpen == TypeOK /\ OnlyCurIsOpen /\ [Next]_vars => OnlyCurIsOpen'
<1> SUFFICES ASSUME TypeOK, OnlyCurIsOpen, [Next]_vars PROVE OnlyCurIsOpen'
    OBVIOUS
<1> USE DEF OnlyCurIsOpen, Stopped
<1>1. CASE UNCHANGED vars
      BY <1>1 DEF vars
<1>2. CASE Next
  <2>0. ~Stopped
        BY <1>2 DEF Next
  <2>1. ASSUME NEW c \in Clients, Client(c) PROVE OnlyCurIsOpen'
        BY <2>1 DEF TypeOK, Client, Connect, Say, Drain, Leave
  <2>2. ASSUME NEW c \in Clients, Accept(c) PROVE OnlyCurIsOpen'
        BY <2>0, <2>2 DEF TypeOK, Accept
  <2>3. ASSUME NEW c \in Clients, Recv(c) \/ SendPiece(c) PROVE OnlyCurIsOpen'
        BY <2>3 DEF Recv, SendPiece, clients
  <2>4. ASSUME NEW c \in Clients, ClosePage(c) PROVE OnlyCurIsOpen'
        BY <2>0, <2>4 DEF TypeOK, ClosePage
  <2>5. CASE OpenPage \/ AcceptFails
        BY <2>5 DEF OpenPage, AcceptFails, clients
  <2>6. CASE HandleForm
        BY <2>0, <2>6 DEF HandleForm, clients
  <2> QED BY <1>2, <2>1, <2>2, <2>3, <2>4, <2>5, <2>6 DEF Next, Server
<1> QED BY <1>1, <1>2

-----------------------------------------------------------------------------
(* The buffer *)

LEMMA NextHoldsItsOwn == TypeOK /\ OnlyCurIsOpen /\ HoldsItsOwn /\ [Next]_vars => HoldsItsOwn'
<1> SUFFICES ASSUME TypeOK, OnlyCurIsOpen, HoldsItsOwn, [Next]_vars PROVE HoldsItsOwn'
    OBVIOUS
<1> USE DEF HoldsItsOwn
<1>1. CASE UNCHANGED vars
      BY <1>1 DEF vars
<1>2. ASSUME NEW c \in Clients, Client(c) PROVE HoldsItsOwn'
      BY <1>2 DEF Client, Connect, Say, Drain, Leave
<1>3. ASSUME NEW c \in Clients, Accept(c) PROVE HoldsItsOwn'
      BY <1>3 DEF TypeOK, Accept
<1>4. ASSUME NEW c \in Clients, Recv(c) PROVE HoldsItsOwn'
  <2>1. cur = {c} /\ cur' = cur
        BY <1>4 DEF OnlyCurIsOpen, Recv
  <2> QED BY <1>4, <2>1 DEF Recv
<1>5. ASSUME NEW c \in Clients, SendPiece(c) \/ ClosePage(c) PROVE HoldsItsOwn'
      BY <1>5 DEF SendPiece, ClosePage
<1>6. CASE OpenPage \/ HandleForm \/ AcceptFails
      BY <1>6 DEF OpenPage, HandleForm, AcceptFails, clients
<1> QED BY <1>1, <1>2, <1>3, <1>4, <1>5, <1>6 DEF Next, Server

\* What HandleForm prints is the form in the buffer, if there is one.
LEMMA PrintsTheBuffer ==
    ASSUME TypeOK, HoldsItsOwn, pc = "form", NEW whose \in Printed(buffer), NEW c \in whose
    PROVE  c = buffer.from /\ cur = {c} /\ IsForm(c)
<1>1. buffer.holds # "nothing" /\ IsForm(buffer.from)
  <2>1. SUFFICES ASSUME ~IsForm(buffer.from) \/ buffer.holds = "nothing" PROVE FALSE
        OBVIOUS
  <2>2. Printed(buffer) = {{}}
        BY <2>1 DEF Printed
  <2> QED BY <2>2
<1>2. whose \in {{}, {buffer.from}}
      BY <1>1 DEF Printed
<1>3. c = buffer.from
      BY <1>2
<1> QED BY <1>1, <1>3 DEF HoldsItsOwn

LEMMA NextPrintsItsOwn == TypeOK /\ HoldsItsOwn /\ PrintsItsOwn /\ [Next]_vars => PrintsItsOwn'
<1> SUFFICES ASSUME TypeOK, HoldsItsOwn, PrintsItsOwn, [Next]_vars PROVE PrintsItsOwn'
    OBVIOUS
<1>1. asks' = asks
      BY DEF Next, vars, Server, Client, Connect, Say, Drain, Leave, Accept, Recv, OpenPage,
             SendPiece, ClosePage, HandleForm, AcceptFails, clients
<1>2. CASE inputs' = inputs
      BY <1>1, <1>2 DEF IsForm, PrintsItsOwn
<1>3. CASE inputs' # inputs
  <2>1. HandleForm
        BY <1>3 DEF Next, vars, Server, Client, Connect, Say, Drain, Leave, Accept, Recv,
           OpenPage, SendPiece, ClosePage, AcceptFails
  <2>2. PICK whose \in Printed(buffer) : inputs' = inputs \cup [behind : cur, from : whose]
        BY <1>3, <2>1 DEF HandleForm
  <2>3. \A input \in [behind : cur, from : whose] :
            input.behind = input.from /\ IsForm(input.from)
        BY <2>1, PrintsTheBuffer DEF HandleForm
  <2> QED BY <1>1, <2>2, <2>3 DEF IsForm, PrintsItsOwn
<1> QED BY <1>2, <1>3

-----------------------------------------------------------------------------
(* The forms that were heard *)

LEMMA RecvHeldUntilPrinted ==
    ASSUME TypeOK, OnlyCurIsOpen, HoldsItsOwn, HeldUntilPrinted, NEW c \in Clients, Recv(c)
    PROVE  HeldUntilPrinted'
<1>1. cur = {c} /\ cur' = cur /\ pc' = "open" /\ asks' = asks /\ inputs' = inputs
      BY DEF OnlyCurIsOpen, Recv, clients
<1>2. \A d \in heard : [behind |-> d, from |-> d] \in inputs
      BY DEF HeldUntilPrinted, Recv, Stopped
<1>3. heard' # heard => /\ heard' = heard \cup {c}
                        /\ buffer'.holds = "whole" /\ IsForm(buffer'.from)
      BY DEF Recv
<1>4. buffer'.holds = "whole" => buffer'.from = c
      BY DEF HoldsItsOwn, Recv
<1> QED BY <1>1, <1>2, <1>3, <1>4 DEF IsForm, HeldUntilPrinted

LEMMA HandleFormHeldUntilPrinted ==
    ASSUME TypeOK, HoldsItsOwn, HeldUntilPrinted, HandleForm
    PROVE  HeldUntilPrinted'
<1>1. heard' = heard /\ inputs \subseteq inputs'
      BY DEF HandleForm
<1>2. CASE pc' = "accept"
  <2>1. PICK whose \in Printed(buffer) : inputs' = inputs \cup [behind : cur, from : whose]
        BY <1>2 DEF HandleForm
  <2>2. SUFFICES ASSUME NEW c \in heard, [behind |-> c, from |-> c] \notin inputs
                 PROVE  [behind |-> c, from |-> c] \in inputs'
        BY <1>1 DEF HeldUntilPrinted
  <2>3. cur = {c} /\ buffer.from = c /\ buffer.holds = "whole" /\ IsForm(c)
        BY <2>2 DEF HeldUntilPrinted, HandleForm, Stopped
  <2>4. whose = {c}
        BY <2>1, <2>3 DEF Printed
  <2> QED BY <2>1, <2>3, <2>4
<1>3. CASE pc' # "accept"
      BY <1>3 DEF HandleForm, HeldUntilPrinted, Stopped
<1> QED BY <1>2, <1>3

LEMMA NextHeldUntilPrinted ==
    TypeOK /\ OnlyCurIsOpen /\ HoldsItsOwn /\ HeldUntilPrinted /\ [Next]_vars => HeldUntilPrinted'
<1> SUFFICES ASSUME TypeOK, OnlyCurIsOpen, HoldsItsOwn, HeldUntilPrinted, [Next]_vars
             PROVE  HeldUntilPrinted'
    OBVIOUS
<1>1. CASE UNCHANGED vars
      BY <1>1 DEF IsForm, vars, HeldUntilPrinted, Stopped
<1>2. ASSUME NEW c \in Clients, Client(c) PROVE HeldUntilPrinted'
      BY <1>2 DEF IsForm, HeldUntilPrinted, Stopped, Client, Connect, Say, Drain, Leave
<1>3. ASSUME NEW c \in Clients, Accept(c) PROVE HeldUntilPrinted'
      BY <1>3 DEF HeldUntilPrinted, Stopped, Accept
<1>4. ASSUME NEW c \in Clients, SendPiece(c) \/ ClosePage(c) PROVE HeldUntilPrinted'
      BY <1>4 DEF IsForm, HeldUntilPrinted, Stopped, SendPiece, ClosePage
<1>5. CASE OpenPage \/ AcceptFails
      BY <1>5 DEF IsForm, HeldUntilPrinted, Stopped, OpenPage, AcceptFails, clients
<1> QED BY <1>1, <1>2, <1>3, <1>4, <1>5, RecvHeldUntilPrinted, HandleFormHeldUntilPrinted
        DEF Next, Server

-----------------------------------------------------------------------------
LEMMA NextIInv == IInv /\ [Next]_vars => IInv'
BY NextTypeOK, NextOnlyCurIsOpen, NextHoldsItsOwn, NextPrintsItsOwn, NextHeldUntilPrinted DEF IInv

(***************************************************************************)
(* The variables stay in their types: send() never puts more into a        *)
(* connection than it holds (web_server/server.c:48-59).                   *)
(***************************************************************************)
THEOREM TypeCorrect == Spec => []TypeOK
<1>1. IInv => TypeOK
      BY DEF IInv
<1>2. Init => IInv
      BY InitIInv
<1>3. IInv /\ [Next]_vars => IInv'
      BY NextIInv
<1> QED BY <1>1, <1>2, <1>3, PTL DEF Spec

(***************************************************************************)
(* No input is printed that the client just served has not sent, for any   *)
(* number of clients that leave at any point (server.c:163-173).           *)
(***************************************************************************)
THEOREM NothingStale == Spec => []PrintsItsOwn
<1>1. IInv => PrintsItsOwn
      BY DEF IInv
<1>2. Init => IInv
      BY InitIInv
<1>3. IInv /\ [Next]_vars => IInv'
      BY NextIInv
<1> QED BY <1>1, <1>2, <1>3, PTL DEF Spec

(***************************************************************************)
(* A form that one recv() returned is printed before the next accept(),    *)
(* whatever its client has done since (server.c:164-173).                  *)
(***************************************************************************)
THEOREM FormsArePrinted == Spec => []NoFormLost
<1>1. IInv => NoFormLost
      BY DEF IInv, HeldUntilPrinted, NoFormLost, Stopped
<1>2. Init => IInv
      BY InitIInv
<1>3. IInv /\ [Next]_vars => IInv'
      BY NextIInv
<1> QED BY <1>1, <1>2, <1>3, PTL DEF Spec

-----------------------------------------------------------------------------
(* One at a time *)

LEMMA AcceptTakes ==
    ASSUME TypeOK, OnlyCurIsOpen, ~Stopped, NEW c \in Clients, Accept(c)
    PROVE  Abstract!Take(c)
<1>1. \A d \in Clients : conn[d] # "open"
      BY DEF Accept, OnlyCurIsOpen
<1>2. conn[c] = "queued" /\ conn' = [conn EXCEPT ![c] = "open"]
      BY DEF Accept, Waiting
<1> QED BY <1>1, <1>2 DEF TypeOK, Waiting, Abstract!Take

LEMMA ClosePageFinishes ==
    ASSUME TypeOK, OnlyCurIsOpen, ~Stopped, NEW c \in Clients, ClosePage(c)
    PROVE  Abstract!Finish(c)
<1>1. \A d \in Clients : conn[d] = "open" <=> d = c
      BY DEF ClosePage, OnlyCurIsOpen, TypeOK
<1>2. conn' = [conn EXCEPT ![c] = "closed"]
      BY DEF ClosePage
<1> QED BY <1>1, <1>2 DEF TypeOK, Waiting, Abstract!Finish

LEMMA StepImplements == IInv /\ [Next]_vars => [Abstract!Next]_(Abstract!vars)
<1> SUFFICES ASSUME IInv, [Next]_vars PROVE Abstract!Next \/ UNCHANGED Abstract!vars
    OBVIOUS
<1>1. TypeOK /\ OnlyCurIsOpen
      BY DEF IInv
<1>2. CASE conn' = conn
      BY <1>2 DEF Abstract!vars, Waiting
<1>3. CASE conn' # conn
  <2>1. ~Stopped
        BY <1>3 DEF Next, vars
  <2>2. PICK c \in Clients : Connect(c) \/ Accept(c) \/ ClosePage(c)
        BY <1>3 DEF Next, vars, clients, Server, Client, Say, Drain, Leave, AcceptFails, Recv,
              OpenPage, SendPiece, HandleForm
  <2>3. CASE Connect(c)
    <3>1. Abstract!Arrive(c)
          BY <1>1, <2>3 DEF TypeOK, Connect, Waiting, Abstract!Arrive
    <3> QED BY <3>1 DEF Abstract!Next
  <2>4. CASE Accept(c)
    <3>1. Abstract!Take(c)
          BY <1>1, <2>1, <2>4, AcceptTakes
    <3> QED BY <3>1 DEF Abstract!Next
  <2>5. CASE ClosePage(c)
    <3>1. Abstract!Finish(c)
          BY <1>1, <2>1, <2>5, ClosePageFinishes
    <3> QED BY <3>1 DEF Abstract!Next
  <2> QED BY <2>2, <2>3, <2>4, <2>5
<1> QED BY <1>2, <1>3

(***************************************************************************)
(* The server implements OneAtATime, for every number of clients           *)
(* (web_server/server.c:144-174).                                          *)
(***************************************************************************)
THEOREM Implements == Spec => OneClientAtATime
<1>1. Init => Abstract!Init
      BY DEF Init, Waiting, Abstract!Init
<1>2. Init => IInv
      BY InitIInv
<1>3. IInv /\ [Next]_vars => IInv'
      BY NextIInv
<1> QED BY <1>1, <1>2, <1>3, StepImplements, PTL DEF Spec, OneClientAtATime, Abstract!Spec
=============================================================================
