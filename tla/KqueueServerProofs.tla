------------------------- MODULE KqueueServerProofs -------------------------
(* What the event loop of server_mac.c keeps, for every number of clients   *)
(* and every size of page, piece and socket buffer.                         *)
EXTENDS KqueueServer, SequenceTheorems, TLAPS

(***************************************************************************)
(* One connection is open at most, the one handle_client() serves; it is   *)
(* closed by the time its descriptor would be registered.                  *)
(***************************************************************************)
OnlyCurIsOpen ==
    /\ kq = {}
    /\ \A c \in Clients : conn[c] = "open" => (c = cur /\ pc \in {"open", "send"}) \/ Stopped
    /\ pc \in {"open", "send"} => conn[cur] = "open"
    /\ pc = "register" => conn[cur] = "closed"

(***************************************************************************)
(* If the page fits, a client that stays has all pieces up to the line.    *)
(***************************************************************************)
Fits == PIECE * (LINES + 1) <= SOCKBUF

SentSoFar ==
    Fits => \A c \in Clients : peer[c] = "up" =>
        /\ conn[c] \in {"none", "queued"} \/ (c = cur /\ pc = "open") =>
              sent[c] = Whole(0) /\ buffered[c] = 0
        /\ c = cur /\ pc = "send" =>
              sent[c] = Whole(line) /\ buffered[c] <= PIECE * line
        /\ conn[c] = "closed" => sent[c] = Whole(LINES + 1)

IInv == TypeOK /\ OnlyCurIsOpen /\ SentSoFar

\* A piece more is a piece more.
LEMMA WholeAppend ==
    ASSUME NEW k \in Nat
    PROVE  Append(Whole(k), [piece |-> k, units |-> PIECE]) = Whole(k + 1)
<1> DEFINE r == [piece |-> k, units |-> PIECE]
           q(p) == [piece |-> p - 1, units |-> PIECE]
<1>1. Whole(k) = [p \in 1 .. k |-> q(p)] /\ Whole(k + 1) = [p \in 1 .. k + 1 |-> q(p)]
      BY DEF Whole
<1>2. Whole(k) \in Seq({q(p) : p \in 1 .. k}) /\ Len(Whole(k)) = k
  <2>1. Whole(k) \in [1 .. k -> {q(p) : p \in 1 .. k}]
        BY <1>1
  <2> HIDE DEF q
  <2>2. Whole(k) \in Seq({q(p) : p \in 1 .. k})
        BY <2>1, SeqDef
  <2>3. DOMAIN Whole(k) = 1 .. Len(Whole(k)) /\ Len(Whole(k)) \in Nat
        BY <2>2, LenProperties
  <2>4. 1 .. k = 1 .. Len(Whole(k))
        BY <2>1, <2>3
  <2> DEFINE n == Len(Whole(k))
  <2> HIDE DEF n
  <2>5. n \in Nat /\ 1 .. k = 1 .. n
        BY <2>3, <2>4 DEF n
  <2>6. \A p \in Int : 1 <= p /\ p <= k <=> 1 <= p /\ p <= n
        BY <2>5
  <2>7. n = k
        BY <2>5, <2>6
  <2> QED BY <2>2, <2>7 DEF n
<1>3. Append(Whole(k), r) = [p \in 1 .. k + 1 |-> IF p = k + 1 THEN r ELSE Whole(k)[p]]
      BY <1>2
<1>4. q(k + 1) = r
      OBVIOUS
<1>5. \A p \in 1 .. k + 1 : (IF p = k + 1 THEN r ELSE Whole(k)[p]) = q(p)
      BY <1>1, <1>4
<1> QED BY <1>1, <1>3, <1>5

\* There is room for a whole piece in front of every line of a page that fits.
LEMMA Room ==
    ASSUME TypeOK, Fits, line <= LINES, buffered[cur] <= PIECE * line
    PROVE  /\ Taken(cur) = PIECE
           /\ buffered[cur] + PIECE <= PIECE * (line + 1)
<1>1. PIECE \in Nat \ {0} /\ LINES \in Nat /\ SOCKBUF \in Nat
      BY KqueueAssumption
<1>2. line \in Nat /\ buffered[cur] \in Nat
      BY DEF TypeOK
<1>3. PIECE * (line + 1) = PIECE * line + PIECE
      BY <1>1, <1>2
<1>4. PIECE * (LINES + 1) = PIECE * (line + 1) + PIECE * (LINES - line)
      BY <1>1, <1>2
<1>5. PIECE * (LINES - line) >= 0
  <2>1. LINES - line \in Nat
        BY <1>1, <1>2
  <2> QED BY <1>1, <2>1
<1> HIDE DEF Fits
<1>6. SOCKBUF - buffered[cur] >= PIECE
  <2> DEFINE a == PIECE * line
             b == PIECE * (LINES + 1)
             d == PIECE * (LINES - line)
  <2>1. a \in Int /\ b \in Int /\ d \in Int
        BY <1>1, <1>2
  <2>2. b <= SOCKBUF /\ b = a + PIECE + d /\ d >= 0 /\ buffered[cur] <= a
        BY <1>3, <1>4, <1>5 DEF Fits
  <2> HIDE DEF a, b, d
  <2> QED BY <1>1, <1>2, <2>1, <2>2
<1>7. Taken(cur) = PIECE
      BY <1>1, <1>2, <1>6 DEF Taken
<1> QED BY <1>1, <1>2, <1>3, <1>7

-----------------------------------------------------------------------------
(* Type correctness *)

LEMMA TakenType == TypeOK => Taken(cur) \in 0 .. PIECE /\ buffered[cur] + Taken(cur) \in 0 .. SOCKBUF
BY KqueueAssumption DEF TypeOK, Taken

LEMMA InitTypeOK == Init => TypeOK
BY KqueueAssumption DEF Init, TypeOK

LEMMA NextTypeOK == TypeOK /\ [Next]_vars => TypeOK'
<1> SUFFICES ASSUME TypeOK, [Next]_vars PROVE TypeOK'
    OBVIOUS
<1> USE KqueueAssumption
<1>1. ASSUME NEW c \in Clients, Client(c) PROVE TypeOK'
  <2>1. CASE Connect(c)
        BY <2>1 DEF TypeOK, Connect
  <2>2. CASE Drain(c)
    <3>1. buffered[c] - 1 \in 0 .. SOCKBUF
          BY <2>2 DEF TypeOK, Drain
    <3> QED BY <2>2, <3>1 DEF TypeOK, Drain
  <2>3. CASE Leave(c)
        BY <2>3 DEF TypeOK, Leave
  <2> QED BY <1>1, <2>1, <2>2, <2>3 DEF Client
<1>2. CASE Wait \/ AcceptFails \/ Sigint
      BY <1>2 DEF TypeOK, Wait, AcceptFails, Sigint, net
<1>6. CASE OpenPage
  <2>1. line' \in 0 .. LINES + 1
        BY <1>6 DEF OpenPage
  <2> QED BY <1>6, <2>1 DEF TypeOK, OpenPage, net
<1>7. CASE ClosePage
      BY <1>7 DEF TypeOK, ClosePage
<1>8. CASE Register
      BY <1>8 DEF TypeOK, Register, net
<1>3. ASSUME NEW c \in Clients, Accept(c) PROVE TypeOK'
      BY <1>3 DEF TypeOK, Accept
<1>4. CASE SendPiece
  <2>1. line \in Pieces /\ line' \in 0 .. LINES + 1
        BY <1>4 DEF TypeOK, SendPiece, Pieces
  <2>2. sent' \in [Clients -> Seq([piece : Pieces, units : 1 .. PIECE])]
    <3>1. CASE sent' = sent
          BY <3>1 DEF TypeOK
    <3>2. CASE sent' # sent
      <4>1. Taken(cur) \in 1 .. PIECE
            BY <1>4, <3>2, TakenType DEF SendPiece
      <4>2. [piece |-> line, units |-> Taken(cur)] \in [piece : Pieces, units : 1 .. PIECE]
            BY <2>1, <4>1
      <4>3. sent' = [sent EXCEPT ![cur] = Append(sent[cur], [piece |-> line, units |-> Taken(cur)])]
            BY <1>4, <3>2 DEF SendPiece
      <4>4. sent[cur] \in Seq([piece : Pieces, units : 1 .. PIECE])
            BY DEF TypeOK
      <4>5. Append(sent[cur], [piece |-> line, units |-> Taken(cur)])
               \in Seq([piece : Pieces, units : 1 .. PIECE])
            BY <4>2, <4>4
      <4> QED BY <4>3, <4>5 DEF TypeOK
    <3> QED BY <3>1, <3>2
  <2>3. buffered' \in [Clients -> 0 .. SOCKBUF]
        BY <1>4, TakenType DEF TypeOK, SendPiece
  <2> QED BY <1>4, <2>1, <2>2, <2>3 DEF TypeOK, SendPiece
<1>5. CASE UNCHANGED vars
      BY <1>5 DEF TypeOK, vars, net
<1> QED BY <1>1, <1>2, <1>3, <1>4, <1>5, <1>6, <1>7, <1>8 DEF Next, Server

-----------------------------------------------------------------------------
(* The only open connection *)

LEMMA NextOnlyCurIsOpen == TypeOK /\ OnlyCurIsOpen /\ [Next]_vars => OnlyCurIsOpen'
<1> SUFFICES ASSUME TypeOK, OnlyCurIsOpen, [Next]_vars PROVE OnlyCurIsOpen'
    OBVIOUS
<1> USE DEF OnlyCurIsOpen, Stopped
<1>1. CASE UNCHANGED vars
      BY <1>1 DEF vars, net
<1>2. CASE Next
  <2>0. ~Stopped
        BY <1>2 DEF Next
  <2>1. ASSUME NEW c \in Clients, Client(c) PROVE OnlyCurIsOpen'
        BY <2>1 DEF TypeOK, Client, Connect, Drain, Leave
  <2>2. CASE Wait \/ AcceptFails \/ OpenPage
        BY <2>2 DEF Wait, AcceptFails, OpenPage, net
  <2>3. CASE Sigint
        BY <2>3 DEF Sigint, net
  <2>4. ASSUME NEW c \in Clients, Accept(c) PROVE OnlyCurIsOpen'
        BY <2>0, <2>4 DEF TypeOK, Accept
  <2>5. CASE SendPiece
        BY <2>5 DEF TypeOK, SendPiece
  <2>6. CASE ClosePage
        BY <2>0, <2>6 DEF TypeOK, ClosePage
  <2>7. CASE Register
        BY <2>0, <2>7 DEF Register, net
  <2> QED BY <1>2, <2>1, <2>2, <2>3, <2>4, <2>5, <2>6, <2>7 DEF Next, Server
<1> QED BY <1>1, <1>2

-----------------------------------------------------------------------------
(* The page *)

LEMMA SendPieceSentSoFar == TypeOK /\ OnlyCurIsOpen /\ SentSoFar /\ SendPiece => SentSoFar'
<1> SUFFICES ASSUME TypeOK, OnlyCurIsOpen, SentSoFar, SendPiece, Fits,
                    NEW c \in Clients, peer'[c] = "up"
             PROVE  /\ conn'[c] \in {"none", "queued"} \/ (c = cur' /\ pc' = "open") =>
                          sent'[c] = Whole(0) /\ buffered'[c] = 0
                    /\ c = cur' /\ pc' = "send" =>
                          sent'[c] = Whole(line') /\ buffered'[c] <= PIECE * line'
                    /\ conn'[c] = "closed" => sent'[c] = Whole(LINES + 1)
    BY DEF SentSoFar, Fits, Whole
<1>1. /\ pc = "send" /\ line <= LINES /\ line' = line + 1 /\ cur' = cur
      /\ conn' = conn /\ peer' = peer /\ pc' \in {"send", "killed"}
      BY DEF SendPiece
<1>2. CASE c # cur
  <2>1. sent'[c] = sent[c] /\ buffered'[c] = buffered[c]
        BY <1>2 DEF SendPiece, TypeOK
  <2> QED BY <1>1, <1>2, <2>1 DEF SentSoFar
<1>3. CASE c = cur
  <2>1. conn[c] = "open" /\ peer[cur] = "up"
        BY <1>1, <1>3 DEF OnlyCurIsOpen
  <2>2. sent[c] = Whole(line) /\ buffered[c] <= PIECE * line
        BY <1>1, <1>3 DEF SentSoFar
  <2>3. Taken(cur) = PIECE /\ buffered[cur] + PIECE <= PIECE * (line + 1)
        BY <1>1, <1>3, <2>2, Room
  <2>4. PIECE # 0 /\ line \in Nat
        BY KqueueAssumption DEF TypeOK
  <2>5. /\ sent'[c] = Append(Whole(line), [piece |-> line, units |-> PIECE])
        /\ buffered'[c] = buffered[c] + PIECE
        BY <1>3, <2>1, <2>2, <2>3, <2>4 DEF SendPiece, TypeOK
  <2>6. sent'[c] = Whole(line')
        BY <1>1, <2>4, <2>5, WholeAppend
  <2>7. buffered'[c] <= PIECE * line'
        BY <1>1, <1>3, <2>3, <2>5
  <2> QED BY <1>1, <2>1, <2>6, <2>7
<1> QED BY <1>2, <1>3

LEMMA InitIInv == Init => IInv
<1>1. Init => OnlyCurIsOpen
      BY DEF Init, OnlyCurIsOpen
<1>2. Init => SentSoFar
  <2>1. Whole(0) = << >>
        BY DEF Whole
  <2> QED BY <2>1 DEF Init, SentSoFar
<1> QED BY <1>1, <1>2, InitTypeOK DEF IInv

LEMMA NextSentSoFar == TypeOK /\ OnlyCurIsOpen /\ SentSoFar /\ [Next]_vars => SentSoFar'
<1> SUFFICES ASSUME TypeOK, OnlyCurIsOpen, SentSoFar, [Next]_vars PROVE SentSoFar'
    OBVIOUS
<1>0. ASSUME NEW k PROVE Whole(k)' = Whole(k)
      BY DEF Whole
<1>1. CASE UNCHANGED vars
      BY <1>1 DEF SentSoFar, Fits, Whole, vars, net
<1>2. ASSUME NEW c \in Clients, Connect(c) PROVE SentSoFar'
      BY <1>2 DEF TypeOK, SentSoFar, Fits, Whole, Connect
<1>3. ASSUME NEW c \in Clients, Drain(c) PROVE SentSoFar'
  <2>1. \A d \in Clients : buffered'[d] <= buffered[d] /\ (buffered[d] = 0 => buffered'[d] = 0)
                            /\ buffered'[d] \in Int /\ buffered[d] \in Int
        BY <1>3, KqueueAssumption DEF TypeOK, Drain
  <2>2. PIECE * line \in Int
        BY KqueueAssumption DEF TypeOK
  <2> QED BY <1>3, <2>1, <2>2 DEF SentSoFar, Fits, Whole, Drain
<1>4. ASSUME NEW c \in Clients, Leave(c) PROVE SentSoFar'
      BY <1>4 DEF TypeOK, SentSoFar, Fits, Whole, Leave
<1>5. CASE Wait \/ AcceptFails \/ Register \/ Sigint
      BY <1>5 DEF SentSoFar, Fits, Whole, Wait, AcceptFails, Register, Sigint, net
<1>6. ASSUME NEW c \in Clients, Accept(c) PROVE SentSoFar'
      BY <1>6 DEF TypeOK, SentSoFar, Fits, Whole, Accept, Waiting
<1>7. CASE OpenPage
  <2>1. PIECE * 0 = 0
        BY KqueueAssumption
  <2> QED BY <1>7, <2>1 DEF TypeOK, SentSoFar, Fits, Whole, OpenPage, net
<1>8. CASE SendPiece
      BY <1>8, SendPieceSentSoFar
<1>9. CASE ClosePage
  <2>1. line = LINES + 1
        BY <1>9, KqueueAssumption DEF ClosePage, TypeOK
  <2> QED BY <1>9, <2>1 DEF TypeOK, SentSoFar, Fits, Whole, ClosePage
<1> QED BY <1>1, <1>2, <1>3, <1>4, <1>5, <1>6, <1>7, <1>8, <1>9 DEF Next, Server, Client

LEMMA NextIInv == IInv /\ [Next]_vars => IInv'
BY NextTypeOK, NextOnlyCurIsOpen, NextSentSoFar DEF IInv

(***************************************************************************)
(* The variables stay in their types: the kernel never takes more than the *)
(* socket buffer holds (server_mac.c:76-211).                              *)
(***************************************************************************)
THEOREM TypeCorrect == Spec => []TypeOK
<1>1. IInv => TypeOK
      BY DEF IInv
<1> QED BY <1>1, InitIInv, NextIInv, PTL DEF Spec

(***************************************************************************)
(* The loop never waits with a client's connection open or its socket      *)
(* registered, whatever the number of clients (server_mac.c:192-244).      *)
(***************************************************************************)
THEOREM NeverWaitsForClients == Spec => []WaitsForNobody
<1>1. IInv => WaitsForNobody
      BY DEF IInv, OnlyCurIsOpen, WaitsForNobody, Stopped
<1> QED BY <1>1, InitIInv, NextIInv, PTL DEF Spec

(***************************************************************************)
(* A page that fits into the socket buffer reaches every client that stays *)
(* whole and in order, for every page and buffer size (server_mac.c:88-99).*)
(***************************************************************************)
THEOREM SmallPagesAreSent == Spec => []SmallPageSent
<1>1. IInv => SmallPageSent
      BY DEF IInv, SentSoFar, Fits, SmallPageSent, ContentSent
<1> QED BY <1>1, InitIInv, NextIInv, PTL DEF Spec

-----------------------------------------------------------------------------
(* One at a time *)

\* The next client can be taken, since none is served while the loop accepts.
LEMMA AcceptTakes ==
    ASSUME TypeOK, OnlyCurIsOpen, ~Stopped, NEW c \in Clients, Accept(c)
    PROVE  Abstract!Take(c)
<1>1. \A d \in Clients : conn[d] # "open"
      BY DEF Accept, OnlyCurIsOpen
<1>2. conn[c] = "queued" /\ conn' = [conn EXCEPT ![c] = "open"]
      BY DEF Accept, Waiting
<1> QED BY <1>1, <1>2 DEF TypeOK, Waiting, Abstract!Take

\* What is closed is all that was served.
LEMMA ClosePageFinishes ==
    ASSUME TypeOK, OnlyCurIsOpen, ~Stopped, ClosePage, NEW c \in Clients, c = cur
    PROVE  Abstract!Finish(c)
<1>1. \A d \in Clients : conn[d] = "open" <=> d = c
      BY DEF ClosePage, OnlyCurIsOpen, TypeOK
<1>2. conn' = [conn EXCEPT ![c] = "closed"]
      BY DEF ClosePage
<1> QED BY <1>1, <1>2 DEF TypeOK, Waiting, Abstract!Finish

LEMMA StepImplements == IInv /\ [Next]_vars => [Abstract!Next]_(Abstract!vars)
<1> SUFFICES ASSUME IInv, [Next]_vars PROVE Abstract!Next \/ UNCHANGED Abstract!vars
    OBVIOUS
<1>1. TypeOK /\ OnlyCurIsOpen
      BY DEF IInv
<1>2. CASE conn' = conn
      BY <1>2 DEF Abstract!vars, Waiting
<1>3. ASSUME NEW c \in Clients, Connect(c) PROVE Abstract!Arrive(c)
      BY <1>1, <1>3 DEF TypeOK, Connect, Waiting, Abstract!Arrive
<1>4. CASE conn' # conn
  <2>1. ~Stopped
        BY <1>4 DEF Next, vars
  <2>2. PICK c \in Clients : Connect(c) \/ Accept(c) \/ (ClosePage /\ c = cur)
        BY <1>1, <1>4 DEF Next, vars, net, Server, Client, Drain, Leave, Wait, AcceptFails,
              OpenPage, SendPiece, Register, Sigint, TypeOK
  <2>3. Abstract!Arrive(c) \/ Abstract!Take(c) \/ Abstract!Finish(c)
    <3>1. CASE Connect(c)
          BY <1>3, <3>1
    <3>2. CASE Accept(c)
          BY <1>1, <2>1, <3>2, AcceptTakes
    <3>3. CASE ClosePage /\ c = cur
          BY <1>1, <2>1, <3>3, ClosePageFinishes
    <3> QED BY <2>2, <3>1, <3>2, <3>3
  <2> QED BY <2>3 DEF Abstract!Next
<1> QED BY <1>2, <1>4

(***************************************************************************)
(* The server implements OneAtATime: for every number of clients, each is  *)
(* taken, answered and closed before the next (server_mac.c:164-211).      *)
(***************************************************************************)
THEOREM Implements == Spec => ServesOneAtATime
<1>1. Init => Abstract!Init
      BY DEF Init, Waiting, Abstract!Init
<1> QED BY <1>1, InitIInv, NextIInv, StepImplements, PTL DEF Spec, ServesOneAtATime, Abstract!Spec
=============================================================================
