---------------------------- MODULE SetUpProofs ----------------------------
(***************************************************************************)
(* The set-up and tear-down of every program, for names with any number of *)
(* addresses, and the service behind the set-up of the sequential server:  *)
(* first what each ladder is like by itself, entry by entry, then what     *)
(* follows for a program that climbs it and fails anywhere.                *)
(***************************************************************************)
EXTENDS MCFormServer, FormServerProofs, Integers, Sequences

Ladder == Up!Ladder

\* What the entries before the k-th have got and dropped.
Got(ladder, k) == UNION {ladder[j].gets : j \in 1 .. k - 1}
Dropped(ladder, k) == UNION {Up!WithStates(ladder[j].drops) : j \in 1 .. k - 1}

-----------------------------------------------------------------------------
(* The entries *)

LEMMA CallOf ==
    /\ \A call, uses, gets, undo : Up!Checked(call, uses, gets, undo).call = call
    /\ \A call, uses, gets : Up!Unchecked(call, uses, gets).call = call
    /\ \A call, uses, gets, undo : Up!PerAddress(call, uses, gets, undo).call = call
    /\ \A call, uses : Up!Plain(call, uses).call = call
    /\ \A call, drops : Up!Release(call, drops).call = call
    /\ \A uses : Up!Loop(uses).call = "loop"
    /\ \A call, uses, gets, skip : Up!Skipping(call, uses, gets, skip).call = call
    /\ \A uses, undo : Up!EndlessLoop(uses, undo).call = "loop"
BY DEF Up!Checked, Up!Unchecked, Up!PerAddress, Up!Plain,
       Up!Release, Up!Loop, Up!Skipping, Up!EndlessLoop, Up!Entry

LEMMA UsesOf ==
    /\ \A call, uses, gets, undo : Up!Checked(call, uses, gets, undo).uses = uses
    /\ \A call, uses, gets : Up!Unchecked(call, uses, gets).uses = uses
    /\ \A call, uses, gets, undo : Up!PerAddress(call, uses, gets, undo).uses = uses
    /\ \A call, uses : Up!Plain(call, uses).uses = uses
    /\ \A call, drops : Up!Release(call, drops).uses = {}
    /\ \A uses : Up!Loop(uses).uses = uses
    /\ \A call, uses, gets, skip : Up!Skipping(call, uses, gets, skip).uses = uses
    /\ \A uses, undo : Up!EndlessLoop(uses, undo).uses = uses
BY DEF Up!Checked, Up!Unchecked, Up!PerAddress, Up!Plain,
       Up!Release, Up!Loop, Up!Skipping, Up!EndlessLoop, Up!Entry

LEMMA GetsOf ==
    /\ \A call, uses, gets, undo : Up!Checked(call, uses, gets, undo).gets = gets
    /\ \A call, uses, gets : Up!Unchecked(call, uses, gets).gets = gets
    /\ \A call, uses, gets, undo : Up!PerAddress(call, uses, gets, undo).gets = gets
    /\ \A call, uses : Up!Plain(call, uses).gets = {}
    /\ \A call, drops : Up!Release(call, drops).gets = {}
    /\ \A uses : Up!Loop(uses).gets = {}
    /\ \A call, uses, gets, skip : Up!Skipping(call, uses, gets, skip).gets = gets
    /\ \A uses, undo : Up!EndlessLoop(uses, undo).gets = {}
BY DEF Up!Checked, Up!Unchecked, Up!PerAddress, Up!Plain,
       Up!Release, Up!Loop, Up!Skipping, Up!EndlessLoop, Up!Entry

LEMMA DropsOf ==
    /\ \A call, uses, gets, undo : Up!Checked(call, uses, gets, undo).drops = {}
    /\ \A call, uses, gets : Up!Unchecked(call, uses, gets).drops = {}
    /\ \A call, uses, gets, undo : Up!PerAddress(call, uses, gets, undo).drops = {}
    /\ \A call, uses : Up!Plain(call, uses).drops = {}
    /\ \A call, drops : Up!Release(call, drops).drops = drops
    /\ \A uses : Up!Loop(uses).drops = {}
    /\ \A call, uses, gets, skip : Up!Skipping(call, uses, gets, skip).drops = {}
    /\ \A uses, undo : Up!EndlessLoop(uses, undo).drops = {}
BY DEF Up!Checked, Up!Unchecked, Up!PerAddress, Up!Plain,
       Up!Release, Up!Loop, Up!Skipping, Up!EndlessLoop, Up!Entry

LEMMA FailsOf ==
    /\ \A call, uses, gets, undo : Up!Checked(call, uses, gets, undo).fails = "exit"
    /\ \A call, uses, gets : Up!Unchecked(call, uses, gets).fails = "ignored"
    /\ \A call, uses, gets, undo : Up!PerAddress(call, uses, gets, undo).fails = "next"
    /\ \A call, uses : Up!Plain(call, uses).fails = "never"
    /\ \A call, drops : Up!Release(call, drops).fails = "never"
    /\ \A uses : Up!Loop(uses).fails = "never"
    /\ \A call, uses, gets, skip : Up!Skipping(call, uses, gets, skip).fails = "skips"
    /\ \A uses, undo : Up!EndlessLoop(uses, undo).fails = "exit"
BY DEF Up!Checked, Up!Unchecked, Up!PerAddress, Up!Plain,
       Up!Release, Up!Loop, Up!Skipping, Up!EndlessLoop, Up!Entry

LEMMA UndoOf ==
    /\ \A call, uses, gets, undo : Up!Checked(call, uses, gets, undo).undo = undo
    /\ \A call, uses, gets : Up!Unchecked(call, uses, gets).undo = {}
    /\ \A call, uses, gets, undo : Up!PerAddress(call, uses, gets, undo).undo = undo
    /\ \A call, uses : Up!Plain(call, uses).undo = {}
    /\ \A call, drops : Up!Release(call, drops).undo = {}
    /\ \A uses : Up!Loop(uses).undo = {}
    /\ \A call, uses, gets, skip : Up!Skipping(call, uses, gets, skip).undo = {}
    /\ \A uses, undo : Up!EndlessLoop(uses, undo).undo = undo
BY DEF Up!Checked, Up!Unchecked, Up!PerAddress, Up!Plain,
       Up!Release, Up!Loop, Up!Skipping, Up!EndlessLoop, Up!Entry

LEMMA SkipOf ==
    /\ \A call, uses, gets, undo : Up!Checked(call, uses, gets, undo).skip = 0
    /\ \A call, uses, gets : Up!Unchecked(call, uses, gets).skip = 0
    /\ \A call, uses, gets, undo : Up!PerAddress(call, uses, gets, undo).skip = 0
    /\ \A call, uses : Up!Plain(call, uses).skip = 0
    /\ \A call, drops : Up!Release(call, drops).skip = 0
    /\ \A uses : Up!Loop(uses).skip = 0
    /\ \A call, uses, gets, skip : Up!Skipping(call, uses, gets, skip).skip = skip
    /\ \A uses, undo : Up!EndlessLoop(uses, undo).skip = 0
BY DEF Up!Checked, Up!Unchecked, Up!PerAddress, Up!Plain,
       Up!Release, Up!Loop, Up!Skipping, Up!EndlessLoop, Up!Entry

-----------------------------------------------------------------------------
(* The ladders *)

\* A call that gets something drops nothing, and only one that should have
\* got something makes the program skip others.
Shaped(ladder) ==
    /\ Len(ladder) \in Nat \ {0} /\ DOMAIN ladder = 1 .. Len(ladder)
    /\ \A k \in 1 .. Len(ladder) : ladder[k].drops # {} => ladder[k].gets = {}

Skips(ladder) ==
    \A k \in 1 .. Len(ladder) :
        ladder[k].fails \in {"ignored", "skips"} =>
            \/ ladder[k].skip = 0
            \/ /\ ladder[k].skip \in Nat /\ k + ladder[k].skip <= Len(ladder)
               /\ ladder[k].gets # {}

\* What a call uses, an earlier one should have got.
Acquires(ladder) ==
    \A k \in 1 .. Len(ladder) : ladder[k].uses \subseteq Got(ladder, k)

\* What a call uses or releases, no earlier one has dropped.
Apart(ladder) ==
    \A k \in 1 .. Len(ladder) :
        (ladder[k].uses \cup ladder[k].drops \cup ladder[k].undo) \cap Dropped(ladder, k) = {}

NoAddresses(ladder) == \A k \in 1 .. Len(ladder) : ladder[k].fails # "next"

Sound(ladder) ==
    Shaped(ladder) /\ Skips(ladder) /\ Acquires(ladder) /\ Apart(ladder) /\ NoAddresses(ladder)

LEMMA HttpSound == Sound(Up!Http)
<1> DEFINE ladder == Up!Http
<1>1. Shaped(ladder) /\ Acquires(ladder) /\ Apart(ladder)
  BY UsesOf, GetsOf, UndoOf, DropsOf
  DEF Shaped, Acquires, Apart, Got, Dropped, Up!WithStates, Up!Http
<1>2. Skips(ladder) /\ NoAddresses(ladder)
  BY FailsOf, SkipOf, GetsOf DEF Skips, NoAddresses, Up!Http
<1> QED
  BY <1>1, <1>2 DEF Sound

LEMMA SseSound == Sound(Up!Sse)
<1> DEFINE ladder == Up!Sse
<1>1. Shaped(ladder) /\ Acquires(ladder) /\ Apart(ladder)
  BY UsesOf, GetsOf, UndoOf, DropsOf
  DEF Shaped, Acquires, Apart, Got, Dropped, Up!WithStates, Up!Sse
<1>2. Skips(ladder) /\ NoAddresses(ladder)
  BY FailsOf, SkipOf, GetsOf DEF Skips, NoAddresses, Up!Sse
<1> QED
  BY <1>1, <1>2 DEF Sound

LEMMA UvvSound == Sound(Up!Uvv)
<1> DEFINE ladder == Up!Uvv
<1>1. Shaped(ladder) /\ Acquires(ladder) /\ Apart(ladder)
  BY UsesOf, GetsOf, UndoOf, DropsOf
  DEF Shaped, Acquires, Apart, Got, Dropped, Up!WithStates, Up!Uvv
<1>2. Skips(ladder) /\ NoAddresses(ladder)
  BY FailsOf, SkipOf, GetsOf DEF Skips, NoAddresses, Up!Uvv
<1> QED
  BY <1>1, <1>2 DEF Sound

LEMMA Sse3Sound == Sound(Up!Sse3 \o Up!Sse3Talk)
<1> DEFINE ladder == Up!Sse3 \o Up!Sse3Talk
<1>1. Shaped(ladder) /\ Acquires(ladder) /\ Apart(ladder)
  BY UsesOf, GetsOf, UndoOf, DropsOf
  DEF Shaped, Acquires, Apart, Got, Dropped, Up!WithStates, Up!Sse3, Up!Sse3Talk
<1>2. Skips(ladder) /\ NoAddresses(ladder)
  BY FailsOf, SkipOf, GetsOf DEF Skips, NoAddresses, Up!Sse3, Up!Sse3Talk
<1> QED
  BY <1>1, <1>2 DEF Sound

LEMMA Test2Sound == Sound(Up!Test2)
<1> DEFINE ladder == Up!Test2
<1>1. Shaped(ladder) /\ Acquires(ladder) /\ Apart(ladder)
  BY UsesOf, GetsOf, UndoOf, DropsOf
  DEF Shaped, Acquires, Apart, Got, Dropped, Up!WithStates, Up!Test2
<1>2. Skips(ladder) /\ NoAddresses(ladder)
  BY FailsOf, SkipOf, GetsOf DEF Skips, NoAddresses, Up!Test2
<1> QED
  BY <1>1, <1>2 DEF Sound

LEMMA Test3Sound == Sound(Up!Test3)
<1> DEFINE ladder == Up!Test3
<1>1. Shaped(ladder) /\ Acquires(ladder) /\ Apart(ladder)
  BY UsesOf, GetsOf, UndoOf, DropsOf
  DEF Shaped, Acquires, Apart, Got, Dropped, Up!WithStates, Up!Test3
<1>2. Skips(ladder) /\ NoAddresses(ladder)
  BY FailsOf, SkipOf, GetsOf DEF Skips, NoAddresses, Up!Test3
<1> QED
  BY <1>1, <1>2 DEF Sound

LEMMA WebServerSound == Sound(Up!WebServer)
<1> DEFINE ladder == Up!WebServer
<1>1. Shaped(ladder) /\ Acquires(ladder) /\ Apart(ladder)
  BY UsesOf, GetsOf, UndoOf, DropsOf
  DEF Shaped, Acquires, Apart, Got, Dropped, Up!WithStates, Up!WebServer
<1>2. Skips(ladder) /\ NoAddresses(ladder)
  BY FailsOf, SkipOf, GetsOf DEF Skips, NoAddresses, Up!WebServer
<1> QED
  BY <1>1, <1>2 DEF Sound

LEMMA PollServerSound == Sound(Up!PollServer)
<1> DEFINE ladder == Up!PollServer
<1>1. Shaped(ladder) /\ Acquires(ladder) /\ Apart(ladder)
  BY UsesOf, GetsOf, UndoOf, DropsOf
  DEF Shaped, Acquires, Apart, Got, Dropped, Up!WithStates, Up!PollServer
<1>2. Skips(ladder) /\ NoAddresses(ladder)
  BY FailsOf, SkipOf, GetsOf DEF Skips, NoAddresses, Up!PollServer
<1> QED
  BY <1>1, <1>2 DEF Sound

LEMMA ThreadServerSound == Sound(Up!ThreadServer)
<1> DEFINE ladder == Up!ThreadServer
<1>1. Shaped(ladder) /\ Acquires(ladder) /\ Apart(ladder)
  BY UsesOf, GetsOf, UndoOf, DropsOf
  DEF Shaped, Acquires, Apart, Got, Dropped, Up!WithStates, Up!ThreadServer
<1>2. Skips(ladder) /\ NoAddresses(ladder)
  BY FailsOf, SkipOf, GetsOf DEF Skips, NoAddresses, Up!ThreadServer
<1> QED
  BY <1>1, <1>2 DEF Sound

LEMMA KqueueSound == Sound(Up!KqueueServer(FALSE))
<1> DEFINE ladder == Up!KqueueServer(FALSE)
<1>1. Shaped(ladder) /\ Acquires(ladder) /\ Apart(ladder)
  BY UsesOf, GetsOf, UndoOf, DropsOf
  DEF Shaped, Acquires, Apart, Got, Dropped, Up!WithStates, Up!KqueueServer, Up!Reported
<1>2. Skips(ladder) /\ NoAddresses(ladder)
  BY FailsOf, SkipOf, GetsOf DEF Skips, NoAddresses, Up!KqueueServer, Up!Reported
<1> QED
  BY <1>1, <1>2 DEF Sound

LEMMA KqueueDebugSound == Sound(Up!KqueueServer(TRUE))
<1> DEFINE ladder == Up!KqueueServer(TRUE)
<1>1. Shaped(ladder) /\ Acquires(ladder) /\ Apart(ladder)
  BY UsesOf, GetsOf, UndoOf, DropsOf
  DEF Shaped, Acquires, Apart, Got, Dropped, Up!WithStates, Up!KqueueServer, Up!Reported
<1>2. Skips(ladder) /\ NoAddresses(ladder)
  BY FailsOf, SkipOf, GetsOf DEF Skips, NoAddresses, Up!KqueueServer, Up!Reported
<1> QED
  BY <1>1, <1>2 DEF Sound

LEMMA MacSound == Sound(Up!MacServer(FALSE))
<1> DEFINE ladder == Up!MacServer(FALSE)
<1>1. Shaped(ladder) /\ Acquires(ladder) /\ Apart(ladder)
  BY UsesOf, GetsOf, UndoOf, DropsOf
  DEF Shaped, Acquires, Apart, Got, Dropped, Up!WithStates, Up!MacServer, Up!KqueueServer, Up!Reported
<1>2. Skips(ladder) /\ NoAddresses(ladder)
  BY FailsOf, SkipOf, GetsOf DEF Skips, NoAddresses, Up!MacServer, Up!KqueueServer, Up!Reported
<1> QED
  BY <1>1, <1>2 DEF Sound

LEMMA MacDebugSound == Sound(Up!MacServer(TRUE))
<1> DEFINE ladder == Up!MacServer(TRUE)
<1>1. Shaped(ladder) /\ Acquires(ladder) /\ Apart(ladder)
  BY UsesOf, GetsOf, UndoOf, DropsOf
  DEF Shaped, Acquires, Apart, Got, Dropped, Up!WithStates, Up!MacServer, Up!KqueueServer, Up!Reported
<1>2. Skips(ladder) /\ NoAddresses(ladder)
  BY FailsOf, SkipOf, GetsOf DEF Skips, NoAddresses, Up!MacServer, Up!KqueueServer, Up!Reported
<1> QED
  BY <1>1, <1>2 DEF Sound

LEMMA Sse3OkSound == Sound(Up!Sse3Ok(FALSE) \o Up!Sse3OkTalk(FALSE))
<1> DEFINE ladder == Up!Sse3Ok(FALSE) \o Up!Sse3OkTalk(FALSE)
<1>1. Shaped(ladder) /\ Acquires(ladder) /\ Apart(ladder)
  BY UsesOf, GetsOf, UndoOf, DropsOf
  DEF Shaped, Acquires, Apart, Got, Dropped, Up!WithStates, Up!Sse3Ok, Up!Sse3OkTalk, Up!On
<1>2. Skips(ladder) /\ NoAddresses(ladder)
  BY FailsOf, SkipOf, GetsOf DEF Skips, NoAddresses, Up!Sse3Ok, Up!Sse3OkTalk, Up!On
<1> QED
  BY <1>1, <1>2 DEF Sound

LEMMA Sse3OkWindowsSound == Sound(Up!Sse3Ok(TRUE) \o Up!Sse3OkTalk(TRUE))
<1> DEFINE ladder == Up!Sse3Ok(TRUE) \o Up!Sse3OkTalk(TRUE)
<1>1. Shaped(ladder) /\ Acquires(ladder) /\ Apart(ladder)
  <2>1. Shaped(ladder)
    BY GetsOf, DropsOf DEF Shaped, Up!Sse3Ok, Up!Sse3OkTalk, Up!On
  <2>2. Acquires(ladder)
    BY UsesOf, GetsOf DEF Acquires, Got, Up!Sse3Ok, Up!Sse3OkTalk, Up!On
  <2>3. Apart(ladder)
    BY UsesOf, UndoOf, DropsOf
    DEF Apart, Dropped, Up!WithStates, Up!Sse3Ok, Up!Sse3OkTalk, Up!On
  <2> QED
    BY <2>1, <2>2, <2>3
<1>2. Skips(ladder) /\ NoAddresses(ladder)
  BY FailsOf, SkipOf, GetsOf DEF Skips, NoAddresses, Up!Sse3Ok, Up!Sse3OkTalk, Up!On
<1> QED
  BY <1>1, <1>2 DEF Sound

\* sse1.c uses Winsock without WSAStartup(), and goes from one address to the
\* next, back to the second entry.
LEMMA Sse1Ladder ==
    /\ Shaped(Up!Sse1) /\ Skips(Up!Sse1) /\ Apart(Up!Sse1)
    /\ \A k \in 1 .. Len(Up!Sse1) : Up!Sse1[k].fails = "next" => k \in {2, 3}
<1>1. Shaped(Up!Sse1) /\ Apart(Up!Sse1)
  BY UsesOf, GetsOf, UndoOf, DropsOf DEF Shaped, Apart, Dropped, Up!WithStates, Up!Sse1
<1>2. Skips(Up!Sse1)
  BY FailsOf, SkipOf, GetsOf DEF Skips, Up!Sse1
<1>3. \A k \in 1 .. Len(Up!Sse1) : Up!Sse1[k].fails = "next" => k \in {2, 3}
  BY FailsOf DEF Up!Sse1
<1> QED
  BY <1>1, <1>2, <1>3

LEMMA Sse1Again ==
    /\ (CHOOSE k \in DOMAIN Up!Sse1 : Up!Sse1[k].call = "socket") = 2
    /\ \A k \in {2, 3} : Dropped(Up!Sse1, k) = {} /\ Up!Sse1[k].undo = {}
    /\ Len(Up!Sse1) = 6
<1>1. \A k \in DOMAIN Up!Sse1 : Up!Sse1[k].call = "socket" <=> k = 2
  BY CallOf DEF Up!Sse1
<1>2. 2 \in DOMAIN Up!Sse1 /\ Len(Up!Sse1) = 6
  BY DEF Up!Sse1
<1>3. \A k \in {2, 3} : Dropped(Up!Sse1, k) = {}
  BY DropsOf DEF Dropped, Up!WithStates, Up!Sse1
<1>4. Up!Sse1[2].undo = {} /\ Up!Sse1[3].undo = {}
  BY UndoOf DEF Up!Sse1
<1> QED
  BY <1>1, <1>2, <1>3, <1>4

\* simple/ssl_read.c too, back to the fourth.
LEMMA GetMetaLadder ==
    /\ Shaped(Up!GetMeta) /\ Skips(Up!GetMeta) /\ Acquires(Up!GetMeta) /\ Apart(Up!GetMeta)
    /\ \A k \in 1 .. Len(Up!GetMeta) : Up!GetMeta[k].fails = "next" => k \in {4, 5}
<1>1. Shaped(Up!GetMeta) /\ Acquires(Up!GetMeta) /\ Apart(Up!GetMeta)
  BY UsesOf, GetsOf, UndoOf, DropsOf
  DEF Shaped, Acquires, Apart, Got, Dropped, Up!WithStates, Up!GetMeta
<1>2. Skips(Up!GetMeta)
  BY FailsOf, SkipOf, GetsOf DEF Skips, Up!GetMeta
<1>3. \A k \in 1 .. Len(Up!GetMeta) : Up!GetMeta[k].fails = "next" => k \in {4, 5}
  BY FailsOf DEF Up!GetMeta
<1> QED
  BY <1>1, <1>2, <1>3

LEMMA GetMetaAgain ==
    /\ (CHOOSE k \in DOMAIN Up!GetMeta : Up!GetMeta[k].call = "socket") = 4
    /\ \A k \in {4, 5} : Dropped(Up!GetMeta, k) = {}
    /\ Got(Up!GetMeta, 5) = Got(Up!GetMeta, 4) \cup {"sock"}
    /\ Got(Up!GetMeta, 4) = {"ctx", "addrs"}
    /\ LET socket == Up!GetMeta[4]
       IN  /\ socket.gets = {"sock"} /\ socket.drops = {} /\ socket.undo = {}
           /\ socket.uses = {"addrs"} /\ socket.fails = "next"
    /\ Up!GetMeta[5].undo = {"sock"} /\ Up!GetMeta[5].fails = "next"
    /\ Len(Up!GetMeta) = 11
<1>1. \A k \in DOMAIN Up!GetMeta : Up!GetMeta[k].call = "socket" <=> k = 4
  BY CallOf DEF Up!GetMeta
<1>2. 4 \in DOMAIN Up!GetMeta /\ Len(Up!GetMeta) = 11
  BY DEF Up!GetMeta
<1>3. \A k \in {4, 5} : Dropped(Up!GetMeta, k) = {}
  BY DropsOf DEF Dropped, Up!WithStates, Up!GetMeta
<1>4. Got(Up!GetMeta, 4) = {"ctx", "addrs"} /\ Got(Up!GetMeta, 5) = {"ctx", "addrs", "sock"}
  BY GetsOf DEF Got, Up!GetMeta
<1>5. LET socket == Up!GetMeta[4]
      IN  /\ socket.gets = {"sock"} /\ socket.drops = {} /\ socket.undo = {}
          /\ socket.uses = {"addrs"}
  BY UsesOf, GetsOf, DropsOf, UndoOf DEF Up!GetMeta
<1>6. Up!GetMeta[5].undo = {"sock"}
  BY UndoOf DEF Up!GetMeta
<1>7. Up!GetMeta[4].fails = "next" /\ Up!GetMeta[5].fails = "next"
  BY FailsOf DEF Up!GetMeta
<1>8. (CHOOSE k \in DOMAIN Up!GetMeta : Up!GetMeta[k].call = "socket") = 4
  BY <1>1, <1>2
<1> QED
  BY <1>2, <1>3, <1>4, <1>5, <1>6, <1>7, <1>8

\* sse2.c and simple/ep.c use what they have dropped.
LEMMA Sse2Ladder ==
    Shaped(Up!Sse2) /\ Skips(Up!Sse2) /\ Acquires(Up!Sse2) /\ NoAddresses(Up!Sse2)
<1>1. Shaped(Up!Sse2) /\ Acquires(Up!Sse2)
  BY UsesOf, GetsOf, DropsOf DEF Shaped, Acquires, Got, Up!Sse2
<1>2. Skips(Up!Sse2) /\ NoAddresses(Up!Sse2)
  BY FailsOf, SkipOf, GetsOf DEF Skips, NoAddresses, Up!Sse2
<1> QED
  BY <1>1, <1>2

LEMMA EpLadder ==
    Shaped(Up!Ep) /\ Skips(Up!Ep) /\ Acquires(Up!Ep) /\ NoAddresses(Up!Ep)
<1>1. Shaped(Up!Ep) /\ Acquires(Up!Ep)
  BY UsesOf, GetsOf, DropsOf DEF Shaped, Acquires, Got, Up!Ep
<1>2. Skips(Up!Ep) /\ NoAddresses(Up!Ep)
  BY FailsOf, SkipOf, GetsOf DEF Skips, NoAddresses, Up!Ep
<1> QED
  BY <1>1, <1>2

-----------------------------------------------------------------------------
(* The ladder of the program that runs *)

Constants == prog \in Up!Programs /\ windows \in BOOLEAN /\ debug \in BOOLEAN

Looping == {"sse1", "ssl_read"}
Careless == {"sse2", "ep"}

LEMMA LadderOf ==
    /\ prog = "http" => Ladder = Up!Http
    /\ prog = "sse" => Ladder = Up!Sse
    /\ prog = "sse1" => Ladder = Up!Sse1
    /\ prog = "sse2" => Ladder = Up!Sse2
    /\ prog = "ep" => Ladder = Up!Ep
    /\ prog = "uvv" => Ladder = Up!Uvv
    /\ prog = "SSE3" => Ladder = Up!Sse3 \o Up!Sse3Talk
    /\ prog = "SSE3_ok" => Ladder = Up!Sse3Ok(windows) \o Up!Sse3OkTalk(windows)
    /\ prog = "ssl_read" => Ladder = Up!GetMeta
    /\ prog = "test2" => Ladder = Up!Test2
    /\ prog = "test3" => Ladder = Up!Test3
    /\ prog \in {"server", "win"} => Ladder = Up!WebServer
    /\ prog = "kqueue" => Ladder = Up!KqueueServer(debug)
    /\ prog = "mac" => Ladder = Up!MacServer(debug)
    /\ prog = "poll" => Ladder = Up!PollServer
    /\ prog \in {"thread", "pool"} => Ladder = Up!ThreadServer
BY DEF Ladder, Up!Ladder, Up!WinServer, Up!PoolServer

LEMMA LadderFacts ==
    ASSUME Constants
    PROVE  /\ Shaped(Ladder) /\ Skips(Ladder)
           /\ prog # "sse1" => Acquires(Ladder)
           /\ prog \notin Careless => Apart(Ladder)
           /\ prog \notin Looping => NoAddresses(Ladder)
<1>1. CASE prog \in {"http", "sse", "uvv", "SSE3", "test2", "test3", "server", "win", "poll",
                     "thread", "pool"}
  <2>1. Sound(Ladder)
    BY <1>1, LadderOf, HttpSound, SseSound, UvvSound, Sse3Sound, Test2Sound, Test3Sound,
       WebServerSound, PollServerSound, ThreadServerSound
  <2> QED
    BY <2>1 DEF Sound
<1>2. CASE prog \in {"SSE3_ok", "kqueue", "mac"}
  <2>1. Sound(Ladder)
    <3>1. (windows = TRUE \/ windows = FALSE) /\ (debug = TRUE \/ debug = FALSE)
      BY DEF Constants
    <3>2. CASE prog = "SSE3_ok"
      BY <3>1, <3>2, LadderOf, Sse3OkSound, Sse3OkWindowsSound
    <3>3. CASE prog = "kqueue"
      BY <3>1, <3>3, LadderOf, KqueueSound, KqueueDebugSound
    <3>4. CASE prog = "mac"
      BY <3>1, <3>4, LadderOf, MacSound, MacDebugSound
    <3> QED
      BY <1>2, <3>2, <3>3, <3>4
  <2> QED
    BY <2>1 DEF Sound
<1>3. CASE prog \in {"sse1", "ssl_read"}
  BY <1>3, LadderOf, Sse1Ladder, GetMetaLadder DEF Looping, Careless
<1>4. CASE prog \in {"sse2", "ep"}
  BY <1>4, LadderOf, Sse2Ladder, EpLadder DEF Looping, Careless
<1> QED
  BY <1>1, <1>2, <1>3, <1>4 DEF Constants, Up!Programs

\* One entry further on.
LEMMA OneFurther ==
    ASSUME NEW ladder, NEW k \in Nat \ {0}
    PROVE  /\ Got(ladder, k + 1) = Got(ladder, k) \cup ladder[k].gets
           /\ Dropped(ladder, k + 1) = Dropped(ladder, k) \cup Up!WithStates(ladder[k].drops)
<1>1. \A j : j \in 1 .. (k + 1) - 1 <=> j \in 1 .. k - 1 \/ j = k
  OBVIOUS
<1>2. ASSUME NEW t PROVE t \in Got(ladder, k + 1) <=> t \in Got(ladder, k) \/ t \in ladder[k].gets
  BY <1>1 DEF Got
<1>3. ASSUME NEW t
      PROVE  t \in Dropped(ladder, k + 1)
               <=> t \in Dropped(ladder, k) \/ t \in Up!WithStates(ladder[k].drops)
  BY <1>1 DEF Dropped
<1> QED
  BY <1>2, <1>3

LEMMA Further ==
    ASSUME NEW ladder, NEW j \in Nat, NEW k \in Nat, j <= k
    PROVE  Got(ladder, j) \subseteq Got(ladder, k) /\ Dropped(ladder, j) \subseteq Dropped(ladder, k)
<1>1. 1 .. j - 1 \subseteq 1 .. k - 1
  OBVIOUS
<1> QED
  BY <1>1 DEF Got, Dropped


-----------------------------------------------------------------------------
(* Error exits *)

\* An error exit at the k-th entry gives back all there may be.
UndoneAt(ladder, k) == Got(ladder, k) \subseteq Up!WithStates(ladder[k].undo)

TlsCalls == {"SSL_CTX_new", "SSL_new", "SSL_set_fd", "SSL_connect"}

LEMMA HttpUndone ==
    \A k \in 1 .. Len(Up!Http) : Up!Http[k].fails = "exit" => UndoneAt(Up!Http, k)
BY FailsOf, GetsOf, UndoOf DEF UndoneAt, Got, Up!WithStates, Up!Http

\* Nor is there a call that nobody looks at.
LEMMA WebServerUndone ==
    \A k \in 1 .. Len(Up!WebServer) :
        Up!WebServer[k].fails = "exit" /\ UndoneAt(Up!WebServer, k)
BY FailsOf, GetsOf, UndoOf DEF UndoneAt, Got, Up!WithStates, Up!WebServer

LEMMA Sse3Undone ==
    LET ladder == Up!Sse3 \o Up!Sse3Talk
    IN  \A k \in 1 .. Len(ladder) :
            ladder[k].fails = "exit" /\ ladder[k].call \in TlsCalls => UndoneAt(ladder, k)
BY CallOf, FailsOf, GetsOf, UndoOf
   DEF UndoneAt, TlsCalls, Got, Up!WithStates, Up!Sse3, Up!Sse3Talk

LEMMA Sse3OkUndone ==
    LET ladder == Up!Sse3Ok(FALSE) \o Up!Sse3OkTalk(FALSE)
    IN  \A k \in 1 .. Len(ladder) :
            ladder[k].fails = "exit" /\ ladder[k].call \in TlsCalls => UndoneAt(ladder, k)
BY CallOf, FailsOf, GetsOf, UndoOf
   DEF UndoneAt, TlsCalls, Got, Up!WithStates, Up!Sse3Ok, Up!Sse3OkTalk, Up!On

LEMMA Sse3OkWindowsUndone ==
    LET ladder == Up!Sse3Ok(TRUE) \o Up!Sse3OkTalk(TRUE)
    IN  \A k \in 1 .. Len(ladder) :
            ladder[k].fails = "exit" /\ ladder[k].call \in TlsCalls => UndoneAt(ladder, k)
BY CallOf, FailsOf, GetsOf, UndoOf
   DEF UndoneAt, TlsCalls, Got, Up!WithStates, Up!Sse3Ok, Up!Sse3OkTalk, Up!On

LEMMA UndoFits ==
    ASSUME Constants, entry \in 1 .. Len(Ladder), Ladder[entry].fails = "exit",
           \/ prog \in {"http", "server", "win"}
           \/ prog \in {"SSE3", "SSE3_ok"} /\ Ladder[entry].call \in TlsCalls
    PROVE  UndoneAt(Ladder, entry)
<1>1. windows = TRUE \/ windows = FALSE
  BY DEF Constants
<1>2. CASE prog = "http"
  BY <1>2, LadderOf, HttpUndone
<1>3. CASE prog \in {"server", "win"}
  BY <1>3, LadderOf, WebServerUndone
<1>4. CASE prog = "SSE3" /\ Ladder[entry].call \in TlsCalls
  BY <1>4, LadderOf, Sse3Undone
<1>5. CASE prog = "SSE3_ok" /\ windows = TRUE /\ Ladder[entry].call \in TlsCalls
  BY <1>5, LadderOf, Sse3OkWindowsUndone
<1>6. CASE prog = "SSE3_ok" /\ windows = FALSE /\ Ladder[entry].call \in TlsCalls
  BY <1>6, LadderOf, Sse3OkUndone
<1> QED
  BY <1>1, <1>2, <1>3, <1>4, <1>5, <1>6

-----------------------------------------------------------------------------
(***************************************************************************)
(* The inductive invariant.  As long as nothing is broken, what the        *)
(* entries behind should have got is held or released; what is held they   *)
(* have got, except that sse1.c keeps the socket of an address that        *)
(* failed; and while the program runs, what has been released they have    *)
(* dropped, except that simple/ssl_read.c is back at socket() after an     *)
(* address that failed.                                                    *)
(***************************************************************************)
Provided == broken = {} => Got(Ladder, entry) \subseteq held \cup released

NotMore == prog # "sse1" => held \subseteq Got(Ladder, entry)

Again == IF prog = "ssl_read" /\ entry = 4 THEN {"sock"} ELSE {}

GivenBack ==
    state = "up" /\ prog \notin Careless => released \subseteq Dropped(Ladder, entry) \cup Again

ServerWhole == prog = "server" => broken = {}

RunInv == /\ Constants /\ Up!TypeOK /\ ServerWhole
          /\ Provided /\ NotMore /\ GivenBack
          /\ Up!UsesWhatItHolds /\ Up!UndoIsComplete

-----------------------------------------------------------------------------
(* The steps of the set-up *)

LEMMA InitRunInv == Up!Init => RunInv
<1> SUFFICES ASSUME Up!Init PROVE RunInv
  OBVIOUS
<1>1. Constants
  BY DEF Up!Init, Constants
<1>2. entry = 1 /\ held = {} /\ broken = {} /\ released = {} /\ misused = {} /\ state = "up"
  BY DEF Up!Init
<1>3. Up!TriesLeft
  BY <1>2, SetUpAssumption DEF Up!Init, Up!TriesLeft
<1>4. entry \in 1 .. Len(Ladder) + 1
  BY <1>1, <1>2, LadderFacts DEF Shaped
<1>5. Up!TypeOK
  BY <1>2, <1>3, <1>4 DEF Up!TypeOK, Ladder
<1>6. Got(Ladder, 1) = {} /\ Dropped(Ladder, 1) = {}
  BY DEF Got, Dropped
<1> QED
  BY <1>1, <1>2, <1>3, <1>5, <1>6
  DEF RunInv, ServerWhole, Provided, NotMore, GivenBack, Up!UsesWhatItHolds, Up!UndoIsComplete

\* What the program is does not change, and with that neither does its ladder.
LEMMA LadderKept ==
    ASSUME UNCHANGED <<prog, windows, debug>>
    PROVE  Ladder' = Ladder /\ Up!Things' = Up!Things /\ Constants' = Constants
<1>1. Ladder' = Ladder
  BY DEF Ladder, Up!Ladder
<1>2. Up!Things = UNION {Ladder[k].gets : k \in DOMAIN Ladder}
  BY DEF Up!Things, Ladder
<1>3. Up!Things' = UNION {Ladder'[k].gets : k \in DOMAIN Ladder'}
  BY DEF Up!Things, Ladder
<1> QED
  BY <1>1, <1>2, <1>3 DEF Constants

LEMMA NextKeeps ==
    [Up!Next]_(Up!vars) => UNCHANGED <<prog, windows, debug>>
BY DEF Up!Next, Up!vars, Up!Succeed, Up!FailAndExit, Up!FailUnnoticed, Up!FailAtAddress, Up!Crash

\* A program that runs is at an entry.
LEMMA AtAnEntry ==
    ASSUME Constants, Up!TypeOK, Up!Running
    PROVE  /\ entry \in 1 .. Len(Ladder) /\ entry \in Nat \ {0} /\ Len(Ladder) \in Nat
           /\ Up!Here = Ladder[entry] /\ state = "up"
           /\ Ladder[entry].gets \subseteq Up!Things
<1>1. Len(Ladder) \in Nat /\ DOMAIN Ladder = 1 .. Len(Ladder)
  BY LadderFacts DEF Shaped
<1>2. entry \in 1 .. Len(Ladder) /\ state = "up"
  BY <1>1 DEF Up!TypeOK, Up!Running, Ladder
<1>3. Ladder[entry].gets \subseteq Up!Things
  BY <1>1, <1>2 DEF Up!Things, Ladder
<1> QED
  BY <1>1, <1>2, <1>3 DEF Up!Here, Ladder

\* Whatever a call is given that is not there, the property allows it: it was
\* released by a careless program, or is broken, or is Winsock in sse1.c.
LEMMA MisuseFits ==
    ASSUME RunInv, Up!Running,
           NEW things \in {Ladder[entry].drops, Ladder[entry].undo, {}},
           NEW use \in Up!Misuse(Up!Here.uses, things)
    PROVE  IF use[2] = "released" THEN prog \in Careless
           ELSE broken # {} \/ prog = "sse1"
<1> DEFINE here == Ladder[entry]
<1>1. /\ entry \in 1 .. Len(Ladder) /\ Up!Here = here /\ state = "up"
      /\ Constants /\ Provided /\ GivenBack
  BY AtAnEntry DEF RunInv
<1>2. ASSUME NEW thing \in here.uses \cup things, thing \in released
      PROVE  prog \in Careless
  <2> SUFFICES ASSUME prog \notin Careless PROVE FALSE
    OBVIOUS
  <2>1. thing \in Dropped(Ladder, entry) \cup Again
    BY <1>1, <1>2 DEF GivenBack
  <2>2. thing \notin Dropped(Ladder, entry)
    <3>1. Apart(Ladder)
      BY <1>1, LadderFacts
    <3>2. things \subseteq here.drops \cup here.undo
      OBVIOUS
    <3>3. thing \in here.uses \cup here.drops \cup here.undo
      BY <1>2, <3>2
    <3>4. (here.uses \cup here.drops \cup here.undo) \cap Dropped(Ladder, entry) = {}
      BY <1>1, <3>1 DEF Apart
    <3> QED
      BY <3>3, <3>4
  <2>3. prog = "ssl_read" /\ entry = 4 /\ thing = "sock"
    BY <2>1, <2>2 DEF Again
  <2>4. here = Up!GetMeta[4]
    BY <2>3, LadderOf
  <2>5. here.uses = {"addrs"} /\ here.drops = {} /\ here.undo = {}
    BY <2>4, GetMetaAgain
  <2>6. things = {}
    BY <2>5
  <2> QED
    BY <1>2, <2>3, <2>5, <2>6
<1>3. ASSUME NEW thing \in here.uses \ held, thing \notin released
      PROVE  broken # {} \/ prog = "sse1"
  <2> SUFFICES ASSUME broken = {}, prog # "sse1" PROVE FALSE
    OBVIOUS
  <2>1. here.uses \subseteq Got(Ladder, entry)
    BY <1>1, LadderFacts DEF Acquires
  <2>2. Got(Ladder, entry) \subseteq held \cup released
    BY <1>1 DEF Provided
  <2> QED
    BY <1>3, <2>1, <2>2
<1>4. CASE use \in {<<thing, Up!WhyNot(thing)>> : thing \in here.uses \ held}
  <2>1. PICK thing \in here.uses \ held : use = <<thing, Up!WhyNot(thing)>>
    BY <1>4
  <2>2. use[2] = Up!WhyNot(thing)
    BY <2>1
  <2>3. CASE thing \in released
    <3>1. use[2] = "released"
      BY <2>2, <2>3 DEF Up!WhyNot
    <3> QED
      BY <1>2, <2>1, <2>3, <3>1
  <2>4. CASE thing \notin released
    <3>1. use[2] # "released"
      BY <2>2, <2>4 DEF Up!WhyNot
    <3> QED
      BY <1>3, <2>1, <2>4, <3>1
  <2> QED
    BY <2>3, <2>4
<1>5. CASE use \in {<<thing, "released">> : thing \in (things \ held) \cap released}
  <2>1. PICK thing \in (things \ held) \cap released : use = <<thing, "released">>
    BY <1>5
  <2>2. use[2] = "released"
    BY <2>1
  <2> QED
    BY <1>2, <2>1, <2>2
<1> QED
  BY <1>1, <1>4, <1>5 DEF Up!Misuse

\* So the history stays as it should be.
LEMMA UsesFit ==
    ASSUME RunInv, Up!Running, UNCHANGED prog, broken \subseteq broken',
           NEW things \in {Ladder[entry].drops, Ladder[entry].undo, {}},
           misused' = misused \cup Up!Misuse(Up!Here.uses, things)
    PROVE  Up!UsesWhatItHolds'
<1>1. SUFFICES ASSUME NEW use \in misused'
               PROVE  IF use[2] = "released" THEN prog \in {"sse2", "ep"}
                      ELSE broken' # {} \/ prog = "sse1"
  BY DEF Up!UsesWhatItHolds
<1>2. CASE use \in misused
  BY <1>2 DEF RunInv, Up!UsesWhatItHolds
<1>3. CASE use \in Up!Misuse(Up!Here.uses, things)
  BY <1>3, MisuseFits DEF Careless
<1> QED
  BY <1>1, <1>2, <1>3

\* What Drop() takes from `held' it adds to `released'.
LEMMA DropMoves ==
    ASSUME NEW things, Up!Drop(things), Up!TypeOK
    PROVE  /\ held' \cup released' = held \cup released
           /\ held' \cap released' = {}
           /\ held' \subseteq held /\ held' \subseteq Up!Things
           /\ released' \subseteq Up!Things
           /\ released' \subseteq released \cup Up!WithStates(things)
           /\ held \subseteq Up!WithStates(things) => held' = {}
BY DEF Up!Drop, Up!TypeOK

LEMMA SucceedKeeps == RunInv /\ Up!Succeed => RunInv'
<1> SUFFICES ASSUME RunInv, Up!Succeed PROVE RunInv'
  OBVIOUS
<1> DEFINE here == Ladder[entry]
           next == entry + 1
<1>1. /\ entry \in 1 .. Len(Ladder) /\ entry \in Nat \ {0} /\ Len(Ladder) \in Nat
      /\ Up!Here = here /\ state = "up" /\ here.gets \subseteq Up!Things
      /\ Constants /\ Up!TypeOK /\ Up!Running
  BY AtAnEntry DEF RunInv, Up!Succeed
<1>2. /\ Ladder' = Ladder /\ Up!Things' = Up!Things /\ Constants'
      /\ UNCHANGED <<prog, addresses, broken>> /\ entry' = next
      /\ state' = IF entry = Len(Ladder) THEN "done" ELSE "up"
  BY <1>1, LadderKept DEF Up!Succeed, Ladder
<1>3. here.drops # {} => here.gets = {}
  BY <1>1, LadderFacts DEF Shaped
<1>4. /\ Got(Ladder, next) = Got(Ladder, entry) \cup here.gets
      /\ Dropped(Ladder, next) = Dropped(Ladder, entry) \cup Up!WithStates(here.drops)
  BY <1>1, OneFurther
<1>5. /\ held' \subseteq held \cup here.gets
      /\ held \cup released \cup here.gets \subseteq held' \cup released'
      /\ held' \cap released' = {}
      /\ released' \subseteq released \cup Up!WithStates(here.drops)
      /\ released' \cap here.gets = {}
      /\ held' \subseteq Up!Things /\ released' \subseteq Up!Things
  <2>1. CASE here.drops # {}
    <3>1. Up!Drop(here.drops) /\ here.gets = {}
      BY <1>1, <1>3, <2>1 DEF Up!Succeed
    <3> QED
      BY <1>1, <3>1, DropMoves
  <2>2. CASE here.drops = {}
    <3>1. held' = held \cup here.gets /\ released' = released \ here.gets
      BY <1>1, <2>2 DEF Up!Succeed
    <3> QED
      BY <1>1, <3>1 DEF Up!TypeOK
  <2> QED
    BY <2>1, <2>2
<1>6. Up!TypeOK'
  <2>1. entry' \in 1 .. Len(Ladder) + 1
    BY <1>1, <1>2
  <2>2. Up!Ladder' = Up!Ladder /\ Up!Ladder = Ladder
    BY <1>2 DEF Ladder
  <2>9. Up!TriesLeft'
    BY <1>1, <1>2 DEF Up!TypeOK, Up!TriesLeft
  <2> QED
    BY <1>1, <1>2, <1>5, <2>1, <2>2, <2>9 DEF Up!TypeOK
<1>7. ServerWhole'
  BY <1>1, <1>2 DEF RunInv, ServerWhole
<1>8. Provided' /\ NotMore'
  BY <1>2, <1>4, <1>5 DEF RunInv, Provided, NotMore
<1>9. GivenBack'
  <2> SUFFICES ASSUME prog \notin Careless
               PROVE  released' \subseteq Dropped(Ladder, next)
    BY <1>2 DEF GivenBack
  <2>1. released \subseteq Dropped(Ladder, entry) \cup Again
    BY <1>1 DEF RunInv, GivenBack
  <2>2. Again \cap released' = {}
    <3>1. prog = "ssl_read" /\ entry = 4 => here.gets = {"sock"}
      BY LadderOf, GetMetaAgain
    <3> QED
      BY <1>5, <3>1 DEF Again
  <2> QED
    BY <1>4, <1>5, <2>1, <2>2
<1>10. Up!UsesWhatItHolds'
  <2>1. misused' = misused \cup Up!Misuse(Up!Here.uses, here.drops)
    BY <1>1 DEF Up!Succeed
  <2> QED
    BY <1>1, <1>2, <2>1, UsesFit
<1>11. Up!UndoIsComplete'
  BY <1>2 DEF Up!UndoIsComplete
<1> QED
  BY <1>2, <1>6, <1>7, <1>8, <1>9, <1>10, <1>11 DEF RunInv

LEMMA FailAndExitKeeps == RunInv /\ Up!FailAndExit => RunInv'
<1> SUFFICES ASSUME RunInv, Up!FailAndExit PROVE RunInv'
  OBVIOUS
<1> DEFINE here == Ladder[entry]
<1>1. /\ entry \in 1 .. Len(Ladder) /\ Up!Here = here
      /\ Constants /\ Up!TypeOK /\ Up!Running /\ here.fails = "exit"
  BY AtAnEntry DEF RunInv, Up!FailAndExit
<1>2. /\ Ladder' = Ladder /\ Up!Things' = Up!Things /\ Constants'
      /\ UNCHANGED <<prog, entry, addresses, broken>> /\ state' = "failed"
  BY <1>1, LadderKept DEF Up!FailAndExit
<1>3. /\ held' \cup released' = held \cup released
      /\ held' \cap released' = {} /\ held' \subseteq held
      /\ held' \subseteq Up!Things /\ released' \subseteq Up!Things
      /\ held \subseteq Up!WithStates(here.undo) => held' = {}
  BY <1>1, DropMoves DEF Up!FailAndExit
<1>4. Up!TypeOK'
  <2>1. Up!Ladder' = Up!Ladder
    BY <1>2 DEF Ladder
  <2>9. Up!TriesLeft'
    BY <1>1, <1>2 DEF Up!TypeOK, Up!TriesLeft
  <2> QED
    BY <1>1, <1>2, <1>3, <2>1, <2>9 DEF Up!TypeOK
<1>5. ServerWhole' /\ Provided' /\ NotMore' /\ GivenBack'
  BY <1>2, <1>3 DEF RunInv, ServerWhole, Provided, NotMore, GivenBack
<1>6. Up!UsesWhatItHolds'
  <2>1. misused' = misused \cup Up!Misuse(Up!Here.uses, here.undo)
    BY <1>1 DEF Up!FailAndExit
  <2> QED
    BY <1>1, <1>2, <2>1, UsesFit
<1>7. Up!UndoIsComplete'
  <2>1. Up!Here' = here
    BY <1>1, <1>2 DEF Up!Here, Ladder
  <2>2. SUFFICES ASSUME \/ prog \in {"http", "server", "win"}
                        \/ prog \in {"SSE3", "SSE3_ok"} /\ here.call \in TlsCalls
                 PROVE  held' = {}
    BY <1>2, <2>1 DEF Up!UndoIsComplete, TlsCalls
  <2>3. UndoneAt(Ladder, entry)
    BY <1>1, <2>2, UndoFits
  <2>4. held \subseteq Got(Ladder, entry)
    BY <2>2 DEF RunInv, NotMore
  <2> QED
    BY <1>3, <2>3, <2>4 DEF UndoneAt
<1> QED
  BY <1>2, <1>4, <1>5, <1>6, <1>7 DEF RunInv

LEMMA FailUnnoticedKeeps == RunInv /\ Up!FailUnnoticed => RunInv'
<1> SUFFICES ASSUME RunInv, Up!FailUnnoticed PROVE RunInv'
  OBVIOUS
<1> DEFINE here == Ladder[entry]
           next == entry + 1 + here.skip
<1>1. /\ entry \in 1 .. Len(Ladder) /\ entry \in Nat \ {0} /\ Len(Ladder) \in Nat
      /\ Up!Here = here /\ state = "up" /\ here.gets \subseteq Up!Things
      /\ Constants /\ Up!TypeOK /\ Up!Running /\ here.fails \in {"ignored", "skips"}
  BY AtAnEntry DEF RunInv, Up!FailUnnoticed
<1>2. /\ Ladder' = Ladder /\ Up!Things' = Up!Things /\ Constants'
      /\ UNCHANGED <<prog, addresses, held, released, state>> /\ entry' = next
      /\ broken' = broken \cup here.gets
  BY <1>1, LadderKept DEF Up!FailUnnoticed
<1>3. /\ next \in Nat /\ entry <= next /\ next \in 1 .. Len(Ladder) + 1
      /\ here.gets = {} => next = entry + 1
  <2>1. \/ here.skip = 0
        \/ here.skip \in Nat /\ entry + here.skip <= Len(Ladder) /\ here.gets # {}
    BY <1>1, LadderFacts DEF Skips
  <2> QED
    BY <1>1, <2>1
<1>4. /\ Got(Ladder, entry) \subseteq Got(Ladder, next)
      /\ Dropped(Ladder, entry) \subseteq Dropped(Ladder, next)
  BY <1>1, <1>3, Further
<1>5. here.gets = {} => Got(Ladder, next) = Got(Ladder, entry)
  <2>1. Got(Ladder, entry + 1) = Got(Ladder, entry) \cup here.gets
    BY <1>1, OneFurther
  <2> QED
    BY <1>3, <2>1
<1>6. Up!TypeOK'
  <2>1. Up!Ladder' = Up!Ladder /\ Up!Ladder = Ladder
    BY <1>2 DEF Ladder
  <2>9. Up!TriesLeft'
    BY <1>1, <1>2 DEF Up!TypeOK, Up!TriesLeft
  <2> QED
    BY <1>1, <1>2, <1>3, <2>1, <2>9 DEF Up!TypeOK
<1>7. Provided' /\ NotMore'
  BY <1>2, <1>4, <1>5 DEF RunInv, Provided, NotMore
<1>8. ServerWhole'
  <2>1. prog # "server"
    BY <1>1, LadderOf, WebServerUndone
  <2> QED
    BY <1>2, <2>1 DEF ServerWhole
<1>9. GivenBack'
  <2>1. ~(prog = "ssl_read" /\ entry = 4)
    BY <1>1, LadderOf, GetMetaAgain
  <2> QED
    BY <1>1, <1>2, <1>4, <2>1 DEF RunInv, GivenBack, Again
<1>10. Up!UsesWhatItHolds'
  <2>1. misused' = misused \cup Up!Misuse(Up!Here.uses, {})
    BY DEF Up!FailUnnoticed
  <2> QED
    BY <1>1, <1>2, <2>1, UsesFit
<1>11. Up!UndoIsComplete'
  BY <1>1, <1>2 DEF Up!UndoIsComplete
<1> QED
  BY <1>2, <1>6, <1>7, <1>8, <1>9, <1>10, <1>11 DEF RunInv

LEMMA FailAtAddressKeeps == RunInv /\ Up!FailAtAddress => RunInv'
<1> SUFFICES ASSUME RunInv, Up!FailAtAddress PROVE RunInv'
  OBVIOUS
<1> DEFINE here == Ladder[entry]
           again == CHOOSE k \in DOMAIN Ladder : Ladder[k].call = "socket"
<1>1. /\ entry \in 1 .. Len(Ladder) /\ entry \in Nat \ {0} /\ Len(Ladder) \in Nat
      /\ Up!Here = here /\ state = "up" /\ here.fails = "next"
      /\ Constants /\ Up!TypeOK /\ Up!Running
  BY AtAnEntry DEF RunInv, Up!FailAtAddress
<1>2. /\ Ladder' = Ladder /\ Up!Things' = Up!Things /\ Constants'
      /\ UNCHANGED <<prog, broken>>
  BY <1>1, LadderKept DEF Up!FailAtAddress
<1>3. addresses' = addresses - 1 /\ addresses \in 1 .. MaxAddresses
  BY <1>1 DEF Up!TypeOK, Up!TriesLeft, Up!FailAtAddress
<1>4. IF addresses > 1 THEN entry' = again /\ state' = "up"
      ELSE state' = "failed" /\ entry' = entry
  BY <1>1 DEF Up!FailAtAddress, Ladder
<1> HIDE DEF again
<1>5. prog \in Looping
  BY <1>1, LadderFacts DEF NoAddresses
\* The way back leads over nothing that has been dropped.
<1>6. /\ again \in 1 .. Len(Ladder) /\ again <= entry
      /\ Dropped(Ladder, entry) = {} /\ Dropped(Ladder, again) = {}
  <2>1. CASE prog = "sse1"
    <3>1. Ladder = Up!Sse1 /\ entry \in {2, 3}
      BY <1>1, <2>1, LadderOf, Sse1Ladder
    <3>2. again = 2 /\ Len(Ladder) = 6
      BY <3>1, Sse1Again DEF again
    <3>3. Dropped(Ladder, entry) = {} /\ Dropped(Ladder, again) = {}
      BY <3>1, <3>2, Sse1Again
    <3> QED
      BY <3>1, <3>2, <3>3
  <2>2. CASE prog = "ssl_read"
    <3>1. Ladder = Up!GetMeta /\ entry \in {4, 5}
      BY <1>1, <2>2, LadderOf, GetMetaLadder
    <3>2. again = 4 /\ Len(Ladder) = 11
      BY <3>1, GetMetaAgain DEF again
    <3>3. Dropped(Ladder, entry) = {} /\ Dropped(Ladder, again) = {}
      BY <3>1, <3>2, GetMetaAgain
    <3> QED
      BY <3>1, <3>2, <3>3
  <2> QED
    BY <1>5, <2>1, <2>2 DEF Looping
<1>7. /\ held' \cup released' = held \cup released
      /\ held' \cap released' = {} /\ held' \subseteq held
      /\ held' \subseteq Up!Things /\ released' \subseteq Up!Things
  BY <1>1, DropMoves DEF Up!FailAtAddress
<1>8. Up!TypeOK'
  <2>1. Up!Ladder' = Up!Ladder /\ Up!Ladder = Ladder
    BY <1>2 DEF Ladder
  <2>2. entry' \in 1 .. Len(Ladder) + 1
    BY <1>1, <1>4, <1>6
  <2>3. state' \in {"up", "failed"}
    BY <1>4
  <2>4. Up!TriesLeft'
    BY <1>3, <1>4, SetUpAssumption DEF Up!TriesLeft
  <2> QED
    BY <1>1, <1>2, <1>7, <2>1, <2>2, <2>3, <2>4 DEF Up!TypeOK
<1>9. ServerWhole'
  BY <1>2 DEF RunInv, ServerWhole
<1>10. Provided'
  <2>1. Got(Ladder, entry') \subseteq Got(Ladder, entry)
    BY <1>1, <1>4, <1>6, Further
  <2> QED
    BY <1>2, <1>7, <2>1 DEF RunInv, Provided
\* In simple/ssl_read.c, connect() is behind socket() only.
<1>11. ASSUME prog = "ssl_read"
       PROVE  /\ held \subseteq Got(Ladder, entry)
              /\ \/ here.undo = {} /\ entry = 4
                 \/ /\ here.undo = {"sock"} /\ entry = 5
                    /\ Got(Ladder, entry) = Got(Ladder, 4) \cup {"sock"}
              /\ again = 4
  <2>1. Ladder = Up!GetMeta /\ entry \in {4, 5}
    BY <1>1, <1>11, LadderOf, GetMetaLadder
  <2>2. held \subseteq Got(Ladder, entry)
    BY <1>11 DEF RunInv, NotMore
  <2>3. again = 4
    BY <2>1, GetMetaAgain DEF again
  <2>4. CASE entry = 4
    BY <2>1, <2>2, <2>3, <2>4, GetMetaAgain
  <2>5. CASE entry = 5
    BY <2>1, <2>2, <2>3, <2>5, GetMetaAgain
  <2> QED
    BY <2>1, <2>4, <2>5
<1>12. "sock" \in Up!WithStates({"sock"}) /\ Up!WithStates({}) = {}
  BY DEF Up!WithStates
<1>13. /\ held' = held \ Up!WithStates(here.undo)
       /\ released' = released \cup (Up!WithStates(here.undo) \cap held)
  BY <1>1 DEF Up!FailAtAddress, Up!Drop
<1>14. NotMore'
  <2>1. SUFFICES ASSUME prog # "sse1" PROVE held' \subseteq Got(Ladder, entry')
    BY <1>2 DEF NotMore
  <2>2. prog = "ssl_read"
    BY <1>5, <2>1 DEF Looping
  <2>3. entry' = entry \/ entry' = 4
    BY <1>4, <1>11, <2>2
  <2>4. held' \subseteq Got(Ladder, entry)
    BY <1>7, <1>11, <2>2
  <2>5. held' \subseteq Got(Ladder, 4)
    BY <1>11, <1>12, <1>13, <2>2, <2>4
  <2> QED
    BY <2>3, <2>4, <2>5
<1>15. GivenBack'
  <2>1. SUFFICES ASSUME state' = "up", prog \notin Careless
                 PROVE  released' \subseteq Dropped(Ladder, entry') \cup Again'
    BY <1>2 DEF GivenBack
  <2>2. entry' = again
    BY <1>4, <2>1
  <2>3. released \subseteq Again
    BY <1>1, <1>6, <2>1 DEF RunInv, GivenBack
  <2>4. CASE prog = "sse1"
    <3>1. here.undo = {}
      <4>1. Ladder = Up!Sse1 /\ entry \in {2, 3}
        BY <1>1, <2>4, LadderOf, Sse1Ladder
      <4> QED
        BY <4>1, Sse1Again
    <3> QED
      BY <1>12, <1>13, <2>3, <2>4, <3>1 DEF Again
  <2>5. CASE prog = "ssl_read"
    <3>1. Again' = {"sock"}
      BY <1>2, <1>11, <2>2, <2>5 DEF Again
    <3>2. Got(Ladder, 4) \cap Up!WithStates({"sock"}) = {}
      BY <2>5, LadderOf, GetMetaAgain DEF Up!WithStates
    <3>3. Up!WithStates(here.undo) \cap held \subseteq {"sock"}
      BY <1>11, <1>12, <2>5, <3>2
    <3>4. released \subseteq {"sock"}
      BY <2>3 DEF Again
    <3> QED
      BY <1>13, <3>1, <3>3, <3>4
  <2> QED
    BY <1>5, <2>4, <2>5 DEF Looping
<1>16. Up!UsesWhatItHolds'
  <2>1. misused' = misused \cup Up!Misuse(Up!Here.uses, here.undo)
    BY <1>1 DEF Up!FailAtAddress
  <2> QED
    BY <1>1, <1>2, <2>1, UsesFit
<1>17. Up!UndoIsComplete'
  BY <1>2, <1>5 DEF Up!UndoIsComplete, Looping
<1> QED
  BY <1>2, <1>8, <1>9, <1>10, <1>14, <1>15, <1>16, <1>17 DEF RunInv

LEMMA CrashKeeps == RunInv /\ Up!Crash => RunInv'
<1> SUFFICES ASSUME RunInv, Up!Crash PROVE RunInv'
  OBVIOUS
<1> DEFINE here == Ladder[entry]
<1>1. Up!Here = here /\ state = "up" /\ Constants /\ Up!TypeOK /\ Up!Running
  BY AtAnEntry DEF RunInv, Up!Crash
<1>2. /\ Ladder' = Ladder /\ Up!Things' = Up!Things /\ Constants'
      /\ UNCHANGED <<prog, entry, addresses, held, broken, released>> /\ state' = "crashed"
  BY <1>1, LadderKept DEF Up!Crash
<1>3. Up!TypeOK'
  <2>1. Up!Ladder' = Up!Ladder
    BY <1>2 DEF Ladder
  <2>9. Up!TriesLeft'
    BY <1>1, <1>2 DEF Up!TypeOK, Up!TriesLeft
  <2> QED
    BY <1>1, <1>2, <2>1, <2>9 DEF Up!TypeOK
<1>4. ServerWhole' /\ Provided' /\ NotMore' /\ GivenBack'
  BY <1>2 DEF RunInv, ServerWhole, Provided, NotMore, GivenBack
<1>5. Up!UsesWhatItHolds'
  <2>1. misused' = misused \cup Up!Misuse(Up!Here.uses, here.drops)
    BY <1>1 DEF Up!Crash
  <2> QED
    BY <1>1, <1>2, <2>1, UsesFit
<1>6. Up!UndoIsComplete'
  BY <1>2 DEF Up!UndoIsComplete
<1> QED
  BY <1>2, <1>3, <1>4, <1>5, <1>6 DEF RunInv

LEMMA StutterKeeps == RunInv /\ UNCHANGED Up!vars => RunInv'
<1> SUFFICES ASSUME RunInv, UNCHANGED Up!vars PROVE RunInv'
  OBVIOUS
<1>1. UNCHANGED <<prog, windows, debug, entry, addresses, held, broken, released, misused, state>>
  BY DEF Up!vars
<1>2. Ladder' = Ladder /\ Up!Things' = Up!Things /\ Constants'
  BY <1>1, LadderKept DEF RunInv
<1>3. Up!Ladder' = Up!Ladder /\ Up!Here' = Up!Here
  BY <1>1, <1>2 DEF Ladder, Up!Here
<1> QED
  BY <1>1, <1>2, <1>3
  DEF RunInv, Up!TypeOK, Up!TriesLeft, ServerWhole, Provided, NotMore, GivenBack, Again,
      Up!UsesWhatItHolds, Up!UndoIsComplete

LEMMA NextRunInv == RunInv /\ [Up!Next]_(Up!vars) => RunInv'
BY SucceedKeeps, FailAndExitKeeps, FailUnnoticedKeeps, FailAtAddressKeeps, CrashKeeps,
   StutterKeeps DEF Up!Next

-----------------------------------------------------------------------------
(* The set-up and the service together *)

LEMMA SetUpStep == [SetUpNext]_<<vars, setUpVars>> => [Up!Next]_(Up!vars)
<1> SUFFICES ASSUME [SetUpNext]_<<vars, setUpVars>> PROVE Up!Next \/ UNCHANGED Up!vars
  OBVIOUS
<1>1. CASE Up!Next
  BY <1>1
<1>2. CASE UNCHANGED setUpVars
  BY <1>2 DEF setUpVars, Up!vars
<1>3. CASE Up!FailAndExit
  BY <1>3 DEF Up!Next
<1> QED
  BY <1>1, <1>2, <1>3 DEF SetUpNext

LEMMA ServiceStep == [SetUpNext]_<<vars, setUpVars>> => [Next]_vars
<1> SUFFICES ASSUME [SetUpNext]_<<vars, setUpVars>> PROVE Next \/ UNCHANGED vars
  OBVIOUS
<1>1. CASE UNCHANGED vars
  BY <1>1
<1>2. CASE ~Stopped /\ (Server \/ \E c \in Clients : Client(c))
  BY <1>2 DEF Next
<1>3. CASE AcceptFails
  BY <1>3 DEF Next, AcceptFails, Stopped
<1> QED
  BY <1>1, <1>2, <1>3 DEF SetUpNext

\* The service is that of FormServer, whatever the set-up does.
LEMMA SetUpServes == SetUpSpec => Spec
<1>1. SetUpInit => Init
  BY DEF SetUpInit
<1> QED
  BY <1>1, ServiceStep, PTL DEF SetUpSpec, Spec

LEMMA AlwaysRunInv == SetUpSpec => []RunInv
<1>1. SetUpInit => RunInv
  BY InitRunInv DEF SetUpInit
<1>2. RunInv /\ [SetUpNext]_<<vars, setUpVars>> => RunInv'
  BY SetUpStep, NextRunInv
<1> QED
  BY <1>1, <1>2, PTL DEF SetUpSpec

(***************************************************************************)
(* On no path through a ladder, whichever calls fail and however many      *)
(* addresses are tried, does a program use a thing it never should have    *)
(* got by then, or one that it has released: only one whose failure nobody *)
(* looked at, in sse1.c Winsock, and in sse2.c and simple/ep.c what they   *)
(* clean up too early.                                                     *)
(***************************************************************************)
THEOREM HeldWhenUsed == SetUpSpec => []UsesWhatItHolds
<1>1. RunInv => UsesWhatItHolds
  BY DEF RunInv, UsesWhatItHolds
<1> QED
  BY <1>1, AlwaysRunInv, PTL

(***************************************************************************)
(* An error exit of web_server/server.c, web_server/win/server.c or        *)
(* simple/http.c, and one of SSE3.c or SSE3_ok.c from the TLS context to   *)
(* the handshake, leaves nothing behind.                                   *)
(***************************************************************************)
THEOREM NothingLeftBehind == SetUpSpec => []UndoIsComplete
<1>1. RunInv => UndoIsComplete
  BY DEF RunInv, UndoIsComplete
<1> QED
  BY <1>1, AlwaysRunInv, PTL

\* A client gets a connection only from the program that is in its loop.
ServerOnly == \A c \in Clients : conn[c] # "none" => prog = "server"

LEMMA ServerOnlyKept == ServerOnly /\ [SetUpNext]_<<vars, setUpVars>> => ServerOnly'
<1> SUFFICES ASSUME ServerOnly, [SetUpNext]_<<vars, setUpVars>> PROVE ServerOnly'
  OBVIOUS
<1>1. prog' = prog
  BY SetUpStep, NextKeeps
<1>2. CASE InLoop
  BY <1>1, <1>2 DEF InLoop, ServerOnly
<1>3. CASE UNCHANGED vars
  BY <1>1, <1>3 DEF vars, clients, ServerOnly
<1> QED
  BY <1>2, <1>3 DEF SetUpNext

(***************************************************************************)
(* The variables of the set-up and of the service stay in their types, for *)
(* names with any number of addresses; what is held and what has been      *)
(* released are apart; and the server takes clients only with everything   *)
(* it needs for its loop.                                                  *)
(***************************************************************************)
THEOREM SetUpTypes == SetUpSpec => []TypesOK
<1>1. SetUpInit => ServerOnly
  BY DEF SetUpInit, Init, ServerOnly
<1>2. SetUpSpec => []ServerOnly
  BY <1>1, ServerOnlyKept, PTL DEF SetUpSpec
<1>3. SetUpSpec => []TypeOK
  BY SetUpServes, TypeCorrect, PTL
<1>4. RunInv /\ ServerOnly /\ TypeOK => TypesOK
  BY DEF RunInv, ServerWhole, ServerOnly, TypesOK
<1> QED
  BY <1>2, <1>3, <1>4, AlwaysRunInv, PTL

(***************************************************************************)
(* Behind its set-up, web_server/server.c prints every form behind the     *)
(* page of its own client, prints each that it has received as a whole     *)
(* unless it stops, and serves one client at a time.                       *)
(***************************************************************************)
THEOREM ServesBehindItsSetUp == SetUpSpec => []PrintsItsOwn /\ []NoFormLost /\ OneClientAtATime
BY SetUpServes, NothingStale, FormsArePrinted, Implements, PTL
=============================================================================
