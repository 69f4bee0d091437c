------------------------------- MODULE SetUp -------------------------------
(***************************************************************************)
(* How the programs of the repository set themselves up and take           *)
(* themselves down: the sequence of library calls from the first line of   *)
(* main() to its loop and behind it, what each call uses and yields, what  *)
(* main() does when the call fails, and what it releases then.  A thing a  *)
(* program can hold is a socket, a context, a list, an established state   *)
(* of one of them, and so on, under a short name.                          *)
(***************************************************************************)
EXTENDS Integers, Sequences

CONSTANT MaxAddresses    \* bound: addresses a name resolves to

(* One entry of a ladder: `fails' is what a failure leads to.              *)
(*   "never"    it cannot fail, or that makes no difference to the rest    *)
(*   "exit"     main() releases `undo' and returns or exits                *)
(*   "ignored"  nobody looks; what it should have yielded is broken        *)
(*   "skips"    as before, and the next `skip' entries are left out        *)
(*   "next"     `undo' is released and the next address is tried           *)
Entry == [call |-> "", uses |-> {}, gets |-> {}, drops |-> {},
          fails |-> "never", undo |-> {}, skip |-> 0, works |-> FALSE]

\* A call that is checked, one that is not, one whose failure leaves out what
\* follows, one for each address in turn.
Checked(call, uses, gets, undo) ==
    [Entry EXCEPT !.call = call, !.uses = uses, !.gets = gets,
                  !.fails = "exit", !.undo = undo]
Unchecked(call, uses, gets) ==
    [Entry EXCEPT !.call = call, !.uses = uses, !.gets = gets, !.fails = "ignored"]
Skipping(call, uses, gets, skip) ==
    [Unchecked(call, uses, gets) EXCEPT !.fails = "skips", !.skip = skip]
PerAddress(call, uses, gets, undo) ==
    [Entry EXCEPT !.call = call, !.uses = uses, !.gets = gets,
                  !.fails = "next", !.undo = undo]
Plain(call, uses) == [Entry EXCEPT !.call = call, !.uses = uses]
Release(call, drops) == [Entry EXCEPT !.call = call, !.drops = drops]

\* The loop the program is there for, and one that only an error ends.
Loop(uses) == [Entry EXCEPT !.call = "loop", !.uses = uses, !.works = TRUE]
EndlessLoop(uses, undo) ==
    [Loop(uses) EXCEPT !.fails = "exit", !.undo = undo]

On(condition, ladder) == IF condition THEN ladder ELSE << >>

-----------------------------------------------------------------------------
(* The clients *)

\* simple/http.c
Http == <<
    Checked("socket", {}, {"sock"}, {}),
    Checked("connect", {"sock"}, {"conn"}, {"sock"}),
    Checked("send", {"conn"}, {}, {"sock"}),
    Loop({"conn"}),
    Release("close", {"sock"}) >>

\* sse.c, which builds on Windows only; close() is not closesocket() there
\* and releases nothing.
Sse == <<
    Checked("WSAStartup", {}, {"wsa"}, {}),
    Checked("socket", {"wsa"}, {"sock"}, {"wsa"}),
    Checked("gethostbyname", {"wsa"}, {}, {}),
    Checked("connect", {"sock"}, {"conn"}, {}),
    Checked("write", {"conn"}, {}, {}),
    Loop({"conn"}),
    Release("closesocket", {"sock"}),
    Release("WSACleanup", {"wsa"}) >>

\* sse1.c, for Windows too, but without WSAStartup().
Sse1 == <<
    Checked("getaddrinfo", {"wsa"}, {"addrs"}, {}),
    PerAddress("socket", {"addrs"}, {"sock"}, {}),
    PerAddress("connect", {"sock"}, {"conn"}, {}),
    Checked("write", {"conn"}, {}, {}),
    Loop({"conn"}),
    Release("freeaddrinfo", {"addrs"}) >>

\* sse2.c
Sse2 == <<
    Checked("curl_easy_init", {}, {"curl"}, {}),
    Plain("curl_easy_setopt", {"curl"}),
    Unchecked("curl_slist_append", {}, {"headers"}),
    Plain("curl_easy_setopt", {"curl"}),
    Unchecked("curl_multi_init", {}, {"multi"}),
    Plain("curl_multi_add_handle", {"multi", "curl"}),
    Loop({"multi"}),
    Release("curl_easy_cleanup", {"curl"}),
    Plain("curl_multi_remove_handle", {"multi", "curl"}),
    Release("curl_multi_cleanup", {"multi"}),
    Release("curl_slist_free_all", {"headers"}),
    Release("curl_easy_cleanup", {"curl"}) >>

\* simple/ep.c: the loop with its clean-up, and the next round of it.
Ep == <<
    Unchecked("curl_global_init", {}, {"global"}),
    Checked("curl_easy_init", {}, {"curl"}, {"global"}),
    Plain("curl_easy_setopt", {"curl"}),
    Loop({"curl"}),
    Release("curl_easy_cleanup", {"curl"}),
    EndlessLoop({"curl"}, {}) >>

\* simple/uvv.c; uv_loop_close() refuses, for the TCP handle is not closed.
Uvv == <<
    Checked("gethostbyname", {}, {}, {}),
    Unchecked("malloc", {}, {"host"}),
    Plain("strcpy", {"host"}),
    Unchecked("uv_loop_init", {}, {"loop"}),
    Unchecked("uv_tcp_init", {"loop"}, {"tcp"}),
    Plain("uv_tcp_connect", {"tcp"}),
    Loop({"loop"}),
    Plain("uv_loop_close", {"loop"}) >>

-----------------------------------------------------------------------------
(* The TLS clients *)

\* (mutant) the BIO is forgotten when there is no context
Sse3ForgetsBio == <<
    Checked("socket", {}, {"sock"}, {}),
    Checked("gethostbyname", {}, {}, {}),
    Checked("connect", {"sock"}, {"conn"}, {}),
    Unchecked("BIO_new_socket", {"sock"}, {"bio"}),
    Checked("SSL_CTX_new", {}, {"ctx"}, {"sock"}),
    Checked("SSL_new", {"ctx"}, {"ssl"}, {"ctx", "sock", "bio"}),
    Checked("SSL_set_fd", {"ssl", "sock"}, {}, {"ssl", "ctx", "sock", "bio"}) >>

\* SSE3.c up to the socket of its TLS connection
Sse3 == <<
    Checked("socket", {}, {"sock"}, {}),
    Checked("gethostbyname", {}, {}, {}),
    Checked("connect", {"sock"}, {"conn"}, {}),
    Unchecked("BIO_new_socket", {"sock"}, {"bio"}),
    Checked("SSL_CTX_new", {}, {"ctx"}, {"sock", "bio"}),
    Checked("SSL_new", {"ctx"}, {"ssl"}, {"ctx", "sock", "bio"}),
    Checked("SSL_set_fd", {"ssl", "sock"}, {}, {"ssl", "ctx", "sock", "bio"}) >>

\* and from there to its loop
Sse3Talk == <<
    Unchecked("SSL_connect", {"ssl"}, {"tls"}),
    Plain("SSL_write", {"tls"}),
    EndlessLoop({"conn", "tls"}, {}) >>

\* SSE3_ok.c up to the handshake, which is repeated as long as it only wants
\* to read or write.  The proxy is asked for a connection without looking at
\* what it answers.
Sse3Ok(windows) == <<
    Plain("initOpenSSL", {}) >>
    \o On(windows, << Checked("WSAStartup", {}, {"wsa"}, {}) >>) \o <<
    Checked("socket", {}, {"sock"}, {"wsa"}),
    Checked("gethostbyname", {}, {}, {"sock", "wsa"}),
    Checked("connect", {"sock"}, {"conn"}, {"sock", "wsa"}),
    Unchecked("BIO_new_socket", {"sock"}, {"bio"}),
    Checked("SSL_CTX_new", {}, {"ctx"}, {"sock", "bio", "wsa"}),
    Checked("SSL_new", {"ctx"}, {"ssl"}, {"ctx", "sock", "bio", "wsa"}),
    Checked("SSL_set_fd", {"ssl", "sock"}, {}, {"ssl", "ctx", "sock", "bio", "wsa"}),
    Plain("send", {"conn"}), Plain("recv", {"conn"}),
    Checked("SSL_connect", {"ssl"}, {"tls"}, {"ssl", "ctx", "sock", "bio", "wsa"}) >>

\* and from there to its end
Sse3OkTalk(windows) == <<
    Plain("SSL_write", {"tls"}), Plain("SSL_read", {"tls"}) >>
    \o On(windows, << Checked("WSACreateEvent", {}, {"event"}, {}),
                      Checked("WSAEventSelect", {"event", "sock"}, {}, {}) >>) \o <<
    Plain("send", {"conn"}),
    Loop({"conn"}),
    Release("close", {"sock"}),
    Release("WSACleanup", {"wsa"}) >>

\* get_meta() of simple/ssl_read.c, with create_socket() spelt out
GetMeta == <<
    Plain("init_openssl", {}),
    Checked("SSL_CTX_new", {}, {"ctx"}, {}),
    Checked("getaddrinfo", {}, {"addrs"}, {}),
    PerAddress("socket", {"addrs"}, {"sock"}, {}),
    PerAddress("connect", {"sock"}, {"conn"}, {"sock"}),
    Release("freeaddrinfo", {"addrs"}),
    Checked("SSL_new", {"ctx"}, {"ssl"}, {}),
    Plain("SSL_set_fd", {"ssl", "sock"}),
    Checked("SSL_connect", {"ssl"}, {"tls"}, {}),
    Checked("SSL_write", {"tls"}, {}, {}),
    EndlessLoop({"tls"}, {}) >>

-----------------------------------------------------------------------------
(* The players *)

\* test2.c: when there is no mpg123 handle, in() returns, but main() does
\* not look at what it returns.
Test2 == <<
    Plain("ao_initialize", {}),
    Skipping("mpg123_new", {}, {"mh"}, 5),
    Plain("mpg123_open_feed", {"mh"}),
    Unchecked("curl_easy_init", {}, {"curl"}),
    Unchecked("curl_slist_append", {}, {"headers"}),
    Plain("curl_easy_setopt", {"curl", "headers"}),
    Unchecked("ao_open_live", {}, {"dev"}),
    Loop({"curl"}),
    Release("clean", {"curl", "mh", "dev"}) >>

\* test3.c: not even in() looks.
Test3 == <<
    Plain("ao_initialize", {}),
    Unchecked("mpg123_new", {}, {"mh"}),
    Plain("mpg123_open_feed", {"mh"}),
    Unchecked("curl_easy_init", {}, {"curl"}),
    Unchecked("curl_slist_append", {}, {"headers"}),
    Plain("curl_easy_setopt", {"curl", "headers"}),
    Unchecked("ao_open_live", {}, {"dev"}),
    Loop({"curl"}),
    Release("clean", {"curl", "mh", "dev"}) >>

-----------------------------------------------------------------------------
(* The servers *)

\* (mutant) listen() is called before bind()
WebServerListensFirst == <<
    Checked("WSAStartup", {}, {"wsa"}, {}),
    Checked("socket", {"wsa"}, {"sock"}, {"wsa"}),
    Checked("listen", {"sock", "bound"}, {"listening"}, {"sock", "wsa"}),
    Checked("bind", {"sock"}, {"bound"}, {"sock", "wsa"}),
    EndlessLoop({"bound", "listening"}, {"sock", "wsa"}) >>

\* web_server/server.c
WebServer == <<
    Checked("WSAStartup", {}, {"wsa"}, {}),
    Checked("socket", {"wsa"}, {"sock"}, {"wsa"}),
    Checked("bind", {"sock"}, {"bound"}, {"sock", "wsa"}),
    Checked("listen", {"sock", "bound"}, {"listening"}, {"sock", "wsa"}),
    EndlessLoop({"bound", "listening"}, {"sock", "wsa"}) >>

\* web_server/win/server.c, the same calls
WinServer == WebServer

\* The kqueue servers report an error with debug(ERROR, ...), which ends the
\* program if it was built with DEBUG, and is nothing at all otherwise.
Reported(debug, call, uses, gets) ==
    IF debug THEN Checked(call, uses, gets, {}) ELSE Unchecked(call, uses, gets)

\* web_server/mac/server_mac_kquueue.c
KqueueServer(debug) == <<
    Reported(debug, "socket", {}, {"sock"}),
    Reported(debug, "bind", {"sock"}, {"bound"}),
    Unchecked("setnonblocking", {"sock"}, {"unblocked"}),
    Reported(debug, "listen", {"sock", "bound"}, {"listening"}),
    Reported(debug, "kqueue", {}, {"queue"}),
    Reported(debug, "kevent", {"queue", "sock"}, {"watched"}),
    EndlessLoop({"bound", "listening", "unblocked", "queue", "watched"}, {}) >>

\* web_server/server_mac.c: the same after installing its handler
MacServer(debug) == << Unchecked("sigaction", {}, {"handler"}) >> \o KqueueServer(debug)

\* web_server/mac/server_mac_poll.c; log_message(ERROR) exits.
PollServer == <<
    Unchecked("read_html_file", {}, {"html"}),
    Checked("socket", {}, {"sock"}, {}),
    Checked("bind", {"sock"}, {"bound"}, {"html"}),
    Checked("listen", {"sock", "bound"}, {"listening"}, {"html"}),
    EndlessLoop({"bound", "listening"}, {}) >>

\* simple/server.c, and what simple/server2.c shows of itself
ThreadServer == <<
    Checked("socket", {}, {"sock"}, {}),
    Checked("bind", {"sock"}, {"bound"}, {}),
    Checked("listen", {"sock", "bound"}, {"listening"}, {}),
    EndlessLoop({"bound", "listening"}, {}) >>

PoolServer == ThreadServer

-----------------------------------------------------------------------------
Programs == {"http", "sse", "sse1", "sse2", "ep", "uvv", "SSE3", "SSE3_ok",
             "ssl_read", "test2", "test3", "server", "win", "kqueue", "mac",
             "poll", "thread", "pool"}

VARIABLES
    prog,        \* the program that runs
    windows,     \* it was built for Windows, where that makes a difference,
    debug,       \* and with DEBUG
    pc,          \* the entry of its ladder it has come to
    addresses,   \* addresses left to try
    held,        \* what it holds,
    broken,      \* what it took for granted and did not get,
    released,    \* and what it has given back
    misused,     \* history: what was used without being held, and why not
    state        \* "up", "failed", "crashed" or "done"

vars == <<prog, windows, debug, pc, addresses, held, broken, released, misused, state>>

Ladder ==
    CASE prog = "http"     -> Http
      [] prog = "sse"      -> Sse
      [] prog = "sse1"     -> Sse1
      [] prog = "sse2"     -> Sse2
      [] prog = "ep"       -> Ep
      [] prog = "uvv"      -> Uvv
      [] prog = "SSE3"     -> Sse3 \o Sse3Talk
      [] prog = "SSE3_ok"  -> Sse3Ok(windows) \o Sse3OkTalk(windows)
      [] prog = "ssl_read" -> GetMeta
      [] prog = "test2"    -> Test2
      [] prog = "test3"    -> Test3
      [] prog = "server"   -> WebServer
      [] prog = "win"      -> WinServer
      [] prog = "kqueue"   -> KqueueServer(debug)
      [] prog = "mac"      -> MacServer(debug)
      [] prog = "poll"     -> PollServer
      [] prog = "thread"   -> ThreadServer
      [] prog = "pool"     -> PoolServer

Here == Ladder[pc]

Init ==
    /\ prog \in Programs
    /\ windows \in IF prog = "SSE3_ok" THEN BOOLEAN ELSE {FALSE}
    /\ debug \in IF prog \in {"kqueue", "mac"} THEN BOOLEAN ELSE {FALSE}
    /\ pc = 1
    /\ addresses \in IF prog \in {"sse1", "ssl_read"} THEN 1 .. MaxAddresses ELSE {1}
    /\ held = {} /\ broken = {} /\ released = {} /\ misused = {}
    /\ state = "up"

\* A state of a thing goes with the thing.
WithStates(things) ==
    things \cup (IF "sock" \in things THEN {"conn", "bound", "listening", "unblocked"} ELSE {})
           \cup (IF "ssl" \in things THEN {"tls"} ELSE {})

WhyNot(thing) == CASE thing \in released -> "released"
                   [] thing \in broken \ released -> "broken"
                   [] OTHER              -> "missing"

\* What a call is given that is not there.  The library functions that
\* release something accept a null pointer, but nothing twice.
Misuse(uses, drops) ==
    {<<thing, WhyNot(thing)>> : thing \in uses \ held}
        \cup {<<thing, "released">> : thing \in (drops \ held) \cap released}

Drop(things) ==
    /\ held' = held \ WithStates(things)
    /\ released' = released \cup (WithStates(things) \cap held)

\* Winsock refuses every call before WSAStartup().
Refused == "wsa" \in Here.uses /\ "wsa" \notin held

Running == state = "up" /\ pc <= Len(Ladder)

\* The call succeeds; an endless loop just goes on.
Succeed ==
    /\ Running /\ ~Refused
    /\ ~(Here.works /\ Here.fails = "exit")
    /\ misused' = misused \cup Misuse(Here.uses, Here.drops)
    /\ IF Here.drops # {} THEN Drop(Here.drops)
       ELSE /\ held' = held \cup Here.gets
            /\ released' = released \ Here.gets
    /\ pc' = pc + 1
    /\ state' = IF pc = Len(Ladder) THEN "done" ELSE "up"
    /\ UNCHANGED <<prog, windows, debug, addresses, broken>>

\* It fails, and that is the end of the program.
FailAndExit ==
    /\ Running /\ Here.fails = "exit"
    /\ misused' = misused \cup Misuse(Here.uses, Here.undo)
    /\ Drop(Here.undo)
    /\ state' = "failed"
    /\ UNCHANGED <<prog, windows, debug, pc, addresses, broken>>

\* It fails, and nobody looks.
FailUnnoticed ==
    /\ Running /\ Here.fails \in {"ignored", "skips"}
    /\ misused' = misused \cup Misuse(Here.uses, {})
    /\ broken' = broken \cup Here.gets
    /\ pc' = pc + 1 + Here.skip
    /\ UNCHANGED <<prog, windows, debug, addresses, held, released, state>>

\* (mutant) the end of the list is noticed one address too late
FailAtAddressPastEnd ==
    /\ Running /\ Here.fails = "next"
    /\ misused' = misused \cup Misuse(Here.uses, Here.undo)
    /\ Drop(Here.undo)
    /\ addresses' = addresses - 1
    /\ IF addresses >= 1
       THEN /\ pc' = CHOOSE k \in DOMAIN Ladder : Ladder[k].call = "socket"
            /\ UNCHANGED state
       ELSE /\ state' = "failed"
            /\ UNCHANGED pc
    /\ UNCHANGED <<prog, windows, debug, broken>>

\* It fails, and the loop over the addresses goes on to the next one, if
\* there is one.
FailAtAddress ==
    /\ Running /\ Here.fails = "next"
    /\ misused' = misused \cup Misuse(Here.uses, Here.undo)
    /\ Drop(Here.undo)
    /\ addresses' = addresses - 1
    /\ IF addresses > 1
       THEN /\ pc' = CHOOSE k \in DOMAIN Ladder : Ladder[k].call = "socket"
            /\ UNCHANGED state
       ELSE /\ state' = "failed"
            /\ UNCHANGED pc
    /\ UNCHANGED <<prog, windows, debug, broken>>

\* What a call does with something that is not there is undefined: it may
\* fail, seem to succeed, or end the program.
Crash ==
    /\ Running /\ Misuse(Here.uses, Here.drops) # {}
    /\ misused' = misused \cup Misuse(Here.uses, Here.drops)
    /\ state' = "crashed"
    /\ UNCHANGED <<prog, windows, debug, pc, addresses, held, broken, released>>

Next == Succeed \/ FailAndExit \/ FailUnnoticed \/ FailAtAddress \/ Crash

Spec == Init /\ [][Next]_vars

-----------------------------------------------------------------------------
Things == UNION {Ladder[k].gets : k \in DOMAIN Ladder}

\* A program that goes on is at an address of the list, never behind it.
TriesLeft == addresses \in 0 .. MaxAddresses /\ (state = "up" => addresses >= 1)

TypeOK == /\ pc \in 1 .. Len(Ladder) + 1
          /\ TriesLeft
          /\ held \subseteq Things /\ broken \subseteq Things /\ released \subseteq Things
          /\ held \cap released = {}
          /\ state \in {"up", "failed", "crashed", "done"}

(***************************************************************************)
(* Whatever fails: a thing that is used without being held is one whose    *)
(* failure nobody has looked at before.  It was never acquired too late,   *)
(* on no path through the ladder and round the address loops, and nothing  *)
(* is used or released after it has been released, so that the undo lists  *)
(* and the tear-down do not overlap.  The exceptions: sse2.c and           *)
(* simple/ep.c release too early, and sse1.c lacks WSAStartup().           *)
(***************************************************************************)
UsesWhatItHolds ==
    \A use \in misused :
        IF use[2] = "released" THEN prog \in {"sse2", "ep"}
        ELSE broken # {} \/ prog = "sse1"

(***************************************************************************)
(* An error exit of the Winsock servers or of simple/http.c, and one of    *)
(* SSE3.c or SSE3_ok.c from the TLS context to the handshake, leaves       *)
(* nothing behind (web_server/server.c:113-140, SSE3.c:259-301,            *)
(* SSE3_ok.c:307-391).                                                     *)
(***************************************************************************)
UndoIsComplete ==
    state = "failed" =>
        /\ prog \in {"http", "server", "win"} => held = {}
        /\ /\ prog \in {"SSE3", "SSE3_ok"}
           /\ Here.call \in {"SSL_CTX_new", "SSL_new", "SSL_set_fd", "SSL_connect"}
           => held = {}

(***************************************************************************)
(* "Perform the SSE request" (simple/ep.c:46), in every round of the loop: *)
(* no program uses anything it has released.                               *)
(***************************************************************************)
UsesNothingReleased == \A use \in misused : use[2] # "released"
=============================================================================
