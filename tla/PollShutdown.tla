---------------------------- MODULE PollShutdown ----------------------------
(***************************************************************************)
(* How web_server/mac/server_mac_poll.c gets its page and gets rid of it:  *)
(* read_html_file() allocates it; it is freed by main() when bind() or     *)
(* listen() fails, by the handler of SIGINT, which may interrupt any of    *)
(* it, and by the destructor that exit() runs.                             *)
(***************************************************************************)

VARIABLES
    page,       \* htmlContent: "null", "live", or "dangling"
    pc,         \* who runs, and what comes next
    signalled,  \* SIGINT has come: the handler blocks it and never returns
    begun,      \* the destructor has been entered
    cut,        \* history: SIGINT came between free() and htmlContent = NULL
    twice       \* history: the page has been freed twice

vars == <<page, pc, signalled, begun, cut, twice>>

\* main() before the end, main() at it, the handler, the destructor
Who == {"main", "failure", "handler", "destructor"}
Exited == <<"exit", "done">>
Crashed == <<"exit", "crash">>
Stuck == <<"exit", "stuck">>

Init == /\ page = "null" /\ pc = <<"main", "read">>
        /\ signalled = FALSE /\ begun = FALSE
        /\ cut = FALSE /\ twice = FALSE

read_html_file ==
    /\ pc = <<"main", "read">>
    /\ pc' = <<"main", "serve">>
    /\ page' \in {"null", "live"}               \* no file, no memory
    /\ UNCHANGED <<signalled, begun, cut, twice>>

\* bind() and listen(): free_html_content() and log_message(ERROR), which
\* exits.  socket(), poll() and accept(): log_message(ERROR) alone.
Failure ==
    /\ pc = <<"main", "serve">>
    /\ pc' \in {<<"failure", "free">>, <<"failure", "exit">>}
    /\ UNCHANGED <<page, signalled, begun, cut, twice>>

\* The handler runs in front of whatever comes next.  It prints: when it has
\* interrupted a call that prints or allocates it may wait for it, for ever.
handle_sigint ==
    /\ ~signalled /\ pc[1] \in Who
    /\ signalled' = TRUE
    /\ cut' = (pc[2] = "clear")
    /\ pc' \in {<<"handler", "free">>, Stuck}
    /\ UNCHANGED <<page, begun, twice>>

\* free_html_content()
Free(who) ==
    /\ pc = <<who, "free">>
    /\ IF page = "null"
       THEN pc' = <<who, "exit">> /\ UNCHANGED <<page, twice>>
       ELSE /\ page' = "dangling"
            /\ twice' = (twice \/ page = "dangling")
            /\ pc' \in {<<who, "clear">>} \cup (IF twice' THEN {Crashed} ELSE {})
    /\ UNCHANGED <<signalled, begun, cut>>

\* (mutant) the pointer is kept
ClearNot(who) ==
    /\ pc = <<who, "clear">>
    /\ pc' = <<who, "exit">>
    /\ UNCHANGED <<page, signalled, begun, cut, twice>>

Clear(who) ==
    /\ pc = <<who, "clear">>
    /\ page' = "null"
    /\ pc' = <<who, "exit">>
    /\ UNCHANGED <<signalled, begun, cut, twice>>

\* exit() runs the destructor; called by the handler while exit() runs it,
\* it may or may not run it once more.
Exit ==
    /\ pc \in {<<"failure", "exit">>, <<"handler", "exit">>}
    /\ \/ pc' = <<"destructor", "close">>
       \/ begun /\ pc' = Exited
    /\ UNCHANGED <<page, signalled, begun, cut, twice>>

\* (mutant) the destructor closes and no more
clean_exit_closes ==
    /\ pc = <<"destructor", "close">>
    /\ begun' = TRUE
    /\ pc' \in {<<"destructor", "exit">>, Crashed}
    /\ UNCHANGED <<page, signalled, cut, twice>>

\* It closes the descriptors it finds where its argument, which nobody
\* passes, would point to.
clean_exit ==
    /\ pc = <<"destructor", "close">>
    /\ begun' = TRUE
    /\ pc' \in {<<"destructor", "free">>, Crashed}
    /\ UNCHANGED <<page, signalled, cut, twice>>

Leave == /\ pc = <<"destructor", "exit">> /\ pc' = Exited
         /\ UNCHANGED <<page, signalled, begun, cut, twice>>

Next == \/ read_html_file \/ Failure \/ handle_sigint \/ Exit \/ clean_exit \/ Leave
        \/ \E who \in Who : Free(who) \/ Clear(who)

Spec == Init /\ [][Next]_vars

-----------------------------------------------------------------------------
(***************************************************************************)
(* The page is freed once, however main(), the handler and the destructor  *)
(* come to it, unless SIGINT hits between the two statements of            *)
(* free_html_content() (server_mac_poll.c:58-60, 83, 216, 223).            *)
(***************************************************************************)
FreedOnce == twice => cut

(***************************************************************************)
(* A process that has exited, by an error, by SIGINT or by SIGINT during   *)
(* an error, has freed its page (server_mac_poll.c:69-86).                 *)
(***************************************************************************)
FreedAtExit == pc = Exited => page = "null"
=============================================================================
