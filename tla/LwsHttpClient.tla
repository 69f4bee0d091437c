---------------------------- MODULE LwsHttpClient ----------------------------
(***************************************************************************)
(* The libwebsockets HTTP client of minimal-http-client.c (and of          *)
(* test3_websockets.c, the same text): main() runs lws_service() until     *)
(* "interrupted" is set, by a callback or by SIGINT, and makes its exit    *)
(* code out of "bad".  The library, which is not part of the repository,   *)
(* is modelled by the callbacks it may issue: any number in one call of    *)
(* lws_service(), and those of lws_context_destroy().                      *)
(***************************************************************************)
EXTENDS Naturals

CONSTANTS
    Flags,      \* the options that may be given, a subset of AllFlags
    Statuses    \* the HTTP statuses a server may answer with

AllFlags == {"-n", "-l", "-j", "--nossl", "--long-poll", "--cos"}

LwsAssumption == Flags \subseteq AllFlags /\ 200 \in Statuses /\ Statuses \subseteq Nat \ {0}

VARIABLES
    opts,           \* the options given
    pc,             \* where main() is
    interrupted, bad, status, long_poll,
    info,           \* what lws_client_connect_via_info() was given
    wsi             \* the connection: "none", "connecting", "open", "closed"

vars == <<opts, pc, interrupted, bad, status, long_poll, info, wsi>>

NoInfo == [port |-> 0, ssl |-> {}]      \* memset(&i, 0, sizeof i)

Init == /\ opts \in SUBSET Flags
        /\ pc = "create"
        /\ interrupted = FALSE /\ bad = 1 /\ status = 0 /\ long_poll = FALSE
        /\ info = NoInfo
        /\ wsi = "none"

-----------------------------------------------------------------------------
(* The options, in the order in which the code applies them *)

ConnectInfo(given) ==
    LET tls      == IF "-n" \in given THEN {} ELSE {"USE_SSL"}
        local    == IF "-l" \in given THEN {"ALLOW_SELFSIGNED"} ELSE {}
        soFar    == IF "--nossl" \in given THEN {} ELSE tls \cup local
    IN  [port |-> IF "-l" \in given THEN 7681 ELSE 443,
         ssl  |-> soFar \cup (IF "-j" \in given THEN {"ALLOW_SELFSIGNED"} ELSE {})]

-----------------------------------------------------------------------------
(* main() *)

CreateContext ==
    /\ pc = "create"
    /\ \/ pc' = "test" /\ UNCHANGED bad
       \/ pc' = "bail" /\ bad' = 5
    /\ UNCHANGED <<opts, interrupted, status, long_poll, info, wsi>>

\* while (n >= 0 && !interrupted)
Test ==
    /\ pc = "test"
    /\ pc' = IF interrupted THEN "destroy" ELSE "entering"
    /\ UNCHANGED <<opts, interrupted, bad, status, long_poll, info, wsi>>

\* Inside lws_service(), up to the wait: a signal here wakes nobody up.
Enter ==
    /\ pc = "entering" /\ pc' = "waiting"
    /\ UNCHANGED <<opts, interrupted, bad, status, long_poll, info, wsi>>

\* It returns after one callback or more; a negative result ends the loop.
Return ==
    /\ pc = "served" /\ pc' \in {"test", "destroy"}
    /\ UNCHANGED <<opts, interrupted, bad, status, long_poll, info, wsi>>

sigint_handler ==
    /\ pc # "exited"
    /\ interrupted' = TRUE
    /\ pc' = IF pc = "waiting" THEN "served" ELSE pc
    /\ UNCHANGED <<opts, bad, status, long_poll, info, wsi>>

-----------------------------------------------------------------------------
(* The callbacks of one connection *)

Serving == pc \in {"waiting", "served"} /\ pc' = "served"

\* CLIENT_CONNECTION_ERROR
Fails == wsi' = "closed" /\ interrupted' = TRUE /\ bad' = 3

\* COMPLETED_CLIENT_HTTP and CLOSED_CLIENT_HTTP
Ends == /\ wsi' = "closed" /\ interrupted' = TRUE
        /\ bad' = IF status = 200 THEN 0 ELSE 1

\* (mutant) only the completed answer is told
ClosesUnnoticed == wsi' = "closed" /\ UNCHANGED <<interrupted, bad>>

\* CLOSED_CLIENT_HTTP
Closes == Ends

\* The context is operational: system_notify_cb() asks for the connection,
\* and closes it again under --cos.
system_notify_cb ==
    /\ Serving /\ wsi = "none" /\ info = NoInfo
    /\ info' = ConnectInfo(opts)
    /\ long_poll' = ("-n" \notin opts /\ "--long-poll" \in opts)
    /\ \/ /\ wsi' = "closed"            \* with or without the error callback
          /\ interrupted' = TRUE /\ bad' = 2
       \/ /\ "--cos" \notin opts
          /\ wsi' = "connecting"
          /\ UNCHANGED <<interrupted, bad>>
       \/ "--cos" \in opts /\ (Fails \/ Closes)
    /\ UNCHANGED <<opts, status>>

ConnectionError ==
    /\ Serving /\ wsi = "connecting"
    /\ Fails
    /\ UNCHANGED <<opts, status, long_poll, info>>

Established ==
    /\ Serving /\ wsi = "connecting"
    /\ wsi' = "open"
    /\ status' \in Statuses
    /\ UNCHANGED <<opts, interrupted, bad, long_poll, info>>

\* RECEIVE_CLIENT_HTTP and RECEIVE_CLIENT_HTTP_READ: what comes is dropped.
Receive ==
    /\ Serving /\ wsi = "open"
    /\ UNCHANGED <<opts, interrupted, bad, status, long_poll, info, wsi>>

Completed ==
    /\ Serving /\ wsi = "open"
    /\ Ends
    /\ UNCHANGED <<opts, status, long_poll, info>>

\* By the server, or because a callback has returned -1.
Closed ==
    /\ Serving /\ wsi = "open"
    /\ Closes
    /\ UNCHANGED <<opts, status, long_poll, info>>

Service == system_notify_cb \/ ConnectionError \/ Established
             \/ Receive \/ Completed \/ Closed

\* lws_context_destroy() closes what is left, with its callback.
Destroy ==
    /\ pc = "destroy" /\ pc' = "bail"
    /\ \/ wsi = "open" /\ Closes
       \/ wsi = "connecting" /\ Fails
       \/ wsi \in {"none", "closed"} /\ UNCHANGED <<interrupted, bad, wsi>>
    /\ UNCHANGED <<opts, status, long_poll, info>>

\* The exit code is 0 when bad is what --expected-exit says, else 1.
Bail ==
    /\ pc = "bail" /\ pc' = "exited"
    /\ UNCHANGED <<opts, interrupted, bad, status, long_poll, info, wsi>>

Main == CreateContext \/ Test \/ Enter \/ Return \/ Destroy \/ Bail

Next == Main \/ Service \/ sigint_handler

Spec == Init /\ [][Next]_vars

\* main() runs on; something happens to the connection sooner or later, for
\* the library gives up a connection that does not come up (30 s) and the
\* stream has no end.
FairSpec == Spec /\ WF_vars(Main) /\ WF_vars(pc = "waiting" /\ Service)

-----------------------------------------------------------------------------
TypeOK ==
    /\ opts \subseteq Flags
    /\ pc \in {"create", "test", "entering", "waiting", "served", "destroy",
               "bail", "exited"}
    /\ interrupted \in BOOLEAN /\ long_poll \in BOOLEAN
    /\ bad \in {0, 1, 2, 3, 5}
    /\ status \in Statuses \cup {0}
    /\ wsi \in {"none", "connecting", "open", "closed"}

(***************************************************************************)
(* However the program ends, by SIGINT in the middle of a callback or with *)
(* the connection half open, "bad" is 0 when, and only when, the server    *)
(* has answered 200 (minimal-http-client.c:181-196, 424, 430).             *)
(***************************************************************************)
ExitTellsStatus == pc = "exited" => (bad = 0 <=> status = 200)

(***************************************************************************)
(* A connection that has ended ends the program, and so does SIGINT, even  *)
(* the one that comes between the test of "interrupted" and the wait.      *)
(***************************************************************************)
EndsWhenAsked == interrupted \/ wsi = "closed" ~> pc = "exited"
=============================================================================
