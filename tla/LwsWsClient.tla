----------------------------- MODULE LwsWsClient -----------------------------
(***************************************************************************)
(* The libwebsockets client of main.c: it counts the messages it receives  *)
(* in rx_seen, ends at the tenth under -t, when the connection is gone or  *)
(* at SIGINT, and tells by its exit code whether it has seen more than     *)
(* ten.  The library is modelled by the callbacks it may issue.            *)
(***************************************************************************)
EXTENDS Naturals

CONSTANTS
    Enough,     \* 10 in the code
    Burst,      \* messages one call of lws_service() may deliver
    MaxSeen     \* bound: messages of a run without -t

WsAssumption == /\ Enough \in Nat \ {0} /\ Burst \in Nat \ {0}
                /\ MaxSeen \in Nat /\ MaxSeen > Enough + Burst

VARIABLES
    test,           \* -t was given
    interrupted, rx_seen,
    client_wsi,     \* "none" is NULL
    pc,             \* where main() is
    inCall          \* messages delivered by the current call

vars == <<test, interrupted, rx_seen, client_wsi, pc, inCall>>

Init == /\ test \in BOOLEAN
        /\ interrupted = FALSE /\ rx_seen = 0
        /\ client_wsi = "none"
        /\ pc = "connect"
        /\ inCall = 0

-----------------------------------------------------------------------------
(* The result of lws_create_context() is not looked at: the library is     *)
(* handed a null pointer.  The connection may fail before the call that    *)
(* asks for it returns.                                                    *)

Connect ==
    /\ pc = "connect"
    /\ \/ pc' = "crashed" /\ UNCHANGED client_wsi
       \/ pc' = "test" /\ client_wsi' \in {"none", "connecting"}
    /\ UNCHANGED <<test, interrupted, rx_seen, inCall>>

\* while (n >= 0 && client_wsi && !interrupted)
Test ==
    /\ pc = "test"
    /\ pc' = IF client_wsi # "none" /\ ~interrupted THEN "entering" ELSE "destroy"
    /\ inCall' = 0
    /\ UNCHANGED <<test, interrupted, rx_seen, client_wsi>>

\* Inside lws_service(), up to the wait.
Enter == /\ pc = "entering" /\ pc' = "waiting"
         /\ UNCHANGED <<test, interrupted, rx_seen, client_wsi, inCall>>

Return == /\ pc = "served" /\ pc' \in {"test", "destroy"}
          /\ UNCHANGED <<test, interrupted, rx_seen, client_wsi, inCall>>

sigint_handler ==
    /\ pc \notin {"crashed", "exited"}
    /\ interrupted' = TRUE
    /\ pc' = IF pc = "waiting" THEN "served" ELSE pc
    /\ UNCHANGED <<test, rx_seen, client_wsi, inCall>>

-----------------------------------------------------------------------------
(* The callbacks *)

Serving == pc \in {"waiting", "served"} /\ pc' = "served"

\* CLIENT_ESTABLISHED
Established ==
    /\ Serving /\ client_wsi = "connecting"
    /\ client_wsi' = "open"
    /\ UNCHANGED <<test, interrupted, rx_seen, inCall>>

\* CLIENT_RECEIVE
Receive ==
    /\ Serving /\ client_wsi = "open" /\ inCall < Burst /\ rx_seen < MaxSeen
    /\ inCall' = inCall + 1
    /\ rx_seen' = rx_seen + 1
    /\ interrupted' = (interrupted \/ (test /\ rx_seen' = Enough))
    /\ UNCHANGED <<test, client_wsi>>

\* (mutant) the pointer is kept
GoneUnnoticed ==
    /\ Serving /\ client_wsi = "open"
    /\ client_wsi' = "gone"
    /\ UNCHANGED <<test, interrupted, rx_seen, inCall>>

\* CLIENT_CONNECTION_ERROR and CLIENT_CLOSED
Gone ==
    /\ Serving /\ client_wsi # "none"
    /\ client_wsi' = "none"
    /\ UNCHANGED <<test, interrupted, rx_seen, inCall>>

\* The context goes, and the connection with it.
Destroy ==
    /\ pc = "destroy" /\ pc' = "exited"
    /\ client_wsi' = "none"
    /\ UNCHANGED <<test, interrupted, rx_seen, inCall>>

Main == Connect \/ Test \/ Enter \/ Return \/ Destroy

Service == Established \/ Receive \/ Gone

Next == Main \/ Service \/ sigint_handler

Spec == Init /\ [][Next]_vars

\* main() runs on, and the library gives up a connection that does not come
\* up, or that is silent, in the end.
FairSpec == Spec /\ WF_vars(Main) /\ WF_vars(pc = "waiting" /\ Service)

\* What main() returns: rx_seen > 10.
ExitCode == IF rx_seen > Enough THEN 1 ELSE 0

-----------------------------------------------------------------------------
TypeOK ==
    /\ test \in BOOLEAN /\ interrupted \in BOOLEAN
    /\ rx_seen \in 0 .. MaxSeen
    /\ client_wsi \in {"none", "connecting", "open"}
    /\ pc \in {"connect", "test", "entering", "waiting", "served", "destroy",
               "exited", "crashed"}
    /\ inCall \in 0 .. Burst

(***************************************************************************)
(* The program ends when its connection is gone, when it is interrupted,   *)
(* and under -t in any case, if it does not crash.                         *)
(***************************************************************************)
EndsInTheEnd ==
    (client_wsi = "none" /\ pc # "connect") \/ interrupted \/ test
        ~> pc \in {"exited", "crashed"}
=============================================================================
