----------------------------- MODULE OneAtATime -----------------------------
(***************************************************************************)
(* What a server that is neither threaded nor multiplexed promises: the    *)
(* clients that wait are taken one after the other, each once, and nobody  *)
(* else is served in between.                                              *)
(***************************************************************************)
CONSTANT Clients

VARIABLES
    waiting,    \* the clients that have connected and wait,
    serving,    \* the one that is served, if any,
    served      \* and those that have been served

vars == <<waiting, serving, served>>

Init == waiting = {} /\ serving = {} /\ served = {}

Arrive(c) == /\ c \notin waiting \cup serving \cup served
             /\ waiting' = waiting \cup {c}
             /\ UNCHANGED <<serving, served>>

Take(c) == /\ serving = {} /\ c \in waiting
           /\ waiting' = waiting \ {c}
           /\ serving' = {c}
           /\ UNCHANGED served

Finish(c) == /\ serving = {c}
             /\ serving' = {}
             /\ served' = served \cup {c}
             /\ UNCHANGED waiting

Next == \E c \in Clients : Arrive(c) \/ Take(c) \/ Finish(c)

Spec == Init /\ [][Next]_vars
=============================================================================
