---------------------------- MODULE MCPollServer ----------------------------
(***************************************************************************)
(* Instances of PollServer for TLC: more clients than slots.  PollWindow,  *)
(* the timeout of the same loop, and PollShutdown, its beginning and end,  *)
(* are looked at by themselves, in the behaviours in which `inspected' is  *)
(* "window" or "shutdown": which client was ready makes no difference to   *)
(* the timeout, nor the time to the clients, nor either to the page.       *)
(***************************************************************************)
EXTENDS PollServer, TLC

CONSTANTS c1, c2, c3

ThreeClients == {c1, c2, c3}
Symmetry == Permutations(ThreeClients)

CONSTANTS SEC, INITIAL_POLL_INTERVAL, SLIDING_WINDOW,
          MaxWork, MaxLate, MaxCount, MaxTimeout

VARIABLES page, downPc, signalled, begun, cut, twice

downVars == <<page, downPc, signalled, begun, cut, twice>>

Down == INSTANCE PollShutdown WITH pc <- downPc

VARIABLES inspected, ticks, eventsCount, pollTimeout, passes, longest

windowVars == <<ticks, eventsCount, pollTimeout, passes, longest>>

Window == INSTANCE PollWindow

ASSUME LoopAssumption == Window!WindowAssumption

LoopInit == /\ inspected \in {"server", "window", "shutdown"}
            /\ Init /\ Window!Init /\ Down!Init
            /\ inspected # "window" => ticks = 0
            /\ inspected # "server" => html

LoopNext == \/ /\ inspected = "server"
               /\ Next /\ UNCHANGED <<inspected, windowVars, downVars>>
            \/ /\ inspected = "window"
               /\ Window!Next /\ UNCHANGED <<inspected, vars, downVars>>
            \/ /\ inspected = "shutdown"
               /\ Down!Next /\ UNCHANGED <<inspected, vars, windowVars>>

LoopSpec == LoopInit /\ [][LoopNext]_<<vars, inspected, windowVars, downVars>>

-----------------------------------------------------------------------------
\* The types of the server and of its timeout.
TypesOK == TypeOK /\ Window!TypeOK

(***************************************************************************)
(* Only a late or a long pass can make the timeout grow again once a burst *)
(* has made it small (server_mac_poll.c:171-187).                          *)
(***************************************************************************)
WindowGrowsByLongPassesOnly == Window!GrowsByLongPassesOnly

FreedOnce == Down!FreedOnce
FreedAtExit == Down!FreedAtExit
=============================================================================
