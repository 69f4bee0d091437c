--------------------------- MODULE MCThreadServer ---------------------------
(***************************************************************************)
(* Instances of ThreadServer for TLC.  The clients are interchangeable, so *)
(* it is enough to look at the behaviours in which they connect in one     *)
(* order, in which the kernel hands them out; unlike symmetry that is      *)
(* sound for liveness too.                                                 *)
(***************************************************************************)
EXTENDS ThreadServer

CONSTANTS c1, c2, c3

InOrder == \A pair \in {<<c1, c2>>, <<c2, c3>>} :
    /\ conn'[pair[2]] # "none" => conn[pair[1]] # "none"
    /\ conn'[pair[2]] = "open" => conn[pair[1]] # "queued"

MCSpec == /\ Init /\ [][Next /\ InOrder]_vars
          /\ WF_vars(Running /\ Main)
          /\ \A t \in Clients : WF_vars(Running /\ Thread(t))
=============================================================================
