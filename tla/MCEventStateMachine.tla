------------------------ MODULE MCEventStateMachine ------------------------
(***************************************************************************)
(* EventStateMachine over a small tree of blocks, with a log in each but   *)
(* the first, on both forks, and one that does not decode.                 *)
(***************************************************************************)
EXTENDS EventStateMachine, MCBlockTree

\* Numbers 0 to 3: the trunk 1 .. 3, and the longer fork 4, 5 from number 1 on.
MCParent == <<0, 1, 2, 2, 4>>
MCBlock == DOMAIN MCParent
MCNumber == NumberIn(MCParent)
MCDescends == DescendsIn(MCParent)
=============================================================================
