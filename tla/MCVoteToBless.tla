---------------------------- MODULE MCVoteToBless ----------------------------
(***************************************************************************)
(* VoteToBless, for one lane.                                              *)
(***************************************************************************)
EXTENDS VoteToBless

CONSTANT l

MCLaneOf == [r \in Root |-> l]
=============================================================================
