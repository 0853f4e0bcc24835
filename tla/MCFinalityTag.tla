--------------------------- MODULE MCFinalityTag ---------------------------
(***************************************************************************)
(* FinalityTag over a small tree of blocks.                                *)
(***************************************************************************)
EXTENDS FinalityTag, MCBlockTree
=============================================================================
