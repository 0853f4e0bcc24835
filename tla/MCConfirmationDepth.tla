------------------------ MODULE MCConfirmationDepth ------------------------
(***************************************************************************)
(* ConfirmationDepth over a small tree of blocks.                          *)
(***************************************************************************)
EXTENDS ConfirmationDepth, MCBlockTree
=============================================================================
