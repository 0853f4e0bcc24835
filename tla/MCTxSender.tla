----------------------------- MODULE MCTxSender -----------------------------
(***************************************************************************)
(* TxSender, with a limit of few transactions.                             *)
(***************************************************************************)
EXTENDS TxSender
=============================================================================
