----------------------------- MODULE MCLogCache -----------------------------
(***************************************************************************)
(* LogCache, for a few blocks, one of which has more logs than are read    *)
(* over several blocks.                                                    *)
(***************************************************************************)
EXTENDS LogCache, TLC

CONSTANTS s, t

MCLogsIn == (s :> [n \in Block |-> IF n = 2 THEN 2 ELSE n % 2]) @@ (t :> [n \in Block |-> 1])
=============================================================================
