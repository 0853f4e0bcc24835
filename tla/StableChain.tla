----------------------------- MODULE StableChain -----------------------------
(***************************************************************************)
(* What a ChainStatusWorker promises to the workers that read it, however  *)
(* it finds out (afn/src/chain_status_worker.rs): a stable tip that only   *)
(* ever moves to its own descendants, until finality is seen violated,     *)
(* which is for ever.                                                      *)
(***************************************************************************)
EXTENDS BlockTree

VARIABLES phase,   \* "none" (not initialised), "good" or "violated"
          stable   \* the stable tip, NoBlock unless phase is "good"

vars == <<phase, stable>>

Init == phase = "none" /\ stable = NoBlock

\* The first status: nothing is known of the past, any block will do.
Start == /\ phase = "none"
         /\ phase' = "good"
         /\ stable' \in Block

\* A block that was reported stable stays in the chain that is reported.
Advance == /\ phase = "good"
           /\ phase' = "good"
           /\ stable' \in Block
           /\ stable \preceq stable'

\* There is no way back from a finality violation.
Violate == /\ phase = "good"
           /\ phase' = "violated"
           /\ stable' = NoBlock

Next == Start \/ Advance \/ Violate

Spec == Init /\ [][Next]_vars
=============================================================================
