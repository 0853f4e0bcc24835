-------------------------- MODULE MCOffRampAnomaly --------------------------
(***************************************************************************)
(* OffRampAnomaly, for few messages and executions.                        *)
(***************************************************************************)
EXTENDS OffRampAnomaly
=============================================================================
