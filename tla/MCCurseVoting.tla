---------------------------- MODULE MCCurseVoting ----------------------------
(***************************************************************************)
(* CurseVoting, for two chains and the lanes between them.                 *)
(***************************************************************************)
EXTENDS CurseVoting

CONSTANTS a, b  \* the chains

OneWay == {[source |-> a, dest |-> b]}
BothWays == OneWay \cup {[source |-> b, dest |-> a]}
=============================================================================
