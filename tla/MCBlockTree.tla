---------------------------- MODULE MCBlockTree ----------------------------
(***************************************************************************)
(* Small trees of blocks for TLC.  A tree is the sequence of the parents   *)
(* of its blocks 1, 2, ...; parents come before their children, and block  *)
(* 1, the genesis block, has none.                                         *)
(***************************************************************************)
EXTENDS Integers, Sequences

MCNoBlock == 0

\* The number of a block is the number of steps to the genesis block.
NumberIn(parent) ==
    LET f[b \in DOMAIN parent] == IF parent[b] = 0 THEN 0 ELSE f[parent[b]] + 1
    IN f

\* The pairs of an ancestor, or the block itself, and a block.
DescendsIn(parent) ==
    LET anc[b \in DOMAIN parent] ==
            IF parent[b] = 0 THEN {b} ELSE anc[parent[b]] \cup {b}
    IN {<<a, b>> \in (DOMAIN parent) \X (DOMAIN parent) : a \in anc[b]}

\* Numbers 0 to 4; one fork that leaves the trunk 1 .. 5 at number 1.
ForkParent == <<0, 1, 2, 3, 4, 2, 6>>
ForkBlock == DOMAIN ForkParent
ForkNumber == NumberIn(ForkParent)
ForkDescends == DescendsIn(ForkParent)

\* Numbers 0 to 6; forks that leave the trunk 1 .. 7 at numbers 1 and 3.
TallParent == <<0, 1, 2, 3, 4, 5, 6, 2, 8, 9, 10, 4, 12>>
TallBlock == DOMAIN TallParent
TallNumber == NumberIn(TallParent)
TallDescends == DescendsIn(TallParent)
=============================================================================
