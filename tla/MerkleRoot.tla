----------------------------- MODULE MerkleRoot -----------------------------
(***************************************************************************)
(* The root of a tree over the hashes of messages (afn/src/merkle.rs).     *)
(* Hashes do not collide: a hash is what it was made from.  The two domain *)
(* separators keep leaves and inner nodes apart, as the two tags do here;  *)
(* an inner node hashes its children in the order of their hashes, so that *)
(* it is the set of them that counts.                                      *)
(***************************************************************************)
EXTENDS Integers, Sequences

Leaf(message) == [leaf |-> message]
HashNode(left, right) == [inner |-> {left, right}]
ZeroHash == [zero |-> 0]

\* Mutant: the last of an odd number goes up as it is.
PairedUnpadded(level) ==
    [i \in 1 .. ((Len(level) + 1) \div 2) |->
        IF 2 * i <= Len(level) THEN HashNode(level[2 * i - 1], level[2 * i])
        ELSE level[2 * i - 1]]

\* One round of the loop: pairs from the front, the last one padded.
Paired(level) ==
    [i \in 1 .. ((Len(level) + 1) \div 2) |->
        HashNode(level[2 * i - 1],
                 IF 2 * i <= Len(level) THEN level[2 * i] ELSE ZeroHash)]

\* root_from_hashed_leafs, of at least one leaf: rounds while more than one
\* hash is left.
RootFromHashedLeafs(leaves) ==
    LET level[k \in 0 .. Len(leaves)] ==
            IF k = 0 THEN leaves
            ELSE IF Len(level[k - 1]) > 1 THEN Paired(level[k - 1]) ELSE level[k - 1]
    IN level[Len(leaves)][1]

-----------------------------------------------------------------------------
\* The tree, from the top: the lowest complete binary tree with room for the
\* leaves, where a subtree without a leaf is the zero hash (node[h][i] is the i-th
\* subtree of height h).  Proofs for messages are made for this tree.
Tree(leaves) ==
    LET height == CHOOSE h \in 0 .. Len(leaves) :
                     2^h >= Len(leaves) /\ (h = 0 \/ 2^(h - 1) < Len(leaves))
        node[h \in 0 .. Len(leaves)] ==
            [i \in Nat |->
                IF i * 2^h >= Len(leaves) THEN ZeroHash
                ELSE IF h = 0 THEN leaves[i + 1]
                ELSE HashNode(node[h - 1][2 * i], node[h - 1][2 * i + 1])]
    IN node[height][0]
=============================================================================
