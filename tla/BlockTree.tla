------------------------------ MODULE BlockTree ------------------------------
(***************************************************************************)
(* The blocks of one chain, as a tree, and the tails the node keeps of it  *)
(* (afn/src/chain_status.rs, struct Tail).  A block is its hash; its       *)
(* number and its parent hash are functions of it.                         *)
(***************************************************************************)
EXTENDS Integers

CONSTANTS Block,    \* the blocks that any fork of the chain may ever contain
          NoBlock,  \* the parent of the genesis block
          Number,   \* Block -> its number
          Parent,   \* Block -> the block its parent_hash names
          Descends  \* {<<a, b>> : a is b, or a is an ancestor of b}

\* b is a or descends from a.
a \preceq b == <<a, b>> \in Descends

(***************************************************************************)
(* What hash linking gives: the parent of a block has the previous number, *)
(* and Descends is the reflexive and transitive closure of Parent.  The    *)
(* last but one conjunct says that the ancestors of a block form one       *)
(* chain, and the last one that this chain has no gap.                     *)
(***************************************************************************)
ASSUME TreeAssumption ==
    /\ NoBlock \notin Block
    /\ Number \in [Block -> Nat]
    /\ Parent \in [Block -> Block \cup {NoBlock}]
    /\ \A b \in Block : Parent[b] = NoBlock <=> Number[b] = 0
    /\ \A b \in Block : Parent[b] # NoBlock => Number[b] = Number[Parent[b]] + 1
    /\ Descends \subseteq Block \X Block
    /\ \A b \in Block : b \preceq b
    /\ \A b \in Block : Parent[b] # NoBlock => Parent[b] \preceq b
    /\ \A a, b, c \in Block : a \preceq b /\ b \preceq c => a \preceq c
    /\ \A a, b \in Block : a \preceq b /\ a # b => Number[a] < Number[b]
    /\ \A a, b, c \in Block :
          a \preceq c /\ b \preceq c /\ Number[a] <= Number[b] => a \preceq b
    /\ \A b \in Block : \A n \in 0 .. Number[b] :
          \E a \in Block : a \preceq b /\ Number[a] = n

-----------------------------------------------------------------------------
(***************************************************************************)
(* A tail is a run of linked blocks, from the stable tip (number lo) to    *)
(* the tip (number hi).  The Vec of the code, indexed by block number.     *)
(***************************************************************************)
IsRun(t) ==
    /\ t.lo \in Nat /\ t.hi \in Nat /\ t.lo <= t.hi
    /\ t.at \in [t.lo .. t.hi -> Block]

\* What Tail::new accepts: not empty, no gap in the numbers, parents match.
IsTail(t) ==
    /\ IsRun(t)
    /\ \A n \in t.lo .. t.hi : Number[t.at[n]] = n
    /\ \A n \in t.lo .. (t.hi - 1) : Parent[t.at[n + 1]] = t.at[n]

\* All the blocks of a tail are on one chain.
IsChain(t) ==
    /\ IsTail(t)
    /\ \A m, n \in t.lo .. t.hi : m <= n => t.at[m] \preceq t.at[n]

Tip(t) == t.at[t.hi]
StableTip(t) == t.at[t.lo]

\* Mutant: only the number is compared.
ContainsNumber(t, b) == Number[b] \in t.lo .. t.hi

\* Tail::contains: the tail has a block of that number, with that hash.
Contains(t, b) == Number[b] \in t.lo .. t.hi /\ t.at[Number[b]] = b

\* A tail of one block.
Single(b) == [lo |-> Number[b], hi |-> Number[b], at |-> [n \in {Number[b]} |-> b]]

\* VecDeque::push_front of the parent of the first block.
PushFront(t, b) ==
    [lo |-> t.lo - 1, hi |-> t.hi,
     at |-> [n \in (t.lo - 1) .. t.hi |-> IF n < t.lo THEN b ELSE t.at[n]]]

Larger(m, n) == IF m < n THEN n ELSE m

(***************************************************************************)
(* The two loops that end an update.  new starts at a block of old.        *)
(* Extended: while new starts above floor, its predecessors in old are     *)
(* pushed in front, as long as old has them.  Trimmed: while new starts    *)
(* below floor, its first block is popped.                                 *)
(***************************************************************************)
ExtendedNever(new, old, floor) == new   \* mutant: the first loop is missing
Extended(new, old, floor) ==
    LET lo == Larger(floor, old.lo) IN
    IF new.lo > floor /\ new.lo - 1 \in old.lo .. old.hi
    THEN [lo |-> lo, hi |-> new.hi,
          at |-> [n \in lo .. new.hi |-> IF n < new.lo THEN old.at[n] ELSE new.at[n]]]
    ELSE new

Trimmed(t, floor) ==
    LET lo == Larger(floor, t.lo)
    IN [lo |-> lo, hi |-> t.hi, at |-> [n \in lo .. t.hi |-> t.at[n]]]

\* The tail that replaces old, when new was walked back to a block of old.
Reanchored(new, old, floor) == Trimmed(Extended(new, old, floor), floor)
=============================================================================
