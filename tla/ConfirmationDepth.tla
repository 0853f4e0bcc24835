-------------------------- MODULE ConfirmationDepth --------------------------
(***************************************************************************)
(* The chain status worker of a chain with                                 *)
(* ChainStability::ConfirmationDepth (ConfirmationDepthChainStatusUpdater, *)
(* afn/src/chain_status_worker.rs), with the chain it follows.  There is   *)
(* no finalized block to read: the tip is the block that has Soft blocks   *)
(* above it, the stable tip the one that has Hard more.  The latest number *)
(* and the block below it are two calls, and the chain moves between them. *)
(***************************************************************************)
EXTENDS BlockTree

CONSTANTS Genesis,  \* the first head
          Soft,     \* soft_confirmations
          Hard      \* hard_confirmations

ASSUME ConfirmationDepthAssumption ==
    Genesis \in Block /\ Soft \in Nat /\ Hard \in Nat

VARIABLES
    head,       \* the latest block of the chain
    settled,    \* the blocks that once had Soft + Hard blocks above them
    deepReorg,  \* TRUE once one of them was reverted
    reliable,   \* TRUE once calls no longer fail and the node no longer lags
    pc,         \* where the worker is: "idle", "height" or "walk"
    status,     \* the kind of latest_chain_status: "none", "good", "violated"
    tail,       \* the tail of a good status
    latest,     \* the latest number that was read
    newTail     \* the tail that this update builds

chainVars == <<head, settled, deepReorg, reliable>>
vars == <<head, settled, deepReorg, reliable, pc, status, tail, latest, newTail>>

\* u64::saturating_sub.
Less(m, n) == IF m < n THEN 0 ELSE m - n

\* The blocks of the chain of h with at least Soft + Hard blocks above them,
\* and its first block, which nothing can revert.
Deep(h) == {a \in Block : a \preceq h /\ Number[a] <= Less(Number[h], Soft + Hard)}

Nothing == Single(Genesis)  \* the value of a tail that is not in use

Init ==
    /\ head = Genesis /\ settled = Deep(Genesis)
    /\ deepReorg = FALSE /\ reliable = FALSE
    /\ pc = "idle" /\ status = "none"
    /\ tail = Nothing /\ newTail = Nothing /\ latest = 0

-----------------------------------------------------------------------------
\* The chain: a new head, anywhere.  What the operator of the node bets on when
\* configuring the depths is that deepReorg remains FALSE.
MoveHead ==
    /\ head' \in Block \ {head}
    /\ settled' = settled \cup Deep(head')
    /\ deepReorg' = (deepReorg \/ \E a \in settled : ~(a \preceq head'))
    /\ UNCHANGED <<reliable, pc, status, tail, latest, newTail>>

\* From here on the node answers every call, and from its present chain.
Stabilize ==
    /\ ~reliable
    /\ reliable' = TRUE
    /\ UNCHANGED <<head, settled, deepReorg, pc, status, tail, latest, newTail>>

-----------------------------------------------------------------------------
\* get_block_with_confirmations, the first call.  A node that lags answers with
\* an earlier block.  A violated status is final: update() returns it.
ReadLatest ==
    /\ pc = "idle" /\ status # "violated"
    /\ \E b \in Block : /\ IF reliable THEN b = head ELSE b \preceq head
                        /\ latest' = Number[b]
    /\ pc' = "height"
    /\ UNCHANGED <<chainVars, status, tail, newTail>>

\* Mutant: initial() asks for a block with the soft confirmations only.
HeightSoftOnly == Less(latest, Soft)

\* The height of the second call: initial() asks for the stable tip, update()
\* for the tip.
Height == Less(latest, IF status = "none" THEN Soft + Hard ELSE Soft)

\* The blocks the node has at that height: none if the chain is shorter by now.
AtHeight == {b \in Block : b \preceq head /\ Number[b] = Height}

\* initial(): a tail of one block.
Initial ==
    /\ pc = "height" /\ status = "none"
    /\ \E b \in AtHeight : tail' = Single(b)
    /\ status' = "good" /\ pc' = "idle"
    /\ UNCHANGED <<chainVars, latest, newTail>>

\* update(): the new tail starts with the tip.
ReadTip ==
    /\ pc = "height" /\ status = "good"
    /\ \E b \in AtHeight : newTail' = Single(b)
    /\ pc' = "walk"
    /\ UNCHANGED <<chainVars, status, tail, latest>>

\* The node has no block at that height: initial() or update() fails.
NotFound ==
    /\ pc = "height" /\ AtHeight = {}
    /\ pc' = "idle"
    /\ UNCHANGED <<chainVars, status, tail, latest, newTail>>

\* The first block of the new tail, where the walk stands.
NewHead == StableTip(newTail)

\* Mutant: the longest tail has Hard blocks, one too few.
AttachShort ==
    /\ pc = "walk" /\ Contains(tail, NewHead)
    /\ tail' = Reanchored(newTail, tail, Larger(0, newTail.hi - Hard + 1))
    /\ pc' = "idle" /\ newTail' = Nothing
    /\ UNCHANGED <<chainVars, status, latest>>

\* The walk has met the tail: the new tail takes over, with Hard + 1 blocks if
\* it can; it may be shorter, since it does not go below the old stable tip.
Attach ==
    /\ pc = "walk" /\ Contains(tail, NewHead)
    /\ tail' = Reanchored(newTail, tail, Larger(0, newTail.hi - Hard))
    /\ pc' = "idle" /\ newTail' = Nothing
    /\ UNCHANGED <<chainVars, status, latest>>

\* The walk is at the number of the stable tip, at another block.
Violate ==
    /\ pc = "walk" /\ ~Contains(tail, NewHead)
    /\ Number[NewHead] = tail.lo
    /\ status' = "violated"
    /\ pc' = "idle" /\ tail' = Nothing /\ newTail' = Nothing
    /\ UNCHANGED <<chainVars, latest>>

\* Mutant: the new tail, all below the stable tip, replaces the old one.
KeepNew ==
    /\ pc = "walk" /\ ~Contains(tail, NewHead)
    /\ Number[NewHead] < tail.lo
    /\ tail' = newTail
    /\ pc' = "idle" /\ newTail' = Nothing
    /\ UNCHANGED <<chainVars, status, latest>>

\* The new tail is all below the stable tip: it is dropped, the old one kept.
KeepOld ==
    /\ pc = "walk" /\ ~Contains(tail, NewHead)
    /\ Number[NewHead] < tail.lo
    /\ pc' = "idle" /\ newTail' = Nothing
    /\ UNCHANGED <<chainVars, status, tail, latest>>

\* Mutant: the walk gives up one block above the stable tip.
WalkBackShort ==
    /\ pc = "walk" /\ ~Contains(tail, NewHead)
    /\ Number[NewHead] > tail.lo + 1
    /\ newTail' = PushFront(newTail, Parent[NewHead])
    /\ UNCHANGED <<chainVars, pc, status, tail, latest>>

\* One step back, by the hash of the parent.
WalkBack ==
    /\ pc = "walk" /\ ~Contains(tail, NewHead)
    /\ Number[NewHead] > tail.lo
    /\ newTail' = PushFront(newTail, Parent[NewHead])
    /\ UNCHANGED <<chainVars, pc, status, tail, latest>>

\* A call fails, or shutdown is requested: update() returns an error.
Abort ==
    /\ ~reliable
    /\ pc \in {"height", "walk"}
    /\ pc' = "idle" /\ newTail' = Nothing
    /\ UNCHANGED <<chainVars, status, tail, latest>>

Updater == ReadLatest \/ Initial \/ ReadTip \/ NotFound \/ Attach \/ Violate
           \/ KeepOld \/ WalkBack

Next == Updater \/ Abort \/ MoveHead \/ Stabilize

Spec == Init /\ [][Next]_vars

\* The worker polls for ever, and calls to the node fail only for a while.
FairSpec == Spec /\ WF_vars(Updater) /\ WF_vars(Stabilize)

-----------------------------------------------------------------------------
(***************************************************************************)
(* Correctness.                                                            *)
(***************************************************************************)
\* The type invariant.
TypeOK ==
    /\ head \in Block /\ settled \subseteq Block
    /\ deepReorg \in BOOLEAN /\ reliable \in BOOLEAN
    /\ pc \in {"idle", "height", "walk"}
    /\ status \in {"none", "good", "violated"}
    /\ IsRun(tail) /\ IsRun(newTail)
    /\ latest \in Nat
    /\ pc = "walk" => status = "good"

\* The tail that is published is one chain without a gap, although its lower
\* part was read by earlier updates, perhaps of another fork.
TailsLinked == IsChain(tail) /\ IsChain(newTail)

\* The worker implements the abstract chain, for any behaviour of the chain.
Abstract == INSTANCE StableChain
    WITH phase <- status,
         stable <- IF status = "good" THEN StableTip(tail) ELSE NoBlock
RefinesStableChain == Abstract!Spec

\* A violation is reported (and the chain cursed) only if a block that once had
\* Soft + Hard confirmations was reverted: no shallower reorganisation, not
\* even one to a shorter chain between the two calls of an update, is enough.
NoFalseViolation == status = "violated" => deepReorg

\* Without deep reorganisations, the stable tip has had all its confirmations,
\* though they are counted from a number that may be that of another fork.
StableIsSettled == status = "good" /\ ~deepReorg => StableTip(tail) \in settled

\* If the chain rests on a head h, the worker ends up reporting a violation, or
\* with the tip that is Soft below h in the chain of h, unless this is below
\* the stable tip: a reverted stable block cannot stay unnoticed, and the tail
\* does not stay on a fork.
Settles ==
    \A h \in Block :
        <>[](head = h) =>
        <>[]( \/ status = "violated"
              \/ /\ status = "good"
                 /\ \/ Less(Number[h], Soft) < tail.lo
                    \/ /\ Tip(tail) \preceq h
                       /\ Number[Tip(tail)] = Less(Number[h], Soft))
=============================================================================
