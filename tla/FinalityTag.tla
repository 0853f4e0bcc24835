----------------------------- MODULE FinalityTag -----------------------------
(***************************************************************************)
(* The chain status worker of a chain with ChainStability::FinalityTag     *)
(* (FinalityTagChainStatusUpdater, afn/src/chain_status_worker.rs), with   *)
(* the chain it follows.  An update reads the finalized and the latest     *)
(* block, then walks from the latest block back, parent by parent, until   *)
(* it meets the tail it had.  Each of these reads is a call to the node,   *)
(* and the chain moves between two calls.                                  *)
(***************************************************************************)
EXTENDS BlockTree

CONSTANT Genesis   \* the finalized block the node starts from

ASSUME FinalityTagAssumption == Genesis \in Block

VARIABLES
    anyChain,   \* TRUE: the chain may break every rule; FALSE: it keeps them
    head,       \* the latest block of the chain
    fin,        \* its finalized block
    reliable,   \* TRUE once calls no longer fail and the node no longer lags
    pc,         \* where the update is: "idle", "latest" or "walk"
    status,     \* the kind of latest_chain_status: "none", "good", "violated"
    tail,       \* the tail of a good status
    finalized,  \* the finalized block that this update read
    newTail     \* the tail that this update builds

chainVars == <<anyChain, head, fin, reliable>>
vars == <<anyChain, head, fin, reliable, pc, status, tail, finalized, newTail>>

Nothing == Single(Genesis)  \* the value of a tail that is not in use

Init ==
    /\ anyChain \in BOOLEAN /\ head = Genesis /\ fin = Genesis /\ reliable = FALSE
    /\ pc = "idle" /\ status = "none"
    /\ tail = Nothing /\ newTail = Nothing /\ finalized = Genesis

-----------------------------------------------------------------------------
(***************************************************************************)
(* The chain.                                                              *)
(***************************************************************************)
\* A new head, above the old one or on another fork, that keeps the finalized
\* block; any block at all when the chain breaks its rules.
MoveHead ==
    /\ head' \in Block \ {head}
    /\ anyChain \/ fin \preceq head'
    /\ UNCHANGED <<anyChain, fin, reliable, pc, status, tail, finalized, newTail>>

\* The finalized block advances along the chain of the head.
Finalize ==
    /\ fin' \in Block \ {fin}
    /\ anyChain \/ (fin \preceq fin' /\ fin' \preceq head)
    /\ UNCHANGED <<anyChain, head, reliable, pc, status, tail, finalized, newTail>>

\* From here on the node answers every call, and from its present chain.
Stabilize ==
    /\ ~reliable
    /\ reliable' = TRUE
    /\ UNCHANGED <<anyChain, head, fin, pc, status, tail, finalized, newTail>>

\* The answers a node may give for a tag that is at b: a node that lags
\* answers with an earlier block of the same chain.
Answers(b) == {a \in Block : IF reliable THEN a = b ELSE a \preceq b}

-----------------------------------------------------------------------------
(***************************************************************************)
(* The updater.                                                            *)
(***************************************************************************)
\* Mutant: a violation is a status like any other, and the worker starts anew.
InitialAfterViolation ==
    /\ pc = "idle" /\ status \in {"none", "violated"}
    /\ \E b \in Answers(fin) : tail' = Single(b)
    /\ status' = "good"
    /\ UNCHANGED <<chainVars, pc, finalized, newTail>>

\* initial(): a tail of one block, the finalized one.
Initial ==
    /\ pc = "idle" /\ status = "none"
    /\ \E b \in Answers(fin) : tail' = Single(b)
    /\ status' = "good"
    /\ UNCHANGED <<chainVars, pc, finalized, newTail>>

\* Mutant: the tag of the first request is not the finalized one.
ReadFinalizedAtLatest ==
    /\ pc = "idle" /\ status = "good"
    /\ finalized' \in Answers(head)
    /\ pc' = "latest"
    /\ UNCHANGED <<chainVars, status, tail, newTail>>

\* update(), the first answer of its batch.  A violated status stays so.
ReadFinalized ==
    /\ pc = "idle" /\ status = "good"
    /\ finalized' \in Answers(fin)
    /\ pc' = "latest"
    /\ UNCHANGED <<chainVars, status, tail, newTail>>

\* The second answer.  A latest block below the finalized one is ignored.
ReadLatest ==
    /\ pc = "latest"
    /\ \E latest \in Answers(head) :
          newTail' = IF Number[finalized] <= Number[latest]
                     THEN Single(latest) ELSE Single(finalized)
    /\ pc' = "walk"
    /\ UNCHANGED <<chainVars, status, tail, finalized>>

\* The first block of the new tail, where the walk stands.
NewHead == StableTip(newTail)

\* Mutant: a walk that ends below the stable tip is a conflict too.
ConflictsAtOrBelowStable ==
    /\ ~Contains(tail, NewHead)
    /\ Number[NewHead] <= tail.lo

\* It is at the number of the stable tip, and is another block.
ConflictsWithStable ==
    /\ ~Contains(tail, NewHead)
    /\ Number[NewHead] = tail.lo

\* It is at the number of the finalized block read, and is another block.
ConflictsWithFinalized ==
    /\ ~Contains(tail, NewHead)
    /\ Number[NewHead] # tail.lo
    /\ Number[NewHead] = Number[finalized] /\ NewHead # finalized

\* The walk has met the tail: the new tail takes over, from the finalized
\* block on, or from the old stable tip if the finalized block is below it.
Attach ==
    /\ pc = "walk" /\ Contains(tail, NewHead)
    /\ tail' = Reanchored(newTail, tail, Number[finalized])
    /\ pc' = "idle" /\ newTail' = Nothing
    /\ UNCHANGED <<chainVars, status, finalized>>

Violate ==
    /\ pc = "walk" /\ (ConflictsWithStable \/ ConflictsWithFinalized)
    /\ status' = "violated"
    /\ pc' = "idle" /\ tail' = Nothing /\ newTail' = Nothing
    /\ UNCHANGED <<chainVars, finalized>>

\* Mutant: the test for a rewound tail is not strict.
KeepOldAtStable ==
    /\ pc = "walk"
    /\ ~Contains(tail, NewHead) /\ ~ConflictsWithFinalized
    /\ Number[NewHead] <= tail.lo
    /\ pc' = "idle" /\ newTail' = Nothing
    /\ UNCHANGED <<chainVars, status, tail, finalized>>

\* The new tail is all below the stable tip: it is dropped, the old one kept.
KeepOld ==
    /\ pc = "walk"
    /\ ~Contains(tail, NewHead) /\ ~ConflictsWithFinalized
    /\ Number[NewHead] < tail.lo
    /\ pc' = "idle" /\ newTail' = Nothing
    /\ UNCHANGED <<chainVars, status, tail, finalized>>

\* One step back.  (The block cache answers by hash what the node would.)
WalkBack ==
    /\ pc = "walk"
    /\ ~Contains(tail, NewHead) /\ ~ConflictsWithFinalized
    /\ Number[NewHead] > tail.lo
    /\ newTail' = PushFront(newTail, Parent[NewHead])
    /\ UNCHANGED <<chainVars, pc, status, tail, finalized>>

\* A call fails, or shutdown is requested: update() returns an error.
Abort ==
    /\ ~reliable
    /\ pc \in {"latest", "walk"}
    /\ pc' = "idle" /\ newTail' = Nothing
    /\ UNCHANGED <<chainVars, status, tail, finalized>>

Updater == Initial \/ ReadFinalized \/ ReadLatest \/ Attach \/ Violate
           \/ KeepOld \/ WalkBack
Chain == MoveHead \/ Finalize \/ Stabilize

Next == Updater \/ Abort \/ Chain

Spec == Init /\ [][Next]_vars

\* The worker polls for ever, and calls to the node fail only for a while.
FairSpec == Spec /\ WF_vars(Updater) /\ WF_vars(Stabilize)

-----------------------------------------------------------------------------
(***************************************************************************)
(* Correctness.                                                            *)
(***************************************************************************)
\* The type invariant.
TypeOK ==
    /\ anyChain \in BOOLEAN /\ head \in Block /\ fin \in Block /\ reliable \in BOOLEAN
    /\ pc \in {"idle", "latest", "walk"}
    /\ status \in {"none", "good", "violated"}
    /\ IsRun(tail) /\ IsRun(newTail)
    /\ finalized \in Block
    /\ status # "good" => pc = "idle"

\* Whatever the chain does, and wherever an update is interrupted, the tail
\* that is published is one chain without a gap, so the Tail::new that ends
\* an update never fails, and neither do the two loops before it leave the new
\* tail empty (Reanchored splices blocks of two walks taken at different times).
TailsLinked == IsChain(tail) /\ IsChain(newTail)

\* The worker implements the abstract chain, for any behaviour of the chain
\* and any mixture of old and new answers: the stable tip only moves to its
\* descendants, and a violation is for ever.
Abstract == INSTANCE StableChain
    WITH phase <- status,
         stable <- IF status = "good" THEN StableTip(tail) ELSE NoBlock
RefinesStableChain == Abstract!Spec

\* On a chain that keeps its rules no violation is ever reported (a report
\* curses the chain), although the finalized block, the latest block and each
\* parent are read at different times, from a node that may lag.
NoFalseViolation == ~anyChain => status # "violated"

\* On such a chain, what the worker calls stable is finalized.
StableIsFinal == ~anyChain /\ status = "good" => StableTip(tail) \preceq fin

\* On such a chain, once the node is reliable and the chain rests, the tail
\* spans exactly the blocks from the finalized one to the latest one.
CatchesUp ==
    ~anyChain /\ <>[][FALSE]_<<head, fin>> =>
    <>[](status = "good" /\ Tip(tail) = head /\ StableTip(tail) = fin)

\* The canonical chain, as high as the stable tip, has left it behind.
Conflict == /\ status = "good"
            /\ Number[StableTip(tail)] <= Number[head]
            /\ ~(StableTip(tail) \preceq head)

\* A reverted stable block does not stay unnoticed: if the chain rests on a
\* head that conflicts with the stable tip, the violation is reported.
DetectsViolation == <>[][FALSE]_head => <>[]~Conflict
=============================================================================
