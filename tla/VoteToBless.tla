----------------------------- MODULE VoteToBless -----------------------------
(***************************************************************************)
(* The worker that votes to bless roots on one destination chain           *)
(* (afn/src/vote_to_bless_worker.rs, afn/src/inflight_root_cache.rs), with *)
(* the chain, the lane statuses that it reads (see LaneBless) and the      *)
(* curse beacon.  Roots are those that verify; the others never get here.  *)
(***************************************************************************)
EXTENDS Integers, FiniteSets

CONSTANTS Root,
          Lane,        \* the lanes to this chain
          LaneOf,      \* Root -> Lane: whose commit store has the root
          MaxBatch,    \* max_tagged_roots_per_vote_to_bless
          Modes,       \* the voting modes that the node may be started in
          Delays,      \* what permutation::delay may give: "none" now, "some" time
          MaxUnrest    \* a bound: how often roots are reset or reorganised away

ASSUME VoteToBlessAssumption ==
    /\ LaneOf \in [Root -> Lane]
    /\ MaxBatch \in Nat \ {0}
    /\ Modes \subseteq {"Active", "UnreliableRemote", "DryRun", "Passive"}
    /\ Delays \subseteq {"none", "some"}
    /\ MaxUnrest \in Nat

VARIABLES
    mode,       \* the voting mode
    \* the chain and the lanes
    committed,  \* the roots that are committed, with messages that are stable
    vote,       \* Root -> what the AFN contract has of it: "none", "voted", "blessed"
    unrest,     \* how often roots were reset or reorganised away
    reliable,   \* TRUE once the node answers in full
    status,     \* verified_tagged_roots of the lanes
    cursed,     \* the lanes that are cursed
    \* the worker
    pc,         \* "idle" or "loop" (makes and sends batches)
    votable,    \* what get_roots_to_bless returned to this poll
    queue,      \* Root -> "no", "waiting", "due": its place in VoteQueue
    inflight,   \* the roots of the InflightRootCache
    batch,
    \* the transactions on their way, and history
    pool,       \* their batches
    hot,        \* the roots sent without an error, for as long as inflight_time
    late        \* Lane -> votes sent for it after it was cursed

chain == <<mode, committed, vote, unrest, reliable>>
worker == <<pc, votable, queue, inflight, batch>>
ledger == <<pool, hot, late>>
vars == <<chain, status, cursed, worker, ledger>>

RootsOf(lane) == {r \in Root : LaneOf[r] = lane}

Init ==
    /\ mode \in Modes
    /\ committed = {} /\ vote = [r \in Root |-> "none"] /\ unrest = 0
    /\ reliable = FALSE
    /\ status = {} /\ cursed = {}
    /\ pc = "idle" /\ votable = {} /\ queue = [r \in Root |-> "no"]
    /\ inflight = {} /\ batch = {}
    /\ pool = {} /\ hot = {} /\ late = [lane \in Lane |-> 0]

-----------------------------------------------------------------------------
(***************************************************************************)
(* The chain.                                                              *)
(***************************************************************************)
Commit(r) ==
    /\ r \notin committed /\ committed' = committed \cup {r}
    /\ UNCHANGED <<mode, vote, unrest, reliable, status, cursed, worker, ledger>>

\* The votes of others reach the threshold.
Bless(r) ==
    /\ vote[r] # "blessed" /\ vote' = [vote EXCEPT ![r] = "blessed"]
    /\ UNCHANGED <<mode, committed, unrest, reliable, status, cursed, worker, ledger>>

\* The votes for a root are reset, or a reorganisation takes them back.
Reset(r) ==
    /\ unrest < MaxUnrest /\ unrest' = unrest + 1
    /\ vote[r] # "none" /\ vote' = [vote EXCEPT ![r] = "none"]
    /\ UNCHANGED <<mode, committed, reliable, status, cursed, worker, ledger>>

\* A reorganisation takes the commitment back.
Uncommit(r) ==
    /\ unrest < MaxUnrest /\ unrest' = unrest + 1
    /\ r \in committed /\ committed' = committed \ {r}
    /\ UNCHANGED <<mode, vote, reliable, status, cursed, worker, ledger>>

\* A transaction is mined: the vote counts if there is none yet.
Mine(b) ==
    /\ b \in pool /\ pool' = pool \ {b}
    /\ vote' = [r \in Root |-> IF r \in b /\ vote[r] = "none" THEN "voted" ELSE vote[r]]
    /\ UNCHANGED <<mode, committed, unrest, reliable, status, cursed, worker, hot, late>>

\* It is replaced, dropped or reverted.
Lose(b) ==
    /\ b \in pool /\ pool' = pool \ {b}
    /\ UNCHANGED <<chain, status, cursed, worker, hot, late>>

-----------------------------------------------------------------------------
(***************************************************************************)
(* The rest of the node.                                                   *)
(***************************************************************************)
Curse(lane) ==
    /\ lane \notin cursed /\ cursed' = cursed \cup {lane}
    /\ UNCHANGED <<chain, status, worker, ledger>>

\* LaneBlessStatusWorker: the roots of a lane that are open for a vote.
Publish(lane) ==
    /\ status' = (status \ RootsOf(lane)) \cup
                 {r \in RootsOf(lane) \cap committed : vote[r] = "none"}
    /\ UNCHANGED <<chain, cursed, worker, ledger>>

\* The same of a destination state that the last answers left behind: what is
\* committed, or voted for, may not be known.
PublishBehind(lane) ==
    /\ ~reliable
    /\ \E known \in SUBSET (RootsOf(lane) \cap committed) :
          status' = (status \ RootsOf(lane)) \cup known
    /\ UNCHANGED <<chain, cursed, worker, ledger>>

Stabilize ==
    /\ ~reliable /\ reliable' = TRUE
    /\ UNCHANGED <<mode, committed, vote, unrest, status, cursed, worker, ledger>>

-----------------------------------------------------------------------------
(***************************************************************************)
(* The worker.                                                             *)
(***************************************************************************)
LaneIsCursed(r) == LaneOf[r] \in cursed

\* Mutant: a root that is queued already is queued anew, with a new delay.
CollectAnew ==
    /\ pc = "idle" /\ pc' = "loop"
    /\ votable' = {r \in status : ~LaneIsCursed(r)}
    /\ queue' = [r \in Root |->
                    IF r \in votable' \ inflight THEN "waiting" ELSE queue[r]]
    /\ UNCHANGED <<chain, status, cursed, inflight, batch, ledger>>

\* The start of a poll: every votable root that is neither inflight nor queued
\* is queued, all with the same delay; without a delay, none.
Collect ==
    /\ pc = "idle" /\ pc' = "loop"
    /\ votable' = {r \in status : ~LaneIsCursed(r)}
    /\ IF Delays = {} THEN UNCHANGED queue
       ELSE \E delay \in Delays :
               queue' = [r \in Root |->
                   IF r \in votable' \ inflight /\ queue[r] = "no"
                   THEN IF delay = "none" THEN "due" ELSE "waiting"
                   ELSE queue[r]]
    /\ UNCHANGED <<chain, status, cursed, inflight, batch, ledger>>

\* The send time of a root has come.
Ripen(r) ==
    /\ queue[r] = "waiting" /\ queue' = [queue EXCEPT ![r] = "due"]
    /\ UNCHANGED <<chain, status, cursed, pc, votable, inflight, batch, ledger>>

\* The inflight_time of a root is over.
Expire(r) ==
    /\ r \in inflight \cup hot
    /\ inflight' = inflight \ {r} /\ hot' = hot \ {r}
    /\ UNCHANGED <<chain, status, cursed, pc, votable, queue, batch, pool, late>>

\* Mutant: the curse is asked for when the roots are collected only.
PopUnasked(r) ==
    /\ pc = "loop" /\ Cardinality(batch) < MaxBatch
    /\ queue[r] = "due" /\ queue' = [queue EXCEPT ![r] = "no"]
    /\ batch' = IF r \in votable \ inflight THEN batch \cup {r} ELSE batch
    /\ UNCHANGED <<chain, status, cursed, pc, votable, inflight, ledger>>

\* The next root of the queue goes into the batch, unless there is a reason
\* against it by now; either way it has left the queue.
Pop(r) ==
    /\ pc = "loop" /\ Cardinality(batch) < MaxBatch
    /\ queue[r] = "due" /\ queue' = [queue EXCEPT ![r] = "no"]
    /\ batch' = IF r \in votable \ inflight /\ ~LaneIsCursed(r)
                THEN batch \cup {r} ELSE batch
    /\ UNCHANGED <<chain, status, cursed, pc, votable, inflight, ledger>>

\* The batch is full, or no root is due.
Complete == Cardinality(batch) = MaxBatch \/ \A r \in Root : queue[r] # "due"

Votes == mode \in {"Active", "UnreliableRemote"}

\* The transaction with the batch leaves the node.
Emit ==
    /\ pool' = pool \cup {batch}
    /\ late' = [lane \in Lane |->
                   IF lane \in cursed /\ \E r \in batch : LaneOf[r] = lane
                   THEN late[lane] + 1 ELSE late[lane]]

\* Mutant: the roots are not remembered as inflight.
SendForgotten ==
    /\ pc = "loop" /\ batch # {} /\ Complete /\ Votes
    /\ Emit /\ hot' = hot \cup batch
    /\ batch' = {}
    /\ UNCHANGED <<chain, status, cursed, pc, votable, queue, inflight>>

Send ==
    /\ pc = "loop" /\ batch # {} /\ Complete /\ Votes
    /\ Emit /\ hot' = hot \cup batch
    /\ inflight' = inflight \cup batch
    /\ batch' = {}
    /\ UNCHANGED <<chain, status, cursed, pc, votable, queue>>

\* The list of the poll is dropped; the queue stays.
EndPoll == pc' = "idle" /\ votable' = {}

\* Sending returns an error, which ends the poll; the transaction may have left.
SendFails ==
    /\ pc = "loop" /\ batch # {} /\ Complete /\ Votes
    /\ Emit \/ UNCHANGED <<pool, late>>
    /\ batch' = {} /\ EndPoll
    /\ UNCHANGED <<chain, status, cursed, queue, inflight, hot>>

\* DryRun and Passive: nothing is sent, and the roots count as inflight.
Pretend ==
    /\ pc = "loop" /\ batch # {} /\ Complete /\ ~Votes
    /\ inflight' = inflight \cup batch
    /\ batch' = {}
    /\ UNCHANGED <<chain, status, cursed, pc, votable, queue, ledger>>

\* No root is due, and the worker sleeps.
Sleep ==
    /\ pc = "loop" /\ batch = {} /\ Complete
    /\ EndPoll
    /\ UNCHANGED <<chain, status, cursed, queue, inflight, batch, ledger>>

Worker == Collect \/ (\E r \in Root : Pop(r)) \/ Send \/ SendFails \/ Pretend \/ Sleep
Time == \E r \in Root : Ripen(r) \/ Expire(r)
Outside ==
    \/ \E r \in Root : Commit(r) \/ Bless(r) \/ Reset(r) \/ Uncommit(r)
    \/ \E b \in pool : Mine(b) \/ Lose(b)
    \/ \E lane \in Lane : Curse(lane) \/ Publish(lane) \/ PublishBehind(lane)
    \/ Stabilize

Next == Worker \/ Time \/ Outside

Spec == Init /\ [][Next]_vars

\* The workers poll for ever and time passes.  A root that is sent again and
\* again is sent without an error at some time, and mined at some time.
FairSpec ==
    /\ Spec
    /\ WF_vars(Worker) /\ WF_vars(Stabilize)
    /\ \A lane \in Lane : WF_vars(Publish(lane))
    /\ \A r \in Root :
          /\ WF_vars(Ripen(r)) /\ WF_vars(Expire(r))
          /\ SF_vars(Send /\ r \in batch)
          /\ SF_vars(\E b \in pool : r \in b /\ Mine(b))

-----------------------------------------------------------------------------
(***************************************************************************)
(* Correctness.                                                            *)
(***************************************************************************)
\* The type invariant.
TypeOK ==
    /\ mode \in Modes
    /\ committed \subseteq Root /\ status \subseteq Root
    /\ vote \in [Root -> {"none", "voted", "blessed"}]
    /\ unrest \in 0 .. MaxUnrest /\ reliable \in BOOLEAN
    /\ cursed \subseteq Lane
    /\ pc \in {"idle", "loop"}
    /\ votable \subseteq Root /\ inflight \subseteq Root
    /\ batch \subseteq Root /\ Cardinality(batch) <= MaxBatch
    /\ queue \in [Root -> {"no", "waiting", "due"}]
    /\ pool \subseteq SUBSET Root /\ hot \subseteq Root
    /\ late \in [Lane -> Nat]
    /\ pc = "idle" => batch = {}

\* After a lane was cursed, at most one vote with roots of it leaves the node:
\* the one that was in the making.  The roots that were collected before the
\* curse, and the queue, do not bring another one.
AtMostOneLateVote == \A lane \in Lane : late[lane] <= 1

\* A root whose vote was sent is not voted for again before its time is over,
\* although the status may show it as open and the queue may have it again.
NotSentTwice == batch \cap hot = {}

\* A root that stays committed on a lane that is not cursed is voted for in the
\* end, by this node or the others (in a mode that votes, for a voter that has a
\* delay): lost transactions, failed batches, votes that are reset, and statuses
\* that are behind only delay it.
VotedInTheEnd ==
    \A r \in Root :
        <>[](Votes /\ r \in committed /\ LaneOf[r] \notin cursed) => <>[](vote[r] # "none")
=============================================================================
