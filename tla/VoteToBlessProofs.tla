-------------------------- MODULE VoteToBlessProofs --------------------------
(***************************************************************************)
(* What the worker that votes to bless may never do, for any number of     *)
(* lanes and roots, any size of a batch and any delays.                    *)
(***************************************************************************)
EXTENDS VoteToBless, FiniteSetTheorems, TLAPS

\* A lane has a late vote only if it is cursed, and then the batch has no root of
\* it: roots are added to the batch while their lane is not cursed.
LateInv ==
    \A lane \in Lane :
        /\ late[lane] \in {0, 1}
        /\ late[lane] = 1 => lane \in cursed /\ batch \cap RootsOf(lane) = {}

\* What was sent is inflight, and what is inflight is in no batch.
InflightInv == hot \subseteq inflight /\ batch \cap inflight = {}

Inv == TypeOK /\ IsFiniteSet(batch) /\ LateInv /\ InflightInv

-----------------------------------------------------------------------------
LEMMA InitInv == Init => Inv
<1> SUFFICES ASSUME Init PROVE Inv
  OBVIOUS
<1>1. IsFiniteSet(batch) /\ Cardinality(batch) = 0
  BY FS_EmptySet DEF Init
<1>2. unrest \in 0 .. MaxUnrest /\ Cardinality(batch) <= MaxBatch
  BY <1>1, VoteToBlessAssumption DEF Init
<1>3. vote \in [Root -> {"none", "voted", "blessed"}]
  BY DEF Init
<1>4. late \in [Lane -> Nat] /\ queue \in [Root -> {"no", "waiting", "due"}]
  BY DEF Init
<1>5. TypeOK
  BY <1>2, <1>3, <1>4 DEF Init, TypeOK
<1> QED
  BY <1>1, <1>5 DEF Init, Inv, LateInv, InflightInv

\* A root that leaves the queue is added to a batch that has room for it.
LEMMA PopInv ==
    ASSUME Inv, NEW r \in Root, Pop(r)
    PROVE  Inv'
<1>1. IsFiniteSet(batch') /\ Cardinality(batch') <= MaxBatch
  <2>1. CASE batch' = batch
    BY <2>1 DEF Inv, TypeOK
  <2>2. CASE batch' = batch \cup {r}
    <3>1. /\ IsFiniteSet(batch')
          /\ Cardinality(batch') = IF r \in batch THEN Cardinality(batch)
                                   ELSE Cardinality(batch) + 1
      BY <2>2, FS_AddElement DEF Inv
    <3>2. Cardinality(batch) \in Nat /\ Cardinality(batch) < MaxBatch
      BY FS_CardinalityType DEF Inv, Pop
    <3> QED
      BY <3>1, <3>2, VoteToBlessAssumption
  <2> QED
    BY <2>1, <2>2 DEF Pop
<1>2. TypeOK'
  BY <1>1 DEF Inv, TypeOK, Pop, chain, ledger
<1>3. LateInv'
  BY DEF Inv, LateInv, Pop, LaneIsCursed, RootsOf, ledger
<1>4. InflightInv'
  BY DEF Inv, InflightInv, Pop, ledger
<1> QED
  BY <1>1, <1>2, <1>3, <1>4 DEF Inv

\* The batch is gone when it leaves the node, and each of its lanes that is
\* cursed has had no late vote before.
LEMMA EmitInv ==
    ASSUME Inv, Emit, batch' = {}, UNCHANGED cursed
    PROVE  LateInv' /\ late' \in [Lane -> Nat] /\ pool' \subseteq SUBSET Root
<1>1. ASSUME NEW lane \in Lane
      PROVE  late'[lane] \in {0, 1} /\ (late'[lane] = 1 => lane \in cursed)
  <2>1. CASE lane \in cursed /\ \E r \in batch : LaneOf[r] = lane
    <3>1. batch \cap RootsOf(lane) # {}
      BY <2>1 DEF Inv, TypeOK, RootsOf
    <3>2. late[lane] = 0
      BY <3>1 DEF Inv, LateInv
    <3> QED
      BY <2>1, <3>2 DEF Emit
  <2>2. CASE ~(lane \in cursed /\ \E r \in batch : LaneOf[r] = lane)
    BY <2>2 DEF Emit, Inv, LateInv
  <2> QED
    BY <2>1, <2>2
<1>2. LateInv'
  BY <1>1 DEF LateInv
<1>3. late' \in [Lane -> Nat]
  BY DEF Emit, Inv, TypeOK
<1>4. pool' \subseteq SUBSET Root
  BY DEF Emit, Inv, TypeOK
<1> QED
  BY <1>2, <1>3, <1>4

LEMMA SendInv ==
    ASSUME Inv, Send \/ SendFails \/ Pretend
    PROVE  Inv'
<1>1. batch' = {} /\ IsFiniteSet(batch') /\ Cardinality(batch') = 0
  BY FS_EmptySet DEF Send, SendFails, EndPoll, Pretend
<1>2. CASE Send
  <2>1. LateInv' /\ late' \in [Lane -> Nat] /\ pool' \subseteq SUBSET Root
    BY <1>1, <1>2, EmitInv DEF Send
  <2>2. TypeOK'
    BY <1>1, <1>2, <2>1, VoteToBlessAssumption DEF Inv, TypeOK, Send, chain
  <2>3. InflightInv'
    BY <1>1, <1>2 DEF Inv, InflightInv, Send
  <2> QED
    BY <1>1, <2>1, <2>2, <2>3 DEF Inv
<1>3. CASE SendFails
  <2>1. LateInv' /\ late' \in [Lane -> Nat] /\ pool' \subseteq SUBSET Root
    <3>1. CASE Emit
      BY <1>1, <1>3, <3>1, EmitInv DEF SendFails
    <3>2. CASE UNCHANGED <<pool, late>>
      BY <1>1, <1>3, <3>2 DEF SendFails, EndPoll, Inv, LateInv, TypeOK
    <3> QED
      BY <1>3, <3>1, <3>2 DEF SendFails, EndPoll
  <2>2. TypeOK'
    BY <1>1, <1>3, <2>1, VoteToBlessAssumption DEF Inv, TypeOK, SendFails, EndPoll, chain
  <2>3. InflightInv'
    BY <1>1, <1>3 DEF Inv, InflightInv, SendFails, EndPoll
  <2> QED
    BY <1>1, <2>1, <2>2, <2>3 DEF Inv
<1>4. CASE Pretend
  <2>1. TypeOK'
    BY <1>1, <1>4, VoteToBlessAssumption DEF Inv, TypeOK, Pretend, chain, ledger
  <2>2. LateInv'
    BY <1>1, <1>4 DEF Inv, LateInv, Pretend, ledger
  <2>3. InflightInv'
    BY <1>1, <1>4 DEF Inv, InflightInv, Pretend, ledger
  <2> QED
    BY <1>1, <2>1, <2>2, <2>3 DEF Inv
<1> QED
  BY <1>2, <1>3, <1>4

\* The other steps of the worker and of time leave the batch and the votes alone.
LEMMA CollectInv ==
    ASSUME Inv, Collect \/ Sleep
    PROVE  Inv'
<1>1. CASE Collect
  <2>1. queue' \in [Root -> {"no", "waiting", "due"}]
    <3>1. CASE Delays = {}
      BY <1>1, <3>1 DEF Collect, Inv, TypeOK
    <3>2. CASE Delays # {}
      BY <1>1, <3>2 DEF Collect, Inv, TypeOK
    <3> QED
      BY <3>1, <3>2
  <2>2. TypeOK'
    BY <1>1, <2>1 DEF Collect, Inv, TypeOK, chain, ledger
  <2> QED
    BY <1>1, <2>2 DEF Collect, Inv, LateInv, InflightInv, ledger
<1>2. CASE Sleep
  BY <1>2 DEF Sleep, EndPoll, Inv, TypeOK, LateInv, InflightInv, chain, ledger
<1> QED
  BY <1>1, <1>2

LEMMA TimeInv ==
    ASSUME Inv, NEW r \in Root, Ripen(r) \/ Expire(r)
    PROVE  Inv'
<1>1. CASE Ripen(r)
  BY <1>1 DEF Ripen, Inv, TypeOK, LateInv, InflightInv, chain, ledger
<1>2. CASE Expire(r)
  BY <1>2 DEF Expire, Inv, TypeOK, LateInv, InflightInv, chain
<1> QED
  BY <1>1, <1>2

\* The chain and the rest of the node: a curse makes no vote late that was sent.
LEMMA OutsideInv ==
    ASSUME Inv, Outside
    PROVE  Inv'
<1>1. batch' = batch /\ late' = late /\ inflight' = inflight /\ hot' = hot /\ pc' = pc
      /\ cursed \subseteq cursed'
  BY DEF Outside, Commit, Bless, Reset, Uncommit, Mine, Lose, Curse, Publish,
         PublishBehind, Stabilize, worker, ledger
<1>2. LateInv' /\ InflightInv' /\ IsFiniteSet(batch')
  BY <1>1 DEF Inv, LateInv, InflightInv, RootsOf
<1>3. ASSUME NEW r \in Root, Commit(r) \/ Bless(r) \/ Reset(r) \/ Uncommit(r)
      PROVE  TypeOK'
  <2>1. committed' \subseteq Root /\ vote' \in [Root -> {"none", "voted", "blessed"}]
    BY <1>3 DEF Inv, TypeOK, Commit, Bless, Reset, Uncommit
  <2>2. unrest' \in 0 .. MaxUnrest
    BY <1>3, VoteToBlessAssumption DEF Inv, TypeOK, Commit, Bless, Reset, Uncommit
  <2> QED
    BY <1>3, <2>1, <2>2 DEF Inv, TypeOK, Commit, Bless, Reset, Uncommit, worker, ledger
<1>4. ASSUME NEW b \in pool, Mine(b) \/ Lose(b)
      PROVE  TypeOK'
  BY <1>4 DEF Inv, TypeOK, Mine, Lose, chain, worker
<1>5. ASSUME NEW lane \in Lane, Curse(lane) \/ Publish(lane) \/ PublishBehind(lane)
      PROVE  TypeOK'
  <2>1. status' \subseteq Root /\ cursed' \subseteq Lane
    BY <1>5 DEF Inv, TypeOK, Curse, Publish, PublishBehind, RootsOf
  <2>2. UNCHANGED <<mode, committed, vote, unrest, reliable, pc, votable, queue,
                    inflight, batch, pool, hot, late>>
    BY <1>5 DEF Curse, Publish, PublishBehind, chain, worker, ledger
  <2> QED
    BY <2>1, <2>2 DEF Inv, TypeOK
<1>6. ASSUME Stabilize
      PROVE  TypeOK'
  <2>1. UNCHANGED <<mode, committed, vote, unrest, status, cursed, pc, votable, queue,
                    inflight, batch, pool, hot, late>> /\ reliable' \in BOOLEAN
    BY <1>6 DEF Stabilize, worker, ledger
  <2> QED
    BY <2>1 DEF Inv, TypeOK
<1>7. TypeOK'
  <2>1. CASE \E r \in Root : Commit(r) \/ Bless(r) \/ Reset(r) \/ Uncommit(r)
    BY <2>1, <1>3
  <2>2. CASE \E b \in pool : Mine(b) \/ Lose(b)
    BY <2>2, <1>4
  <2>3. CASE \E lane \in Lane : Curse(lane) \/ Publish(lane) \/ PublishBehind(lane)
    BY <2>3, <1>5
  <2>4. CASE Stabilize
    BY <2>4, <1>6
  <2> QED
    BY <2>1, <2>2, <2>3, <2>4 DEF Outside
<1> QED
  BY <1>2, <1>7 DEF Inv

-----------------------------------------------------------------------------
\* Inv holds in every reachable state, for any roots, lanes and modes.
THEOREM Invariance == Spec => []Inv
<1>1. ASSUME Inv, [Next]_vars
      PROVE  Inv'
  <2>1. CASE Worker
    BY <1>1, <2>1, PopInv, SendInv, CollectInv DEF Worker
  <2>2. CASE Time
    BY <1>1, <2>2, TimeInv DEF Time
  <2>3. CASE Outside
    BY <1>1, <2>3, OutsideInv
  <2>4. CASE UNCHANGED vars
    BY <1>1, <2>4 DEF Inv, TypeOK, LateInv, InflightInv, vars, chain, worker, ledger
  <2> QED
    BY <1>1, <2>1, <2>2, <2>3, <2>4 DEF Next
<1> QED
  BY <1>1, InitInv, PTL DEF Spec

\* The state of the worker and of its chain is well typed in every poll.
THEOREM TypeCorrect == Spec => []TypeOK
<1>1. Inv => TypeOK
  BY DEF Inv
<1> QED
  BY <1>1, Invariance, PTL

\* A curse stops all votes of its lane but the one in the making, whatever is
\* queued and however many lanes, roots and polls there are.
THEOREM CurseStopsVotes == Spec => []AtMostOneLateVote
<1>1. Inv => AtMostOneLateVote
  BY DEF Inv, LateInv, AtMostOneLateVote
<1> QED
  BY <1>1, Invariance, PTL

\* No root is in a batch while the time of an earlier vote for it runs.
THEOREM NeverSentTwice == Spec => []NotSentTwice
<1>1. Inv => NotSentTwice
  BY DEF Inv, InflightInv, NotSentTwice
<1> QED
  BY <1>1, Invariance, PTL
=============================================================================
