-------------------------- MODULE FinalityTagProofs --------------------------
(***************************************************************************)
(* The safety of FinalityTag, for every tree of blocks.                    *)
(***************************************************************************)
EXTENDS FinalityTag, BlockTreeProofs

\* TailsLinked is not inductive alone: the loops that end an update need the
\* finalized block to be no higher than the tip of the new tail, which is why
\* the code replaces a latest block that is below it.
LinkInv ==
    /\ TypeOK
    /\ TailsLinked
    /\ pc = "walk" => Number[finalized] <= newTail.hi

LEMMA NothingIsChain == IsChain(Nothing)
BY FinalityTagAssumption, SingleIsChain DEF Nothing

LEMMA IsChainIsRun == ASSUME NEW t, IsChain(t) PROVE IsRun(t)
BY DEF IsChain, IsTail

LEMMA NewHeadBlock ==
    ASSUME LinkInv
    PROVE  /\ NewHead \in Block /\ Number[NewHead] = newTail.lo
           /\ Tip(newTail) \in Block /\ Number[Tip(newTail)] = newTail.hi
           /\ NewHead \preceq Tip(newTail)
           /\ StableTip(tail) \in Block /\ Number[StableTip(tail)] = tail.lo
           /\ tail.lo \in Nat /\ newTail.lo \in Nat
<1>1. IsChain(tail) /\ IsChain(newTail) BY DEF LinkInv, TailsLinked
<1>2. tail.lo \in tail.lo .. tail.hi /\ newTail.lo \in newTail.lo .. newTail.hi
  BY <1>1 DEF IsChain, IsTail, IsRun
<1> QED BY <1>1, <1>2, ChainBlocks DEF NewHead, StableTip

\* What Attach makes of the tail.
LEMMA AttachTail ==
    ASSUME LinkInv, Attach
    PROVE  /\ IsChain(tail')
           /\ StableTip(tail) \preceq StableTip(tail)'
           /\ Tip(tail)' = Tip(newTail)
           /\ tail'.lo = Number[finalized] \/ StableTip(tail)' = StableTip(tail)
<1>1. IsChain(tail) /\ IsChain(newTail) BY DEF LinkInv, TailsLinked
<1>2. Number[finalized] \in Nat /\ Number[finalized] <= newTail.hi
  BY TreeAssumption DEF LinkInv, TypeOK, Attach
<1>3. Contains(tail, StableTip(newTail)) BY DEF Attach, NewHead
<1>4. tail' = Reanchored(newTail, tail, Number[finalized]) BY DEF Attach
<1>5. /\ IsChain(Reanchored(newTail, tail, Number[finalized]))
      /\ StableTip(tail) \preceq StableTip(Reanchored(newTail, tail, Number[finalized]))
      /\ Tip(Reanchored(newTail, tail, Number[finalized])) = Tip(newTail)
      /\ \/ Reanchored(newTail, tail, Number[finalized]).lo = Number[finalized]
         \/ StableTip(Reanchored(newTail, tail, Number[finalized])) = StableTip(tail)
  BY <1>1, <1>2, <1>3, ReanchoredIsChain
<1> QED BY <1>4, <1>5 DEF StableTip, Tip

\* LinkInv is inductive.
LEMMA LinkInvInit == Init => LinkInv
<1> SUFFICES ASSUME Init PROVE LinkInv
  OBVIOUS
<1>1. IsChain(tail) /\ IsChain(newTail) BY NothingIsChain DEF Init
<1>2. TypeOK BY <1>1, IsChainIsRun, FinalityTagAssumption DEF Init, TypeOK
<1> QED BY <1>1, <1>2 DEF LinkInv, TailsLinked, Init

LEMMA LinkInvNext == LinkInv /\ [Next]_vars => LinkInv'
<1> SUFFICES ASSUME LinkInv, [Next]_vars PROVE LinkInv'
  OBVIOUS
<1>0. TypeOK /\ IsChain(tail) /\ IsChain(newTail) BY DEF LinkInv, TailsLinked
\* It is enough that the tails stay chains: the rest of TypeOK is simple.
<1>a. SUFFICES /\ IsChain(tail') /\ IsChain(newTail')
               /\ anyChain' \in BOOLEAN
               /\ head' \in Block /\ fin' \in Block /\ reliable' \in BOOLEAN
               /\ pc' \in {"idle", "latest", "walk"}
               /\ status' \in {"none", "good", "violated"}
               /\ finalized' \in Block
               /\ status' # "good" => pc' = "idle"
               /\ pc' = "walk" => Number[finalized'] <= newTail'.hi
  BY IsChainIsRun DEF LinkInv, TailsLinked, TypeOK
<1>1. CASE Initial
  <2>1. PICK b \in Answers(fin) : tail' = Single(b) BY <1>1 DEF Initial
  <2>2. IsChain(tail') BY <2>1, SingleIsChain DEF Answers
  <2> QED BY <1>0, <1>1, <2>2 DEF Initial, chainVars, TypeOK
<1>2. CASE ReadFinalized
  BY <1>0, <1>2 DEF ReadFinalized, Answers, chainVars, TypeOK
<1>3. CASE ReadLatest
  <2>1. PICK latest \in Answers(head) :
           newTail' = IF Number[finalized] <= Number[latest]
                      THEN Single(latest) ELSE Single(finalized)
    BY <1>3 DEF ReadLatest
  <2>2. latest \in Block /\ finalized \in Block BY <1>0 DEF Answers, TypeOK
  <2>3. Number[finalized] \in Nat BY <2>2, TreeAssumption
  <2>4. IsChain(newTail') /\ Number[finalized] <= newTail'.hi
    BY <2>1, <2>2, <2>3, SingleIsChain
  <2>5. pc = "latest" /\ pc' = "walk" /\ UNCHANGED <<chainVars, status, tail, finalized>>
    BY <1>3 DEF ReadLatest
  <2> QED BY <1>0, <2>4, <2>5 DEF chainVars, TypeOK
<1>4. CASE Attach
  <2>1. IsChain(tail') BY <1>4, AttachTail
  <2>2. /\ pc = "walk" /\ pc' = "idle" /\ newTail' = Nothing
        /\ UNCHANGED <<chainVars, status, finalized>>
    BY <1>4 DEF Attach
  <2> QED BY <1>0, <2>1, <2>2, NothingIsChain DEF chainVars, TypeOK
<1>5. CASE Violate
  BY <1>0, <1>5, NothingIsChain DEF Violate, chainVars, TypeOK
<1>6. CASE KeepOld
  BY <1>0, <1>6, NothingIsChain DEF KeepOld, chainVars, TypeOK
<1>7. CASE WalkBack
  <2>1. Number[NewHead] > tail.lo /\ newTail' = PushFront(newTail, Parent[NewHead])
    BY <1>7 DEF WalkBack
  <2>2. newTail.lo > 0 BY <2>1, NewHeadBlock
  <2>3. IsChain(newTail') /\ newTail'.hi = newTail.hi
    BY <1>0, <2>1, <2>2, PushFrontIsChain DEF NewHead
  <2>4. pc = "walk" /\ UNCHANGED <<chainVars, pc, status, tail, finalized>>
    BY <1>7 DEF WalkBack
  <2> QED BY <1>0, <2>3, <2>4 DEF chainVars, TypeOK, LinkInv
<1>8. CASE Abort
  BY <1>0, <1>8, NothingIsChain DEF Abort, chainVars, TypeOK
<1>9. CASE Chain
  BY <1>0, <1>9 DEF Chain, MoveHead, Finalize, Stabilize, TypeOK, LinkInv
<1>10. CASE UNCHANGED vars
  BY <1>0, <1>10 DEF vars, TypeOK, LinkInv
<1> QED
  BY <1>1, <1>2, <1>3, <1>4, <1>5, <1>6, <1>7, <1>8, <1>9, <1>10 DEF Next, Updater

\* LinkInv holds in every reachable state, whatever the chain does.
THEOREM LinkInvariant == Spec => []LinkInv
<1>1. Init => LinkInv BY LinkInvInit
<1>2. LinkInv /\ [Next]_vars => LinkInv' BY LinkInvNext
<1> QED BY <1>1, <1>2, PTL DEF Spec

\* Every variable keeps its type: no update leaves an empty tail.
THEOREM TypeCorrect == Spec => []TypeOK
<1>1. LinkInv => TypeOK BY DEF LinkInv
<1> QED BY <1>1, LinkInvariant, PTL

\* The tails are always chains: Tail::new never refuses what an update built
\* from two walks, whatever the chain did between them.
THEOREM TailsAlwaysLinked == Spec => []TailsLinked
<1>1. LinkInv => TailsLinked BY DEF LinkInv
<1> QED BY <1>1, LinkInvariant, PTL

-----------------------------------------------------------------------------
\* Every step of the worker, and of the chain, is a step of StableChain or
\* leaves it unchanged.
LEMMA StepRefines == LinkInv /\ [Next]_vars => [Abstract!Next]_(Abstract!vars)
<1> SUFFICES ASSUME LinkInv, [Next]_vars PROVE [Abstract!Next]_(Abstract!vars)
  OBVIOUS
<1> USE DEF Abstract!vars
<1>1. CASE Initial
  <2>1. PICK b \in Answers(fin) : tail' = Single(b) BY <1>1 DEF Initial
  <2>2. StableTip(tail') \in Block BY <2>1, SingleIsChain DEF Answers
  <2>3. Abstract!Start BY <1>1, <2>2 DEF Initial, Abstract!Start, StableTip
  <2> QED BY <2>3 DEF Abstract!Next
<1>2. CASE Attach
  <2>1. StableTip(tail) \preceq StableTip(tail)' /\ IsChain(tail') BY <1>2, AttachTail
  <2>2. tail'.lo \in tail'.lo .. tail'.hi BY <2>1 DEF IsChain, IsTail, IsRun
  <2>3. StableTip(tail)' \in Block BY <2>1, <2>2, ChainBlocks DEF StableTip
  <2>4. status = "good" /\ status' = "good" BY <1>2 DEF Attach, LinkInv, TypeOK
  <2>5. Abstract!Advance BY <2>1, <2>3, <2>4 DEF Abstract!Advance, \preceq, Abstract!\preceq
  <2> QED BY <2>5 DEF Abstract!Next
<1>3. CASE Violate
  <2>1. Abstract!Violate BY <1>3 DEF Violate, LinkInv, TypeOK, Abstract!Violate
  <2> QED BY <2>1 DEF Abstract!Next
<1>4. CASE ReadFinalized \/ ReadLatest \/ KeepOld \/ WalkBack \/ Abort
  BY <1>4 DEF ReadFinalized, ReadLatest, KeepOld, WalkBack, Abort, StableTip
<1>5. CASE Chain
  BY <1>5 DEF Chain, MoveHead, Finalize, Stabilize, StableTip
<1>6. CASE UNCHANGED vars
  BY <1>6 DEF vars, StableTip
<1> QED BY <1>1, <1>2, <1>3, <1>4, <1>5, <1>6 DEF Next, Updater

\* The worker implements StableChain, for any behaviour of the chain.
THEOREM Refinement == Spec => RefinesStableChain
<1>1. Init => Abstract!Init BY DEF Init, Abstract!Init
<1>2. LinkInv /\ [Next]_vars => [Abstract!Next]_(Abstract!vars) BY StepRefines
<1> QED BY <1>1, <1>2, LinkInvariant, PTL DEF Spec, RefinesStableChain, Abstract!Spec

-----------------------------------------------------------------------------
\* On a chain that keeps its rules.  The tail of an older head may be reverted,
\* above the stable tip; what an update has read is compared with the stable
\* tip and the finalized block by way of the tip of the new tail, where the
\* walk started: the head has moved on, and is of no use.
HonestInv ==
    ~anyChain =>
    /\ fin \preceq head
    /\ status # "violated"
    /\ status = "good" => StableTip(tail) \preceq fin
    /\ pc # "idle" => finalized \preceq fin
    /\ pc = "walk" => /\ finalized \preceq Tip(newTail)
                      /\ Comparable(StableTip(tail), Tip(newTail))

\* An answer of the node for a tag at b is b or an ancestor of it.
LEMMA AnswerBelow ==
    ASSUME NEW b \in Block, NEW a \in Answers(b)
    PROVE  a \in Block /\ a \preceq b
BY TreeAssumption DEF Answers

\* A walk that started on the chain meets the stable tip at its number.
LEMMA NoConflict ==
    ASSUME LinkInv, HonestInv, ~anyChain, pc = "walk"
    PROVE  ~ConflictsWithStable /\ ~ConflictsWithFinalized
<1>1. IsChain(tail) /\ IsChain(newTail) /\ finalized \in Block
  BY DEF LinkInv, TailsLinked, TypeOK
<1>2. /\ finalized \preceq Tip(newTail)
      /\ Comparable(StableTip(tail), Tip(newTail))
  BY DEF HonestInv
<1>3. ASSUME ConflictsWithStable PROVE FALSE
  <2>1. Number[NewHead] = tail.lo /\ ~Contains(tail, NewHead)
    BY <1>3 DEF ConflictsWithStable
  <2>2. tail.lo \in tail.lo .. tail.hi BY <1>1 DEF IsChain, IsTail, IsRun
  <2>3. NewHead # StableTip(tail) BY <2>1, <2>2 DEF Contains, StableTip
  <2>4. CASE StableTip(tail) \preceq Tip(newTail)
    BY <2>1, <2>3, <2>4, NewHeadBlock, SameNumber
  <2>5. CASE Tip(newTail) \preceq StableTip(tail)
    <3>1. NewHead \preceq StableTip(tail) BY <2>5, NewHeadBlock, Transitive
    <3>2. StableTip(tail) \preceq StableTip(tail) BY NewHeadBlock, TreeAssumption
    <3> QED BY <2>1, <2>3, <3>1, <3>2, NewHeadBlock, SameNumber
  <2> QED BY <1>2, <2>4, <2>5 DEF Comparable
<1>4. ASSUME ConflictsWithFinalized PROVE FALSE
  BY <1>1, <1>2, <1>4, NewHeadBlock, SameNumber DEF ConflictsWithFinalized
<1> QED BY <1>3, <1>4

\* Where the new stable tip comes from: it is the finalized block that was
\* read, or the old stable tip.
LEMMA AttachFinal ==
    ASSUME LinkInv, HonestInv, ~anyChain, Attach
    PROVE  StableTip(tail)' \preceq fin
<1>1. /\ IsChain(tail')
      /\ Tip(tail)' = Tip(newTail)
      /\ tail'.lo = Number[finalized] \/ StableTip(tail)' = StableTip(tail)
  BY AttachTail
<1>2. /\ finalized \in Block /\ finalized \preceq Tip(newTail) /\ finalized \preceq fin
      /\ status = "good" /\ StableTip(tail) \preceq fin
  BY DEF LinkInv, TypeOK, HonestInv, Attach
<1>3. CASE StableTip(tail)' = StableTip(tail) BY <1>2, <1>3
<1>4. CASE tail'.lo = Number[finalized]
  <2>1. tail'.lo \in tail'.lo .. tail'.hi BY <1>1 DEF IsChain, IsTail, IsRun
  <2>2. /\ StableTip(tail') \in Block /\ Number[StableTip(tail')] = Number[finalized]
        /\ StableTip(tail') \preceq Tip(tail') /\ Tip(tail') \in Block
    BY <1>1, <1>4, <2>1, ChainBlocks DEF StableTip
  <2>3. Tip(tail') = Tip(newTail) BY <1>1 DEF Tip
  <2>4. StableTip(tail') = finalized BY <1>2, <2>2, <2>3, SameNumber
  <2> QED BY <1>2, <2>4 DEF StableTip
<1> QED BY <1>1, <1>3, <1>4

LEMMA HonestInvInit == Init => HonestInv
<1> SUFFICES ASSUME Init PROVE HonestInv
  OBVIOUS
<1>1. Genesis \preceq Genesis BY FinalityTagAssumption, TreeAssumption
<1> QED BY <1>1 DEF Init, HonestInv

LEMMA HonestInvNext == LinkInv /\ HonestInv /\ [Next]_vars => HonestInv'
<1>u. [Next]_vars => anyChain' = anyChain
  BY DEF vars, chainVars, Next, Updater, Chain, Initial, ReadFinalized, ReadLatest, Attach,
         Violate, KeepOld, WalkBack, Abort, MoveHead, Finalize, Stabilize
<1> SUFFICES ASSUME LinkInv, HonestInv, [Next]_vars, ~anyChain PROVE HonestInv'
  BY <1>u DEF HonestInv
<1>0. /\ head \in Block /\ fin \in Block /\ finalized \in Block
      /\ pc \in {"idle", "latest", "walk"} /\ status # "good" => pc = "idle"
      /\ IsChain(tail) /\ IsChain(newTail)
  BY DEF LinkInv, TypeOK, TailsLinked
<1>b. StableTip(tail) \in Block /\ Tip(newTail) \in Block BY NewHeadBlock
<1>c. /\ fin \preceq head
      /\ status # "violated"
      /\ status = "good" => StableTip(tail) \preceq fin
      /\ pc # "idle" => finalized \preceq fin
      /\ pc = "walk" => /\ finalized \preceq Tip(newTail)
                        /\ Comparable(StableTip(tail), Tip(newTail))
  BY DEF HonestInv
<1>1. CASE Initial
  <2>1. PICK b \in Answers(fin) : tail' = Single(b) BY <1>1 DEF Initial
  <2>2. StableTip(tail') = b BY <2>1, SingleIsChain DEF Answers
  <2>3. b \preceq fin BY <1>0, AnswerBelow
  <2>4. StableTip(tail)' \preceq fin BY <2>2, <2>3 DEF StableTip
  <2>5. pc = "idle" /\ pc' = "idle" /\ status' = "good" /\ fin' = fin /\ head' = head
    BY <1>1 DEF Initial, chainVars
  <2> QED BY <1>c, <2>4, <2>5 DEF HonestInv
<1>2. CASE ReadFinalized
  <2>1. finalized' \preceq fin BY <1>0, <1>2, AnswerBelow DEF ReadFinalized
  <2> QED BY <1>2, <1>c, <2>1 DEF ReadFinalized, chainVars, HonestInv, StableTip
<1>3. CASE ReadLatest
  <2>1. PICK latest \in Answers(head) :
           newTail' = IF Number[finalized] <= Number[latest]
                      THEN Single(latest) ELSE Single(finalized)
    BY <1>3 DEF ReadLatest
  <2>2. latest \in Block /\ latest \preceq head BY <1>0, AnswerBelow
  <2>3. /\ pc = "latest" /\ pc' = "walk" /\ status = "good"
        /\ UNCHANGED <<chainVars, status, tail, finalized>>
    BY <1>0, <1>3 DEF ReadLatest
  <2>4. StableTip(tail) \preceq fin /\ finalized \preceq fin BY <1>c, <2>3
  <2>5. Comparable(latest, fin) BY <1>0, <1>c, <2>2, AncestorsComparable
  <2>6. CASE Number[finalized] <= Number[latest]
    <3>1. Tip(newTail') = latest BY <2>1, <2>2, <2>6, SingleIsChain
    <3>2. finalized \preceq head BY <1>0, <1>c, <2>4, Transitive
    <3>3. finalized \preceq latest BY <1>0, <2>2, <2>6, <3>2, Linear
    <3>4. Comparable(StableTip(tail), latest) BY <1>0, <1>b, <2>2, <2>4, <2>5, ComparableBelow
    <3> QED BY <1>c, <2>3, <3>1, <3>3, <3>4 DEF HonestInv, chainVars, StableTip, Tip
  <2>7. CASE ~(Number[finalized] <= Number[latest])
    <3>1. Tip(newTail') = finalized BY <1>0, <2>1, <2>7, SingleIsChain
    <3>2. finalized \preceq finalized BY <1>0, TreeAssumption
    <3>3. Comparable(StableTip(tail), finalized) BY <1>0, <1>b, <2>4, AncestorsComparable
    <3> QED BY <1>c, <2>3, <3>1, <3>2, <3>3 DEF HonestInv, chainVars, StableTip, Tip
  <2> QED BY <2>6, <2>7
<1>4. CASE Attach
  <2>1. StableTip(tail)' \preceq fin BY <1>4, AttachFinal
  <2>2. pc' = "idle" /\ UNCHANGED <<chainVars, status, finalized>> BY <1>4 DEF Attach
  <2> QED BY <1>c, <2>1, <2>2 DEF HonestInv, chainVars
<1>5. CASE Violate
  BY <1>5, NoConflict DEF Violate
<1>6. CASE KeepOld
  BY <1>6, <1>c DEF KeepOld, chainVars, HonestInv, StableTip
<1>7. CASE WalkBack
  <2>1. Number[NewHead] > tail.lo /\ newTail' = PushFront(newTail, Parent[NewHead])
    BY <1>7 DEF WalkBack
  <2>2. newTail.lo > 0 BY <2>1, NewHeadBlock
  <2>3. Tip(newTail') = Tip(newTail) BY <1>0, <2>1, <2>2, PushFrontIsChain DEF NewHead
  <2>4. Tip(newTail)' = Tip(newTail) BY <2>3 DEF Tip
  <2>5. UNCHANGED <<chainVars, pc, status, tail, finalized>> BY <1>7 DEF WalkBack
  <2> QED BY <1>c, <2>4, <2>5 DEF chainVars, HonestInv, StableTip
<1>8. CASE Abort
  BY <1>8, <1>c DEF Abort, chainVars, HonestInv, StableTip
<1>9. CASE MoveHead
  BY <1>9, <1>c DEF MoveHead, HonestInv, StableTip, Tip
<1>10. CASE Finalize
  <2>1. /\ fin' \in Block /\ fin \preceq fin' /\ fin' \preceq head
        /\ UNCHANGED <<anyChain, head, reliable, pc, status, tail, finalized, newTail>>
    BY <1>10 DEF Finalize
  <2>2. status = "good" => StableTip(tail) \preceq fin' BY <1>0, <1>b, <1>c, <2>1, Transitive
  <2>3. pc # "idle" => finalized \preceq fin' BY <1>0, <1>c, <2>1, Transitive
  <2> QED BY <1>c, <2>1, <2>2, <2>3 DEF HonestInv, StableTip, Tip
<1>11. CASE Stabilize
  BY <1>11, <1>c DEF Stabilize, HonestInv, StableTip, Tip
<1>12. CASE UNCHANGED vars
  BY <1>12, <1>c DEF vars, HonestInv, StableTip, Tip
<1> QED
  BY <1>1, <1>2, <1>3, <1>4, <1>5, <1>6, <1>7, <1>8, <1>9, <1>10, <1>11, <1>12
  DEF Next, Updater, Chain

\* HonestInv holds in every reachable state.
THEOREM HonestInvariant == Spec => []HonestInv
<1>1. Init => HonestInv BY HonestInvInit
<1>2. LinkInv /\ HonestInv /\ [Next]_vars => HonestInv' BY HonestInvNext
<1> QED BY <1>1, <1>2, LinkInvariant, PTL DEF Spec

\* No violation is reported of a chain that keeps its rules, so none of its
\* lanes is cursed for nothing: not even by an update during which the chain
\* is reorganised and finalizes more blocks, through a node that lags.
THEOREM NeverFalseViolation == Spec => []NoFalseViolation
<1>1. HonestInv => NoFalseViolation BY DEF HonestInv, NoFalseViolation
<1> QED BY <1>1, HonestInvariant, PTL

\* What the worker calls stable on such a chain is finalized.
THEOREM StableAlwaysFinal == Spec => []StableIsFinal
<1>1. HonestInv => StableIsFinal BY DEF HonestInv, StableIsFinal
<1> QED BY <1>1, HonestInvariant, PTL
=============================================================================
