----------------------- MODULE ConfirmationDepthProofs -----------------------
(***************************************************************************)
(* The safety of ConfirmationDepth, for every tree of blocks and all       *)
(* depths.                                                                 *)
(***************************************************************************)
EXTENDS ConfirmationDepth, BlockTreeProofs

LEMMA NothingIsChain == IsChain(Nothing)
BY ConfirmationDepthAssumption, SingleIsChain DEF Nothing

\* The number of the first block that Attach keeps.
LEMMA FloorBounds ==
    ASSUME NEW n \in Nat
    PROVE  /\ Less(n, Soft) \in Nat
           /\ Larger(0, n - Hard) \in Nat /\ Larger(0, n - Hard) <= n
BY ConfirmationDepthAssumption DEF Less, Larger

\* Counting Soft and then Hard blocks down from a number is counting both.
LEMMA DepthsAdd ==
    ASSUME NEW n \in Nat
    PROVE  /\ Larger(0, Less(n, Soft) - Hard) = Less(n, Soft + Hard)
           /\ Less(n, Soft + Hard) \in 0 .. n
           /\ Less(n, Soft + Hard) <= Less(n, Soft)
<1>1. Soft \in Nat /\ Hard \in Nat BY ConfirmationDepthAssumption
<1> QED BY <1>1 DEF Less, Larger

\* Types and links are inductive together.
LinkInv == TypeOK /\ TailsLinked

LEMMA NewHeadBlock ==
    ASSUME LinkInv
    PROVE  /\ NewHead \in Block /\ Number[NewHead] = newTail.lo
           /\ Tip(newTail) \in Block /\ Number[Tip(newTail)] = newTail.hi
           /\ NewHead \preceq Tip(newTail)
           /\ StableTip(tail) \in Block /\ Number[StableTip(tail)] = tail.lo
           /\ tail.lo \in Nat /\ newTail.lo \in Nat /\ newTail.hi \in Nat
<1>1. IsChain(tail) /\ IsChain(newTail) BY DEF LinkInv, TailsLinked
<1>2. tail.lo \in tail.lo .. tail.hi /\ newTail.lo \in newTail.lo .. newTail.hi
  BY <1>1 DEF IsChain, IsTail, IsRun
<1> QED BY <1>1, <1>2, ChainBlocks DEF NewHead, StableTip

\* What Attach makes of the tail.
LEMMA AttachTail ==
    ASSUME LinkInv, Attach
    PROVE  /\ IsChain(tail')
           /\ StableTip(tail) \preceq StableTip(tail)'
           /\ Tip(tail)' = Tip(newTail)
           /\ \/ tail'.lo = Larger(0, newTail.hi - Hard)
              \/ StableTip(tail)' = StableTip(tail)
<1> DEFINE floor == Larger(0, newTail.hi - Hard)
           r == Reanchored(newTail, tail, floor)
<1>1. IsChain(tail) /\ IsChain(newTail) BY DEF LinkInv, TailsLinked
<1>2. floor \in Nat /\ floor <= newTail.hi BY NewHeadBlock, FloorBounds
<1>3. Contains(tail, StableTip(newTail)) BY DEF Attach, NewHead
<1>4. tail' = r BY DEF Attach
<1> HIDE DEF floor
<1>5. /\ IsChain(r) /\ StableTip(tail) \preceq StableTip(r)
      /\ Tip(r) = Tip(newTail)
      /\ r.lo = floor \/ StableTip(r) = StableTip(tail)
  BY <1>1, <1>2, <1>3, ReanchoredIsChain
<1> QED BY <1>4, <1>5 DEF StableTip, Tip, floor

LEMMA LinkInvInit == Init => LinkInv
<1> SUFFICES ASSUME Init PROVE LinkInv
  OBVIOUS
<1>1. IsChain(tail) /\ IsChain(newTail) BY NothingIsChain DEF Init
<1>2. TypeOK
  BY <1>1, ConfirmationDepthAssumption DEF Init, TypeOK, Deep, IsChain, IsTail
<1> QED BY <1>1, <1>2 DEF LinkInv, TailsLinked

LEMMA LinkInvNext == LinkInv /\ [Next]_vars => LinkInv'
<1> SUFFICES ASSUME LinkInv, [Next]_vars PROVE LinkInv'
  OBVIOUS
<1>0. TypeOK /\ IsChain(tail) /\ IsChain(newTail) BY DEF LinkInv, TailsLinked
\* It is enough that the tails stay chains: the rest of TypeOK is simple.
<1>a. SUFFICES /\ IsChain(tail') /\ IsChain(newTail')
               /\ head' \in Block /\ settled' \subseteq Block
               /\ deepReorg' \in BOOLEAN /\ reliable' \in BOOLEAN
               /\ pc' \in {"idle", "height", "walk"}
               /\ status' \in {"none", "good", "violated"}
               /\ latest' \in Nat
               /\ pc' = "walk" => status' = "good"
  BY DEF LinkInv, TailsLinked, TypeOK, IsChain, IsTail
<1>1. CASE ReadLatest
  <2>1. PICK b \in Block : latest' = Number[b] BY <1>1 DEF ReadLatest
  <2>2. latest' \in Nat BY <2>1, TreeAssumption
  <2> QED BY <1>0, <1>1, <2>2 DEF ReadLatest, chainVars, TypeOK
<1>2. CASE Initial
  <2>1. PICK b \in AtHeight : tail' = Single(b) BY <1>2 DEF Initial
  <2>2. IsChain(tail') BY <2>1, SingleIsChain DEF AtHeight
  <2> QED BY <1>0, <1>2, <2>2 DEF Initial, chainVars, TypeOK
<1>3. CASE ReadTip
  <2>1. PICK b \in AtHeight : newTail' = Single(b) BY <1>3 DEF ReadTip
  <2>2. IsChain(newTail') BY <2>1, SingleIsChain DEF AtHeight
  <2> QED BY <1>0, <1>3, <2>2 DEF ReadTip, chainVars, TypeOK
<1>4. CASE NotFound
  BY <1>0, <1>4 DEF NotFound, chainVars, TypeOK
<1>5. CASE Attach
  <2>1. IsChain(tail') BY <1>5, AttachTail
  <2>2. pc' = "idle" /\ newTail' = Nothing /\ UNCHANGED <<chainVars, status, latest>>
    BY <1>5 DEF Attach
  <2> QED BY <1>0, <2>1, <2>2, NothingIsChain DEF chainVars, TypeOK
<1>6. CASE Violate
  BY <1>0, <1>6, NothingIsChain DEF Violate, chainVars, TypeOK
<1>7. CASE KeepOld
  BY <1>0, <1>7, NothingIsChain DEF KeepOld, chainVars, TypeOK
<1>8. CASE WalkBack
  <2>1. Number[NewHead] > tail.lo /\ newTail' = PushFront(newTail, Parent[NewHead])
    BY <1>8 DEF WalkBack
  <2>2. newTail.lo > 0 BY <2>1, NewHeadBlock
  <2>3. IsChain(newTail') BY <1>0, <2>1, <2>2, PushFrontIsChain DEF NewHead
  <2>4. UNCHANGED <<chainVars, pc, status, tail, latest>> BY <1>8 DEF WalkBack
  <2> QED BY <1>0, <2>3, <2>4 DEF chainVars, TypeOK
<1>9. CASE Abort
  BY <1>0, <1>9, NothingIsChain DEF Abort, chainVars, TypeOK
<1>10. CASE MoveHead
  BY <1>0, <1>10 DEF MoveHead, TypeOK, Deep
<1>11. CASE Stabilize
  BY <1>0, <1>11 DEF Stabilize, TypeOK
<1>12. CASE UNCHANGED vars
  BY <1>0, <1>12 DEF vars, TypeOK
<1> QED
  BY <1>1, <1>2, <1>3, <1>4, <1>5, <1>6, <1>7, <1>8, <1>9, <1>10, <1>11, <1>12
  DEF Next, Updater

\* LinkInv holds in every reachable state, whatever the chain does.
THEOREM LinkInvariant == Spec => []LinkInv
<1>1. Init => LinkInv BY LinkInvInit
<1>2. LinkInv /\ [Next]_vars => LinkInv' BY LinkInvNext
<1> QED BY <1>1, <1>2, PTL DEF Spec

\* Every variable keeps its type.
THEOREM TypeCorrect == Spec => []TypeOK
<1>1. LinkInv => TypeOK BY DEF LinkInv
<1> QED BY <1>1, LinkInvariant, PTL

\* The tails are always chains, whatever the chain did between two reads.
THEOREM TailsAlwaysLinked == Spec => []TailsLinked
<1>1. LinkInv => TailsLinked BY DEF LinkInv
<1> QED BY <1>1, LinkInvariant, PTL

-----------------------------------------------------------------------------
\* Every step is a step of StableChain or leaves it unchanged.
LEMMA StepRefines == LinkInv /\ [Next]_vars => [Abstract!Next]_(Abstract!vars)
<1> SUFFICES ASSUME LinkInv, [Next]_vars PROVE [Abstract!Next]_(Abstract!vars)
  OBVIOUS
<1> USE DEF Abstract!vars
<1>1. CASE Initial
  <2>1. PICK b \in AtHeight : tail' = Single(b) BY <1>1 DEF Initial
  <2>2. StableTip(tail') \in Block BY <2>1, SingleIsChain DEF AtHeight
  <2>3. Abstract!Start BY <1>1, <2>2 DEF Initial, Abstract!Start, StableTip
  <2> QED BY <2>3 DEF Abstract!Next
<1>2. CASE Attach
  <2>1. StableTip(tail) \preceq StableTip(tail)' /\ IsChain(tail') BY <1>2, AttachTail
  <2>2. tail'.lo \in tail'.lo .. tail'.hi BY <2>1 DEF IsChain, IsTail, IsRun
  <2>3. StableTip(tail)' \in Block BY <2>1, <2>2, ChainBlocks DEF StableTip
  <2>4. status = "good" /\ status' = "good" BY <1>2 DEF Attach, LinkInv, TypeOK
  <2>5. Abstract!Advance BY <2>1, <2>3, <2>4 DEF Abstract!Advance, \preceq, Abstract!\preceq
  <2> QED BY <2>5 DEF Abstract!Next
<1>3. CASE Violate
  <2>1. Abstract!Violate BY <1>3 DEF Violate, LinkInv, TypeOK, Abstract!Violate
  <2> QED BY <2>1 DEF Abstract!Next
<1>4. CASE ReadLatest \/ ReadTip \/ NotFound \/ KeepOld \/ WalkBack \/ Abort
  BY <1>4 DEF ReadLatest, ReadTip, NotFound, KeepOld, WalkBack, Abort, StableTip
<1>5. CASE MoveHead \/ Stabilize
  BY <1>5 DEF MoveHead, Stabilize, StableTip
<1>6. CASE UNCHANGED vars
  BY <1>6 DEF vars, StableTip
<1> QED BY <1>1, <1>2, <1>3, <1>4, <1>5, <1>6 DEF Next, Updater

\* The worker implements StableChain, for any behaviour of the chain.
THEOREM Refinement == Spec => RefinesStableChain
<1>1. Init => Abstract!Init BY DEF Init, Abstract!Init
<1>2. LinkInv /\ [Next]_vars => [Abstract!Next]_(Abstract!vars) BY StepRefines
<1> QED BY <1>1, <1>2, LinkInvariant, PTL DEF Spec, RefinesStableChain, Abstract!Spec

-----------------------------------------------------------------------------
\* The settled blocks have one at the depth of the stable tip below the number
\* n that was read.  It was an ancestor of the head when n was read, and stays
\* one of every later head, which is what makes the second call safe.
Anchored(n) == \E s \in settled : Number[s] = Less(n, Soft + Hard)

\* While no settled block is reverted.
SettledInv ==
    ~deepReorg =>
    /\ Deep(head) \subseteq settled
    /\ \A s \in settled : s \preceq head
    /\ status # "violated"
    /\ status = "good" => StableTip(tail) \in settled
    /\ pc # "idle" => Anchored(latest)
    /\ pc = "walk" =>
          /\ newTail.hi = Less(latest, Soft)
          /\ \E s \in settled : /\ Number[s] = Less(latest, Soft + Hard)
                                /\ s \preceq Tip(newTail)
          /\ Comparable(StableTip(tail), Tip(newTail))

\* A walk that started on the chain meets the stable tip at its number.
LEMMA NoConflict ==
    ASSUME LinkInv, pc = "walk", ~Contains(tail, NewHead), Number[NewHead] = tail.lo,
           Comparable(StableTip(tail), Tip(newTail))
    PROVE  FALSE
<1>1. IsChain(tail) BY DEF LinkInv, TailsLinked
<1>2. tail.lo \in tail.lo .. tail.hi BY <1>1 DEF IsChain, IsTail, IsRun
<1>3. NewHead # StableTip(tail) BY <1>2 DEF Contains, StableTip
<1>4. CASE StableTip(tail) \preceq Tip(newTail)
  BY <1>3, <1>4, NewHeadBlock, SameNumber
<1>5. CASE Tip(newTail) \preceq StableTip(tail)
  <2>1. NewHead \preceq StableTip(tail) BY <1>5, NewHeadBlock, Transitive
  <2>2. StableTip(tail) \preceq StableTip(tail) BY NewHeadBlock, TreeAssumption
  <2> QED BY <1>3, <2>1, <2>2, NewHeadBlock, SameNumber
<1> QED BY <1>4, <1>5 DEF Comparable

\* The new stable tip is the settled block that the number was anchored at, or
\* the old stable tip.
LEMMA AttachSettled ==
    ASSUME LinkInv, SettledInv, ~deepReorg, Attach
    PROVE  StableTip(tail)' \in settled
<1>1. /\ IsChain(tail') /\ Tip(tail)' = Tip(newTail)
      /\ \/ tail'.lo = Larger(0, newTail.hi - Hard)
         \/ StableTip(tail)' = StableTip(tail)
  BY AttachTail
<1>2. pc = "walk" /\ status = "good" BY DEF Attach, LinkInv, TypeOK
<1>3. StableTip(tail) \in settled /\ newTail.hi = Less(latest, Soft)
  BY <1>2 DEF SettledInv
<1>4. PICK s \in settled : Number[s] = Less(latest, Soft + Hard) /\ s \preceq Tip(newTail)
  BY <1>2 DEF SettledInv
<1>5. s \in Block /\ latest \in Nat BY DEF LinkInv, TypeOK
<1>6. CASE StableTip(tail)' = StableTip(tail) BY <1>3, <1>6
<1>7. CASE tail'.lo = Larger(0, newTail.hi - Hard)
  <2>1. tail'.lo = Number[s] BY <1>3, <1>4, <1>5, <1>7, DepthsAdd
  <2>2. tail'.lo \in tail'.lo .. tail'.hi BY <1>1 DEF IsChain, IsTail, IsRun
  <2>3. /\ StableTip(tail') \in Block /\ Number[StableTip(tail')] = Number[s]
        /\ StableTip(tail') \preceq Tip(tail') /\ Tip(tail') \in Block
    BY <1>1, <2>1, <2>2, ChainBlocks DEF StableTip
  <2>4. Tip(tail') = Tip(newTail) BY <1>1 DEF Tip
  <2>5. StableTip(tail') = s BY <1>4, <1>5, <2>3, <2>4, SameNumber
  <2> QED BY <2>5 DEF StableTip
<1> QED BY <1>1, <1>6, <1>7

LEMMA SettledInvInit == Init => SettledInv
<1> SUFFICES ASSUME Init PROVE SettledInv
  OBVIOUS
<1> QED BY DEF Init, SettledInv, Deep

LEMMA SettledInvNext == LinkInv /\ SettledInv /\ [Next]_vars => SettledInv'
<1> SUFFICES ASSUME LinkInv, SettledInv, [Next]_vars, ~deepReorg' PROVE SettledInv'
  BY DEF SettledInv
<1>0. /\ head \in Block /\ settled \subseteq Block /\ latest \in Nat
      /\ IsChain(tail) /\ IsChain(newTail)
      /\ pc = "walk" => status = "good"
  BY DEF LinkInv, TypeOK, TailsLinked
<1>b. StableTip(tail) \in Block /\ Tip(newTail) \in Block BY NewHeadBlock
<1>d. ~deepReorg
  BY DEF Next, Updater, ReadLatest, Initial, ReadTip, NotFound, Attach, Violate,
         KeepOld, WalkBack, Abort, MoveHead, Stabilize, chainVars, vars
<1>c. /\ Deep(head) \subseteq settled
      /\ \A s \in settled : s \preceq head
      /\ status # "violated"
      /\ status = "good" => StableTip(tail) \in settled
      /\ pc # "idle" => Anchored(latest)
      /\ pc = "walk" =>
            /\ newTail.hi = Less(latest, Soft)
            /\ \E s \in settled : /\ Number[s] = Less(latest, Soft + Hard)
                                  /\ s \preceq Tip(newTail)
            /\ Comparable(StableTip(tail), Tip(newTail))
  BY <1>d DEF SettledInv
<1> USE DEF Anchored
<1>1. CASE ReadLatest
  <2>1. PICK b \in Block : /\ (IF reliable THEN b = head ELSE b \preceq head)
                           /\ latest' = Number[b]
    BY <1>1 DEF ReadLatest
  <2>2. b \preceq head BY <1>0, <2>1, TreeAssumption
  <2>3. Number[b] \in Nat /\ Number[head] \in Nat /\ Number[b] <= Number[head]
    BY <1>0, <2>2, SmallerNumber
  <2>4. Less(Number[b], Soft + Hard) \in 0 .. Number[b] BY <2>3, DepthsAdd
  <2>5. PICK a \in Block : a \preceq b /\ Number[a] = Less(Number[b], Soft + Hard)
    BY <2>4, TreeAssumption
  <2>6. Number[a] <= Less(Number[head], Soft + Hard)
    BY <2>3, <2>5, ConfirmationDepthAssumption DEF Less
  <2>7. a \preceq head BY <1>0, <2>2, <2>5, Transitive
  <2>8. a \in settled BY <1>c, <2>6, <2>7 DEF Deep
  <2>9. /\ pc' = "height" /\ UNCHANGED <<head, settled, status, tail, newTail>>
    BY <1>1 DEF ReadLatest, chainVars
  <2> QED BY <1>c, <2>1, <2>5, <2>8, <2>9 DEF SettledInv, StableTip, Deep
<1>2. CASE Initial
  <2>1. PICK b \in AtHeight : tail' = Single(b) BY <1>2 DEF Initial
  <2>2. /\ b \in Block /\ b \preceq head /\ Number[b] = Less(latest, Soft + Hard)
        /\ StableTip(tail') = b
    BY <1>2, <2>1, SingleIsChain DEF Initial, AtHeight, Height
  <2>3. PICK s \in settled : Number[s] = Less(latest, Soft + Hard)
    BY <1>2, <1>c DEF Initial
  <2>4. b = s BY <1>0, <1>c, <2>2, <2>3, SameNumber
  <2>5. /\ pc' = "idle" /\ status' = "good" /\ UNCHANGED <<head, settled>>
    BY <1>2 DEF Initial, chainVars
  <2> QED BY <1>c, <2>2, <2>4, <2>5 DEF SettledInv, StableTip, Deep
<1>3. CASE ReadTip
  <2>1. PICK b \in AtHeight : newTail' = Single(b) BY <1>3 DEF ReadTip
  <2>2. /\ b \in Block /\ b \preceq head /\ Number[b] = Less(latest, Soft)
        /\ Tip(newTail') = b /\ newTail'.hi = Less(latest, Soft)
    BY <1>3, <2>1, SingleIsChain DEF ReadTip, AtHeight, Height
  <2>3. PICK s \in settled : Number[s] = Less(latest, Soft + Hard)
    BY <1>3, <1>c DEF ReadTip
  <2>4. s \preceq b BY <1>0, <1>c, <2>2, <2>3, DepthsAdd, Linear
  <2>5. /\ status = "good" /\ pc' = "walk"
        /\ UNCHANGED <<head, settled, status, tail, latest>>
    BY <1>3 DEF ReadTip, chainVars
  <2>6. StableTip(tail) \preceq head BY <1>c, <2>5
  <2>7. Comparable(StableTip(tail), b) BY <1>0, <1>b, <2>2, <2>6, AncestorsComparable
  <2> QED BY <1>c, <2>2, <2>3, <2>4, <2>5, <2>7 DEF SettledInv, StableTip, Tip, Deep
<1>4. CASE NotFound
  BY <1>4, <1>c DEF NotFound, chainVars, SettledInv, StableTip, Deep
<1>5. CASE Attach
  <2>1. StableTip(tail)' \in settled BY <1>5, <1>d, AttachSettled
  <2>2. pc' = "idle" /\ UNCHANGED <<head, settled, status, latest>>
    BY <1>5 DEF Attach, chainVars
  <2> QED BY <1>c, <2>1, <2>2 DEF SettledInv, Deep
<1>6. CASE Violate
  BY <1>6, <1>c, NoConflict DEF Violate
<1>7. CASE KeepOld
  BY <1>7, <1>c DEF KeepOld, chainVars, SettledInv, StableTip, Deep
<1>8. CASE WalkBack
  <2>1. Number[NewHead] > tail.lo /\ newTail' = PushFront(newTail, Parent[NewHead])
    BY <1>8 DEF WalkBack
  <2>2. newTail.lo > 0 BY <2>1, NewHeadBlock
  <2>3. Tip(newTail') = Tip(newTail) /\ newTail'.hi = newTail.hi
    BY <1>0, <2>1, <2>2, PushFrontIsChain DEF NewHead
  <2>4. Tip(newTail)' = Tip(newTail) BY <2>3 DEF Tip
  <2>5. UNCHANGED <<head, settled, pc, status, tail, latest>>
    BY <1>8 DEF WalkBack, chainVars
  <2> QED BY <1>c, <2>3, <2>4, <2>5 DEF SettledInv, StableTip, Deep
<1>9. CASE Abort
  BY <1>9, <1>c DEF Abort, chainVars, SettledInv, StableTip, Deep
<1>10. CASE MoveHead
  <2>1. /\ head' \in Block /\ settled' = settled \cup Deep(head')
        /\ \A a \in settled : a \preceq head'
        /\ UNCHANGED <<pc, status, tail, latest, newTail>>
    BY <1>10 DEF MoveHead
  <2>2. Deep(head') \subseteq settled' /\ \A s \in settled' : s \preceq head'
    BY <2>1 DEF Deep
  <2>3. Deep(head)' = Deep(head') BY DEF Deep
  <2>4. status' = "good" => StableTip(tail)' \in settled' BY <1>c, <2>1 DEF StableTip
  <2>5. pc' # "idle" => Anchored(latest)' BY <1>c, <2>1
  <2>6. pc' = "walk" =>
          /\ newTail'.hi = Less(latest', Soft)
          /\ \E s \in settled' : /\ Number[s] = Less(latest', Soft + Hard)
                                 /\ s \preceq Tip(newTail)'
          /\ Comparable(StableTip(tail)', Tip(newTail)')
    BY <1>c, <2>1 DEF StableTip, Tip
  <2> QED BY <1>c, <2>1, <2>2, <2>3, <2>4, <2>5, <2>6 DEF SettledInv, StableTip, Tip
<1>11. CASE Stabilize
  BY <1>11, <1>c DEF Stabilize, SettledInv, StableTip, Tip, Deep
<1>12. CASE UNCHANGED vars
  BY <1>12, <1>c DEF vars, SettledInv, StableTip, Tip, Deep
<1> QED
  BY <1>1, <1>2, <1>3, <1>4, <1>5, <1>6, <1>7, <1>8, <1>9, <1>10, <1>11, <1>12
  DEF Next, Updater

\* SettledInv holds in every reachable state.
THEOREM SettledInvariant == Spec => []SettledInv
<1>1. Init => SettledInv BY SettledInvInit
<1>2. LinkInv /\ SettledInv /\ [Next]_vars => SettledInv' BY SettledInvNext
<1> QED BY <1>1, <1>2, LinkInvariant, PTL DEF Spec

\* A violation means that a block that once had Soft + Hard confirmations was
\* reverted, for all depths and however the calls of an update fall between
\* the moves of the chain.
THEOREM NeverFalseViolation == Spec => []NoFalseViolation
<1>1. SettledInv => NoFalseViolation BY DEF SettledInv, NoFalseViolation
<1> QED BY <1>1, SettledInvariant, PTL

\* The stable tip has had all its confirmations.
THEOREM StableAlwaysSettled == Spec => []StableIsSettled
<1>1. SettledInv => StableIsSettled BY DEF SettledInv, StableIsSettled
<1> QED BY <1>1, SettledInvariant, PTL
=============================================================================
