--------------------------- MODULE BlockTreeProofs ---------------------------
(***************************************************************************)
(* Facts about the operators of BlockTree, for every tree of blocks.       *)
(***************************************************************************)
EXTENDS BlockTree, TLAPS

\* The order of the blocks, one law at a time.
LEMMA Transitive ==
    ASSUME NEW a \in Block, NEW b \in Block, NEW c \in Block,
           a \preceq b, b \preceq c
    PROVE  a \preceq c
BY TreeAssumption

LEMMA SmallerNumber ==
    ASSUME NEW a \in Block, NEW b \in Block, a \preceq b
    PROVE  Number[a] \in Nat /\ Number[b] \in Nat /\ Number[a] <= Number[b]
<1>1. Number[a] \in Nat /\ Number[b] \in Nat BY TreeAssumption
<1>2. a # b => Number[a] < Number[b] BY TreeAssumption
<1> QED BY <1>1, <1>2

\* Two ancestors of one block are ordered as their numbers are ...
LEMMA Linear ==
    ASSUME NEW a \in Block, NEW b \in Block, NEW c \in Block,
           a \preceq c, b \preceq c, Number[a] <= Number[b]
    PROVE  a \preceq b
BY TreeAssumption

\* ... and are one block if they have one number.
LEMMA SameNumber ==
    ASSUME NEW a \in Block, NEW b \in Block, NEW c \in Block,
           a \preceq c, b \preceq c, Number[a] = Number[b]
    PROVE  a = b
<1>1. Number[a] \in Nat /\ Number[b] \in Nat BY TreeAssumption
<1>2. a \preceq b BY <1>1, Linear
<1>3. a # b => Number[a] < Number[b] BY <1>2, TreeAssumption
<1> QED BY <1>1, <1>3

\* A block that is not the first one has a parent, one number below.
LEMMA HasParent ==
    ASSUME NEW b \in Block, Number[b] > 0
    PROVE  /\ Parent[b] \in Block
           /\ Number[Parent[b]] = Number[b] - 1
           /\ Parent[b] \preceq b
<1>1. Parent[b] # NoBlock BY TreeAssumption
<1>2. Parent[b] \in Block BY <1>1, TreeAssumption
<1>3. Number[b] = Number[Parent[b]] + 1 /\ Parent[b] \preceq b BY <1>1, TreeAssumption
<1>4. Number[Parent[b]] \in Nat BY <1>2, TreeAssumption
<1> QED BY <1>2, <1>3, <1>4

\* Two blocks, one of which is the other or an ancestor of it.
Comparable(a, b) == a \preceq b \/ b \preceq a

\* Two ancestors of one block are comparable.
LEMMA AncestorsComparable ==
    ASSUME NEW a \in Block, NEW b \in Block, NEW c \in Block, a \preceq c, b \preceq c
    PROVE  Comparable(a, b)
<1>1. Number[a] \in Nat /\ Number[b] \in Nat BY TreeAssumption
<1>2. Number[a] <= Number[b] \/ Number[b] <= Number[a] BY <1>1
<1> QED BY <1>2, Linear DEF Comparable

\* An ancestor of f is comparable with every block that f is comparable with.
LEMMA ComparableBelow ==
    ASSUME NEW a \in Block, NEW b \in Block, NEW f \in Block,
           a \preceq f, Comparable(b, f)
    PROVE  Comparable(a, b)
<1>1. CASE b \preceq f BY <1>1, AncestorsComparable
<1>2. CASE f \preceq b BY <1>2, Transitive DEF Comparable
<1> QED BY <1>1, <1>2 DEF Comparable

-----------------------------------------------------------------------------
\* The blocks of a chain: in Block, with their numbers, below the tip.
LEMMA ChainBlocks ==
    ASSUME NEW t, IsChain(t), NEW n \in t.lo .. t.hi
    PROVE  /\ t.lo \in Nat /\ t.hi \in Nat /\ n \in Nat
           /\ t.at[n] \in Block /\ Number[t.at[n]] = n
           /\ StableTip(t) \in Block /\ Number[StableTip(t)] = t.lo
           /\ Tip(t) \in Block /\ Number[Tip(t)] = t.hi
           /\ StableTip(t) \preceq t.at[n] /\ t.at[n] \preceq Tip(t)
<1>1. t.lo \in Nat /\ t.hi \in Nat /\ t.lo <= t.hi /\ t.at \in [t.lo .. t.hi -> Block]
  BY DEF IsChain, IsTail, IsRun
<1>2. n \in Nat /\ t.lo <= n /\ n <= t.hi BY <1>1
<1>3. t.lo \in t.lo .. t.hi /\ t.hi \in t.lo .. t.hi BY <1>1
<1>4. \A k \in t.lo .. t.hi : t.at[k] \in Block /\ Number[t.at[k]] = k
  BY <1>1 DEF IsChain, IsTail
<1>5. t.at[t.lo] \preceq t.at[n] /\ t.at[n] \preceq t.at[t.hi]
  BY <1>2, <1>3 DEF IsChain
<1> QED BY <1>1, <1>2, <1>3, <1>4, <1>5 DEF Tip, StableTip

\* A tail of one block is a chain.
LEMMA SingleIsChain ==
    ASSUME NEW b \in Block
    PROVE  /\ IsChain(Single(b))
           /\ StableTip(Single(b)) = b /\ Tip(Single(b)) = b
           /\ Single(b).lo = Number[b] /\ Single(b).hi = Number[b]
<1>1. Number[b] \in Nat /\ b \preceq b BY TreeAssumption
<1>2. Number[b] .. Number[b] = {Number[b]} BY <1>1
<1>3. \A n \in {Number[b]} : Single(b).at[n] = b BY DEF Single
<1>4. Single(b).at \in [Number[b] .. Number[b] -> Block] BY <1>2 DEF Single
<1>5. IsRun(Single(b)) BY <1>1, <1>4 DEF IsRun, Single
<1>6. Number[b] .. (Number[b] - 1) = {} BY <1>1
<1>7. IsTail(Single(b)) BY <1>1, <1>2, <1>3, <1>5, <1>6 DEF IsTail, Single
<1> QED BY <1>1, <1>2, <1>3, <1>7 DEF IsChain, Single, StableTip, Tip

\* A step of the walk keeps a chain a chain, and its tip.
LEMMA PushFrontIsChain ==
    ASSUME NEW t, IsChain(t), t.lo > 0
    PROVE  /\ IsChain(PushFront(t, Parent[StableTip(t)]))
           /\ PushFront(t, Parent[StableTip(t)]).hi = t.hi
           /\ Tip(PushFront(t, Parent[StableTip(t)])) = Tip(t)
<1> DEFINE p == Parent[StableTip(t)]
           u == PushFront(t, p)
<1>1. t.lo \in Nat /\ t.hi \in Nat /\ t.lo <= t.hi BY DEF IsChain, IsTail, IsRun
<1>2. t.lo \in t.lo .. t.hi /\ t.hi \in t.lo .. t.hi BY <1>1
<1>3. StableTip(t) \in Block /\ Number[StableTip(t)] = t.lo BY <1>2, ChainBlocks
<1>4. p \in Block /\ Number[p] = t.lo - 1 /\ p \preceq StableTip(t) BY <1>1, <1>3, HasParent
<1>5. u.lo = t.lo - 1 /\ u.hi = t.hi BY DEF PushFront
<1>6. \A n \in u.lo .. u.hi : u.at[n] = IF n < t.lo THEN p ELSE t.at[n]
  BY DEF PushFront
<1>7. \A n \in u.lo .. u.hi : IF n < t.lo THEN n = t.lo - 1 ELSE n \in t.lo .. t.hi
  BY <1>1, <1>5
<1>8. \A n \in u.lo .. u.hi : u.at[n] \in Block /\ Number[u.at[n]] = n
  <2> TAKE n \in u.lo .. u.hi
  <2>1. CASE n < t.lo BY <2>1, <1>4, <1>6, <1>7
  <2>2. CASE ~(n < t.lo) BY <2>2, <1>6, <1>7, ChainBlocks
  <2> QED BY <2>1, <2>2
<1>9. IsRun(u)
  <2>1. u.at = [n \in u.lo .. u.hi |-> IF n < t.lo THEN p ELSE t.at[n]] BY DEF PushFront
  <2>2. u.at \in [u.lo .. u.hi -> Block] BY <2>1, <1>6, <1>8
  <2> QED BY <2>2, <1>1, <1>5 DEF IsRun
<1>10. \A n \in u.lo .. (u.hi - 1) : Parent[u.at[n + 1]] = u.at[n]
  <2> TAKE n \in u.lo .. (u.hi - 1)
  <2>1. n \in u.lo .. u.hi /\ n + 1 \in u.lo .. u.hi /\ ~(n + 1 < t.lo) BY <1>1, <1>5
  <2>2. CASE n < t.lo
    <3>1. n + 1 = t.lo BY <2>1, <2>2, <1>1, <1>5
    <3>2. u.at[n] = p BY <2>1, <2>2, <1>6
    <3>3. u.at[n + 1] = StableTip(t) BY <3>1, <2>1, <1>6 DEF StableTip
    <3> QED BY <3>2, <3>3
  <2>3. CASE ~(n < t.lo)
    <3>1. n \in t.lo .. (t.hi - 1) BY <2>1, <2>3, <1>1, <1>5
    <3> QED BY <3>1, <2>1, <2>3, <1>6 DEF IsChain, IsTail
  <2> QED BY <2>2, <2>3
<1>11. \A m, n \in u.lo .. u.hi : m <= n => u.at[m] \preceq u.at[n]
  <2> SUFFICES ASSUME NEW m \in u.lo .. u.hi, NEW n \in u.lo .. u.hi, m <= n
               PROVE  u.at[m] \preceq u.at[n]
    OBVIOUS
  <2>1. CASE n < t.lo
    <3>1. m = n BY <2>1, <1>1, <1>5
    <3> QED BY <3>1, <1>8, TreeAssumption
  <2>2. CASE m < t.lo /\ ~(n < t.lo)
    <3>1. n \in t.lo .. t.hi BY <2>2, <1>7
    <3>2. StableTip(t) \preceq t.at[n] /\ t.at[n] \in Block BY <3>1, ChainBlocks
    <3>3. p \preceq t.at[n] BY <3>2, <1>3, <1>4, Transitive
    <3> QED BY <3>3, <2>2, <1>6
  <2>3. CASE ~(m < t.lo) /\ ~(n < t.lo)
    <3>1. m \in t.lo .. t.hi /\ n \in t.lo .. t.hi BY <2>3, <1>7
    <3> QED BY <3>1, <2>3, <1>6 DEF IsChain
  <2>4. m < t.lo \/ ~(m < t.lo) OBVIOUS
  <2>5. n < t.lo \/ ~(n < t.lo) OBVIOUS
  <2> QED BY <2>1, <2>2, <2>3
<1>12. Tip(u) = Tip(t)
  <2>1. t.hi \in u.lo .. u.hi /\ ~(t.hi < t.lo) BY <1>1, <1>5
  <2> QED BY <2>1, <1>5, <1>6 DEF Tip
<1> QED BY <1>5, <1>8, <1>9, <1>10, <1>11, <1>12 DEF IsChain, IsTail

-----------------------------------------------------------------------------
\* The second loop of an update leaves a chain, with its tip, and starts it at
\* floor unless it started above.
LEMMA TrimmedIsChain ==
    ASSUME NEW t, IsChain(t), NEW floor \in Nat, floor <= t.hi
    PROVE  /\ IsChain(Trimmed(t, floor))
           /\ Tip(Trimmed(t, floor)) = Tip(t)
           /\ StableTip(t) \preceq StableTip(Trimmed(t, floor))
           /\ IF t.lo <= floor THEN Trimmed(t, floor).lo = floor
              ELSE StableTip(Trimmed(t, floor)) = StableTip(t)
<1> DEFINE u == Trimmed(t, floor)
<1>1. t.lo \in Nat /\ t.hi \in Nat /\ t.lo <= t.hi BY DEF IsChain, IsTail, IsRun
<1>2. u.lo = Larger(floor, t.lo) /\ u.hi = t.hi BY DEF Trimmed
<1>3. /\ u.lo \in Nat /\ u.hi \in Nat /\ t.lo <= u.lo /\ u.lo <= u.hi
      /\ IF t.lo <= floor THEN u.lo = floor ELSE u.lo = t.lo
  BY <1>1, <1>2 DEF Larger
<1>4. \A n \in u.lo .. u.hi : n \in t.lo .. t.hi /\ u.at[n] = t.at[n]
  BY <1>1, <1>2, <1>3 DEF Trimmed
<1>5. \A n \in u.lo .. u.hi : u.at[n] \in Block /\ Number[u.at[n]] = n
  BY <1>4, ChainBlocks
<1>6. IsRun(u)
  <2>1. u.at = [n \in u.lo .. u.hi |-> t.at[n]] BY DEF Trimmed
  <2>2. u.at \in [u.lo .. u.hi -> Block] BY <2>1, <1>4, <1>5
  <2> QED BY <2>2, <1>3 DEF IsRun
<1>7. \A n \in u.lo .. (u.hi - 1) : Parent[u.at[n + 1]] = u.at[n]
  <2> TAKE n \in u.lo .. (u.hi - 1)
  <2>1. /\ n \in u.lo .. u.hi /\ n + 1 \in u.lo .. u.hi
        /\ n \in t.lo .. (t.hi - 1)
    BY <1>1, <1>2, <1>3
  <2> QED BY <2>1, <1>4 DEF IsChain, IsTail
<1>8. \A m, n \in u.lo .. u.hi : m <= n => u.at[m] \preceq u.at[n]
  BY <1>4 DEF IsChain
<1>9. u.lo \in u.lo .. u.hi /\ u.hi \in u.lo .. u.hi BY <1>3
<1>10. StableTip(t) \preceq StableTip(u) /\ Tip(u) = Tip(t)
  BY <1>2, <1>4, <1>9, ChainBlocks DEF StableTip, Tip
<1>11. ~(t.lo <= floor) => StableTip(u) = StableTip(t)
  BY <1>3, <1>4, <1>9 DEF StableTip
<1> QED BY <1>3, <1>5, <1>6, <1>7, <1>8, <1>10, <1>11 DEF IsChain, IsTail

\* The first loop leaves a chain, with its tip: the blocks of the old tail that
\* it adds are the ancestors of the new one, because the two tails meet.
LEMMA ExtendedIsChain ==
    ASSUME NEW new, IsChain(new), NEW old, IsChain(old),
           Contains(old, StableTip(new)), NEW floor \in Nat
    PROVE  /\ IsChain(Extended(new, old, floor))
           /\ Extended(new, old, floor).hi = new.hi
           /\ Tip(Extended(new, old, floor)) = Tip(new)
           /\ StableTip(old) \preceq StableTip(Extended(new, old, floor))
           /\ \/ Extended(new, old, floor).lo <= floor
              \/ StableTip(Extended(new, old, floor)) = StableTip(old)
<1> DEFINE u == Extended(new, old, floor)
<1>1. /\ new.lo \in Nat /\ new.hi \in Nat /\ new.lo <= new.hi
      /\ old.lo \in Nat /\ old.hi \in Nat /\ old.lo <= old.hi
  BY DEF IsChain, IsTail, IsRun
<1>2. /\ new.lo \in new.lo .. new.hi /\ new.hi \in new.lo .. new.hi
      /\ old.lo \in old.lo .. old.hi
  BY <1>1
<1>3. new.lo \in old.lo .. old.hi /\ old.at[new.lo] = new.at[new.lo]
  BY <1>2, ChainBlocks DEF Contains, StableTip
<1>4. CASE ~(new.lo > floor /\ new.lo - 1 \in old.lo .. old.hi)
  <2>1. u = new BY <1>4 DEF Extended
  <2>2. StableTip(old) \preceq StableTip(new) BY <1>3, ChainBlocks DEF StableTip
  <2>3. new.lo <= floor \/ new.lo = old.lo BY <1>1, <1>3, <1>4
  <2>4. new.lo <= floor \/ StableTip(new) = StableTip(old) BY <2>3, <1>3 DEF StableTip
  <2> QED BY <2>1, <2>2, <2>4
<1>5. CASE new.lo > floor /\ new.lo - 1 \in old.lo .. old.hi
  <2> DEFINE lo == Larger(floor, old.lo)
  <2>1. u = [lo |-> lo, hi |-> new.hi,
             at |-> [n \in lo .. new.hi |-> IF n < new.lo THEN old.at[n] ELSE new.at[n]]]
    BY <1>5 DEF Extended
  <2>2. /\ u.lo = lo /\ u.hi = new.hi
        /\ u.at = [n \in u.lo .. u.hi |-> IF n < new.lo THEN old.at[n] ELSE new.at[n]]
    BY <2>1
  <2>3. /\ lo \in Nat /\ old.lo <= lo /\ floor <= lo /\ lo < new.lo
        /\ (lo = floor \/ lo = old.lo)
    BY <1>1, <1>3, <1>5 DEF Larger
  <2> HIDE DEF lo, u
  <2>4. \A n \in u.lo .. u.hi :
           IF n < new.lo THEN n \in old.lo .. old.hi /\ u.at[n] = old.at[n]
                         ELSE n \in new.lo .. new.hi /\ u.at[n] = new.at[n]
    BY <1>1, <1>3, <2>2, <2>3
  <2>5. \A n \in u.lo .. u.hi : u.at[n] \in Block /\ Number[u.at[n]] = n
    BY <2>4, ChainBlocks
  <2>6. IsRun(u)
    <3>1. u.at \in [u.lo .. u.hi -> Block] BY <2>2, <2>4, <2>5
    <3> QED BY <3>1, <1>1, <2>2, <2>3 DEF IsRun
  <2>7. \A n \in u.lo .. (u.hi - 1) : Parent[u.at[n + 1]] = u.at[n]
    <3> TAKE n \in u.lo .. (u.hi - 1)
    <3>1. n \in u.lo .. u.hi /\ n + 1 \in u.lo .. u.hi BY <1>1, <2>2, <2>3
    <3>2. CASE n + 1 < new.lo
      <4>1. n \in old.lo .. (old.hi - 1) /\ n < new.lo BY <3>2, <1>1, <1>3, <2>2, <2>3
      <4> QED BY <4>1, <3>1, <3>2, <2>4 DEF IsChain, IsTail
    <3>3. CASE n + 1 = new.lo
      <4>1. /\ n \in old.lo .. (old.hi - 1) /\ n < new.lo /\ ~(n + 1 < new.lo)
        BY <3>3, <1>1, <1>3, <2>2, <2>3
      <4>2. u.at[n + 1] = old.at[n + 1] BY <4>1, <3>1, <3>3, <2>4, <1>3
      <4> QED BY <4>1, <4>2, <3>1, <2>4 DEF IsChain, IsTail
    <3>4. CASE n + 1 > new.lo
      <4>1. n \in new.lo .. (new.hi - 1) /\ ~(n < new.lo) /\ ~(n + 1 < new.lo)
        BY <3>4, <1>1, <2>2, <2>3
      <4> QED BY <4>1, <3>1, <2>4 DEF IsChain, IsTail
    <3> QED BY <3>1, <3>2, <3>3, <3>4, <1>1, <2>2, <2>3
  <2>8. \A m, n \in u.lo .. u.hi : m <= n => u.at[m] \preceq u.at[n]
    <3> SUFFICES ASSUME NEW m \in u.lo .. u.hi, NEW n \in u.lo .. u.hi, m <= n
                 PROVE  u.at[m] \preceq u.at[n]
      OBVIOUS
    <3>1. CASE n < new.lo
      <4>1. m < new.lo BY <3>1, <1>1, <2>2, <2>3
      <4> QED BY <4>1, <3>1, <2>4 DEF IsChain
    <3>2. CASE m < new.lo /\ ~(n < new.lo)
      <4>1. m \in old.lo .. old.hi /\ u.at[m] = old.at[m] BY <3>2, <2>4
      <4>2. n \in new.lo .. new.hi /\ u.at[n] = new.at[n] BY <3>2, <2>4
      <4>3. m <= new.lo BY <3>2, <1>1, <2>2, <2>3
      <4>4. old.at[m] \preceq old.at[new.lo] BY <4>1, <4>3, <1>3 DEF IsChain
      <4>5. new.at[new.lo] \preceq new.at[n] BY <4>2, ChainBlocks DEF StableTip
      <4> QED BY <4>1, <4>2, <4>4, <4>5, <1>2, <1>3, <2>5, ChainBlocks, Transitive
    <3>3. CASE ~(m < new.lo) /\ ~(n < new.lo) BY <3>3, <2>4 DEF IsChain
    <3> QED BY <3>1, <3>2, <3>3
  <2>9. u.lo \in u.lo .. u.hi /\ u.hi \in u.lo .. u.hi BY <2>6 DEF IsRun
  <2>10. Tip(u) = Tip(new)
    <3>1. ~(u.hi < new.lo) BY <1>1, <2>2
    <3> QED BY <3>1, <2>2, <2>4, <2>9 DEF Tip
  <2>11. /\ u.lo \in old.lo .. old.hi /\ StableTip(u) = old.at[u.lo]
    BY <2>2, <2>3, <2>4, <2>9 DEF StableTip
  <2>12. StableTip(old) \preceq StableTip(u) BY <2>11, ChainBlocks
  <2>13. u.lo <= floor \/ StableTip(u) = StableTip(old)
    BY <2>2, <2>3, <2>11 DEF StableTip
  <2> QED BY <2>2, <2>5, <2>6, <2>7, <2>8, <2>10, <2>12, <2>13 DEF IsChain, IsTail, u
<1> QED BY <1>4, <1>5

\* The tail that an update ends with.
LEMMA ReanchoredIsChain ==
    ASSUME NEW new, IsChain(new), NEW old, IsChain(old),
           Contains(old, StableTip(new)), NEW floor \in Nat, floor <= new.hi
    PROVE  /\ IsChain(Reanchored(new, old, floor))
           /\ Tip(Reanchored(new, old, floor)) = Tip(new)
           /\ StableTip(old) \preceq StableTip(Reanchored(new, old, floor))
           /\ \/ Reanchored(new, old, floor).lo = floor
              \/ StableTip(Reanchored(new, old, floor)) = StableTip(old)
<1> DEFINE e == Extended(new, old, floor)
           r == Trimmed(e, floor)
<1>1. /\ IsChain(e) /\ e.hi = new.hi /\ Tip(e) = Tip(new)
      /\ StableTip(old) \preceq StableTip(e)
      /\ e.lo <= floor \/ StableTip(e) = StableTip(old)
  BY ExtendedIsChain
<1>2. r = Reanchored(new, old, floor) BY DEF Reanchored
<1> HIDE DEF e
<1>3. /\ IsChain(r) /\ Tip(r) = Tip(e) /\ StableTip(e) \preceq StableTip(r)
      /\ IF e.lo <= floor THEN r.lo = floor ELSE StableTip(r) = StableTip(e)
  BY <1>1, TrimmedIsChain
<1>4. e.lo \in e.lo .. e.hi /\ r.lo \in r.lo .. r.hi /\ old.lo \in old.lo .. old.hi
  BY <1>1, <1>3 DEF IsChain, IsTail, IsRun
<1>5. StableTip(old) \in Block /\ StableTip(e) \in Block /\ StableTip(r) \in Block
  BY <1>1, <1>3, <1>4, ChainBlocks
<1>6. StableTip(old) \preceq StableTip(r) BY <1>1, <1>3, <1>5, Transitive
<1> QED BY <1>1, <1>2, <1>3, <1>6
=============================================================================
