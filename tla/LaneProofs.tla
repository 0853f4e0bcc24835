------------------------------ MODULE LaneProofs ------------------------------
(***************************************************************************)
(* How the state of a lane is folded from the logs of its chains           *)
(* (EventStateMachine), and what the folds of the two chains say of the    *)
(* roots that may be blessed (LaneBless).  The two modules share no        *)
(* variable; the theorems of each are about its own specification.         *)
(*                                                                         *)
(* First, EventStateMachine, for any tree of blocks and any logs: the      *)
(* stable state folds the stable chain exactly, the unstable one holds     *)
(* nothing that is off its tail, and no timestamp is fresher than the logs.*)
(***************************************************************************)
EXTENDS EventStateMachine, LaneBless, BlockTreeProofs, FiniteSetTheorems,
        SequenceTheorems, WellFoundedInduction

Machine == [ok : BOOLEAN, next : Nat, logs : Seq(Block), time : Nat \cup {NoTime}, of : Block]
Status == [phase : {"none", "good", "violated"}, stable : Block, tip : Block]

FollowerTypeOK ==
    /\ head \in Block /\ chain \in Status
    /\ reliable \in BOOLEAN /\ done \in BOOLEAN /\ contiguous \in BOOLEAN
    /\ pc \in {"idle", "stable", "unstable", "stopped"} /\ snap \in Status
    /\ stable \in Machine /\ working \in Machine /\ unstable \in Machine

Polling == pc \in {"stable", "unstable"}

\* What was stable stays on the chain, and the poll has seen a part of it.
ChainInv ==
    /\ chain.phase = "none" => ~Polling /\ stable = NewMachine
    /\ chain.phase = "good" => chain.stable \preceq head /\ chain.stable \preceq chain.tip
    /\ Polling /\ chain.phase = "good" =>
          /\ snap.phase = "good"
          /\ snap.stable \preceq chain.stable /\ snap.stable \preceq snap.tip

\* The block up to which the stable machine asks for logs.
Base == IF Polling THEN snap.stable ELSE chain.stable

Expected(b) == LogsOf(b, StartBlock, Number[b])

Begins(s, t) == Len(s) <= Len(t) /\ \A i \in 1 .. Len(s) : s[i] = t[i]

\* The numbers of the logs grow.
Ascends(s) == \A i, j \in 1 .. Len(s) : i < j => Number[s[i]] < Number[s[j]]

\* m has the logs of the chain of b.
Exact(m, b) ==
    /\ m.next >= StartBlock
    /\ m.next = StartBlock \/ m.next <= Number[b] + 1
    /\ contiguous => Begins(m.logs, Expected(b))
    /\ AllDecode(b) => m.ok /\ m.logs = LogsOf(b, StartBlock, m.next - 1)

\* m has nothing that is off the chain of m.of, none twice, and no gap if its
\* events are numbered.
Sound(m) ==
    /\ m.next >= StartBlock
    /\ contiguous => Begins(m.logs, Expected(m.of))
    /\ ~contiguous /\ AllDecode(m.of) =>
          /\ \A i \in 1 .. Len(m.logs) : m.logs[i] \preceq m.of /\ Number[m.logs[i]] < m.next
          /\ Ascends(m.logs)

MachinesInv ==
    chain.phase # "violated" =>
        /\ Exact(stable, Base) /\ Sound(unstable)
        /\ pc = "unstable" => working.of = snap.tip /\ Sound(working)

Inv == FollowerTypeOK /\ ChainInv /\ MachinesInv /\ FreshIsScanned /\ LogsInTail

-----------------------------------------------------------------------------
(***************************************************************************)
(* Induction over sets of numbers: a set of them that has 0 and is closed  *)
(* under the successor has all, as it would lack a least one.              *)
(***************************************************************************)
LEMMA Induction ==
    ASSUME NEW S, 0 \in S, \A i \in Nat : i \in S => i + 1 \in S
    PROVE  Nat \subseteq S
<1> SUFFICES ASSUME Nat \ S # {}
             PROVE  FALSE
  OBVIOUS
<1> DEFINE R == OpToRel(<, Nat)
<1>1. IsWellFoundedOn(R, Nat)
  BY NatLessThanWellFounded, Zenon DEF OpToRel
<1>2. PICK n \in Nat \ S : \A m \in Nat \ S : <<m, n>> \notin R
  BY <1>1, WFMin, Zenon
<1>3. \A m \in Nat \ S : ~(m < n)
  BY <1>2 DEF OpToRel
<1>4. n # 0 /\ n - 1 \in Nat /\ n - 1 < n
  OBVIOUS
<1>5. n - 1 \in S
  BY <1>3, <1>4
<1> QED
  BY <1>4, <1>5

\* The last of the first numbers that are in S.
LEMMA LastOf ==
    ASSUME NEW S, 0 \in S, NEW n \in Nat
    PROVE  \E k \in 0 .. n : (\A i \in 0 .. k : i \in S) /\ (k < n => k + 1 \notin S)
<1> DEFINE T == {k \in 0 .. n : \A i \in 0 .. k : i \in S}
<1>1. 0 \in T
  OBVIOUS
<1>2. CASE \A k \in Nat : k \in T => k + 1 \in T
  <2>1. n + 1 \in T
    <3> HIDE DEF T
    <3> QED
      BY <1>1, <1>2, Induction
  <2> QED
    BY <2>1
<1>3. CASE \E k \in Nat : k \in T /\ k + 1 \notin T
  <2>1. PICK k \in Nat : k \in T /\ k + 1 \notin T
    BY <1>3
  <2>2. k < n => k + 1 \notin S
    <3>1. \A i \in 0 .. k + 1 : i \in 0 .. k \/ i = k + 1
      OBVIOUS
    <3> QED
      BY <2>1, <3>1
  <2> QED
    BY <2>1, <2>2
<1> QED
  BY <1>2, <1>3

-----------------------------------------------------------------------------
(***************************************************************************)
(* The logs of a chain, in the order of the chain.                         *)
(***************************************************************************)
\* The logs of the chain of b with numbers from .. to.
Asked(b, from, to) == {a \in Logged : a \preceq b /\ from <= Number[a] /\ Number[a] <= to}

\* s lists S in the order of the chain.
Lists(s, S) ==
    /\ s \in Seq(Block) /\ Ascends(s)
    /\ \A i \in 1 .. Len(s) : s[i] \in S
    /\ \A a \in S : \E i \in 1 .. Len(s) : s[i] = a

\* The logs of a chain can be listed.
LEMMA CanList ==
    ASSUME NEW b \in Block
    PROVE  LET found == {a \in Logged : a \preceq b} IN
           /\ IsFiniteSet(found) /\ Cardinality(found) \in Nat
           /\ \E s \in [1 .. Cardinality(found) -> found] :
                 \A i, j \in DOMAIN s : i < j => Number[s[i]] < Number[s[j]]
<1> DEFINE Upto(n) == {a \in Logged : a \preceq b /\ Number[a] < n}
           Listed(n, s) ==
               /\ s \in [1 .. Cardinality(Upto(n)) -> Upto(n)]
               /\ \A i, j \in DOMAIN s : i < j => Number[s[i]] < Number[s[j]]
           S == {n \in Nat : /\ IsFiniteSet(Upto(n)) /\ Cardinality(Upto(n)) \in Nat
                             /\ \E s : Listed(n, s)}
<1>1. \A a \in Logged : a \in Block /\ Number[a] \in Nat
  BY TreeAssumption, EventStateMachineAssumption
<1>2. 0 \in S
  <2>1. Upto(0) = {}
    BY <1>1
  <2>2. IsFiniteSet(Upto(0)) /\ Cardinality(Upto(0)) = 0
    BY <2>1, FS_EmptySet
  <2>3. Listed(0, [i \in 1 .. 0 |-> b])
    <3> HIDE DEF Upto
    <3> QED
      BY <2>2
  <2> QED
    <3> HIDE DEF Upto, Listed
    <3> QED
      BY <2>2, <2>3
<1>3. ASSUME NEW n \in Nat, n \in S
      PROVE  n + 1 \in S
  <2> DEFINE c == Cardinality(Upto(n))
  <2>1. PICK s : Listed(n, s)
    BY <1>3
  <2>2. IsFiniteSet(Upto(n)) /\ c \in Nat
    BY <1>3
  <2>3. CASE \E x \in Logged : x \preceq b /\ Number[x] = n
    <3>1. PICK x \in Logged : x \preceq b /\ Number[x] = n
      BY <2>3
    <3>2. Upto(n + 1) = Upto(n) \cup {x} /\ x \notin Upto(n)
      <4>1. \A a \in Logged : a \preceq b /\ Number[a] = n => a = x
        BY <1>1, <3>1, SameNumber
      <4>2. \A a \in Logged : Number[a] < n + 1 <=> Number[a] < n \/ Number[a] = n
        BY <1>1
      <4> QED
        BY <3>1, <4>1, <4>2
    <3>3. IsFiniteSet(Upto(n + 1)) /\ Cardinality(Upto(n + 1)) = c + 1
      <4> HIDE DEF Upto
      <4> QED
        BY <2>2, <3>2, FS_AddElement
    <3> DEFINE t == [i \in 1 .. c + 1 |-> IF i = c + 1 THEN x ELSE s[i]]
    <3>4. \A i \in 1 .. c + 1 : i # c + 1 => i \in 1 .. c
      BY <2>2
    <3>5. \A i \in 1 .. c : s[i] \in Upto(n) /\ Number[s[i]] < n
      BY <2>1
    <3>6. t \in [1 .. c + 1 -> Upto(n + 1)]
      <4> HIDE DEF Upto
      <4> QED
        BY <3>2, <3>4, <3>5
    <3>7. ASSUME NEW i \in 1 .. c + 1, NEW j \in 1 .. c + 1, i < j
          PROVE  Number[t[i]] < Number[t[j]]
      <4>1. i \in 1 .. c /\ t[i] = s[i]
        BY <2>2, <3>7
      <4>2. CASE j = c + 1
        BY <3>1, <3>5, <4>1, <4>2
      <4>3. CASE j # c + 1
        <5>1. j \in 1 .. c /\ t[j] = s[j]
          BY <3>4, <4>3
        <5> QED
          BY <2>1, <3>7, <4>1, <5>1
      <4> QED
        BY <4>2, <4>3
    <3>8. Listed(n + 1, t)
      <4> HIDE DEF Upto
      <4> QED
        BY <3>3, <3>6, <3>7
    <3> HIDE DEF Upto, Listed, t
    <3> QED
      BY <2>2, <3>3, <3>8
  <2>4. CASE ~\E x \in Logged : x \preceq b /\ Number[x] = n
    <3>1. Upto(n + 1) = Upto(n)
      BY <1>1, <2>4
    <3>2. Listed(n + 1, s)
      <4> HIDE DEF Upto
      <4> QED
        BY <2>1, <3>1
    <3> HIDE DEF Upto, Listed
    <3> QED
      BY <2>2, <3>1, <3>2
  <2> QED
    BY <2>3, <2>4
<1>4. Number[b] + 1 \in S
  <2> HIDE DEF S
  <2> QED
    BY <1>2, <1>3, Induction, TreeAssumption
<1>5. Upto(Number[b] + 1) = {a \in Logged : a \preceq b}
  <2>1. \A a \in Logged : a \preceq b => Number[a] < Number[b] + 1
    BY <1>1, SmallerNumber
  <2> QED
    BY <2>1
<1> QED
  BY <1>4, <1>5

\* Logs lists the logs of the chain.
LEMMA LogsList ==
    ASSUME NEW b \in Block
    PROVE  Lists(Logs[b], {a \in Logged : a \preceq b})
<1> DEFINE found == {a \in Logged : a \preceq b}
           n == Cardinality(found)
           s == Logs[b]
<1>1. IsFiniteSet(found) /\ n \in Nat
  BY CanList
<1>2. \E t \in [1 .. n -> found] : \A i, j \in DOMAIN t : i < j => Number[t[i]] < Number[t[j]]
  BY CanList
<1>3. s = CHOOSE t \in [1 .. n -> found] :
             \A i, j \in DOMAIN t : i < j => Number[t[i]] < Number[t[j]]
  BY DEF Logs
<1>4. found \subseteq Block /\ \A a \in found : Number[a] \in Nat
  BY EventStateMachineAssumption, TreeAssumption
<1> HIDE DEF found, n, s
<1>5. /\ s \in [1 .. n -> found]
      /\ \A i, j \in DOMAIN s : i < j => Number[s[i]] < Number[s[j]]
  BY <1>2, <1>3
<1>6. \A i, j \in 1 .. n : i < j => Number[s[i]] < Number[s[j]]
  BY <1>5
<1>7. s \in Injection(1 .. n, found)
  <2> SUFFICES ASSUME NEW i \in 1 .. n, NEW j \in 1 .. n, s[i] = s[j]
               PROVE  i = j
    BY <1>5 DEF Injection, IsInjective
  <2>1. i < j \/ j < i \/ i = j
    BY <1>1
  <2>2. Number[s[i]] \in Nat
    BY <1>4, <1>5
  <2> QED
    BY <1>6, <2>1, <2>2
<1>8. IsFiniteSet(1 .. n) /\ Cardinality(1 .. n) = n
  BY <1>1, FS_Interval
<1>9. s \in Surjection(1 .. n, found)
  BY <1>1, <1>7, <1>8, FS_Injection DEF n
<1>10. s \in Seq(Block) /\ Len(s) = n
  BY <1>1, <1>4, <1>5
<1>11. \A a \in found : \E i \in 1 .. n : s[i] = a
  BY <1>9 DEF Surjection
<1> QED
  BY <1>5, <1>6, <1>10, <1>11 DEF Lists, Ascends, found, s

\* A part of 1 .. n that has all below each of its members begins it.
LEMMA Initial ==
    ASSUME NEW n \in Nat, NEW S \in SUBSET (1 .. n),
           \A i \in S : \A j \in 1 .. n : j < i => j \in S
    PROVE  Cardinality(S) \in 0 .. n /\ S = 1 .. Cardinality(S)
<1>1. PICK k \in 0 .. n :
         (\A i \in 0 .. k : i \in S \cup {0}) /\ (k < n => k + 1 \notin S \cup {0})
  BY LastOf
<1>2. 1 .. k \subseteq S
  BY <1>1
<1>3. \A i \in S : i <= k
  <2> SUFFICES ASSUME NEW i \in S, ~(i <= k)
               PROVE  FALSE
    OBVIOUS
  <2>1. i \in 1 .. n /\ k < n /\ k + 1 \in 1 .. n
    OBVIOUS
  <2>2. k + 1 < i \/ k + 1 = i
    BY <2>1
  <2> QED
    BY <1>1, <2>1, <2>2
<1>4. S \subseteq 1 .. k
  BY <1>3
<1>5. S = 1 .. k
  BY <1>2, <1>4
<1> QED
  BY <1>5, FS_Interval

\* LogsOf lists the logs of the chain with the numbers asked for.
LEMMA LogsOfList ==
    ASSUME NEW b \in Block, NEW from \in Nat, NEW to \in Int, to >= -1
    PROVE  Lists(LogsOf(b, from, to), Asked(b, from, to))
<1> DEFINE L == Logs[b]
           Below(n) == {i \in DOMAIN L : Number[L[i]] < n}
           m == Cardinality(Below(from))
           n == Cardinality(Below(to + 1))
           s == LogsOf(b, from, to)
<1>1. L \in Seq(Block) /\ Ascends(L) /\ Len(L) \in Nat /\ DOMAIN L = 1 .. Len(L)
  BY LogsList DEF Lists
<1>2. /\ \A i \in 1 .. Len(L) : L[i] \in Logged /\ L[i] \preceq b
      /\ \A a \in Logged : a \preceq b => \E i \in 1 .. Len(L) : L[i] = a
  BY LogsList DEF Lists
<1>3. \A i \in 1 .. Len(L) : L[i] \in Block /\ Number[L[i]] \in Nat
  BY <1>1, TreeAssumption
<1>4. s = SubSeq(L, m + 1, n)
  BY DEF LogsOf
<1>5. ASSUME NEW k \in Nat
      PROVE  /\ Cardinality(Below(k)) \in 0 .. Len(L)
             /\ Below(k) = 1 .. Cardinality(Below(k))
  <2>1. Below(k) \in SUBSET (1 .. Len(L))
    BY <1>1
  <2>2. \A i \in Below(k) : \A j \in 1 .. Len(L) : j < i => j \in Below(k)
    BY <1>1, <1>3 DEF Ascends
  <2> HIDE DEF Below, L
  <2> QED
    BY <1>1, <2>1, <2>2, Initial
<1>6. /\ m \in 0 .. Len(L) /\ \A i \in 1 .. Len(L) : i <= m <=> Number[L[i]] < from
      /\ n \in 0 .. Len(L) /\ \A i \in 1 .. Len(L) : i <= n <=> Number[L[i]] < to + 1
  <2>1. to + 1 \in Nat
    OBVIOUS
  <2>2. \A i \in 1 .. Len(L) : i \in Below(from) <=> Number[L[i]] < from
    BY <1>1
  <2>3. \A i \in 1 .. Len(L) : i \in Below(to + 1) <=> Number[L[i]] < to + 1
    BY <1>1
  <2>4. Below(from) = 1 .. m /\ Below(to + 1) = 1 .. n /\ m \in 0 .. Len(L) /\ n \in 0 .. Len(L)
    BY <1>5, <2>1
  <2> HIDE DEF Below, L, m, n
  <2> QED
    BY <1>1, <2>2, <2>3, <2>4
<1> HIDE DEF L, m, n, s
<1>7. /\ s \in Seq(Block)
      /\ Len(s) = IF m + 1 <= n THEN n - m ELSE 0
      /\ \A i \in 1 .. Len(s) : i + m \in 1 .. n /\ s[i] = L[i + m]
  BY <1>1, <1>4, <1>6
<1>8. Ascends(s)
  <2> SUFFICES ASSUME NEW i \in 1 .. Len(s), NEW j \in 1 .. Len(s), i < j
               PROVE  Number[s[i]] < Number[s[j]]
    BY DEF Ascends
  <2>1. i + m \in 1 .. Len(L) /\ j + m \in 1 .. Len(L) /\ i + m < j + m
    BY <1>6, <1>7
  <2> QED
    BY <1>1, <1>7, <2>1 DEF Ascends
<1>9. \A i \in 1 .. Len(s) : s[i] \in Asked(b, from, to)
  <2> TAKE i \in 1 .. Len(s)
  <2>1. i + m \in 1 .. Len(L) /\ ~(i + m <= m) /\ i + m <= n /\ s[i] = L[i + m]
    BY <1>6, <1>7
  <2>2. Number[s[i]] \in Nat /\ ~(Number[s[i]] < from) /\ Number[s[i]] < to + 1
    BY <1>3, <1>6, <2>1
  <2> QED
    BY <1>2, <2>1, <2>2 DEF Asked
<1>10. ASSUME NEW a \in Asked(b, from, to)
       PROVE  \E i \in 1 .. Len(s) : s[i] = a
  <2>1. PICK j \in 1 .. Len(L) : L[j] = a
    BY <1>2 DEF Asked
  <2>2. Number[a] \in Nat /\ ~(Number[a] < from) /\ Number[a] < to + 1
    BY <1>3, <2>1 DEF Asked
  <2>3. ~(j <= m) /\ j <= n
    BY <1>6, <2>1, <2>2
  <2>4. j - m \in 1 .. Len(s) /\ (j - m) + m = j
    BY <1>6, <1>7, <2>3
  <2> QED
    BY <1>7, <2>1, <2>4
<1> QED
  BY <1>7, <1>8, <1>9, <1>10 DEF Lists, s

\* Two lists agree as far as one goes, if it has all that the other has below.
LEMMA ListsBegin ==
    ASSUME NEW s, NEW S, NEW t, NEW T, Lists(s, S), Lists(t, T), S \subseteq T,
           \A a \in S : \A c \in T : Number[c] < Number[a] => c \in S
    PROVE  Begins(s, t)
<1> DEFINE Same(i) == i <= Len(s) => i <= Len(t) /\ \A j \in 1 .. i : s[j] = t[j]
           N == {i \in Nat : Same(i)}
<1>1. /\ s \in Seq(Block) /\ Len(s) \in Nat /\ t \in Seq(Block) /\ Len(t) \in Nat
      /\ \A i \in 1 .. Len(s) : Number[s[i]] \in Nat
      /\ \A i \in 1 .. Len(t) : Number[t[i]] \in Nat
  BY TreeAssumption DEF Lists
<1>2. 0 \in N
  BY <1>1
<1>3. ASSUME NEW i \in Nat, i \in N
      PROVE  i + 1 \in N
  <2> SUFFICES ASSUME i + 1 <= Len(s)
               PROVE  i + 1 <= Len(t) /\ s[i + 1] = t[i + 1]
    <3>1. i <= Len(s) => \A j \in 1 .. i : s[j] = t[j]
      BY <1>3
    <3>2. i + 1 <= Len(s) => i <= Len(s)
      BY <1>1
    <3>3. \A j \in 1 .. i + 1 : j \in 1 .. i \/ j = i + 1
      OBVIOUS
    <3> QED
      BY <3>1, <3>2, <3>3
  <2>1. i <= Len(t) /\ \A j \in 1 .. i : s[j] = t[j]
    BY <1>1, <1>3
  <2>2. i + 1 \in 1 .. Len(s)
    BY <1>1
  <2>3. PICK k \in 1 .. Len(t) : t[k] = s[i + 1]
    BY <2>2 DEF Lists
  <2>4. \A j \in 1 .. i : Number[t[j]] < Number[t[k]]
    <3> TAKE j \in 1 .. i
    <3>1. j \in 1 .. Len(s) /\ j < i + 1 /\ t[j] = s[j]
      BY <1>1, <2>1, <2>2
    <3>2. Number[s[j]] < Number[s[i + 1]]
      BY <2>2, <3>1 DEF Lists, Ascends
    <3> QED
      BY <2>3, <3>1, <3>2
  <2>5. ~(k <= i)
    BY <1>1, <2>4
  <2>6. i + 1 \in 1 .. Len(t)
    BY <1>1, <2>5
  <2>7. k = i + 1
    <3> SUFFICES ASSUME i + 1 < k
                 PROVE  FALSE
      BY <1>1, <2>5
    <3>1. Number[t[i + 1]] < Number[t[k]]
      BY <2>6 DEF Lists, Ascends
    <3>2. t[i + 1] \in S
      BY <2>2, <2>3, <2>6, <3>1 DEF Lists
    <3>3. PICK l \in 1 .. Len(s) : s[l] = t[i + 1]
      BY <3>2 DEF Lists
    <3>4. CASE l <= i
      <4>1. t[l] = t[i + 1] /\ l \in 1 .. Len(t) /\ l < i + 1
        BY <1>1, <2>1, <3>3, <3>4
      <4>2. Number[t[l]] < Number[t[i + 1]]
        BY <2>6, <4>1 DEF Lists, Ascends
      <4> QED
        BY <1>1, <2>6, <4>1, <4>2
    <3>5. CASE i + 1 <= l
      <4>1. l = i + 1 \/ Number[s[i + 1]] < Number[s[l]]
        <5>1. Ascends(s)
          BY DEF Lists
        <5>2. l = i + 1 \/ i + 1 < l
          BY <1>1, <3>5
        <5> HIDE DEF N, Same
        <5> QED
          BY <2>2, <5>1, <5>2 DEF Ascends
      <4> QED
        BY <1>1, <2>2, <2>3, <3>1, <3>3, <4>1
    <3> QED
      BY <1>1, <3>4, <3>5
  <2> QED
    BY <2>3, <2>6, <2>7
<1>4. Len(s) \in N
  <2> HIDE DEF N
  <2> QED
    BY <1>1, <1>2, <1>3, Induction
<1> QED
  BY <1>1, <1>4 DEF Begins

\* There is one list of a set.
LEMMA OneList ==
    ASSUME NEW s, NEW t, NEW S, Lists(s, S), Lists(t, S)
    PROVE  s = t
<1>1. Begins(s, t) /\ Begins(t, s)
  BY ListsBegin
<1>2. s \in Seq(Block) /\ t \in Seq(Block) /\ Len(s) = Len(t)
  BY <1>1 DEF Lists, Begins
<1> QED
  BY <1>1, <1>2 DEF Begins

-----------------------------------------------------------------------------
LEMMA Joined ==
    ASSUME NEW s \in Seq(Block), NEW t \in Seq(Block)
    PROVE  /\ s \o t \in Seq(Block) /\ Len(s \o t) = Len(s) + Len(t)
           /\ \A i \in 1 .. Len(s) : (s \o t)[i] = s[i]
           /\ \A i \in 1 .. Len(t) : (s \o t)[Len(s) + i] = t[i]
           /\ \A i \in 1 .. Len(s) + Len(t) :
                 IF i <= Len(s) THEN i \in 1 .. Len(s) /\ (s \o t)[i] = s[i]
                 ELSE i - Len(s) \in 1 .. Len(t) /\ (s \o t)[i] = t[i - Len(s)]
OBVIOUS

\* The first n of a sequence.
LEMMA Front ==
    ASSUME NEW s \in Seq(Block), NEW n \in 0 .. Len(s)
    PROVE  /\ SubSeq(s, 1, n) \in Seq(Block) /\ Len(SubSeq(s, 1, n)) = n
           /\ \A i \in 1 .. n : i \in 1 .. Len(s) /\ SubSeq(s, 1, n)[i] = s[i]
           /\ n = Len(s) => SubSeq(s, 1, n) = s
OBVIOUS

\* Two sequences in the order of the chain, one below the other.
LEMMA AscendsJoined ==
    ASSUME NEW s \in Seq(Block), NEW t \in Seq(Block), Ascends(s), Ascends(t), NEW c \in Int,
           \A i \in 1 .. Len(s) : Number[s[i]] < c,
           \A i \in 1 .. Len(t) : c <= Number[t[i]]
    PROVE  Ascends(s \o t)
<1> DEFINE u == s \o t
<1>1. Len(s) \in Nat /\ Len(t) \in Nat
  OBVIOUS
<1>2. /\ Len(u) = Len(s) + Len(t)
      /\ \A i \in 1 .. Len(s) + Len(t) :
            IF i <= Len(s) THEN i \in 1 .. Len(s) /\ u[i] = s[i]
            ELSE i - Len(s) \in 1 .. Len(t) /\ u[i] = t[i - Len(s)]
  BY Joined
<1>3. \A i \in 1 .. Len(s) : Number[s[i]] \in Int
  BY TreeAssumption
<1>4. \A i \in 1 .. Len(t) : Number[t[i]] \in Int
  BY TreeAssumption
<1> HIDE DEF u
<1> SUFFICES ASSUME NEW i \in 1 .. Len(s) + Len(t), NEW j \in 1 .. Len(s) + Len(t), i < j
             PROVE  Number[u[i]] < Number[u[j]]
  BY <1>2 DEF Ascends, u
<1>5. CASE j <= Len(s)
  <2>1. i \in 1 .. Len(s) /\ u[i] = s[i] /\ j \in 1 .. Len(s) /\ u[j] = s[j]
    BY <1>1, <1>2, <1>5
  <2> QED
    BY <2>1 DEF Ascends
<1>6. CASE i <= Len(s) /\ ~(j <= Len(s))
  <2>1. i \in 1 .. Len(s) /\ u[i] = s[i] /\ j - Len(s) \in 1 .. Len(t) /\ u[j] = t[j - Len(s)]
    BY <1>2, <1>6
  <2>2. Number[s[i]] < c /\ c <= Number[t[j - Len(s)]]
    BY <2>1
  <2> QED
    BY <1>3, <1>4, <2>1, <2>2
<1>7. CASE ~(i <= Len(s)) /\ ~(j <= Len(s))
  <2>1. /\ i - Len(s) \in 1 .. Len(t) /\ u[i] = t[i - Len(s)]
        /\ j - Len(s) \in 1 .. Len(t) /\ u[j] = t[j - Len(s)]
        /\ i - Len(s) < j - Len(s)
    BY <1>1, <1>2, <1>7
  <2> QED
    BY <2>1 DEF Ascends
<1> QED
  BY <1>1, <1>5, <1>6, <1>7

\* A block of the chain of h with a number that b reaches is on the chain of b.
LEMMA AskedBelow ==
    ASSUME NEW b \in Block, NEW h \in Block, b \preceq h,
           NEW from \in Nat, NEW to \in Int, to >= -1, to <= Number[b]
    PROVE  LogsOf(h, from, to) = LogsOf(b, from, to)
<1>1. \A a \in Logged : a \in Block /\ Number[a] \in Nat
  BY TreeAssumption, EventStateMachineAssumption
<1>2. Number[b] \in Nat
  BY TreeAssumption
<1>3. \A a \in Logged : Number[a] <= to => (a \preceq h <=> a \preceq b)
  BY <1>1, <1>2, Linear, Transitive
<1>4. Asked(h, from, to) = Asked(b, from, to)
  BY <1>3 DEF Asked
<1>5. Lists(LogsOf(h, from, to), Asked(b, from, to))
  BY <1>4, LogsOfList
<1> QED
  BY <1>5, LogsOfList, OneList

\* The logs of two parts that meet are those of the whole.
LEMMA LogsJoin ==
    ASSUME NEW b \in Block, NEW from \in Nat, NEW next \in Nat, NEW to \in Int,
           from <= next, next <= to + 1
    PROVE  LogsOf(b, from, next - 1) \o LogsOf(b, next, to) = LogsOf(b, from, to)
<1> DEFINE s == LogsOf(b, from, next - 1)
           t == LogsOf(b, next, to)
           S == Asked(b, from, next - 1)
           T == Asked(b, next, to)
<1>1. Lists(s, S) /\ Lists(t, T)
  BY LogsOfList
<1>2. \A a \in Logged : a \in Block /\ Number[a] \in Nat
  BY TreeAssumption, EventStateMachineAssumption
<1>3. (\A a \in S : Number[a] < next) /\ \A a \in T : next <= Number[a]
  BY <1>2 DEF Asked
<1>4. S \cup T = Asked(b, from, to)
  BY <1>2 DEF Asked
<1> HIDE DEF s, t, S, T
<1>5. s \in Seq(Block) /\ t \in Seq(Block) /\ Len(s) \in Nat /\ Len(t) \in Nat
  BY <1>1 DEF Lists
<1>6. /\ s \o t \in Seq(Block) /\ Len(s \o t) = Len(s) + Len(t)
      /\ \A i \in 1 .. Len(s) : (s \o t)[i] = s[i]
      /\ \A i \in 1 .. Len(t) : (s \o t)[Len(s) + i] = t[i]
      /\ \A i \in 1 .. Len(s) + Len(t) :
            IF i <= Len(s) THEN i \in 1 .. Len(s) /\ (s \o t)[i] = s[i]
            ELSE i - Len(s) \in 1 .. Len(t) /\ (s \o t)[i] = t[i - Len(s)]
  BY <1>5, Joined
<1>7. Ascends(s \o t)
  <2>1. /\ \A i \in 1 .. Len(s) : Number[s[i]] < next
        /\ \A i \in 1 .. Len(t) : next <= Number[t[i]]
    BY <1>1, <1>3 DEF Lists
  <2>2. Ascends(s) /\ Ascends(t) /\ next \in Int
    BY <1>1 DEF Lists
  <2> QED
    BY <1>5, <2>1, <2>2, AscendsJoined, Zenon
<1>8. \A i \in 1 .. Len(s \o t) : (s \o t)[i] \in S \cup T
  BY <1>1, <1>6 DEF Lists
<1>9. ASSUME NEW a \in S \cup T
      PROVE  \E i \in 1 .. Len(s \o t) : (s \o t)[i] = a
  <2>1. CASE a \in S
    <3>1. PICK i \in 1 .. Len(s) : s[i] = a
      BY <1>1, <2>1 DEF Lists
    <3>2. i \in 1 .. Len(s \o t)
      BY <1>5, <1>6
    <3> QED
      BY <1>6, <3>1, <3>2
  <2>2. CASE a \in T
    <3>1. PICK i \in 1 .. Len(t) : t[i] = a
      BY <1>1, <2>2 DEF Lists
    <3>2. Len(s) + i \in 1 .. Len(s \o t)
      BY <1>5, <1>6
    <3> QED
      BY <1>6, <3>1, <3>2
  <2> QED
    BY <2>1, <2>2
<1>10. Lists(s \o t, Asked(b, from, to))
  BY <1>4, <1>6, <1>7, <1>8, <1>9 DEF Lists
<1>11. Lists(LogsOf(b, from, to), Asked(b, from, to))
  BY LogsOfList
<1> QED
  BY <1>10, <1>11, OneList DEF s, t

\* The sequence number of a log is its place among the logs of its chain.
LEMMA SeqNrAt ==
    ASSUME NEW b \in Block, NEW to \in Int, to >= -1,
           NEW k \in 1 .. Len(LogsOf(b, StartBlock, to))
    PROVE  SeqNr(LogsOf(b, StartBlock, to)[k]) = k
<1> DEFINE t == LogsOf(b, StartBlock, to)
           T == Asked(b, StartBlock, to)
           S == {a \in Logged : a \preceq t[k] /\ Number[a] >= StartBlock}
           f == [i \in 1 .. k |-> t[i]]
<1>1. Lists(t, T)
  BY LogsOfList, EventStateMachineAssumption
<1>2. /\ \A a \in Logged : a \in Block /\ Number[a] \in Nat
      /\ StartBlock \in Nat
  BY TreeAssumption, EventStateMachineAssumption
<1>3. \A a \in T : a \in Logged /\ a \preceq b /\ Number[a] <= to /\ Number[a] >= StartBlock
  BY <1>2 DEF Asked
<1>4. Len(t) \in Nat /\ t[k] \in T /\ 1 .. k \subseteq 1 .. Len(t)
  BY <1>1 DEF Lists
<1>5. \A a \in S : a \in T
  <2> TAKE a \in S
  <2>1. a \preceq b /\ Number[a] <= Number[t[k]]
    BY <1>2, <1>3, <1>4, Transitive, SmallerNumber
  <2> QED
    BY <1>2, <1>3, <1>4, <2>1 DEF Asked
<1>6. \A i \in 1 .. k : t[i] \in S
  <2> TAKE i \in 1 .. k
  <2>1. t[i] \in T /\ (i = k \/ Number[t[i]] < Number[t[k]])
    BY <1>1, <1>4 DEF Lists, Ascends
  <2>2. Number[t[i]] <= Number[t[k]]
    BY <1>2, <1>3, <1>4, <2>1
  <2> QED
    BY <1>2, <1>3, <1>4, <2>1, <2>2, Linear
<1>7. \A a \in S : \E i \in 1 .. k : t[i] = a
  <2> TAKE a \in S
  <2>1. PICK i \in 1 .. Len(t) : t[i] = a
    BY <1>1, <1>5 DEF Lists
  <2>2. Number[t[i]] <= Number[t[k]]
    BY <1>2, <1>3, <1>4, <2>1, SmallerNumber
  <2>3. ~(k < i)
    <3> SUFFICES ASSUME k < i
                 PROVE  FALSE
      OBVIOUS
    <3>1. Number[t[k]] < Number[t[i]]
      BY <1>1 DEF Lists, Ascends
    <3> QED
      BY <1>2, <1>3, <1>4, <2>1, <2>2, <3>1
  <2> QED
    BY <2>1, <2>3
<1>8. \A i, j \in 1 .. k : t[i] = t[j] => i = j
  <2> SUFFICES ASSUME NEW i \in 1 .. k, NEW j \in 1 .. k, t[i] = t[j], i < j
               PROVE  FALSE
    OBVIOUS
  <2>1. Number[t[i]] < Number[t[j]]
    BY <1>1, <1>4 DEF Lists, Ascends
  <2>2. Number[t[i]] \in Nat
    BY <1>2, <1>6
  <2> QED
    BY <2>1, <2>2
<1> HIDE DEF S, T, t
<1>9. f \in Bijection(1 .. k, S)
  BY <1>6, <1>7, <1>8 DEF Bijection, Injection, Surjection, IsInjective
<1>10. IsFiniteSet(1 .. k) /\ Cardinality(1 .. k) = k
  BY <1>4, FS_Interval
<1>11. Cardinality(S) = k
  BY <1>9, <1>10, FS_Bijection DEF ExistsBijection
<1> QED
  BY <1>11 DEF SeqNr, S, t

\* A log of the chain of b is found at its sequence number.
LEMMA PlaceOf ==
    ASSUME NEW b \in Block, NEW a \in Logged, a \preceq b, StartBlock <= Number[a]
    PROVE  SeqNr(a) \in 1 .. Len(Expected(b)) /\ Expected(b)[SeqNr(a)] = a
<1>1. a \in Block /\ Number[a] \in Nat /\ Number[b] \in Nat /\ Number[a] <= Number[b]
  BY EventStateMachineAssumption, SmallerNumber
<1>2. a \in Asked(b, StartBlock, Number[b])
  BY <1>1 DEF Asked
<1>3. Lists(Expected(b), Asked(b, StartBlock, Number[b]))
  BY <1>1, LogsOfList, EventStateMachineAssumption DEF Expected
<1>4. PICK k \in 1 .. Len(Expected(b)) : Expected(b)[k] = a
  BY <1>2, <1>3 DEF Lists
<1>5. SeqNr(a) = k
  BY <1>1, <1>4, SeqNrAt DEF Expected
<1> QED
  BY <1>4, <1>5

\* The logs up to a number are the first of those that are expected.
LEMMA PartBegins ==
    ASSUME NEW b \in Block, NEW to \in Int, to >= -1
    PROVE  Begins(LogsOf(b, StartBlock, to), Expected(b))
<1>1. \A a \in Logged : a \in Block /\ Number[a] \in Nat
  BY TreeAssumption, EventStateMachineAssumption
<1>2. Number[b] \in Nat /\ StartBlock \in Nat
  BY TreeAssumption, EventStateMachineAssumption
<1>3. Lists(LogsOf(b, StartBlock, to), Asked(b, StartBlock, to))
  BY <1>2, LogsOfList
<1>4. Lists(Expected(b), Asked(b, StartBlock, Number[b]))
  BY <1>2, LogsOfList DEF Expected
<1>5. Asked(b, StartBlock, to) \subseteq Asked(b, StartBlock, Number[b])
  BY <1>1, SmallerNumber DEF Asked
<1>6. \A a \in Asked(b, StartBlock, to) : \A c \in Asked(b, StartBlock, Number[b]) :
         Number[c] < Number[a] => c \in Asked(b, StartBlock, to)
  BY <1>1, <1>2 DEF Asked
<1> QED
  BY <1>3, <1>4, <1>5, <1>6, ListsBegin

LEMMA BeginsOn ==
    ASSUME NEW s, NEW t, NEW u, Len(s) \in Nat, Len(t) \in Nat, Len(u) \in Nat,
           Begins(s, t), Begins(t, u)
    PROVE  Begins(s, u)
BY DEF Begins

LEMMA ExpectedIsSeq ==
    ASSUME NEW b \in Block
    PROVE  /\ Lists(Expected(b), Asked(b, StartBlock, Number[b]))
           /\ Expected(b) \in Seq(Block) /\ Len(Expected(b)) \in Nat
<1>1. Number[b] \in Nat /\ StartBlock \in Nat
  BY TreeAssumption, EventStateMachineAssumption
<1>2. Lists(Expected(b), Asked(b, StartBlock, Number[b]))
  BY <1>1, LogsOfList DEF Expected
<1> QED
  BY <1>2 DEF Lists

\* What is expected of a block comes first for those that descend from it.
LEMMA ExpectedGrows ==
    ASSUME NEW b \in Block, NEW c \in Block, b \preceq c
    PROVE  Begins(Expected(b), Expected(c))
<1>1. Number[b] \in Nat /\ StartBlock \in Nat
  BY TreeAssumption, EventStateMachineAssumption
<1>2. LogsOf(c, StartBlock, Number[b]) = Expected(b)
  BY <1>1, AskedBelow DEF Expected
<1> QED
  BY <1>1, <1>2, PartBegins

-----------------------------------------------------------------------------
(***************************************************************************)
(* A call of ContractEventStateMachine::update.                            *)
(***************************************************************************)
\* The logs that are taken are accepted; the next one is not.
LEMMA TakenIs ==
    ASSUME NEW m, NEW logs \in Seq(Block), NEW final \in BOOLEAN
    PROVE  /\ Taken(m, logs, final) \in 0 .. Len(logs)
           /\ \A i \in 1 .. Taken(m, logs, final) :
                 /\ i \in 1 .. Len(logs)
                 /\ ~Mismatched(logs[i], final) /\ ~Refused(m, i, logs[i])
           /\ Taken(m, logs, final) < Len(logs) =>
                 \E i \in 1 .. Len(logs) :
                    \/ Mismatched(logs[i], final)
                    \/ logs[i] \in Undecodable
                    \/ Refused(m, i, logs[i])
<1> DEFINE accepted(i) == /\ ~Mismatched(logs[i], final)
                          /\ logs[i] \notin Undecodable
                          /\ ~Refused(m, i, logs[i])
           S == {i \in Nat : i = 0 \/ accepted(i)}
           n == Taken(m, logs, final)
<1>1. Len(logs) \in Nat
  OBVIOUS
<1>2. PICK k \in 0 .. Len(logs) :
         (\A i \in 0 .. k : i \in S) /\ (k < Len(logs) => k + 1 \notin S)
  <2> HIDE DEF accepted
  <2>1. 0 \in S
    OBVIOUS
  <2> HIDE DEF S
  <2> QED
    BY <1>1, <2>1, LastOf
<1>3. /\ \A i \in 1 .. k : accepted(i)
      /\ k < Len(logs) => ~accepted(k + 1)
  <2> HIDE DEF accepted
  <2> QED
    BY <1>1, <1>2
<1>4. n = CHOOSE i \in 0 .. Len(logs) :
             /\ \A j \in 1 .. i : accepted(j)
             /\ i < Len(logs) => ~accepted(i + 1)
  BY DEF Taken
<1> HIDE DEF accepted, n
<1>5. /\ n \in 0 .. Len(logs)
      /\ \A i \in 1 .. n : accepted(i)
      /\ n < Len(logs) => ~accepted(n + 1)
  BY <1>3, <1>4
<1>6. n < Len(logs) => \E i \in 1 .. Len(logs) : ~accepted(i)
  <2>1. n < Len(logs) => n + 1 \in 1 .. Len(logs)
    BY <1>1, <1>5
  <2> QED
    BY <1>5, <2>1
<1>7. \A i \in 1 .. n : i \in 1 .. Len(logs)
  BY <1>1, <1>5
<1> QED
  BY <1>5, <1>6, <1>7 DEF accepted, n

\* The numbers of the tree.
LEMMA Numbers ==
    /\ StartBlock \in Nat /\ Genesis \in Block
    /\ \A b \in Block : Number[b] \in Nat
    /\ \A a \in Logged : a \in Block
BY TreeAssumption, EventStateMachineAssumption

LEMMA GoalType ==
    ASSUME FollowerTypeOK, NEW final \in BOOLEAN
    PROVE  /\ Goal(final) \in Nat
           /\ Goal(final) = IF final THEN Number[snap.stable] ELSE Number[snap.tip]
           /\ snap.stable \in Block /\ snap.tip \in Block
BY Numbers DEF FollowerTypeOK, Status, Goal

\* What one part of the logs does to a machine.
LEMMA ProcessedIs ==
    ASSUME FollowerTypeOK, NEW m \in Machine, NEW final \in BOOLEAN, NEW end \in Nat
    PROVE  LET logs == LogsOf(head, m.next, end)
               n == Taken(m, logs, final)
               p == Processed(m, end, final) IN
           /\ logs \in Seq(Block) /\ n \in 0 .. Len(logs)
           /\ p.m \in Machine /\ p.m.of = m.of
           /\ p.m.logs = m.logs \o SubSeq(logs, 1, n)
           /\ p.outcome \in {"complete", "partial", "error"}
           /\ IF n = Len(logs) THEN p.m.ok /\ p.m.next = end + 1 /\ p.outcome # "error"
              ELSE p.m.next = m.next /\ p.outcome = "error"
           /\ IF p.outcome = "complete" THEN end = Goal(final) /\ p.m.time = Number[snap.tip]
              ELSE p.m.time = m.time
<1> DEFINE logs == LogsOf(head, m.next, end)
           n == Taken(m, logs, final)
           p == Processed(m, end, final)
<1> DEFINE all == n = Len(logs)
           undecoded == ~all /\ ~Mismatched(logs[n + 1], final) /\ logs[n + 1] \in Undecodable
           complete == all /\ end = Goal(final)
<1>1. p = [m |-> [m EXCEPT !.ok = all \/ undecoded,
                           !.next = IF all THEN end + 1 ELSE @,
                           !.logs = @ \o SubSeq(logs, 1, n),
                           !.time = IF complete THEN Number[snap.tip] ELSE @],
           outcome |-> IF complete THEN "complete" ELSE IF all THEN "partial" ELSE "error"]
  BY DEF Processed
<1>2. logs \in Seq(Block)
  <2>1. head \in Block /\ m.next \in Nat
    BY DEF FollowerTypeOK, Machine
  <2> QED
    BY <2>1, LogsOfList DEF Lists
<1> HIDE DEF logs
<1>3. n \in 0 .. Len(logs)
  BY <1>2, TakenIs
<1>4. SubSeq(logs, 1, n) \in Seq(Block)
  BY <1>2, <1>3, Front
<1>5. m.logs \o SubSeq(logs, 1, n) \in Seq(Block)
  <2>1. m.logs \in Seq(Block)
    BY DEF Machine
  <2> QED
    BY <1>4, <2>1, Joined
<1>6. Number[snap.tip] \in Nat
  BY GoalType, Numbers
<1> HIDE DEF n, p
<1> DEFINE ok == all \/ undecoded
<1>7. ok \in BOOLEAN /\ (all => ok)
  OBVIOUS
<1> HIDE DEF undecoded
<1>8. /\ p.outcome = IF complete THEN "complete" ELSE IF all THEN "partial" ELSE "error"
      /\ p.m = [m EXCEPT !.ok = ok,
                         !.next = IF all THEN end + 1 ELSE @,
                         !.logs = @ \o SubSeq(logs, 1, n),
                         !.time = IF complete THEN Number[snap.tip] ELSE @]
  <2> HIDE DEF complete, all
  <2> QED
    BY <1>1 DEF ok
<1> HIDE DEF ok, all
<1>9. p.m \in Machine
  <2>1. /\ (IF all THEN end + 1 ELSE m.next) \in Nat
        /\ (IF complete THEN Number[snap.tip] ELSE m.time) \in Nat \cup {NoTime}
    BY <1>6 DEF Machine
  <2> HIDE DEF complete
  <2> QED
    BY <1>5, <1>7, <1>8, <2>1 DEF Machine
<1>10. /\ p.m.of = m.of
       /\ p.m.next = IF all THEN end + 1 ELSE m.next
       /\ p.m.logs = m.logs \o SubSeq(logs, 1, n)
       /\ p.m.time = IF complete THEN Number[snap.tip] ELSE m.time
  <2> HIDE DEF complete
  <2> QED
    BY <1>8 DEF Machine
<1>11. all => p.m.ok
  <2> HIDE DEF complete
  <2>1. ASSUME all
        PROVE  p.m.ok = TRUE
    <3>1. ok = TRUE
      BY <1>7, <2>1
    <3> QED
      BY <1>8, <3>1 DEF Machine
  <2> QED
    BY <2>1
<1> QED
  BY <1>2, <1>3, <1>8, <1>9, <1>10, <1>11 DEF all, logs, n, p

\* The four kinds of result.
LEMMA ResultsAre ==
    ASSUME FollowerTypeOK, NEW m \in Machine, NEW final \in BOOLEAN, NEW r \in Results(m, final)
    PROVE  /\ r.m \in Machine /\ r.m.of = m.of
           /\ \/ /\ ~m.ok \/ snap.phase = "violated"
                 /\ r.m = [m EXCEPT !.ok = FALSE] /\ r.outcome = "error"
              \/ /\ m.ok /\ snap.phase # "violated" /\ Goal(final) < m.next
                 /\ r.m = [m EXCEPT !.time = Number[snap.tip]] /\ r.outcome = "complete"
              \/ /\ m.ok /\ snap.phase # "violated"
                 /\ \E end \in m.next .. Goal(final) :
                       end <= Number[head] /\ r = Processed(m, end, final)
              \/ m.ok /\ r.m = m /\ r.outcome = "error"
<1>1. CASE ~m.ok \/ snap.phase = "violated"
  <2>1. r = [m |-> [m EXCEPT !.ok = FALSE], outcome |-> "error"]
    BY <1>1 DEF Results
  <2> QED
    BY <1>1, <2>1 DEF Machine
<1>2. CASE m.ok /\ snap.phase # "violated" /\ Goal(final) < m.next
  <2>1. r = [m |-> [m EXCEPT !.time = Number[snap.tip]], outcome |-> "complete"]
    BY <1>2 DEF Results
  <2>2. Number[snap.tip] \in Nat
    BY GoalType, Numbers
  <2> QED
    BY <1>2, <2>1, <2>2 DEF Machine
<1>3. CASE m.ok /\ snap.phase # "violated" /\ ~(Goal(final) < m.next)
  <2>1. \/ r \in Failed(m, final)
        \/ \E end \in m.next .. Goal(final) :
              end <= Number[head] /\ r = Processed(m, end, final)
    BY <1>3 DEF Results
  <2>2. CASE r \in Failed(m, final)
    BY <1>3, <2>2 DEF Failed
  <2>3. CASE \E end \in m.next .. Goal(final) :
                end <= Number[head] /\ r = Processed(m, end, final)
    <3>1. PICK end \in m.next .. Goal(final) :
             end <= Number[head] /\ r = Processed(m, end, final)
      BY <2>3
    <3>2. end \in Nat
      BY GoalType DEF Machine
    <3>3. Processed(m, end, final).m \in Machine /\ Processed(m, end, final).m.of = m.of
      BY <3>2, ProcessedIs
    <3> QED
      BY <1>3, <2>3, <3>1, <3>3
  <2> QED
    BY <2>1, <2>2, <2>3
<1> QED
  BY <1>1, <1>2, <1>3

\* A state that numbers its events has, of the logs of b, the first ones.
LEMMA Numbered ==
    ASSUME FollowerTypeOK, contiguous, NEW b \in Block, NEW m \in Machine, m.next >= StartBlock,
           Begins(m.logs, Expected(b)), NEW end \in Nat, NEW final \in BOOLEAN,
           NEW logs, logs = LogsOf(head, m.next, end),
           \A i \in 1 .. Taken(m, logs, final) : logs[i] \preceq b
    PROVE  Begins(m.logs \o SubSeq(logs, 1, Taken(m, logs, final)), Expected(b))
<1> DEFINE n == Taken(m, logs, final)
           e == Expected(b)
           k == Len(m.logs)
<1>1. head \in Block /\ m.next \in Nat /\ m.logs \in Seq(Block) /\ k \in Nat
  BY DEF FollowerTypeOK, Machine
<1>2. Lists(logs, Asked(head, m.next, end))
  BY <1>1, LogsOfList
<1>3. logs \in Seq(Block)
  BY <1>2 DEF Lists
<1>4. n \in 0 .. Len(logs) /\ \A i \in 1 .. n : i \in 1 .. Len(logs) /\ SeqNr(logs[i]) = k + i
  BY <1>3, TakenIs DEF Refused
<1>5. \A i \in 1 .. n : k + i \in 1 .. Len(e) /\ e[k + i] = logs[i]
  <2> TAKE i \in 1 .. n
  <2>1. logs[i] \in Logged /\ m.next <= Number[logs[i]]
    BY <1>2, <1>4 DEF Lists, Asked
  <2>2. StartBlock <= Number[logs[i]]
    BY <1>1, <2>1, Numbers
  <2> QED
    BY <1>4, <2>1, <2>2, PlaceOf
<1> DEFINE s == SubSeq(logs, 1, n)
<1>6. s \in Seq(Block) /\ Len(s) = n /\ \A i \in 1 .. n : s[i] = logs[i]
  BY <1>3, <1>4, Front
<1> HIDE DEF n, k, s, e
<1>7. /\ Len(m.logs \o s) = k + n
      /\ \A i \in 1 .. k + n :
            IF i <= k THEN i \in 1 .. k /\ (m.logs \o s)[i] = m.logs[i]
            ELSE i - k \in 1 .. n /\ (m.logs \o s)[i] = s[i - k]
  BY <1>1, <1>6, Joined DEF k
<1>8. k <= Len(e) /\ \A i \in 1 .. k : m.logs[i] = e[i]
  BY DEF Begins, k, e
<1>9. \A i \in 1 .. k + n : (m.logs \o s)[i] = e[i]
  <2> TAKE i \in 1 .. k + n
  <2>1. CASE i <= k
    BY <1>7, <1>8, <2>1
  <2>2. CASE ~(i <= k)
    <3>1. i - k \in 1 .. n /\ k + (i - k) = i
      BY <1>1, <1>7, <2>2
    <3> QED
      BY <1>5, <1>6, <1>7, <2>2, <3>1
  <2> QED
    BY <2>1, <2>2
<1>10. k + n <= Len(e)
  <2>1. CASE n = 0
    BY <1>1, <1>8, <2>1
  <2>2. CASE n # 0
    <3>1. n \in 1 .. n
      BY <1>4, <2>2
    <3> QED
      BY <1>5, <3>1, ExpectedIsSeq DEF e
  <2> QED
    BY <2>1, <2>2
<1> QED
  BY <1>7, <1>9, <1>10 DEF Begins, n, s, e

\* If all the logs up to b decode, and the machine had them all, it takes all
\* that it asks for.
LEMMA AllTaken ==
    ASSUME FollowerTypeOK, NEW b \in Block, AllDecode(b), b \preceq head,
           NEW m \in Machine, m.next >= StartBlock,
           m.logs = LogsOf(b, StartBlock, m.next - 1),
           NEW end \in Nat, m.next <= end, end <= Number[b]
    PROVE  LET logs == LogsOf(head, m.next, end) IN
           /\ Taken(m, logs, TRUE) = Len(logs)
           /\ m.logs \o SubSeq(logs, 1, Len(logs)) = LogsOf(b, StartBlock, end)
<1> DEFINE k == Len(m.logs)
           t == LogsOf(b, StartBlock, end)
           logs == LogsOf(head, m.next, end)
<1>1. head \in Block /\ m.next \in Nat /\ m.logs \in Seq(Block) /\ k \in Nat
  BY DEF FollowerTypeOK, Machine
<1>2. logs = LogsOf(b, m.next, end)
  BY <1>1, AskedBelow
<1>3. Lists(logs, Asked(b, m.next, end))
  BY <1>1, <1>2, LogsOfList
<1> HIDE DEF logs
<1>4. logs \in Seq(Block) /\ Len(logs) \in Nat
  BY <1>3 DEF Lists
<1>5. m.logs \o logs = t
  <2>1. StartBlock \in Nat /\ StartBlock <= m.next /\ m.next <= end + 1 /\ end \in Int
    BY <1>1, Numbers
  <2>2. LogsOf(b, StartBlock, m.next - 1) \o LogsOf(b, m.next, end) = LogsOf(b, StartBlock, end)
    BY <1>1, <2>1, LogsJoin
  <2> QED
    BY <1>2, <2>2
<1>6. /\ Len(t) = k + Len(logs)
      /\ \A i \in 1 .. Len(logs) : t[k + i] = logs[i]
  BY <1>1, <1>4, <1>5, Joined
<1>7. \A i \in 1 .. Len(logs) : SeqNr(logs[i]) = k + i
  <2> TAKE i \in 1 .. Len(logs)
  <2>1. k + i \in 1 .. Len(t)
    BY <1>1, <1>4, <1>6
  <2>2. SeqNr(t[k + i]) = k + i
    BY <2>1, SeqNrAt
  <2> QED
    BY <1>6, <2>2
<1>8. \A i \in 1 .. Len(logs) : logs[i] \notin Undecodable
  BY <1>3 DEF Lists, Asked, AllDecode
<1>9. /\ Taken(m, logs, TRUE) \in 0 .. Len(logs)
      /\ Taken(m, logs, TRUE) < Len(logs) =>
            \E i \in 1 .. Len(logs) :
               \/ Mismatched(logs[i], TRUE)
               \/ logs[i] \in Undecodable
               \/ Refused(m, i, logs[i])
  BY <1>4, TakenIs
<1>10. Taken(m, logs, TRUE) = Len(logs)
  <2>1. \A i \in 1 .. Len(logs) : ~Mismatched(logs[i], TRUE) /\ ~Refused(m, i, logs[i])
    BY <1>7 DEF Mismatched, Refused
  <2>2. ~(Taken(m, logs, TRUE) < Len(logs))
    BY <1>8, <1>9, <2>1, Zenon
  <2>3. \A n \in 0 .. Len(logs) : ~(n < Len(logs)) => n = Len(logs)
    BY <1>4
  <2> QED
    BY <1>9, <2>2, <2>3, Zenon
<1>11. SubSeq(logs, 1, Len(logs)) = logs
  BY <1>4, Front
<1> QED
  BY <1>5, <1>10, <1>11 DEF logs

\* A turn of the first loop keeps the stable machine exact, and the machine is
\* up to its goal when the loop ends well.
LEMMA StableTurn ==
    ASSUME FollowerTypeOK, Exact(stable, snap.stable), snap.stable \preceq head,
           snap.phase # "violated", NEW r \in Results(stable, TRUE)
    PROVE  Exact(r.m, snap.stable)
<1> DEFINE b == snap.stable
           m == stable
<1>1. m \in Machine /\ b \in Block /\ Number[b] \in Nat /\ m.next \in Nat /\ m.logs \in Seq(Block)
  BY Numbers DEF FollowerTypeOK, Status, Machine
<1>2. Goal(TRUE) = Number[b]
  BY DEF Goal
<1>3. CASE r.m = [m EXCEPT !.ok = FALSE] /\ ~m.ok
  BY <1>1, <1>3 DEF Exact, Machine
<1>4. CASE r.m = m
  BY <1>4
<1>5. CASE r.m = [m EXCEPT !.time = Number[snap.tip]]
  BY <1>1, <1>5 DEF Exact, Machine
<1>6. CASE \E end \in m.next .. Goal(TRUE) : r = Processed(m, end, TRUE)
  <2>1. PICK end \in m.next .. Number[b] : r = Processed(m, end, TRUE)
    BY <1>2, <1>6
  <2> DEFINE logs == LogsOf(head, m.next, end)
             n == Taken(m, logs, TRUE)
  <2>2. end \in Nat /\ m.next <= end /\ end <= Number[b]
    BY <1>1
  <2>3. /\ logs \in Seq(Block) /\ n \in 0 .. Len(logs)
        /\ r.m.logs = m.logs \o SubSeq(logs, 1, n)
        /\ IF n = Len(logs) THEN r.m.ok /\ r.m.next = end + 1 ELSE r.m.next = m.next
    BY <1>1, <2>1, <2>2, ProcessedIs
  <2>4. contiguous => Begins(r.m.logs, Expected(b))
    <3> SUFFICES ASSUME contiguous
                 PROVE  Begins(r.m.logs, Expected(b))
      OBVIOUS
    <3>1. head \in Block
      BY DEF FollowerTypeOK
    <3>2. LogsOf(head, m.next, end) = LogsOf(b, m.next, end)
      BY <1>1, <2>2, <3>1, AskedBelow
    <3>3. Lists(logs, Asked(b, m.next, end))
      BY <1>1, <2>2, <3>2, LogsOfList
    <3>4. \A i \in 1 .. n : logs[i] \preceq b
      <4> HIDE DEF logs, n
      <4>1. \A i \in 1 .. n : i \in 1 .. Len(logs)
        BY <2>3
      <4> QED
        BY <3>3, <4>1 DEF Lists, Asked
    <3> HIDE DEF logs
    <3> QED
      BY <1>1, <2>2, <2>3, <3>4, Numbered DEF Exact, logs
  <2>5. AllDecode(b) => r.m.ok /\ r.m.logs = LogsOf(b, StartBlock, r.m.next - 1)
    <3> SUFFICES ASSUME AllDecode(b)
                 PROVE  r.m.ok /\ r.m.logs = LogsOf(b, StartBlock, r.m.next - 1)
      OBVIOUS
    <3>1. m.next >= StartBlock /\ m.logs = LogsOf(b, StartBlock, m.next - 1)
      BY DEF Exact
    <3>2. n = Len(logs) /\ m.logs \o SubSeq(logs, 1, Len(logs)) = LogsOf(b, StartBlock, end)
      BY <1>1, <2>2, <3>1, AllTaken
    <3>3. (end + 1) - 1 = end
      BY <2>2
    <3> QED
      BY <2>3, <3>2, <3>3
  <2>6. /\ r.m.next >= StartBlock
        /\ r.m.next = StartBlock \/ r.m.next <= Number[b] + 1
    <3> HIDE DEF n, logs
    <3> QED
      BY <1>1, <2>2, <2>3, Numbers DEF Exact
  <2> QED
    BY <2>4, <2>5, <2>6 DEF Exact
<1> QED
  BY <1>1, <1>3, <1>4, <1>5, <1>6, ResultsAre

\* When a loop ends well its machine has reached its goal; it goes on otherwise.
LEMMA LoopEnd ==
    ASSUME FollowerTypeOK, NEW m \in Machine, NEW final \in BOOLEAN, NEW r \in Results(m, final)
    PROVE  /\ r.outcome \in {"complete", "partial", "error"}
           /\ r.outcome = "complete" => /\ Goal(final) < r.m.next
                                        /\ r.m.time = Number[snap.tip]
           /\ r.outcome = "partial" => r.m.next >= m.next
<1>1. Goal(final) \in Nat /\ m.next \in Nat
  BY GoalType DEF Machine
<1>2. CASE r.outcome = "error"
  BY <1>2
<1>3. CASE Goal(final) < m.next /\ r.m = [m EXCEPT !.time = Number[snap.tip]]
           /\ r.outcome = "complete"
  BY <1>3 DEF Machine
<1>4. CASE \E end \in m.next .. Goal(final) : r = Processed(m, end, final)
  <2>1. PICK end \in m.next .. Goal(final) : r = Processed(m, end, final)
    BY <1>4
  <2>2. end \in Nat /\ m.next <= end
    BY <1>1
  <2>3. /\ r.outcome \in {"complete", "partial", "error"}
        /\ r.outcome # "error" => r.m.next = end + 1
        /\ r.outcome = "complete" => end = Goal(final) /\ r.m.time = Number[snap.tip]
    BY <2>1, <2>2, ProcessedIs
  <2> QED
    BY <1>1, <2>2, <2>3
<1>5. \/ /\ ~m.ok \/ snap.phase = "violated"
         /\ r.m = [m EXCEPT !.ok = FALSE] /\ r.outcome = "error"
      \/ /\ m.ok /\ snap.phase # "violated" /\ Goal(final) < m.next
         /\ r.m = [m EXCEPT !.time = Number[snap.tip]] /\ r.outcome = "complete"
      \/ /\ m.ok /\ snap.phase # "violated"
         /\ \E end \in m.next .. Goal(final) :
               end <= Number[head] /\ r = Processed(m, end, final)
      \/ m.ok /\ r.m = m /\ r.outcome = "error"
  BY ResultsAre
<1> QED
  BY <1>2, <1>3, <1>4, <1>5

\* A copy of the stable machine has nothing that is off the tail.
LEMMA CopyIsSound ==
    ASSUME FollowerTypeOK, NEW m \in Machine, NEW b \in Block, NEW t \in Block, b \preceq t, Exact(m, b)
    PROVE  [m EXCEPT !.of = t] \in Machine /\ Sound([m EXCEPT !.of = t])
<1> DEFINE c == [m EXCEPT !.of = t]
<1>1. /\ c \in Machine /\ c.next = m.next /\ c.logs = m.logs /\ c.of = t
      /\ m.logs \in Seq(Block) /\ Len(m.logs) \in Nat /\ m.next \in Nat
  BY DEF Machine
<1>2. contiguous => Begins(m.logs, Expected(t))
  <2>1. Begins(Expected(b), Expected(t))
    BY ExpectedGrows
  <2> QED
    BY <1>1, <2>1, BeginsOn, ExpectedIsSeq DEF Exact
<1>3. AllDecode(t) =>
         /\ \A i \in 1 .. Len(m.logs) : m.logs[i] \preceq t /\ Number[m.logs[i]] < m.next
         /\ Ascends(m.logs)
  <2> SUFFICES ASSUME AllDecode(t)
               PROVE  /\ \A i \in 1 .. Len(m.logs) :
                            m.logs[i] \preceq t /\ Number[m.logs[i]] < m.next
                      /\ Ascends(m.logs)
    OBVIOUS
  <2>1. AllDecode(b)
    <3>1. \A u \in Undecodable : u \in Block
      BY EventStateMachineAssumption
    <3> QED
      BY <3>1, Transitive DEF AllDecode
  <2>2. m.logs = LogsOf(b, StartBlock, m.next - 1)
    BY <2>1 DEF Exact
  <2>3. Lists(m.logs, Asked(b, StartBlock, m.next - 1))
    BY <1>1, <2>2, LogsOfList, Numbers
  <2>4. \A a \in Asked(b, StartBlock, m.next - 1) : a \preceq t /\ Number[a] < m.next
    <3> TAKE a \in Asked(b, StartBlock, m.next - 1)
    <3>1. a \in Block /\ a \preceq b /\ Number[a] \in Nat /\ Number[a] <= m.next - 1
      BY Numbers DEF Asked
    <3> QED
      BY <1>1, <3>1, Transitive
  <2> QED
    BY <2>3, <2>4 DEF Lists
<1> HIDE DEF c
<1>4. Sound(c)
  BY <1>1, <1>2, <1>3 DEF Sound, Exact
<1> QED
  BY <1>1, <1>4 DEF c

\* A turn of the second loop that does not fail leaves the machine sound.
LEMMA UnstableTurn ==
    ASSUME FollowerTypeOK, working.of = snap.tip, Sound(working),
           NEW r \in Results(working, FALSE), r.outcome # "error"
    PROVE  Sound(r.m)
<1> DEFINE t == snap.tip
           m == working
<1>1. /\ m \in Machine /\ t \in Block /\ head \in Block /\ m.next \in Nat
      /\ m.logs \in Seq(Block) /\ Number[t] \in Nat /\ m.of = t
  BY Numbers DEF FollowerTypeOK, Status, Machine
<1>2. CASE r.m = [m EXCEPT !.time = Number[t]]
  <2>1. r.m.next = m.next /\ r.m.logs = m.logs /\ r.m.of = m.of
    BY <1>1, <1>2 DEF Machine
  <2> QED
    BY <2>1 DEF Sound
<1>3. CASE \E end \in m.next .. Goal(FALSE) : r = Processed(m, end, FALSE)
  <2>1. PICK end \in m.next .. Number[t] : r = Processed(m, end, FALSE)
    BY <1>3 DEF Goal
  <2> DEFINE logs == LogsOf(head, m.next, end)
             n == Taken(m, logs, FALSE)
  <2>2. end \in Nat /\ m.next <= end
    BY <1>1
  <2>3. /\ logs \in Seq(Block) /\ n = Len(logs) /\ r.m.of = t
        /\ r.m.logs = m.logs \o SubSeq(logs, 1, n) /\ r.m.next = end + 1
    BY <1>1, <2>1, <2>2, ProcessedIs
  <2>4. \A i \in 1 .. n : logs[i] \preceq t
    BY <2>3, TakenIs DEF Mismatched, OffTail
  <2>5. r.m.next >= StartBlock
    <3> HIDE DEF n, logs
    <3> QED
      BY <1>1, <2>2, <2>3, Numbers DEF Sound
  <2>6. contiguous => Begins(r.m.logs, Expected(t))
    <3> HIDE DEF logs
    <3> QED
      BY <1>1, <2>2, <2>3, <2>4, Numbered DEF Sound, logs
  <2>7. ~contiguous /\ AllDecode(t) =>
           /\ \A i \in 1 .. Len(r.m.logs) : r.m.logs[i] \preceq t /\ Number[r.m.logs[i]] < end + 1
           /\ Ascends(r.m.logs)
    <3> SUFFICES ASSUME ~contiguous, AllDecode(t)
                 PROVE  /\ \A i \in 1 .. Len(r.m.logs) :
                              r.m.logs[i] \preceq t /\ Number[r.m.logs[i]] < end + 1
                        /\ Ascends(r.m.logs)
      OBVIOUS
    <3> DEFINE s == m.logs
               u == s \o logs
    <3>1. r.m.logs = u
      <4>1. SubSeq(logs, 1, Len(logs)) = logs
        BY <2>3, Front
      <4> QED
        BY <2>3, <4>1
    <3>2. Lists(logs, Asked(head, m.next, end))
      BY <1>1, <2>2, LogsOfList
    <3>3. /\ \A i \in 1 .. Len(s) : s[i] \preceq t /\ Number[s[i]] < m.next
          /\ Ascends(s)
      BY <1>1 DEF Sound
    <3>4. s \in Seq(Block) /\ Len(s) \in Nat
      BY <1>1
    <3> HIDE DEF s, logs, n
    <3>5. \A i \in 1 .. Len(logs) :
             /\ logs[i] \preceq t /\ logs[i] \in Block
             /\ m.next <= Number[logs[i]] /\ Number[logs[i]] <= end
      BY <2>3, <2>4, <3>2, Numbers DEF Lists, Asked
    <3>6. Len(logs) \in Nat /\ Ascends(logs)
      BY <2>3, <3>2 DEF Lists
    <3>7. /\ Len(u) = Len(s) + Len(logs)
          /\ \A i \in 1 .. Len(s) + Len(logs) :
                IF i <= Len(s) THEN i \in 1 .. Len(s) /\ u[i] = s[i]
                ELSE i - Len(s) \in 1 .. Len(logs) /\ u[i] = logs[i - Len(s)]
      BY <2>3, <3>4, Joined
    <3>8. Ascends(u)
      <4>1. m.next \in Int /\ logs \in Seq(Block)
        BY <1>1, <2>3
      <4> QED
        BY <3>3, <3>4, <3>5, <3>6, <4>1, AscendsJoined, Zenon
    <3> HIDE DEF u
    <3>9. \A i \in 1 .. Len(u) : u[i] \preceq t /\ Number[u[i]] < end + 1
      <4> TAKE i \in 1 .. Len(u)
      <4>1. CASE i <= Len(s)
        <5>1. u[i] \preceq t /\ u[i] \in Block /\ Number[u[i]] < m.next
          BY <3>3, <3>4, <3>7, <4>1
        <5> QED
          BY <1>1, <2>2, <5>1, Numbers
      <4>2. CASE ~(i <= Len(s))
        <5>1. u[i] \preceq t /\ u[i] \in Block /\ Number[u[i]] <= end
          BY <3>5, <3>7, <4>2
        <5> QED
          BY <2>2, <5>1, Numbers
      <4> QED
        BY <4>1, <4>2
    <3> QED
      BY <3>1, <3>8, <3>9
  <2> QED
    BY <2>3, <2>5, <2>6, <2>7 DEF Sound
<1>4. \/ r.m = [m EXCEPT !.time = Number[t]]
      \/ \E end \in m.next .. Goal(FALSE) : r = Processed(m, end, FALSE)
  <2>1. \/ /\ ~m.ok \/ snap.phase = "violated"
           /\ r.m = [m EXCEPT !.ok = FALSE] /\ r.outcome = "error"
        \/ /\ m.ok /\ snap.phase # "violated" /\ Goal(FALSE) < m.next
           /\ r.m = [m EXCEPT !.time = Number[snap.tip]] /\ r.outcome = "complete"
        \/ /\ m.ok /\ snap.phase # "violated"
           /\ \E end \in m.next .. Goal(FALSE) :
                 end <= Number[head] /\ r = Processed(m, end, FALSE)
        \/ m.ok /\ r.m = m /\ r.outcome = "error"
    BY <1>1, ResultsAre
  <2> QED
    BY <2>1, Zenon
<1> QED
  BY <1>2, <1>3, <1>4

-----------------------------------------------------------------------------
(***************************************************************************)
(* The invariants.                                                         *)
(***************************************************************************)
LEMMA NewMachineType == NewMachine \in Machine /\ NotInitialised \in Status
BY Numbers DEF NewMachine, Machine, NotInitialised, Status

LEMMA InitType == Init => FollowerTypeOK
BY NewMachineType, Numbers DEF Init, FollowerTypeOK

LEMMA TypeNext == FollowerTypeOK /\ [Next]_vars => FollowerTypeOK'
<1> SUFFICES ASSUME FollowerTypeOK, [Next]_vars
             PROVE  FollowerTypeOK'
  OBVIOUS
<1> USE DEF FollowerTypeOK, envVars, workerVars
<1>1. CASE Poll
  BY <1>1 DEF Poll
<1>2. CASE UpdateStable
  <2>1. PICK r \in Results(stable, TRUE) :
           /\ stable' = r.m
           /\ \/ UNCHANGED <<pc, snap, working>>
              \/ /\ working' = [r.m EXCEPT !.of = snap.tip]
                 /\ pc' = "unstable" /\ UNCHANGED snap
              \/ EndPoll
    BY <1>2 DEF UpdateStable
  <2>2. r.m \in Machine
    BY <2>1, ResultsAre
  <2>3. [r.m EXCEPT !.of = snap.tip] \in Machine
    BY <2>2 DEF Machine, Status
  <2>4. UNCHANGED <<envVars, contiguous, unstable>>
    BY <1>2 DEF UpdateStable
  <2> QED
    BY <2>1, <2>2, <2>3, <2>4, NewMachineType DEF EndPoll
<1>3. CASE UpdateUnstable
  <2>1. PICK r \in Results(working, FALSE) :
           \/ working' = r.m /\ UNCHANGED <<pc, snap, unstable>>
           \/ unstable' = r.m /\ EndPoll
           \/ EndPoll /\ UNCHANGED unstable
    BY <1>3 DEF UpdateUnstable
  <2>2. r.m \in Machine
    BY <2>1, ResultsAre
  <2>3. UNCHANGED <<envVars, contiguous, stable>>
    BY <1>3 DEF UpdateUnstable
  <2> QED
    BY <2>1, <2>2, <2>3, NewMachineType DEF EndPoll
<1>4. CASE Interrupted
  <2>1. [stable EXCEPT !.of = snap.tip] \in Machine
    BY DEF Machine, Status
  <2> QED
    BY <1>4, <2>1, NewMachineType DEF Interrupted, EndPoll
<1>5. CASE Stop
  BY <1>5 DEF Stop
<1>6. CASE MoveHead
  BY <1>6 DEF MoveHead
<1>7. CASE Follow
  <2>1. PICK s \in Block : chain' = [phase |-> "good", stable |-> s, tip |-> head]
    BY <1>7 DEF Follow
  <2>2. chain' \in Status
    BY <2>1 DEF Status
  <2> QED
    BY <1>7, <2>2 DEF Follow
<1>8. CASE Violate
  BY <1>8 DEF Violate, Status
<1>9. CASE Stabilize
  BY <1>9 DEF Stabilize
<1>10. CASE Cancel
  BY <1>10 DEF Cancel
<1>11. CASE UNCHANGED vars
  BY <1>11 DEF vars
<1> QED
  BY <1>1, <1>2, <1>3, <1>4, <1>5, <1>6, <1>7, <1>8, <1>9, <1>10, <1>11 DEF Next, Worker

\* Only what follows the chain changes its status.
LEMMA ChainSteps ==
    ASSUME [Next]_vars
    PROVE  \/ UNCHANGED <<head, chain>>
           \/ MoveHead /\ UNCHANGED workerVars
           \/ Follow /\ UNCHANGED workerVars
           \/ Violate /\ UNCHANGED workerVars
BY DEF Next, Worker, Poll, UpdateStable, UpdateUnstable, Interrupted, Stop, MoveHead, Follow,
       Violate, Stabilize, Cancel, vars, envVars, workerVars

LEMMA SameState ==
    ASSUME [Next]_vars
    PROVE  contiguous' = contiguous
BY DEF Next, Worker, Poll, UpdateStable, UpdateUnstable, Interrupted, Stop, MoveHead, Follow,
       Violate, Stabilize, Cancel, vars, envVars, workerVars

LEMMA InitChain == Init => ChainInv
BY DEF Init, ChainInv, Polling, NotInitialised

LEMMA ChainNext == FollowerTypeOK /\ ChainInv /\ [Next]_vars => ChainInv'
<1> SUFFICES ASSUME FollowerTypeOK, ChainInv, [Next]_vars
             PROVE  ChainInv'
  OBVIOUS
<1>1. CASE Poll
  <2>1. chain.stable \in Block /\ chain.stable \preceq chain.stable
    BY TreeAssumption DEF FollowerTypeOK, Status
  <2> QED
    BY <1>1, <2>1 DEF Poll, ChainInv, Polling, envVars
<1>2. CASE UpdateStable
  <2>1. PICK r \in Results(stable, TRUE) :
           \/ UNCHANGED <<pc, snap>>
           \/ pc' = "unstable" /\ UNCHANGED snap
           \/ pc' = "idle"
    BY <1>2 DEF UpdateStable, EndPoll
  <2>2. UNCHANGED <<head, chain>> /\ pc = "stable"
    BY <1>2 DEF UpdateStable, envVars
  <2> QED
    BY <2>1, <2>2 DEF ChainInv, Polling
<1>3. CASE UpdateUnstable
  <2>1. UNCHANGED <<head, chain, stable>> /\ pc = "unstable"
    BY <1>3 DEF UpdateUnstable, envVars
  <2>2. UNCHANGED <<pc, snap>> \/ pc' = "idle"
    BY <1>3 DEF UpdateUnstable, EndPoll
  <2> QED
    BY <2>1, <2>2 DEF ChainInv, Polling
<1>4. CASE Interrupted
  BY <1>4 DEF Interrupted, EndPoll, ChainInv, Polling, envVars
<1>5. CASE Stop
  BY <1>5 DEF Stop, ChainInv, Polling, envVars
<1>6. CASE MoveHead
  BY <1>6 DEF MoveHead, ChainInv, Polling, workerVars
<1>7. CASE Follow
  <2>1. PICK s \in Block :
           /\ s \preceq head
           /\ chain.phase = "good" => chain.stable \preceq s
           /\ chain' = [phase |-> "good", stable |-> s, tip |-> head]
    BY <1>7 DEF Follow
  <2>2. chain.phase \in {"none", "good"} /\ UNCHANGED <<head, workerVars>>
    BY <1>7 DEF Follow
  <2>3. Polling /\ chain.phase = "good" => snap.stable \preceq s
    <3>1. snap.stable \in Block /\ chain.stable \in Block
      BY DEF FollowerTypeOK, Status
    <3>2. Polling /\ chain.phase = "good" => snap.stable \preceq chain.stable
      BY DEF ChainInv
    <3> QED
      BY <2>1, <3>1, <3>2, Transitive
  <2>4. chain'.phase = "good" /\ chain'.stable = s /\ chain'.tip = head
    BY <2>1
  <2>5. Polling => chain.phase = "good" /\ snap.phase = "good" /\ snap.stable \preceq snap.tip
    BY <2>2 DEF ChainInv
  <2>6. head' = head /\ snap' = snap /\ (Polling' <=> Polling)
    BY <2>2 DEF Polling, workerVars
  <2> QED
    BY <2>1, <2>3, <2>4, <2>5, <2>6 DEF ChainInv
<1>8. CASE Violate
  BY <1>8 DEF Violate, ChainInv, Polling, workerVars
<1>9. CASE Stabilize
  BY <1>9 DEF Stabilize, ChainInv, Polling, workerVars
<1>10. CASE Cancel
  BY <1>10 DEF Cancel, ChainInv, Polling, workerVars
<1>11. CASE UNCHANGED vars
  BY <1>11 DEF vars, ChainInv, Polling
<1> QED
  BY <1>1, <1>2, <1>3, <1>4, <1>5, <1>6, <1>7, <1>8, <1>9, <1>10, <1>11 DEF Next, Worker

\* What is exact for a block is exact for those that descend from it.
LEMMA StaysExact ==
    ASSUME NEW m \in Machine, NEW b \in Block, NEW c \in Block, b \preceq c, Exact(m, b)
    PROVE  Exact(m, c)
<1>1. /\ m.next \in Nat /\ m.logs \in Seq(Block) /\ Len(m.logs) \in Nat
      /\ Number[b] \in Nat /\ Number[c] \in Nat /\ Number[b] <= Number[c] /\ StartBlock \in Nat
  BY Numbers, SmallerNumber DEF Machine
<1>2. m.next = StartBlock \/ m.next <= Number[c] + 1
  BY <1>1 DEF Exact
<1>3. contiguous => Begins(m.logs, Expected(c))
  <2>1. Begins(Expected(b), Expected(c))
    BY ExpectedGrows
  <2> QED
    BY <1>1, <2>1, BeginsOn, ExpectedIsSeq DEF Exact
<1>4. ASSUME AllDecode(c)
      PROVE  m.ok /\ m.logs = LogsOf(c, StartBlock, m.next - 1)
  <2>1. AllDecode(b)
    <3>1. \A u \in Undecodable : u \in Block
      BY EventStateMachineAssumption
    <3> QED
      BY <1>4, <3>1, Transitive DEF AllDecode
  <2>2. m.ok /\ m.logs = LogsOf(b, StartBlock, m.next - 1)
    BY <2>1 DEF Exact
  <2>3. CASE m.next <= Number[b] + 1
    <3>1. m.next - 1 \in Int /\ m.next - 1 >= -1 /\ m.next - 1 <= Number[b]
      BY <1>1, <2>3
    <3>2. LogsOf(c, StartBlock, m.next - 1) = LogsOf(b, StartBlock, m.next - 1)
      BY <1>1, <3>1, AskedBelow
    <3> QED
      BY <2>2, <3>2
  <2>4. CASE m.next = StartBlock
    <3>1. Asked(b, StartBlock, m.next - 1) = {} /\ Asked(c, StartBlock, m.next - 1) = {}
      BY <1>1, <2>4, Numbers DEF Asked
    <3>2. /\ Lists(LogsOf(b, StartBlock, m.next - 1), {})
          /\ Lists(LogsOf(c, StartBlock, m.next - 1), {})
      <4>1. /\ Lists(LogsOf(b, StartBlock, m.next - 1), Asked(b, StartBlock, m.next - 1))
            /\ Lists(LogsOf(c, StartBlock, m.next - 1), Asked(c, StartBlock, m.next - 1))
        BY <1>1, LogsOfList
      <4> QED
        BY <3>1, <4>1
    <3> QED
      BY <2>2, <3>2, OneList
  <2> QED
    BY <2>3, <2>4 DEF Exact
<1> QED
  BY <1>2, <1>3, <1>4 DEF Exact

\* A new machine is exact for every block, and sound.
LEMMA NewIsExact ==
    ASSUME NEW b \in Block
    PROVE  Exact(NewMachine, b) /\ Sound(NewMachine)
<1>1. NewMachine.logs = << >> /\ NewMachine.next = StartBlock /\ NewMachine.ok
      /\ NewMachine.of = Genesis /\ Genesis \in Block /\ StartBlock \in Nat
  BY Numbers DEF NewMachine
<1>2. LogsOf(b, StartBlock, StartBlock - 1) = << >>
  <2>1. Asked(b, StartBlock, StartBlock - 1) = {}
    BY Numbers DEF Asked
  <2>2. Lists(LogsOf(b, StartBlock, StartBlock - 1), {})
    <3>1. Lists(LogsOf(b, StartBlock, StartBlock - 1), Asked(b, StartBlock, StartBlock - 1))
      BY <1>1, LogsOfList
    <3> QED
      BY <2>1, <3>1
  <2>3. Lists(<< >>, {})
    BY DEF Lists, Ascends
  <2> QED
    BY <2>2, <2>3, OneList
<1>3. \A c \in Block : Begins(<< >>, Expected(c))
  BY ExpectedIsSeq DEF Begins
<1>4. Ascends(<< >>)
  BY DEF Ascends
<1> QED
  BY <1>1, <1>2, <1>3, <1>4 DEF Exact, Sound

LEMMA InitMachines == Init => MachinesInv
<1> SUFFICES ASSUME Init
             PROVE  MachinesInv
  OBVIOUS
<1>1. stable = NewMachine /\ unstable = NewMachine /\ pc = "idle" /\ Base = Genesis
  BY DEF Init, Base, Polling, NotInitialised
<1>2. Exact(NewMachine, Genesis) /\ Sound(NewMachine)
  BY NewIsExact, Numbers
<1> QED
  BY <1>1, <1>2 DEF MachinesInv

LEMMA MachinesNext == FollowerTypeOK /\ ChainInv /\ MachinesInv /\ [Next]_vars => MachinesInv'
<1> SUFFICES ASSUME FollowerTypeOK, ChainInv, MachinesInv, [Next]_vars, chain'.phase # "violated"
             PROVE  MachinesInv'
  BY DEF MachinesInv
<1> SUFFICES /\ Exact(stable', Base') /\ Sound(unstable')
             /\ pc' = "unstable" => working'.of = snap'.tip /\ Sound(working')
  <2>1. contiguous' = contiguous
    BY SameState
  <2>2. Exact(stable', Base') => Exact(stable, Base)'
    BY <2>1 DEF Exact
  <2>3. Sound(unstable') => Sound(unstable)'
    BY <2>1 DEF Sound
  <2>4. Sound(working') => Sound(working)'
    BY <2>1 DEF Sound
  <2> QED
    BY <2>2, <2>3, <2>4 DEF MachinesInv
<1>1. chain.phase \in {"none", "good"} /\ (chain.phase = "none" => ~Polling /\ stable = NewMachine)
  <2>1. chain' = chain \/ chain.phase \in {"none", "good"}
    BY ChainSteps DEF MoveHead, Follow, Violate
  <2> QED
    BY <2>1 DEF FollowerTypeOK, Status, ChainInv
<1>2. /\ Exact(stable, Base) /\ Sound(unstable)
      /\ pc = "unstable" => working.of = snap.tip /\ Sound(working)
  BY <1>1 DEF MachinesInv
<1>3. /\ head \in Block /\ chain.stable \in Block /\ snap.stable \in Block /\ snap.tip \in Block
      /\ stable \in Machine /\ working \in Machine /\ unstable \in Machine
  BY DEF FollowerTypeOK, Status
<1>4. Polling => /\ snap.phase = "good" /\ Base = snap.stable
                 /\ snap.stable \preceq chain.stable /\ snap.stable \preceq snap.tip
                 /\ snap.stable \preceq head
  BY <1>1, <1>3, Transitive DEF ChainInv, Base
<1>5. ASSUME UNCHANGED <<chain, pc, snap, stable, working, unstable>>
      PROVE  /\ Exact(stable', Base') /\ Sound(unstable')
             /\ pc' = "unstable" => working'.of = snap'.tip /\ Sound(working')
  BY <1>2, <1>5 DEF Base, Polling
<1>6. CASE Poll
  BY <1>2, <1>6 DEF Poll, Base, Polling, envVars
<1>7. CASE UpdateStable
  <2>1. PICK r \in Results(stable, TRUE) :
           /\ stable' = r.m
           /\ \/ UNCHANGED <<pc, snap, working>>
              \/ /\ working' = [r.m EXCEPT !.of = snap.tip]
                 /\ pc' = "unstable" /\ UNCHANGED snap
              \/ pc' = "idle"
    BY <1>7 DEF UpdateStable, EndPoll
  <2>2. pc = "stable" /\ Polling /\ UNCHANGED <<chain, unstable>>
    BY <1>7 DEF UpdateStable, Polling, envVars
  <2>3. r.m \in Machine
    BY <1>3, ResultsAre
  <2>4. Exact(r.m, snap.stable)
    BY <1>2, <1>4, <2>2, StableTurn
  <2>5. Exact(r.m, chain.stable)
    BY <1>3, <1>4, <2>2, <2>3, <2>4, StaysExact
  <2>6. Exact(stable', Base')
    <3>1. Base' = snap.stable \/ Base' = chain.stable
      BY <2>1, <2>2 DEF Base, Polling
    <3> QED
      BY <2>1, <2>4, <2>5, <3>1
  <2>7. Sound([r.m EXCEPT !.of = snap.tip]) /\ [r.m EXCEPT !.of = snap.tip].of = snap.tip
    <3>1. [r.m EXCEPT !.of = snap.tip].of = snap.tip
      BY <2>3 DEF Machine
    <3> QED
      BY <1>3, <1>4, <2>2, <2>3, <2>4, <3>1, CopyIsSound
  <2>8. pc' = "unstable" => working' = [r.m EXCEPT !.of = snap.tip] /\ snap' = snap
    BY <2>1, <2>2
  <2> QED
    BY <1>2, <2>2, <2>6, <2>7, <2>8
<1>8. CASE UpdateUnstable
  <2>1. PICK r \in Results(working, FALSE) :
           \/ /\ r.outcome = "partial"
              /\ working' = r.m /\ UNCHANGED <<pc, snap, unstable>>
           \/ r.outcome = "complete" /\ unstable' = r.m /\ EndPoll
           \/ r.outcome = "error" /\ EndPoll /\ UNCHANGED unstable
    BY <1>8 DEF UpdateUnstable
  <2>2. pc = "unstable" /\ Polling /\ UNCHANGED <<chain, stable>>
    BY <1>8 DEF UpdateUnstable, Polling, envVars
  <2>3. r.m.of = working.of
    BY <1>3, ResultsAre
  <2>4. r.outcome # "error" => Sound(r.m)
    BY <1>2, <2>2, UnstableTurn
  <2>5. Exact(stable, chain.stable)
    BY <1>2, <1>3, <1>4, <2>2, StaysExact
  <2>6. Exact(stable', Base')
    <3>1. Base' = Base \/ Base' = chain.stable
      BY <2>1, <2>2 DEF Base, Polling, EndPoll
    <3> QED
      BY <1>2, <2>2, <2>5, <3>1
  <2> QED
    BY <1>2, <2>1, <2>2, <2>3, <2>4, <2>6 DEF EndPoll
<1>9. CASE Interrupted
  <2>1. Polling /\ pc' = "idle" /\ UNCHANGED <<chain, stable>>
    BY <1>9 DEF Interrupted, EndPoll, Polling, envVars
  <2>2. Exact(stable, chain.stable) /\ Base' = chain.stable
    BY <1>2, <1>3, <1>4, <2>1, StaysExact DEF Base, Polling
  <2>3. Sound([stable EXCEPT !.of = snap.tip])
    BY <1>2, <1>3, <1>4, <2>1, CopyIsSound
  <2>4. Sound(unstable')
    BY <1>2, <1>9, <2>3 DEF Interrupted
  <2> QED
    BY <2>1, <2>2, <2>4
<1>10. CASE Stop
  BY <1>2, <1>10 DEF Stop, Base, Polling, envVars
<1>11. CASE Follow
  <2>1. PICK s \in Block :
           /\ chain.phase = "good" => chain.stable \preceq s
           /\ chain' = [phase |-> "good", stable |-> s, tip |-> head]
    BY <1>11 DEF Follow
  <2>2. UNCHANGED <<pc, snap, stable, working, unstable>>
    BY <1>11 DEF Follow, workerVars
  <2>3. Exact(stable', Base')
    <3>1. CASE Polling
      BY <1>2, <2>2, <3>1 DEF Base, Polling
    <3>2. CASE ~Polling
      <4>1. Base = chain.stable /\ Base' = s
        BY <2>1, <2>2, <3>2 DEF Base, Polling
      <4>2. Exact(stable, s)
        BY <1>1, <1>2, <1>3, <2>1, <4>1, NewIsExact, StaysExact
      <4> QED
        BY <2>2, <4>1, <4>2
    <3> QED
      BY <3>1, <3>2
  <2> QED
    BY <1>2, <2>2, <2>3
<1>12. CASE MoveHead \/ Stabilize \/ Cancel
  BY <1>5, <1>12 DEF MoveHead, Stabilize, Cancel, workerVars
<1>13. CASE Violate
  BY <1>13 DEF Violate, FollowerTypeOK, Status
<1>14. CASE UNCHANGED vars
  BY <1>5, <1>14 DEF vars
<1> QED
  BY <1>6, <1>7, <1>8, <1>9, <1>10, <1>11, <1>12, <1>13, <1>14 DEF Next, Worker

LEMMA FreshNext == FollowerTypeOK /\ FreshIsScanned /\ [Next]_vars => FreshIsScanned'
<1> SUFFICES ASSUME FollowerTypeOK, FreshIsScanned, [Next]_vars, ~done'
             PROVE  unstable'.time # NoTime => unstable'.next > unstable'.time
  BY DEF FreshIsScanned
<1>1. CASE unstable' = unstable /\ ~done
  BY <1>1 DEF FreshIsScanned
<1>2. CASE UpdateUnstable
  <2>1. ~done
    BY <1>2 DEF UpdateUnstable
  <2>2. PICK r \in Results(working, FALSE) :
           unstable' = unstable \/ (r.outcome = "complete" /\ unstable' = r.m)
    BY <1>2 DEF UpdateUnstable
  <2>3. working \in Machine /\ Goal(FALSE) = Number[snap.tip] /\ Goal(FALSE) \in Nat
    BY GoalType DEF FollowerTypeOK
  <2>4. r.outcome = "complete" => Goal(FALSE) < r.m.next /\ r.m.time = Goal(FALSE)
    BY <2>3, LoopEnd
  <2>5. r.m.next \in Nat
    BY <2>3, ResultsAre DEF Machine
  <2> QED
    BY <1>1, <2>1, <2>2, <2>3, <2>4, <2>5
<1>3. CASE Poll \/ UpdateStable \/ Stop
  BY <1>1, <1>3 DEF Poll, UpdateStable, Stop, envVars
<1>4. CASE MoveHead \/ Follow \/ Violate \/ Stabilize
  BY <1>1, <1>4 DEF MoveHead, Follow, Violate, Stabilize, workerVars
<1>5. CASE Interrupted \/ Cancel
  BY <1>5 DEF Interrupted, Cancel, envVars
<1>6. CASE UNCHANGED vars
  BY <1>1, <1>6 DEF vars
<1> QED
  BY <1>2, <1>3, <1>4, <1>5, <1>6 DEF Next, Worker

LEMMA TailNext == FollowerTypeOK /\ LogsInTail /\ [Next]_vars => LogsInTail'
<1> SUFFICES ASSUME FollowerTypeOK, LogsInTail, [Next]_vars, pc' = "unstable", ~done', working'.ok
             PROVE  working'.next >= Number[snap'.stable]
  BY DEF LogsInTail
<1>1. CASE UNCHANGED <<pc, snap, working>> /\ ~done
  BY <1>1 DEF LogsInTail
<1>2. CASE UpdateStable
  <2>1. PICK r \in Results(stable, TRUE) :
           /\ r.outcome = "complete" /\ working' = [r.m EXCEPT !.of = snap.tip]
           /\ snap' = snap
    BY <1>2 DEF UpdateStable, EndPoll
  <2>2. stable \in Machine /\ Goal(TRUE) = Number[snap.stable] /\ Goal(TRUE) \in Nat
    BY GoalType DEF FollowerTypeOK
  <2>3. Goal(TRUE) < r.m.next /\ r.m \in Machine /\ Number[snap.stable] < r.m.next
    BY <2>1, <2>2, LoopEnd, ResultsAre
  <2>4. working'.next = r.m.next /\ r.m.next \in Nat
    BY <2>1, <2>3 DEF Machine
  <2>5. Number[snap.stable] \in Nat
    BY <2>2
  <2>6. r.m.next >= Number[snap.stable]
    BY <2>3, <2>4, <2>5
  <2> QED
    BY <2>1, <2>4, <2>6
<1>3. CASE UpdateUnstable
  <2>1. PICK r \in Results(working, FALSE) :
           r.outcome = "partial" /\ working' = r.m /\ snap' = snap
    BY <1>3 DEF UpdateUnstable, EndPoll
  <2>2. working \in Machine /\ pc = "unstable" /\ ~done /\ snap.stable \in Block
    BY <1>3 DEF UpdateUnstable, FollowerTypeOK, Status
  <2>3. r.m.next >= working.next /\ r.m \in Machine
    BY <2>1, <2>2, LoopEnd, ResultsAre
  <2>4. working.ok
    BY <2>1, <2>2, ResultsAre
  <2>5. working.next >= Number[snap.stable]
    BY <2>2, <2>4 DEF LogsInTail
  <2>6. working.next \in Nat /\ r.m.next \in Nat /\ Number[snap.stable] \in Nat
    BY <2>2, <2>3, Numbers DEF Machine
  <2> QED
    BY <2>1, <2>3, <2>5, <2>6
<1> QED
  BY <1>1, <1>2, <1>3 DEF Next, Worker, Poll, Interrupted, EndPoll, Stop, MoveHead, Follow, Violate,
       Stabilize, Cancel, vars, envVars, workerVars

LEMMA Invariance == Spec => []Inv
<1>1. Init => Inv
  <2>1. Init => FreshIsScanned /\ LogsInTail
    BY DEF Init, FreshIsScanned, LogsInTail, NewMachine
  <2> QED
    BY <2>1, InitType, InitChain, InitMachines DEF Inv
<1>2. Inv /\ [Next]_vars => Inv'
  BY TypeNext, ChainNext, MachinesNext, FreshNext, TailNext DEF Inv
<1> QED
  BY <1>1, <1>2, PTL DEF Spec

-----------------------------------------------------------------------------
\* While the chain keeps what was reported stable, the stable state is exactly
\* the fold of the logs of the stable chain below its progress, over all polls,
\* answers in parts, failures and reorganisations of the rest of the chain.
THEOREM StableIsExact == Spec => []StableExact
<1>1. Inv => StableExact
  <2> SUFFICES ASSUME Inv, chain.phase = "good", contiguous \/ AllDecode(chain.stable)
               PROVE  /\ Begins(stable.logs, Expected(chain.stable))
                      /\ DOMAIN stable.logs = 1 .. Len(stable.logs)
                      /\ AllDecode(chain.stable) =>
                            /\ stable.ok
                            /\ stable.logs = LogsOf(chain.stable, StartBlock, stable.next - 1)
    BY DEF StableExact, Begins, Expected
  <2> DEFINE b == chain.stable
  <2>1. /\ stable \in Machine /\ b \in Block /\ snap.stable \in Block
        /\ stable.logs \in Seq(Block) /\ stable.next \in Nat
    BY DEF Inv, FollowerTypeOK, Status, Machine
  <2>2. Exact(stable, b)
    <3>1. Base = b \/ (Base = snap.stable /\ snap.stable \preceq b)
      BY DEF Inv, ChainInv, Base
    <3>2. Exact(stable, Base)
      BY DEF Inv, MachinesInv
    <3> QED
      BY <2>1, <3>1, <3>2, StaysExact
  <2>3. Begins(stable.logs, Expected(b))
    <3>1. CASE contiguous
      BY <2>2, <3>1 DEF Exact
    <3>2. CASE AllDecode(b)
      <4>1. stable.logs = LogsOf(b, StartBlock, stable.next - 1)
        BY <2>2, <3>2 DEF Exact
      <4>2. stable.next - 1 \in Int /\ stable.next - 1 >= -1
        BY <2>1
      <4> QED
        BY <2>1, <4>1, <4>2, PartBegins
    <3> QED
      BY <3>1, <3>2
  <2> QED
    BY <2>1, <2>2, <2>3 DEF Exact
<1> QED
  BY <1>1, Invariance, PTL

\* What the other workers read has no log that is off the tail of the poll that
\* published it, none twice, and no gap if the state numbers its events.
THEOREM UnstableIsSound == Spec => []UnstableSound
<1>1. Inv => UnstableSound
  <2> DEFINE m == unstable
  <2> SUFFICES ASSUME Inv, chain.phase # "violated", contiguous \/ AllDecode(m.of)
               PROVE  /\ DOMAIN m.logs = 1 .. Len(m.logs)
                      /\ \A i \in 1 .. Len(m.logs) : m.logs[i] \preceq m.of
                      /\ Ascends(m.logs)
                      /\ contiguous => \A i \in 1 .. Len(m.logs) : m.logs[i] = Expected(m.of)[i]
    BY DEF UnstableSound, Ascends, Expected
  <2>1. m.logs \in Seq(Block) /\ Len(m.logs) \in Nat /\ m.of \in Block
    BY DEF Inv, FollowerTypeOK, Machine
  <2>2. Sound(m)
    BY DEF Inv, MachinesInv
  <2>3. CASE contiguous
    <3> DEFINE e == Expected(m.of)
    <3>1. Begins(m.logs, e)
      BY <2>2, <2>3 DEF Sound
    <3>2. Lists(e, Asked(m.of, StartBlock, Number[m.of])) /\ Len(e) \in Nat
      BY <2>1, ExpectedIsSeq
    <3> HIDE DEF e
    <3>3. \A i \in 1 .. Len(m.logs) : i \in 1 .. Len(e) /\ m.logs[i] = e[i]
      BY <2>1, <3>1, <3>2 DEF Begins
    <3>4. \A i \in 1 .. Len(m.logs) : m.logs[i] \preceq m.of
      BY <3>2, <3>3 DEF Lists, Asked
    <3>5. Ascends(m.logs)
      BY <3>2, <3>3 DEF Lists, Ascends
    <3> QED
      BY <2>1, <3>3, <3>4, <3>5 DEF e
  <2>4. CASE ~contiguous
    BY <2>1, <2>2, <2>4 DEF Sound
  <2> QED
    BY <2>3, <2>4
<1> QED
  BY <1>1, Invariance, PTL

\* No timestamp that readers take for freshness is that of a tip up to which the
\* logs were not asked for.
THEOREM FreshImpliesScanned == Spec => []FreshIsScanned
BY Invariance, PTL DEF Inv

\* The unstable machine asks for numbers of the tail only.
THEOREM AsksInTail == Spec => []LogsInTail
BY Invariance, PTL DEF Inv

-----------------------------------------------------------------------------
(***************************************************************************)
(* MerkleRoot: the rounds of root_from_hashed_leafs build the tree, for    *)
(* any number of leaves.                                                   *)
(***************************************************************************)
\* A power of two is the number of subsets of a set; with one more element there
\* are those without it and those with it.
LEMMA Doubles ==
    ASSUME NEW n \in Nat
    PROVE  2^n \in Nat \ {0} /\ 2^(n + 1) = 2 * 2^n
<1> DEFINE A == 1 .. n
           With == {X \cup {n + 1} : X \in SUBSET A}
<1>1. IsFiniteSet(A) /\ Cardinality(A) = n
  BY FS_Interval
<1>2. IsFiniteSet(1 .. (n + 1)) /\ Cardinality(1 .. (n + 1)) = n + 1
  BY FS_Interval
<1>3. IsFiniteSet(SUBSET A) /\ Cardinality(SUBSET A) = 2^n
  BY <1>1, FS_SUBSET
<1>4. Cardinality(SUBSET (1 .. (n + 1))) = 2^(n + 1)
  BY <1>2, FS_SUBSET
<1>5. n + 1 \notin A /\ 1 .. (n + 1) = A \cup {n + 1}
  OBVIOUS
<1> HIDE DEF A
<1>6. SUBSET (1 .. (n + 1)) = (SUBSET A) \cup With /\ (SUBSET A) \cap With = {}
  <2>1. ASSUME NEW X \in SUBSET (1 .. (n + 1)), X \notin SUBSET A
        PROVE  X \in With
    <3>1. X \ {n + 1} \in SUBSET A /\ X = (X \ {n + 1}) \cup {n + 1}
      BY <1>5, <2>1
    <3> QED
      BY <3>1
  <2>2. \A X \in With : X \in SUBSET (1 .. (n + 1)) /\ X \notin SUBSET A
    BY <1>5
  <2>3. SUBSET A \subseteq SUBSET (1 .. (n + 1))
    BY <1>5
  <2> QED
    BY <2>1, <2>2, <2>3
<1>7. IsFiniteSet(With) /\ Cardinality(With) = Cardinality(SUBSET A)
  <2> DEFINE f == [X \in SUBSET A |-> X \cup {n + 1}]
  <2>1. \A X, Y \in SUBSET A : X \cup {n + 1} = Y \cup {n + 1} => X = Y
    BY <1>5
  <2>2. f \in [SUBSET A -> With] /\ \A Y \in With : \E X \in SUBSET A : f[X] = Y
    OBVIOUS
  <2>3. f \in Bijection(SUBSET A, With)
    BY <2>1, <2>2 DEF Bijection, Injection, Surjection, IsInjective
  <2>4. ExistsBijection(SUBSET A, With)
    BY <2>3 DEF ExistsBijection
  <2> QED
    BY <1>3, <2>4, FS_Bijection
<1> HIDE DEF With
<1>8. 2^(n + 1) = 2^n + 2^n - Cardinality({})
  BY <1>3, <1>4, <1>6, <1>7, FS_Union
<1>9. 2^n \in Nat
  BY <1>3, FS_CardinalityType
<1>10. 2^n # 0
  <2>1. {} \in SUBSET A
    OBVIOUS
  <2> QED
    BY <1>3, <2>1, FS_EmptySet
<1> QED
  BY <1>8, <1>9, <1>10, FS_EmptySet

\* There is a lowest tree with room for the leaves, not higher than their number.
LEMMA Room ==
    ASSUME NEW n \in Nat
    PROVE  \E h \in 0 .. n : 2^h >= n /\ (h = 0 \/ 2^(h - 1) < n)
<1> DEFINE Tall == {h \in Nat : 2^h >= n}
           S == {m \in Nat : 2^m >= m /\ 2^m > 0}
<1>1. n \in Tall
  <2>1. 0 \in S
    BY Doubles
  <2>2. \A m \in Nat : m \in S => m + 1 \in S
    <3> SUFFICES ASSUME NEW m \in Nat, m \in S
                 PROVE  m + 1 \in S
      OBVIOUS
    <3>1. 2^(m + 1) = 2 * 2^m /\ 2^m \in Nat \ {0} /\ 2^m >= m
      BY Doubles
    <3>2. 2^(m + 1) >= m + 1 /\ 2^(m + 1) > 0
      BY <3>1
    <3> QED
      BY <3>2
  <2> HIDE DEF S
  <2>3. n \in S
    BY <2>1, <2>2, Induction
  <2> QED
    BY <2>3 DEF S
<1> HIDE DEF S
<1> DEFINE R == OpToRel(<, Nat)
<1>2. IsWellFoundedOn(R, Nat)
  BY NatLessThanWellFounded, Zenon DEF OpToRel
<1>3. PICK h \in Tall : \A m \in Tall : <<m, h>> \notin R
  <2> HIDE DEF R
  <2>1. Tall \subseteq Nat /\ Tall # {}
    BY <1>1
  <2> QED
    BY <1>2, <2>1, WFMin, Zenon
<1>4. \A m \in Tall : ~(m < h)
  BY <1>3 DEF OpToRel
<1>5. h \in 0 .. n
  BY <1>1, <1>4
<1>6. ASSUME h # 0
      PROVE  2^(h - 1) < n
  <2>1. h - 1 \in Nat /\ h - 1 < h
    BY <1>6
  <2>2. 2^(h - 1) \in Nat
    BY <2>1, Doubles
  <2>3. h - 1 \notin Tall
    BY <1>4, <2>1
  <2> QED
    BY <2>1, <2>2, <2>3
<1> QED
  BY <1>3, <1>5, <1>6

-----------------------------------------------------------------------------
\* The rounds over the leaves, and the subtrees of each height.
Round(level) == IF Len(level) > 1 THEN Paired(level) ELSE level

Levels(leaves) ==
    CHOOSE level : level =
        [k \in 0 .. Len(leaves) |->
            IF k = 0 THEN leaves
            ELSE IF Len(level[k - 1]) > 1 THEN Paired(level[k - 1]) ELSE level[k - 1]]

LEMMA LevelStep ==
    ASSUME NEW leaves, Len(leaves) \in Nat
    PROVE  /\ Levels(leaves)[0] = leaves
           /\ \A k \in 0 .. Len(leaves) - 1 :
                 Levels(leaves)[k + 1] = Round(Levels(leaves)[k])
<1> DEFINE IsRounds(f, n) ==
               f = [k \in 0 .. n |->
                       IF k = 0 THEN leaves
                       ELSE IF Len(f[k - 1]) > 1 THEN Paired(f[k - 1]) ELSE f[k - 1]]
           S == {n \in Nat : \E f : IsRounds(f, n)}
<1>1. 0 \in S
  <2>1. IsRounds([k \in 0 .. 0 |-> leaves], 0)
    OBVIOUS
  <2> QED
    BY <2>1
<1>2. \A n \in Nat : n \in S => n + 1 \in S
  <2> HIDE DEF IsRounds
  <2> SUFFICES ASSUME NEW n \in Nat, NEW f, IsRounds(f, n)
               PROVE  \E g : IsRounds(g, n + 1)
    OBVIOUS
  <2> USE DEF IsRounds
  <2> DEFINE g == [k \in 0 .. n + 1 |-> IF k = n + 1 THEN Round(f[n]) ELSE f[k]]
  <2>1. \A k \in 0 .. n + 1 :
            g[k] = IF k = 0 THEN leaves
                   ELSE IF Len(g[k - 1]) > 1 THEN Paired(g[k - 1]) ELSE g[k - 1]
    BY DEF Round
  <2>2. IsRounds(g, n + 1)
    BY <2>1
  <2> QED
    BY <2>2
<1>3. Len(leaves) \in S
  <2> HIDE DEF S
  <2> QED
    BY <1>1, <1>2, Induction
<1>4. IsRounds(Levels(leaves), Len(leaves))
  BY <1>3 DEF Levels
<1> DEFINE f == Levels(leaves)
<1> HIDE DEF f
<1>5. f = [k \in 0 .. Len(leaves) |->
              IF k = 0 THEN leaves
              ELSE IF Len(f[k - 1]) > 1 THEN Paired(f[k - 1]) ELSE f[k - 1]]
  BY <1>4 DEF f
<1>6. f[0] = leaves /\ \A k \in 0 .. Len(leaves) - 1 : f[k + 1] = Round(f[k])
  BY <1>5 DEF Round
<1> QED
  BY <1>6 DEF f

Nodes(leaves) ==
    CHOOSE node : node =
        [h \in 0 .. Len(leaves) |->
            [i \in Nat |->
                IF i * 2^h >= Len(leaves) THEN ZeroHash
                ELSE IF h = 0 THEN leaves[i + 1]
                ELSE HashNode(node[h - 1][2 * i], node[h - 1][2 * i + 1])]]

LEMMA NodeStep ==
    ASSUME NEW leaves, Len(leaves) \in Nat
    PROVE  \A h \in 0 .. Len(leaves), i \in Nat :
               Nodes(leaves)[h][i] =
                   IF i * 2^h >= Len(leaves) THEN ZeroHash
                   ELSE IF h = 0 THEN leaves[i + 1]
                   ELSE HashNode(Nodes(leaves)[h - 1][2 * i], Nodes(leaves)[h - 1][2 * i + 1])
<1> DEFINE Row(f, h) == [i \in Nat |->
               IF i * 2^h >= Len(leaves) THEN ZeroHash
               ELSE IF h = 0 THEN leaves[i + 1]
               ELSE HashNode(f[h - 1][2 * i], f[h - 1][2 * i + 1])]
           IsNodes(f, n) == f = [h \in 0 .. n |-> Row(f, h)]
           S == {n \in Nat : \E f : IsNodes(f, n)}
<1>1. 0 \in S
  <2> DEFINE f == [h \in 0 .. 0 |-> [i \in Nat |->
                      IF i * 2^0 >= Len(leaves) THEN ZeroHash ELSE leaves[i + 1]]]
  <2>1. \A h \in 0 .. 0 : h = 0
    OBVIOUS
  <2>2. Row(f, 0) = f[0]
    OBVIOUS
  <2>3. f = [h \in 0 .. 0 |-> f[0]]
    BY <2>1
  <2> HIDE DEF f, Row
  <2>4. IsNodes(f, 0)
    BY <2>1, <2>2, <2>3
  <2> QED
    BY <2>4
<1>2. \A n \in Nat : n \in S => n + 1 \in S
  <2> HIDE DEF IsNodes
  <2> SUFFICES ASSUME NEW n \in Nat, NEW f, IsNodes(f, n)
               PROVE  \E g : IsNodes(g, n + 1)
    OBVIOUS
  <2> USE DEF IsNodes
  <2> DEFINE g == [h \in 0 .. n + 1 |-> IF h = n + 1 THEN Row(f, h) ELSE f[h]]
  <2>1. ASSUME NEW h \in 0 .. n + 1
        PROVE  g[h] = Row(f, h)
    <3> HIDE DEF Row
    <3> QED
      OBVIOUS
  <2>2. ASSUME NEW h \in 0 .. n + 1
        PROVE  Row(f, h) = Row(g, h)
    <3>1. CASE h = 0
      BY <3>1
    <3>2. CASE h # 0
      <4>1. h - 1 \in 0 .. n + 1 /\ h - 1 # n + 1
        BY <3>2
      <4>2. g[h - 1] = f[h - 1]
        <5> HIDE DEF Row
        <5> QED
          BY <4>1
      <4> HIDE DEF g
      <4> QED
        BY <4>2
    <3> QED
      BY <3>1, <3>2
  <2>3. g = [h \in 0 .. n + 1 |-> g[h]]
    <3> HIDE DEF Row
    <3> QED
      OBVIOUS
  <2>4. \A h \in 0 .. n + 1 : g[h] = Row(g, h)
    <3> HIDE DEF g, Row
    <3> QED
      BY <2>1, <2>2
  <2>5. IsNodes(g, n + 1)
    <3> HIDE DEF g, Row
    <3> QED
      BY <2>3, <2>4
  <2> HIDE DEF g, IsNodes
  <2> QED
    BY <2>5
<1>3. Len(leaves) \in S
  <2> HIDE DEF S
  <2> QED
    BY <1>1, <1>2, Induction
<1>4. IsNodes(Nodes(leaves), Len(leaves))
  BY <1>3 DEF Nodes
<1>5. \A h \in 0 .. Len(leaves) : Nodes(leaves)[h] = Row(Nodes(leaves), h)
  <2> DEFINE f == Nodes(leaves)
  <2>1. f = [h \in 0 .. Len(leaves) |-> Row(f, h)]
    BY <1>4
  <2> HIDE DEF f, Row
  <2>2. \A h \in 0 .. Len(leaves) : f[h] = Row(f, h)
    BY <2>1
  <2> QED
    BY <2>2 DEF f
<1> QED
  BY <1>5

-----------------------------------------------------------------------------
\* The level after k rounds: the subtrees of height k that have a leaf.
IsLevel(leaves, level, k) ==
    LET m == Len(level) IN
    /\ m \in Nat \ {0} /\ DOMAIN level = 1 .. m
    /\ (m - 1) * 2^k < Len(leaves) /\ Len(leaves) <= m * 2^k
    /\ \A i \in 0 .. m - 1 : level[i + 1] = Nodes(leaves)[k][i]

\* Half of an odd number is rounded up, so that the pairs have room for all.
LEMMA PairedLen ==
    ASSUME NEW level, Len(level) \in Nat \ {0}
    PROVE  LET p == Paired(level)
               m == (Len(level) + 1) \div 2
           IN /\ m \in Nat /\ 2 * m \in {Len(level), Len(level) + 1}
              /\ Len(p) = m /\ DOMAIN p = 1 .. m
              /\ \A i \in 1 .. m :
                    p[i] = HashNode(level[2 * i - 1],
                                    IF 2 * i <= Len(level) THEN level[2 * i] ELSE ZeroHash)
<1> DEFINE m == (Len(level) + 1) \div 2
           p == Paired(level)
<1>1. m \in Nat /\ 2 * m \in {Len(level), Len(level) + 1}
  OBVIOUS
<1> DEFINE e(i) == HashNode(level[2 * i - 1],
                            IF 2 * i <= Len(level) THEN level[2 * i] ELSE ZeroHash)
           S == {e(i) : i \in 1 .. m}
<1>2. p = [i \in 1 .. m |-> e(i)]
  BY DEF Paired
<1> HIDE DEF p, e, m
<1>3. p \in [1 .. m -> S]
  BY <1>2
<1> HIDE DEF S
<1>4. p \in Seq(S) /\ DOMAIN p = 1 .. m
  BY <1>1, <1>3
<1>5. Len(p) = m
  BY <1>1, <1>4
<1>6. \A i \in 1 .. m : p[i] = e(i)
  BY <1>2
<1> QED
  BY <1>1, <1>4, <1>5, <1>6 DEF p, e, m

\* A round takes a level to the next one.
LEMMA LevelRises ==
    ASSUME NEW leaves, Len(leaves) \in Nat, NEW k \in 0 .. Len(leaves) - 1,
           NEW level, IsLevel(leaves, level, k), Len(level) > 1
    PROVE  IsLevel(leaves, Paired(level), k + 1)
<1> DEFINE l == Len(level)
           m == (l + 1) \div 2
           p == Paired(level)
           n == Len(leaves)
           node == Nodes(leaves)
           x == 2^k
<1>1. /\ l \in Nat \ {0} /\ (l - 1) * x < n /\ n <= l * x
      /\ \A i \in 0 .. l - 1 : level[i + 1] = node[k][i]
  BY DEF IsLevel
<1>2. x \in Nat \ {0} /\ 2^(k + 1) = 2 * x
  BY Doubles
<1>3. /\ m \in Nat /\ 2 * m \in {l, l + 1} /\ Len(p) = m /\ DOMAIN p = 1 .. m
      /\ \A i \in 1 .. m :
            p[i] = HashNode(level[2 * i - 1], IF 2 * i <= l THEN level[2 * i] ELSE ZeroHash)
  BY <1>1, PairedLen
<1>4. \A h \in 0 .. n, i \in Nat :
          node[h][i] =
              IF i * 2^h >= n THEN ZeroHash
              ELSE IF h = 0 THEN leaves[i + 1]
              ELSE HashNode(node[h - 1][2 * i], node[h - 1][2 * i + 1])
  BY NodeStep
<1>5. n \in Nat /\ k \in 0 .. n - 1
  OBVIOUS
<1> HIDE DEF l, m, p, n, node, x
<1>6. /\ \A a, b \in Nat : a <= b => a * x <= b * x
      /\ \A a \in Nat : a * (2 * x) = (2 * a) * x
  BY <1>2
<1>7. n <= m * 2^(k + 1)
  <2>1. l <= 2 * m /\ 2 * m \in Nat
    BY <1>1, <1>3
  <2>2. l * x <= (2 * m) * x /\ (2 * m) * x = m * (2 * x)
    BY <1>1, <1>3, <1>6, <2>1
  <2>3. l * x \in Nat /\ (2 * m) * x \in Nat
    BY <1>1, <1>2, <2>1
  <2> QED
    BY <1>1, <1>2, <1>5, <2>2, <2>3
<1>8. \A i \in 0 .. m - 1 : i * 2^(k + 1) < n
  <2> SUFFICES ASSUME NEW i \in 0 .. m - 1
               PROVE  i * 2^(k + 1) < n
    OBVIOUS
  <2>1. 2 * i <= l - 1 /\ 2 * i \in Nat /\ l - 1 \in Nat /\ i \in Nat
    BY <1>1, <1>3
  <2>2. (2 * i) * x <= (l - 1) * x /\ i * (2 * x) = (2 * i) * x
    BY <1>6, <2>1
  <2>3. (2 * i) * x \in Nat /\ (l - 1) * x \in Nat
    BY <1>2, <2>1
  <2>4. i * 2^(k + 1) = (2 * i) * x
    BY <1>2, <2>2
  <2>5. (l - 1) * x < n
    BY <1>1
  <2>6. (2 * i) * x < n
    BY <1>5, <2>2, <2>3, <2>5
  <2> QED
    BY <2>4, <2>6
<1>9. m >= 1 /\ m - 1 \in 0 .. m - 1
  BY <1>1, <1>3
<1>10. ASSUME NEW i \in 0 .. m - 1
       PROVE  p[i + 1] = node[k + 1][i]
  <2>1. 2 * i \in 0 .. l - 1 /\ i + 1 \in 1 .. m /\ 2 * (i + 1) - 1 = 2 * i + 1
        /\ 2 * (i + 1) = (2 * i + 1) + 1 /\ i \in Nat /\ 2 * i + 1 \in Nat
    BY <1>1, <1>3
  <2>2. level[2 * (i + 1) - 1] = node[k][2 * i]
    BY <1>1, <2>1
  <2>3. (IF 2 * (i + 1) <= l THEN level[2 * (i + 1)] ELSE ZeroHash) = node[k][2 * i + 1]
    <3>1. CASE 2 * (i + 1) <= l
      <4>1. 2 * i + 1 \in 0 .. l - 1
        BY <1>1, <2>1, <3>1
      <4>2. level[(2 * i + 1) + 1] = node[k][2 * i + 1]
        BY <1>1, <4>1
      <4> QED
        BY <2>1, <3>1, <4>2
    <3>2. CASE ~(2 * (i + 1) <= l)
      <4>1. l <= 2 * i + 1
        BY <1>1, <2>1, <3>2
      <4>2. l * x <= (2 * i + 1) * x /\ l * x \in Nat /\ (2 * i + 1) * x \in Nat
        BY <1>1, <1>2, <1>6, <2>1, <4>1
      <4>3. (2 * i + 1) * x >= n
        BY <1>1, <1>5, <4>2
      <4>4. node[k][2 * i + 1] = ZeroHash
        <5>1. k \in 0 .. n /\ (2 * i + 1) * 2^k >= n
          BY <1>5, <4>3 DEF x
        <5> QED
          BY <1>4, <2>1, <5>1
      <4> QED
        BY <3>2, <4>4
    <3> QED
      BY <3>1, <3>2
  <2>4. node[k + 1][i] = HashNode(node[k][2 * i], node[k][2 * i + 1])
    <3>1. k + 1 \in 0 .. n /\ k + 1 # 0 /\ (k + 1) - 1 = k
      BY <1>5
    <3>2. ~(i * 2^(k + 1) >= n)
      <4>1. i * 2^(k + 1) < n /\ i * 2^(k + 1) \in Nat
        BY <1>2, <1>8, <2>1
      <4> QED
        BY <1>5, <4>1
    <3> QED
      BY <1>4, <2>1, <3>1, <3>2
  <2>5. p[i + 1] = HashNode(level[2 * (i + 1) - 1],
                            IF 2 * (i + 1) <= l THEN level[2 * (i + 1)] ELSE ZeroHash)
    BY <1>3, <2>1
  <2> QED
    BY <2>2, <2>3, <2>4, <2>5
<1>11. m \in Nat \ {0}
  BY <1>3, <1>9
<1> QED
  BY <1>3, <1>7, <1>8, <1>9, <1>10, <1>11 DEF IsLevel, n, node, p

\* The rounds build the tree: of any number of leaves, at least one.
LEMMA RootIsTree ==
    ASSUME NEW leaves, Len(leaves) \in Nat \ {0}, DOMAIN leaves = 1 .. Len(leaves)
    PROVE  RootFromHashedLeafs(leaves) = Tree(leaves)
<1> DEFINE n == Len(leaves)
           level == Levels(leaves)
           node == Nodes(leaves)
           Fits(h) == 2^h >= n /\ (h = 0 \/ 2^(h - 1) < n)
           height == CHOOSE h \in 0 .. n : Fits(h)
           S == {k \in Nat : k <= height => IsLevel(leaves, level[k], k)}
<1>1. RootFromHashedLeafs(leaves) = level[n][1] /\ Tree(leaves) = node[height][0]
  BY DEF RootFromHashedLeafs, Tree, Levels, Nodes
<1>2. /\ level[0] = leaves
      /\ \A k \in 0 .. n - 1 : level[k + 1] = Round(level[k])
  BY LevelStep
<1>3. \A h \in 0 .. n, i \in Nat :
          node[h][i] =
              IF i * 2^h >= n THEN ZeroHash
              ELSE IF h = 0 THEN leaves[i + 1]
              ELSE HashNode(node[h - 1][2 * i], node[h - 1][2 * i + 1])
  BY NodeStep
<1>4. n \in Nat \ {0} /\ DOMAIN leaves = 1 .. n
  OBVIOUS
<1>5. \E h \in 0 .. n : Fits(h)
  BY Room
<1> HIDE DEF n, level, node, Fits
<1>6. height \in 0 .. n /\ Fits(height)
  BY <1>5
<1> HIDE DEF height
\* Up to the height there is more than one hash to pair.
<1>7. \A k \in 0 .. height - 1 : 2^k < n
  <2> DEFINE U == {j \in Nat : j + 1 <= height => 2^((height - 1) - j) < n}
  <2>1. 0 \in U
    <3> SUFFICES ASSUME 0 + 1 <= height
                 PROVE  2^((height - 1) - 0) < n
      OBVIOUS
    <3>1. height # 0 /\ (height - 1) - 0 = height - 1
      BY <1>6
    <3> QED
      BY <1>6, <3>1 DEF Fits
  <2>2. ASSUME NEW j \in Nat, j \in U
        PROVE  j + 1 \in U
    <3> SUFFICES ASSUME (j + 1) + 1 <= height
                 PROVE  2^((height - 1) - (j + 1)) < n
      BY <2>2
    <3> DEFINE q == (height - 1) - (j + 1)
    <3>1. j + 1 <= height /\ q \in Nat /\ q + 1 = (height - 1) - j
      BY <1>6
    <3>2. 2^(q + 1) < n
      BY <2>2, <3>1
    <3>3. 2^q \in Nat \ {0} /\ 2^(q + 1) = 2 * 2^q
      BY <3>1, Doubles
    <3> HIDE DEF q
    <3>4. 2^q < n
      BY <1>4, <3>2, <3>3
    <3> QED
      BY <3>4 DEF q
  <2> HIDE DEF U
  <2>3. \A j \in Nat : j \in U
    BY <2>1, <2>2, Induction
  <2>4. ASSUME NEW k \in 0 .. height - 1
        PROVE  2^k < n
    <3>1. (height - 1) - k \in Nat /\ ((height - 1) - k) + 1 <= height
          /\ (height - 1) - ((height - 1) - k) = k
      BY <1>6
    <3>2. (height - 1) - k \in U
      BY <2>3, <3>1
    <3>3. 2^((height - 1) - ((height - 1) - k)) < n
      BY <3>1, <3>2 DEF U
    <3> QED
      BY <3>1, <3>3
  <2> QED
    BY <2>4
<1>8. 0 \in S
  <2>1. \A i \in 0 .. n - 1 : leaves[i + 1] = node[0][i]
    <3> SUFFICES ASSUME NEW i \in 0 .. n - 1
                 PROVE  leaves[i + 1] = node[0][i]
      OBVIOUS
    <3>1. 0 \in 0 .. n /\ i \in Nat /\ ~(i * 2^0 >= n)
      BY <1>4
    <3> QED
      BY <1>3, <3>1
  <2>2. (n - 1) * 2^0 < n /\ n <= n * 2^0
    BY <1>4
  <2>3. IsLevel(leaves, leaves, 0)
    BY <1>4, <2>1, <2>2 DEF IsLevel, n, node
  <2> QED
    BY <1>2, <2>3
<1>9. \A k \in Nat : k \in S => k + 1 \in S
  <2> SUFFICES ASSUME NEW k \in Nat, k + 1 <= height, IsLevel(leaves, level[k], k)
               PROVE  IsLevel(leaves, level[k + 1], k + 1)
    BY <1>6
  <2>1. k \in 0 .. n - 1 /\ k \in 0 .. height - 1
    BY <1>4, <1>6
  <2>2. Len(level[k]) \in Nat \ {0}
    BY DEF IsLevel
  <2>3. 2^k \in Nat /\ 2^k < n
    BY <1>7, <2>1, Doubles
  <2>4. Len(level[k]) # 1
    <3>1. n <= Len(level[k]) * 2^k
      BY DEF IsLevel, n
    <3>2. 1 * 2^k = 2^k
      BY <2>3
    <3>3. ~(n <= 2^k)
      BY <1>4, <2>3
    <3> QED
      BY <3>1, <3>2, <3>3
  <2>5. Len(level[k]) > 1
    <3>1. \A q \in Nat \ {0} : q # 1 => q > 1
      OBVIOUS
    <3> QED
      BY <2>2, <2>4, <3>1, Zenon
  <2>6. level[k + 1] = Paired(level[k])
    BY <1>2, <2>1, <2>5 DEF Round
  <2>7. IsLevel(leaves, Paired(level[k]), k + 1)
    BY <1>4, <2>1, <2>5, LevelRises DEF n
  <2> QED
    BY <2>6, <2>7
<1>10. IsLevel(leaves, level[height], height)
  <2> HIDE DEF S
  <2>1. height \in S
    BY <1>6, <1>8, <1>9, Induction
  <2> QED
    BY <1>6, <2>1 DEF S
<1> HIDE DEF S
\* At the height one hash is left, and no round changes it.
<1>11. Len(level[height]) = 1 /\ level[height][1] = node[height][0]
  <2> DEFINE m == Len(level[height])
             x == 2^height
  <2>1. m \in Nat \ {0} /\ (m - 1) * x < n /\ n <= x /\ x \in Nat \ {0}
    <3>1. m \in Nat \ {0} /\ (m - 1) * x < n
      BY <1>10 DEF IsLevel, n
    <3>2. height \in Nat /\ x >= n
      BY <1>4, <1>6 DEF Fits
    <3>3. x \in Nat \ {0}
      BY <3>2, Doubles
    <3>4. n <= x
      BY <1>4, <3>2, <3>3
    <3> QED
      BY <3>1, <3>3, <3>4
  <2>2. \A i \in 0 .. m - 1 : level[height][i + 1] = node[height][i]
    BY <1>10 DEF IsLevel, node
  <2> HIDE DEF m, x
  <2>3. ASSUME m - 1 >= 1
        PROVE  FALSE
    <3>1. (m - 1) * x >= x /\ (m - 1) * x \in Nat
      BY <2>1, <2>3
    <3> QED
      BY <1>4, <2>1, <3>1
  <2>4. m = 1 /\ 0 \in 0 .. m - 1
    BY <2>1, <2>3
  <2>5. level[height][0 + 1] = node[height][0]
    BY <2>2, <2>4
  <2> QED
    BY <2>4, <2>5 DEF m
<1> DEFINE V == {j \in Nat : height + j <= n => level[height + j] = level[height]}
<1>12. 0 \in V
  BY <1>6
<1>13. \A j \in Nat : j \in V => j + 1 \in V
  <2> SUFFICES ASSUME NEW j \in Nat, height + (j + 1) <= n, level[height + j] = level[height]
               PROVE  level[height + (j + 1)] = level[height]
    BY <1>4, <1>6
  <2>1. height + j \in 0 .. n - 1 /\ height + (j + 1) = (height + j) + 1
    BY <1>4, <1>6
  <2>2. level[(height + j) + 1] = Round(level[height])
    BY <1>2, <2>1
  <2> QED
    BY <1>11, <2>1, <2>2 DEF Round
<1>14. level[n] = level[height]
  <2> HIDE DEF V
  <2>1. n - height \in Nat /\ height + (n - height) = n
    BY <1>4, <1>6
  <2>2. n - height \in V
    BY <1>12, <1>13, <2>1, Induction
  <2>3. height + (n - height) <= n
    BY <1>4, <2>1
  <2>4. level[height + (n - height)] = level[height]
    BY <2>2, <2>3 DEF V
  <2> QED
    BY <2>1, <2>4
<1> QED
  BY <1>1, <1>11, <1>14

-----------------------------------------------------------------------------
(***************************************************************************)
(* LaneBless, for every set of reports and events and every number of      *)
(* messages: the destination state is what the log says, and a root is     *)
(* verified if and only if it is that of the messages of its interval.     *)
(***************************************************************************)
\* The messages are the first ones of the source chain, in order.
MessagesInv ==
    /\ Len(messages) <= MaxSeqNr
    /\ \A i \in DOMAIN messages : messages[i] = [nr |-> i, hash |-> Leaf(i)]

LaneInv == TypeOK /\ DestExact /\ MessagesInv /\ StatusIsGenuine

-----------------------------------------------------------------------------
\* What the log says of a root once one more event is in it.
LEMMA HoldsAppend ==
    ASSUME NEW S, log \in Seq(S), NEW e, log' = Append(log, e), NEW root
    PROVE  /\ IsReset(e, root) =>
                 ~Holds(IsBlessing, root)' /\ ~Holds(IsVote, root)'
           /\ ~IsReset(e, root) =>
                 /\ Holds(IsBlessing, root)' <=> Holds(IsBlessing, root) \/ IsBlessing(e, root)
                 /\ Holds(IsVote, root)' <=> Holds(IsVote, root) \/ IsVote(e, root)
<1> DEFINE n == Len(log)
<1>1. n \in Nat /\ DOMAIN log = 1 .. n /\ DOMAIN log' = 1 .. (n + 1)
      /\ (\A i \in 1 .. n : log'[i] = log[i]) /\ log'[n + 1] = e
  OBVIOUS
<1> HIDE DEF n
<1>2. CASE IsReset(e, root)
  <2>1. ~IsBlessing(e, root) /\ ~IsVote(e, root)
    BY <1>2 DEF IsReset, IsBlessing, IsVote
  <2>2. \A i \in 1 .. n : n + 1 > i
    BY <1>1
  <2>3. \A i \in DOMAIN log' : i = n + 1 \/ (i \in 1 .. n /\ n + 1 \in DOMAIN log' /\ n + 1 > i)
    BY <1>1
  <2>4. ~Holds(IsBlessing, root)' /\ ~Holds(IsVote, root)'
    BY <1>1, <1>2, <2>1, <2>3 DEF Holds, IsReset, IsBlessing, IsVote, InForce, Ours
  <2> QED
    BY <1>2, <2>4
<1>3. CASE ~IsReset(e, root)
  <2>1. \A i \in DOMAIN log' : i \in DOMAIN log \/ i = n + 1
    BY <1>1
  <2>2. DOMAIN log \subseteq DOMAIN log' /\ n + 1 \in DOMAIN log'
        /\ \A j \in DOMAIN log' : ~(j > n + 1)
    BY <1>1
  <2>3. Holds(IsBlessing, root)' <=> Holds(IsBlessing, root) \/ IsBlessing(e, root)
    BY <1>1, <1>3, <2>1, <2>2 DEF Holds, IsReset, IsBlessing, InForce, Ours
  <2>4. Holds(IsVote, root)' <=> Holds(IsVote, root) \/ IsVote(e, root)
    BY <1>1, <1>3, <2>1, <2>2 DEF Holds, IsReset, IsVote, InForce, Ours
  <2> QED
    BY <1>3, <2>3, <2>4
<1> QED
  BY <1>2, <1>3

-----------------------------------------------------------------------------
\* The positions that get_message_hashes counts are the numbers that it is asked
\* for, so that it gives the hashes of a whole interval or none.
LEMMA HashesOf ==
    ASSUME LaneInv, NEW min \in Nat, NEW max \in Nat
    PROVE  IF 1 <= min /\ min <= max /\ max <= Len(messages)
           THEN MessageHashes(min, max) = [i \in 1 .. (max - min + 1) |-> Leaf(min + i - 1)]
           ELSE min <= max => MessageHashes(min, max) = << >>
<1>1. Len(messages) \in Nat /\ DOMAIN messages = 1 .. Len(messages)
  BY DEF LaneInv, TypeOK
<1>2. CASE messages = << >>
  <2>1. Len(messages) = 0 /\ MessageHashes(min, max) = << >>
    BY <1>2 DEF MessageHashes
  <2> QED
    BY <2>1
<1>3. CASE messages # << >>
  <2>1. Len(messages) >= 1 /\ messages[1].nr = 1
    <3>1. Len(messages) >= 1
      BY <1>3 DEF LaneInv, TypeOK
    <3>2. 1 \in DOMAIN messages
      BY <1>1, <3>1
    <3> QED
      BY <3>1, <3>2 DEF LaneInv, MessagesInv
  <2> DEFINE Misses == min - 1 < 0 \/ max < min \/ (min - 1) + (max - min) >= Len(messages)
             Hashes == [i \in 1 .. (max - min + 1) |-> messages[(min - 1) + i].hash]
  <2>2. MessageHashes(min, max) = IF Misses THEN << >> ELSE Hashes
    BY <1>3, <2>1 DEF MessageHashes
  <2>3. Misses <=> ~(1 <= min /\ min <= max /\ max <= Len(messages))
    BY <1>1
  <2>4. ASSUME ~Misses
        PROVE  Hashes = [i \in 1 .. (max - min + 1) |-> Leaf(min + i - 1)]
    <3>1. ASSUME NEW i \in 1 .. (max - min + 1)
          PROVE  messages[(min - 1) + i].hash = Leaf(min + i - 1)
      <4>1. (min - 1) + i \in DOMAIN messages /\ (min - 1) + i = min + i - 1
        BY <1>1, <2>3, <2>4
      <4> QED
        BY <4>1 DEF LaneInv, MessagesInv
    <3> QED
      BY <3>1
  <2> HIDE DEF Misses, Hashes
  <2> QED
    BY <2>2, <2>3, <2>4
<1> QED
  BY <1>2, <1>3

\* What the worker compares a root with is the root of the tree.
LEMMA Verified ==
    ASSUME LaneInv
    PROVE  VerifiesGenuine
<1> SUFFICES ASSUME NEW r \in Report
             PROVE  Verifies(r) <=> Genuine(r)
  BY DEF VerifiesGenuine
<1> DEFINE m == r.max - r.min + 1
           leaves == [i \in 1 .. m |-> Leaf(r.min + i - 1)]
<1>1. r.min \in Nat /\ r.max \in Nat
  BY LaneBlessAssumption
<1> DEFINE Whole == 1 <= r.min /\ r.min <= r.max /\ r.max <= Len(messages)
<1>2. IF Whole THEN MessageHashes(r.min, r.max) = leaves
      ELSE r.min <= r.max => MessageHashes(r.min, r.max) = << >>
  BY <1>1, HashesOf
<1>3. CASE ~Whole
  <2>1. ~Verifies(r)
    <3>1. r.min <= r.max => MessageHashes(r.min, r.max) = << >>
      BY <1>2, <1>3
    <3> QED
      BY <3>1 DEF Verifies
  <2>2. ~Genuine(r)
    BY <1>3 DEF Genuine
  <2> QED
    BY <2>1, <2>2
<1>4. CASE Whole
  <2>1. m \in Nat \ {0}
    BY <1>1, <1>4
  <2>2. Len(leaves) = m /\ DOMAIN leaves = 1 .. m
    <3> HIDE DEF m
    <3>1. leaves \in [1 .. m -> {Leaf(r.min + i - 1) : i \in 1 .. m}]
      OBVIOUS
    <3>2. leaves \in Seq({Leaf(r.min + i - 1) : i \in 1 .. m}) /\ DOMAIN leaves = 1 .. m
      BY <2>1, <3>1
    <3> QED
      BY <2>1, <3>2
  <2>3. GenuineRoot(r.min, r.max) = Tree(leaves)
    BY DEF GenuineRoot
  <2> HIDE DEF m, leaves
  <2>4. leaves # << >>
    BY <2>1, <2>2
  <2>5. RootFromHashedLeafs(leaves) = Tree(leaves)
    BY <2>1, <2>2, RootIsTree
  <2>6. Verifies(r) <=> r.root = RootFromHashedLeafs(leaves)
    BY <1>2, <1>4, <2>4 DEF Verifies
  <2>7. Genuine(r) <=> r.root = GenuineRoot(r.min, r.max)
    BY <1>4 DEF Genuine
  <2> QED
    BY <2>3, <2>5, <2>6, <2>7
<1> QED
  BY <1>3, <1>4

\* A root stays genuine: messages are only added.
LEMMA StatusKept ==
    ASSUME StatusIsGenuine, Len(messages) \in Nat, Len(messages)' \in Nat, Len(messages) <= Len(messages)',
           committed \subseteq committed', committed \subseteq Report, UNCHANGED status
    PROVE  StatusIsGenuine'
<1> SUFFICES ASSUME NEW root \in status
             PROVE  \E r \in committed' : r.root = root /\ Genuine(r)'
  BY DEF StatusIsGenuine
<1>1. PICK r \in committed : r.root = root /\ Genuine(r)
  BY DEF StatusIsGenuine
<1>2. r.max \in Nat
  BY LaneBlessAssumption
<1>3. Genuine(r)'
  BY <1>1, <1>2 DEF Genuine
<1> QED
  BY <1>1, <1>3

-----------------------------------------------------------------------------
\* The source state takes the next message only.
LEMMA SourceInv ==
    ASSUME LaneInv, SourceUpdate
    PROVE  LaneInv'
<1>1. PICK e \in SourceEvent :
          /\ e.nr = IF messages = << >> THEN 1 ELSE messages[Len(messages)].nr + 1
          /\ messages' = Append(messages, [nr |-> e.nr, hash |-> Leaf(e.nr)])
  BY DEF SourceUpdate
<1> DEFINE n == Len(messages)
           Message == [nr : 1 .. MaxSeqNr, hash : {Leaf(m) : m \in 1 .. MaxSeqNr}]
<1>2. n \in Nat /\ DOMAIN messages = 1 .. n /\ messages \in Seq(Message)
  BY DEF LaneInv, TypeOK
<1>3. e.nr = n + 1 /\ e.nr \in 1 .. MaxSeqNr
  <2>1. CASE messages = << >>
    BY <1>1, <2>1 DEF SourceEvent
  <2>2. CASE messages # << >>
    <3>1. n \in 1 .. n
      BY <1>2, <2>2
    <3>2. messages[n].nr = n
      BY <1>2, <3>1 DEF LaneInv, MessagesInv
    <3> QED
      BY <1>1, <2>2, <3>2 DEF SourceEvent
  <2> QED
    BY <2>1, <2>2
<1>4. [nr |-> e.nr, hash |-> Leaf(e.nr)] \in Message
  BY <1>3
<1>5. messages' \in Seq(Message) /\ Len(messages') = n + 1
      /\ DOMAIN messages' = 1 .. (n + 1)
      /\ (\A i \in 1 .. n : messages'[i] = messages[i])
      /\ messages'[n + 1] = [nr |-> n + 1, hash |-> Leaf(n + 1)]
  <2> HIDE DEF Message
  <2> QED
    BY <1>1, <1>2, <1>3, <1>4
<1>6. UNCHANGED <<log, committed, blessed, voted, status>>
  BY DEF SourceUpdate
<1>7. MessagesInv'
  <2>1. n + 1 <= MaxSeqNr
    BY <1>2, <1>3, LaneBlessAssumption
  <2>2. ASSUME NEW i \in 1 .. (n + 1)
        PROVE  messages'[i] = [nr |-> i, hash |-> Leaf(i)]
    <3>1. i \in 1 .. n \/ i = n + 1
      BY <1>2
    <3> QED
      BY <1>2, <1>5, <3>1 DEF LaneInv, MessagesInv
  <2> QED
    BY <1>5, <2>1, <2>2 DEF MessagesInv
<1>8. TypeOK'
  BY <1>5, <1>6 DEF LaneInv, TypeOK
<1>9. DestExact'
  BY <1>6 DEF LaneInv, DestExact, Holds, IsBlessing, IsVote, IsReset
<1>10. StatusIsGenuine'
  <2>1. UNCHANGED <<committed, status>> /\ committed \subseteq Report
    BY <1>6 DEF LaneInv, TypeOK
  <2>2. Len(messages)' \in Nat /\ Len(messages) <= Len(messages)'
    BY <1>2, <1>5
  <2> QED
    BY <1>2, <2>1, <2>2, StatusKept DEF LaneInv
<1> QED
  BY <1>7, <1>8, <1>9, <1>10 DEF LaneInv

\* The destination state says of each root what the log says, after each event.
LEMMA DestInv ==
    ASSUME LaneInv, DestUpdate
    PROVE  LaneInv'
<1> DEFINE Entry == DestEvent \cup [kind : {"Committed"}, report : Report]
<1>1. UNCHANGED <<messages, status>> /\ MessagesInv'
  BY DEF LaneInv, MessagesInv, DestUpdate
<1>2. log \in Seq(Entry)
  BY DEF LaneInv, TypeOK
<1>3. ASSUME NEW r \in Report, Commit(r)
      PROVE  TypeOK' /\ DestExact'
  <2> DEFINE e == [kind |-> "Committed", report |-> r]
  <2>1. e \in Entry /\ log' = Append(log, e) /\ committed' = committed \cup {r}
        /\ blessed' = blessed /\ voted' = voted
    BY <1>3 DEF Commit
  <2>2. \A root : ~IsReset(e, root) /\ ~IsBlessing(e, root) /\ ~IsVote(e, root)
    BY DEF IsReset, IsBlessing, IsVote
  <2>3. \A root : (Holds(IsBlessing, root)' <=> Holds(IsBlessing, root))
                 /\ (Holds(IsVote, root)' <=> Holds(IsVote, root))
    BY <1>2, <2>1, <2>2, HoldsAppend
  <2>4. log' \in Seq(Entry)
    BY <1>2, <2>1
  <2>5. \A c \in Report :
           (\E i \in DOMAIN log' : log'[i].kind = "Committed" /\ log'[i].report = c)
           <=> (c = r \/ \E i \in DOMAIN log : log[i].kind = "Committed" /\ log[i].report = c)
    BY <1>2, <2>1
  <2>6. DestExact'
    BY <2>1, <2>3, <2>5 DEF LaneInv, DestExact
  <2>7. TypeOK'
    BY <1>1, <2>1, <2>4 DEF LaneInv, TypeOK
  <2> QED
    BY <2>6, <2>7
<1>4. ASSUME NEW e \in DestEvent, Bless(e) \/ Vote(e) \/ Reset(e)
      PROVE  TypeOK' /\ DestExact'
  <2>1. log' = Append(log, e) /\ committed' = committed /\ e.kind # "Committed"
    BY <1>4 DEF Bless, Vote, Reset
  <2>2. log' \in Seq(Entry)
    BY <1>2, <2>1
  <2>3. e.root \in Root
    BY DEF Root
  <2>4. \A c \in Report :
           (\E i \in DOMAIN log' : log'[i].kind = "Committed" /\ log'[i].report = c)
           <=> (\E i \in DOMAIN log : log[i].kind = "Committed" /\ log[i].report = c)
    BY <1>2, <2>1
  <2>5. ASSUME NEW root \in Root
        PROVE  /\ root \in blessed' <=> Holds(IsBlessing, root)'
               /\ root \in voted' <=> Holds(IsVote, root)' /\ ~Holds(IsBlessing, root)'
    <3>1. /\ root \in blessed <=> Holds(IsBlessing, root)
          /\ root \in voted <=> Holds(IsVote, root) /\ ~Holds(IsBlessing, root)
      BY DEF LaneInv, DestExact
    <3>2. /\ IsReset(e, root) =>
                 ~Holds(IsBlessing, root)' /\ ~Holds(IsVote, root)'
          /\ ~IsReset(e, root) =>
                 /\ Holds(IsBlessing, root)' <=> Holds(IsBlessing, root) \/ IsBlessing(e, root)
                 /\ Holds(IsVote, root)' <=> Holds(IsVote, root) \/ IsVote(e, root)
      BY <1>2, <2>1, HoldsAppend
    <3>3. CASE Bless(e)
      BY <3>1, <3>2, <3>3 DEF Bless, IsReset, IsBlessing, IsVote
    <3>4. CASE Vote(e)
      BY <3>1, <3>2, <3>4 DEF Vote, IsReset, IsBlessing, IsVote
    <3>5. CASE Reset(e)
      BY <3>1, <3>2, <3>5 DEF Reset, IsReset, IsBlessing, IsVote
    <3> QED
      BY <1>4, <3>3, <3>4, <3>5
  <2>6. blessed' \subseteq Root /\ voted' \subseteq Root
    BY <1>4, <2>3 DEF LaneInv, TypeOK, Bless, Vote, Reset
  <2>7. DestExact'
    BY <2>1, <2>4, <2>5, <2>6 DEF LaneInv, DestExact
  <2>8. TypeOK'
    BY <1>1, <2>1, <2>2, <2>6 DEF LaneInv, TypeOK
  <2> QED
    BY <2>7, <2>8
<1>5. TypeOK' /\ DestExact'
  BY <1>3, <1>4 DEF DestUpdate
<1>6. StatusIsGenuine'
  <2>1. committed \subseteq committed' /\ committed \subseteq Report
    BY DEF LaneInv, TypeOK, DestUpdate, Commit, Bless, Vote, Reset
  <2>2. Len(messages) \in Nat /\ Len(messages)' \in Nat /\ Len(messages) <= Len(messages)'
    BY <1>1 DEF LaneInv, TypeOK
  <2> QED
    BY <1>1, <2>1, <2>2, StatusKept DEF LaneInv
<1> QED
  BY <1>1, <1>5, <1>6 DEF LaneInv

-----------------------------------------------------------------------------
\* LaneInv holds in every reachable state, for any reports and events.
THEOREM LaneInvariance == LaneSpec => []LaneInv
<1>1. LaneInit => LaneInv
  BY LaneBlessAssumption
     DEF LaneInit, LaneInv, TypeOK, DestExact, MessagesInv, Holds, StatusIsGenuine
<1>2. ASSUME LaneInv, [LaneNext]_laneVars
      PROVE  LaneInv'
  <2>1. CASE SourceUpdate
    BY <1>2, <2>1, SourceInv
  <2>2. CASE DestUpdate
    BY <1>2, <2>2, DestInv
  <2>3. CASE Publish
    <3>1. UNCHANGED <<messages, log, committed, blessed, voted>>
      BY <2>3 DEF Publish
    <3>2. status' \subseteq Root
      BY <1>2, <2>3 DEF Publish, VerifiedRoots, CouldVote, Root, LaneInv, TypeOK
    <3>3. StatusIsGenuine'
      <4>1. VerifiesGenuine
        BY <1>2, Verified
      <4>2. ASSUME NEW root \in VerifiedRoots
            PROVE  \E r \in committed : r.root = root /\ Genuine(r)
        <5>1. PICK r \in CouldVote : Verifies(r) /\ r.root = root
          BY <4>2 DEF VerifiedRoots
        <5>2. r \in committed /\ r \in Report
          BY <1>2, <5>1 DEF CouldVote, LaneInv, TypeOK
        <5> QED
          BY <4>1, <5>1, <5>2 DEF VerifiesGenuine
      <4>3. \A r : Genuine(r)' <=> Genuine(r)
        BY <3>1 DEF Genuine
      <4> QED
        BY <2>3, <3>1, <4>2, <4>3 DEF Publish, StatusIsGenuine
    <3> QED
      BY <1>2, <3>1, <3>2, <3>3
         DEF LaneInv, TypeOK, DestExact, MessagesInv, Holds, IsBlessing, IsVote, IsReset
  <2>4. CASE UNCHANGED laneVars
    BY <1>2, <2>4
       DEF laneVars, LaneInv, TypeOK, DestExact, MessagesInv, StatusIsGenuine, Genuine, Holds,
           IsBlessing, IsVote, IsReset
  <2> QED
    BY <1>2, <2>1, <2>2, <2>3, <2>4 DEF LaneNext
<1> QED
  BY <1>1, <1>2, PTL DEF LaneSpec

\* Every state of the fold has its types.
THEOREM TypeCorrect == LaneSpec => []TypeOK
BY LaneInvariance, PTL DEF LaneInv

\* For any reports and any events of this and other commit stores, configs and
\* voters, in any order: blessed, voted for and committed are what the log says.
THEOREM DestAlwaysExact == LaneSpec => []DestExact
BY LaneInvariance, PTL DEF LaneInv

\* For any reports, on any interval, and any number of messages: a root verifies
\* if and only if it is the root of the tree over the messages of its interval.
THEOREM VerifiedIsGenuine == LaneSpec => []VerifiesGenuine
<1>1. LaneInv => VerifiesGenuine
  BY Verified
<1> QED
  BY <1>1, LaneInvariance, PTL

\* What a status lists, at whatever time it is read, was committed with the
\* interval of its messages.
THEOREM StatusAlwaysGenuine == LaneSpec => []StatusIsGenuine
BY LaneInvariance, PTL DEF LaneInv
===============================================================================
