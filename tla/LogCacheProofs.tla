--------------------------- MODULE LogCacheProofs ---------------------------
(***************************************************************************)
(* LogCache, for any number of blocks, logs, queries, names and start      *)
(* blocks: the worker misses no log and the databases are exact.           *)
(***************************************************************************)
EXTENDS LogCache, WellFoundedInduction, TLAPS

-----------------------------------------------------------------------------
(***************************************************************************)
(* The least and the greatest of a set of numbers.                         *)
(***************************************************************************)
LEMMA MinExists ==
    ASSUME NEW S, S \subseteq Nat, S # {}
    PROVE  /\ Min(S) \in S
           /\ \A x \in S : Min(S) <= x
<1> DEFINE R == {ss \in Nat \X Nat : ss[1] < ss[2]}
<1>1. IsWellFoundedOn(R, Nat)
  BY NatLessThanWellFounded, Zenon DEF OpToRel
<1> HIDE DEF R
<1>2. PICK m \in S : \A y \in S : ~(<<y, m>> \in R)
  BY <1>1, WFMin, Zenon
<1>3. ASSUME NEW y \in S
      PROVE  m <= y
  <2>1. m \in Nat /\ y \in Nat
    OBVIOUS
  <2>2. y < m => <<y, m>> \in R
    BY <2>1 DEF R
  <2> QED
    BY <1>2, <2>1, <2>2
<1>4. \E x \in S : \A y \in S : x <= y
  BY <1>3
<1> QED
  BY <1>4 DEF Min

LEMMA MaxExists ==
    ASSUME NEW n \in Nat, NEW S, S \subseteq 0 .. n, S # {}
    PROVE  /\ Max(S) \in S
           /\ \A x \in S : x <= Max(S)
<1> DEFINE T == {n - x : x \in S}
<1>0. \A x \in S : n - x \in Nat
  OBVIOUS
<1>1. T \subseteq Nat /\ T # {}
  BY <1>0
<1> HIDE DEF T
<1>2. Min(T) \in T /\ \A y \in T : Min(T) <= y
  BY <1>1, MinExists
<1>3. PICK m \in S : Min(T) = n - m
  BY <1>2 DEF T
<1>4. \A x \in S : n - x \in T
  BY DEF T
<1>5. \A x \in S : m >= x
  BY <1>2, <1>3, <1>4
<1>6. Max(S) \in S /\ \A x \in S : Max(S) >= x
  BY <1>5 DEF Max
<1> QED
  BY <1>6

-----------------------------------------------------------------------------
(***************************************************************************)
(* The logs of a range of blocks.                                          *)
(***************************************************************************)
\* The logs in a .. b are those of the logs in a larger range with such a block.
LEMMA LogsWithin ==
    ASSUME NEW q \in Shape, NEW a \in Nat, NEW b \in Int, NEW c \in Nat, NEW d \in Int,
           c <= a, b <= d
    PROVE  {l \in Logs(q, c, d) : l.block \in a .. b} = Logs(q, a, b)
BY DEF Logs

\* The logs of two ranges, one next to the other.
LEMMA LogsJoined ==
    ASSUME NEW q \in Shape, NEW a \in Nat, NEW b \in Int, NEW c \in Int,
           a <= b + 1, b <= c
    PROVE  Logs(q, a, b) \cup Logs(q, b + 1, c) = Logs(q, a, c)
<1>1. \A n : n \in a .. c <=> n \in a .. b \/ n \in (b + 1) .. c
  OBVIOUS
<1> QED
  BY <1>1 DEF Logs

-----------------------------------------------------------------------------
(***************************************************************************)
(* A database is exact, and stays so when logs are saved to it.            *)
(***************************************************************************)
File == [name : Name, shape : Shape, ranges : SUBSET [from : Block, to : Block],
         logs : SUBSET UNION {Logs(q, 0, MaxBlock) : q \in Shape}]

Apart(q, r) == q.to + 1 < r.from \/ r.to + 1 < q.from

Exact(f) ==
    /\ f \in File /\ f.logs \subseteq Logs(f.shape, 0, MaxBlock)
    /\ \A r \in f.ranges :
          /\ r.from <= r.to
          /\ {l \in f.logs : l.block \in r.from .. r.to} = Logs(f.shape, r.from, r.to)
    /\ \A q, r \in f.ranges : q = r \/ Apart(q, r)

\* The two queries and the delete of save_logs: what remains is apart from the
\* merged range, of which each block is new or was in a range that is deleted.
LEMMA SavedIsExact ==
    ASSUME NEW f, Exact(f), NEW from \in Block, NEW last \in Block, from <= last,
           NEW logs, logs = Logs(f.shape, from, last)
    PROVE  LET g == Saved(f, logs, from, last)
           IN Exact(g) /\ g.shape = f.shape /\ g.name = f.name
<1> DEFINE above == {r.from : r \in {q \in f.ranges : q.to + 1 >= from}}
           below == {r.to : r \in {q \in f.ranges : q.from - 1 <= last}}
           lowest == IF above = {} THEN from ELSE Min(above)
           highest == IF below = {} THEN last ELSE Max(below)
           rest == {r \in f.ranges : ~(r.from >= lowest /\ r.to <= highest)}
           lo == Min({from, lowest})
           hi == Max({last, highest})
           merged == [from |-> lo, to |-> hi]
           g == [f EXCEPT !.ranges = rest \cup {merged}, !.logs = @ \cup logs]
<1>1. Saved(f, logs, from, last) = g
  BY DEF Saved
<1>2. MaxBlock \in Nat /\ from \in Nat /\ last \in Nat /\ last <= MaxBlock
      /\ f \in File /\ f.shape \in Shape /\ f.ranges \subseteq [from : Block, to : Block]
      /\ (\A r \in f.ranges : r.from \in 0 .. MaxBlock /\ r.to \in 0 .. MaxBlock /\ r.from <= r.to)
      /\ (\A q, r \in f.ranges : q = r \/ Apart(q, r))
  BY LogCacheAssumption DEF Block, Exact, File
<1>3. /\ \A r \in f.ranges : r.to + 1 >= from => lowest <= r.from
      /\ \/ lowest = from /\ above = {}
         \/ \E A \in f.ranges : lowest = A.from /\ A.to + 1 >= from
  <2>1. CASE above = {}
    BY <2>1
  <2>2. CASE above # {}
    <3>1. above \subseteq Nat
      BY <1>2
    <3> HIDE DEF above
    <3>2. Min(above) \in above /\ \A x \in above : Min(above) <= x
      BY <2>2, <3>1, MinExists
    <3> QED
      BY <2>2, <3>2 DEF above
  <2> QED
    BY <2>1, <2>2
<1>4. /\ \A r \in f.ranges : r.from - 1 <= last => highest >= r.to
      /\ \/ highest = last /\ below = {}
         \/ \E B \in f.ranges : highest = B.to /\ B.from - 1 <= last
  <2>1. CASE below = {}
    BY <2>1
  <2>2. CASE below # {}
    <3>1. below \subseteq 0 .. MaxBlock
      BY <1>2
    <3> HIDE DEF below
    <3>2. Max(below) \in below /\ \A x \in below : x <= Max(below)
      BY <1>2, <2>2, <3>1, MaxExists
    <3> QED
      BY <2>2, <3>2 DEF below
  <2> QED
    BY <2>1, <2>2
<1> HIDE DEF above, below, lowest, highest
<1>5. lowest \in 0 .. MaxBlock /\ highest \in 0 .. MaxBlock
  BY <1>2, <1>3, <1>4
<1>6. lo \in 0 .. MaxBlock /\ lo <= from /\ lo <= lowest /\ (lo = from \/ lo = lowest)
  <2>1. {from, lowest} \subseteq Nat /\ {from, lowest} # {}
    BY <1>2, <1>5
  <2>2. lo \in {from, lowest} /\ lo <= from /\ lo <= lowest
    BY <2>1, MinExists
  <2> QED
    BY <1>2, <1>5, <2>2
<1>7. hi \in 0 .. MaxBlock /\ hi >= last /\ hi >= highest /\ (hi = last \/ hi = highest)
  <2>1. {last, highest} \subseteq 0 .. MaxBlock /\ {last, highest} # {}
    BY <1>2, <1>5
  <2>2. hi \in {last, highest} /\ last <= hi /\ highest <= hi
    BY <1>2, <2>1, MaxExists
  <2> QED
    BY <1>2, <1>5, <2>2
<1> HIDE DEF lo, hi
<1>8. ASSUME NEW r \in rest
      PROVE  Apart(r, merged)
  <2>1. r \in f.ranges /\ ~(r.from >= lowest /\ r.to <= highest)
    OBVIOUS
  <2>2. CASE r.to + 1 >= from /\ r.from - 1 <= last
    BY <1>3, <1>4, <2>1, <2>2
  <2>3. CASE r.to + 1 < from
    <3>1. CASE lo = from
      BY <1>2, <2>1, <2>3, <3>1 DEF Apart
    <3>2. CASE lo # from
      <4>1. PICK A \in f.ranges : lowest = A.from /\ A.to + 1 >= from /\ lo = A.from
        BY <1>3, <1>6, <3>2
      <4>2. A # r /\ Apart(A, r) /\ A.to > r.to
        BY <1>2, <2>1, <2>3, <4>1
      <4> QED
        BY <1>2, <2>1, <4>1, <4>2 DEF Apart
    <3> QED
      BY <3>1, <3>2
  <2>4. CASE r.from - 1 > last
    <3>1. CASE hi = last
      BY <1>2, <2>1, <2>4, <3>1 DEF Apart
    <3>2. CASE hi # last
      <4>1. PICK B \in f.ranges : highest = B.to /\ B.from - 1 <= last /\ hi = B.to
        BY <1>4, <1>7, <3>2
      <4>2. B # r /\ Apart(B, r) /\ B.from < r.from
        BY <1>2, <2>1, <2>4, <4>1
      <4> QED
        BY <1>2, <2>1, <4>1, <4>2 DEF Apart
    <3> QED
      BY <3>1, <3>2
  <2> QED
    BY <1>2, <2>1, <2>2, <2>3, <2>4
<1>9. ASSUME NEW n \in lo .. hi
      PROVE  n \in from .. last \/ \E r \in f.ranges : n \in r.from .. r.to
  <2>1. CASE n < from
    <3>1. PICK A \in f.ranges : lowest = A.from /\ A.to + 1 >= from /\ lo = A.from
      BY <1>2, <1>3, <1>6, <1>7, <2>1
    <3> QED
      BY <1>2, <1>6, <1>7, <2>1, <3>1
  <2>2. CASE n > last
    <3>1. PICK B \in f.ranges : highest = B.to /\ B.from - 1 <= last /\ hi = B.to
      BY <1>2, <1>4, <1>6, <1>7, <2>2
    <3> QED
      BY <1>2, <1>6, <1>7, <2>2, <3>1
  <2> QED
    BY <1>2, <1>6, <1>7, <2>1, <2>2
<1>10. g.ranges = rest \cup {merged} /\ g.logs = f.logs \cup logs
       /\ g.shape = f.shape /\ g.name = f.name
  BY <1>2 DEF File
<1>11. g \in File /\ g.logs \subseteq Logs(f.shape, 0, MaxBlock)
  <2>1. logs \subseteq Logs(f.shape, 0, MaxBlock)
    BY <1>2 DEF Logs
  <2>2. f.logs \subseteq Logs(f.shape, 0, MaxBlock)
    BY DEF Exact
  <2>3. merged \in [from : Block, to : Block]
    BY <1>6, <1>7 DEF Block
  <2>4. rest \subseteq [from : Block, to : Block]
    BY <1>2
  <2>5. g.logs \subseteq UNION {Logs(q, 0, MaxBlock) : q \in Shape}
    BY <1>2, <1>10, <2>1, <2>2
  <2> HIDE DEF merged, rest
  <2> QED
    BY <1>2, <1>10, <2>1, <2>2, <2>3, <2>4, <2>5 DEF File
<1> HIDE DEF g
<1>12. ASSUME NEW r \in g.ranges
       PROVE  /\ r.from <= r.to
              /\ {l \in g.logs : l.block \in r.from .. r.to} = Logs(f.shape, r.from, r.to)
  <2>1. CASE r \in rest
    <3>1. r \in f.ranges /\ r.from \in Nat /\ r.to \in 0 .. MaxBlock /\ r.from <= r.to
      BY <1>2, <2>1
    <3>2. {l \in f.logs : l.block \in r.from .. r.to} = Logs(f.shape, r.from, r.to)
      BY <3>1 DEF Exact
    <3>3. ASSUME NEW l \in logs, l.block \in r.from .. r.to
          PROVE  l \in Logs(f.shape, r.from, r.to)
      BY <1>2, <3>1, <3>3 DEF Logs
    <3> QED
      BY <1>10, <3>1, <3>2, <3>3
  <2>2. CASE r = merged
    <3>1. r.from = lo /\ r.to = hi /\ lo \in Nat /\ hi \in Nat /\ hi <= MaxBlock /\ lo <= hi
      BY <1>2, <1>6, <1>7, <2>2
    <3>2. {l \in g.logs : l.block \in lo .. hi} \subseteq Logs(f.shape, lo, hi)
      <4>1. {l \in Logs(f.shape, 0, MaxBlock) : l.block \in lo .. hi} = Logs(f.shape, lo, hi)
        BY <1>2, <3>1, LogsWithin
      <4> QED
        BY <1>11, <4>1
    <3>3. ASSUME NEW l \in Logs(f.shape, lo, hi)
          PROVE  l \in g.logs /\ l.block \in lo .. hi
      <4>1. PICK n \in lo .. hi : \E i \in 1 .. LogsIn[f.shape][n] :
                                     l = [block |-> n, index |-> i]
        BY <3>3 DEF Logs
      <4>2. l.block = n
        BY <4>1
      <4>3. CASE n \in from .. last
        BY <1>10, <4>1, <4>2, <4>3 DEF Logs
      <4>4. ASSUME NEW q \in f.ranges, n \in q.from .. q.to
            PROVE  l \in f.logs
        <5>1. l \in Logs(f.shape, q.from, q.to)
          BY <4>1, <4>4 DEF Logs
        <5> QED
          BY <5>1 DEF Exact
      <4> QED
        BY <1>9, <1>10, <4>1, <4>2, <4>3, <4>4
    <3> QED
      BY <3>1, <3>2, <3>3
  <2> QED
    BY <1>10, <2>1, <2>2
<1>13. ASSUME NEW q \in g.ranges, NEW r \in g.ranges
       PROVE  q = r \/ Apart(q, r)
  BY <1>2, <1>8, <1>10 DEF Apart
<1> QED
  BY <1>1, <1>10, <1>11, <1>12, <1>13 DEF Exact

\* What is read from a database is from one range, and not empty.
LEMMA CachedInRange ==
    ASSUME NEW f, Exact(f), NEW from \in Block, NEW last \in Block, from <= last,
           Covering(f.ranges, from) # {}
    PROVE  \E r \in f.ranges :
              LET end == Cached(f, from, last)
              IN r.from <= from /\ end \in from .. last /\ end <= r.to
<1> DEFINE ends == {r.to : r \in Covering(f.ranges, from)}
           end == Min({last, Max(ends)}) - from
           halves == {from} \cup {n \in from .. (from + end) :
                        \E k \in 0 .. end : n = from + end \div 2^k}
           small == {n \in halves :
              n = from \/ Cardinality({l \in f.logs : l.block \in from .. n}) <= MaxLogs}
<1>1. Cached(f, from, last) = Max(small)
  BY DEF Cached
<1>2. /\ MaxBlock \in Nat /\ from \in Nat /\ last \in Nat /\ last <= MaxBlock
      /\ \A r \in f.ranges : r.from \in 0 .. MaxBlock /\ r.to \in 0 .. MaxBlock
  BY LogCacheAssumption DEF Block, Exact, File
<1>3. PICK r \in f.ranges : r.from <= from /\ from <= r.to /\ Max(ends) = r.to
  <2>1. ends \subseteq 0 .. MaxBlock /\ ends # {}
    BY <1>2 DEF Covering
  <2>2. Max(ends) \in ends
    BY <1>2, <2>1, MaxExists
  <2> QED
    BY <2>2 DEF Covering
<1> HIDE DEF ends
<1>4. end \in Nat /\ from + end <= last /\ from + end <= r.to
  <2>1. {last, Max(ends)} \subseteq Nat /\ {last, Max(ends)} # {}
    BY <1>2, <1>3
  <2>2. /\ Min({last, Max(ends)}) \in {last, Max(ends)}
        /\ Min({last, Max(ends)}) <= last /\ Min({last, Max(ends)}) <= Max(ends)
    BY <2>1, MinExists
  <2> QED
    BY <1>2, <1>3, <2>2
<1> HIDE DEF end
<1>5. small \subseteq from .. (from + end) /\ from \in small
  BY <1>2, <1>4
<1> HIDE DEF small
<1>6. small \subseteq 0 .. MaxBlock
  BY <1>2, <1>4, <1>5
<1>7. Max(small) \in small
  BY <1>2, <1>5, <1>6, MaxExists
<1>8. Cached(f, from, last) \in from .. last /\ Cached(f, from, last) <= r.to
  <2>1. Max(small) \in from .. (from + end)
    BY <1>5, <1>7
  <2>2. r.to \in Nat
    BY <1>2
  <2>3. Max(small) \in from .. last /\ Max(small) <= r.to
    BY <1>2, <1>4, <2>1, <2>2
  <2> QED
    BY <1>1, <2>3
<1> QED
  BY <1>3, <1>8

-----------------------------------------------------------------------------
(***************************************************************************)
(* The inductive invariant.                                                *)
(***************************************************************************)
FilesInv ==
    /\ \A f \in files : Exact(f)
    /\ \A f, g \in files : f.shape = g.shape => f = g
    /\ up => \E f \in files : f.shape = shape

RequestInv ==
    /\ reliable \in BOOLEAN /\ stable \in Block
    /\ to \in Block /\ pc \in {"idle", "asking"} /\ (pc = "asking" => next <= to)
    /\ size \in Nat \ {0} /\ increase \in {"Multiplicative", "Additive"}

WorkerInv ==
    /\ up \in BOOLEAN /\ shape \in Shape
    /\ start \in Block /\ next \in start .. (MaxBlock + 1)
    /\ IF up THEN got = Logs(shape, start, next - 1) ELSE got = {}

Inv == FilesInv /\ RequestInv /\ WorkerInv

LEMMA InvInit == Init => Inv
<1> SUFFICES ASSUME Init
             PROVE  Inv
  OBVIOUS
<1>1. MaxBlock \in Nat /\ 0 \in Block
  BY LogCacheAssumption DEF Block
<1>2. FilesInv
  BY DEF Init, FilesInv
<1>3. RequestInv
  <2>1. reliable \in BOOLEAN
    BY Zenon DEF Init
  <2>2. stable \in Block /\ to \in Block /\ pc = "idle" /\ size = 1 /\ increase = "Multiplicative"
    BY <1>1 DEF Init
  <2> QED
    BY <2>1, <2>2 DEF RequestInv
<1>4. WorkerInv
  <2>1. up = FALSE /\ shape \in Shape /\ start \in Block /\ got = {}
    BY <1>1, Zenon DEF Init
  <2>2. next \in start .. (MaxBlock + 1)
    BY <1>1 DEF Init
  <2> QED
    BY <2>1, <2>2 DEF WorkerInv
<1> QED
  BY <1>2, <1>3, <1>4 DEF Inv

LEMMA InvImplies == Inv => TypeOK /\ NothingMissed /\ CacheExact
<1> SUFFICES ASSUME Inv
             PROVE  TypeOK /\ NothingMissed /\ CacheExact
  OBVIOUS
<1>1. CacheExact
  BY DEF Inv, FilesInv, Exact, Apart, CacheExact
<1>2. NothingMissed
  BY DEF Inv, WorkerInv, NothingMissed
<1>3. \A f \in files :
          /\ f.name \in Name /\ f.shape \in Shape
          /\ f.ranges \subseteq [from : Block, to : Block]
          /\ f.logs \subseteq Logs(f.shape, 0, MaxBlock)
  BY DEF Inv, FilesInv, Exact, File
<1>4. got \subseteq Logs(shape, 0, MaxBlock)
  BY LogCacheAssumption DEF Inv, WorkerInv, Logs, Block
<1> QED
  BY <1>1, <1>2, <1>3, <1>4, LogCacheAssumption DEF Inv, RequestInv, WorkerInv, TypeOK, Block

\* The database in use is the one of the shape.
LEMMA DatabaseInUse ==
    ASSUME FilesInv, up
    PROVE  Database \in files /\ Database.shape = shape /\ Exact(Database)
BY DEF FilesInv, Database

\* An answer for next .. end continues what was given.
LEMMA Given ==
    ASSUME WorkerInv, up, NEW end \in Block, next <= end,
           Give(Logs(shape, next, end), end), UNCHANGED worker
    PROVE  WorkerInv'
<1>1. MaxBlock \in Nat /\ start \in Nat /\ next \in Nat /\ start <= next /\ end \in Nat
      /\ end <= MaxBlock
  BY LogCacheAssumption DEF WorkerInv, Block
<1>2. Logs(shape, start, next - 1) \cup Logs(shape, next, end) = Logs(shape, start, end)
  <2>1. Logs(shape, start, next - 1) \cup Logs(shape, (next - 1) + 1, end)
           = Logs(shape, start, end)
    BY <1>1, LogsJoined DEF WorkerInv
  <2> QED
    BY <1>1, <2>1
<1>3. next' = end + 1 /\ next' - 1 = end /\ next' \in start .. (MaxBlock + 1)
  BY <1>1 DEF Give
<1>4. got' = Logs(shape, start, end)
  BY <1>2 DEF Give, WorkerInv
<1> QED
  BY <1>1, <1>3, <1>4 DEF WorkerInv, worker

\* A request keeps a size, however it ends.
LEMMA SizeKept ==
    ASSUME RequestInv, NEW asked \in Nat \ {0}, OnSuccess(asked) \/ OnFailure(asked)
    PROVE  size' \in Nat \ {0} /\ increase' \in {"Multiplicative", "Additive"}
<1>1. CASE OnSuccess(asked)
  BY <1>1 DEF OnSuccess, RequestInv
<1>2. CASE OnFailure(asked)
  <2>1. {asked \div 2, 1} \subseteq 0 .. asked /\ {asked \div 2, 1} # {}
    OBVIOUS
  <2>2. Max({asked \div 2, 1}) \in {asked \div 2, 1} /\ 1 <= Max({asked \div 2, 1})
    BY <2>1, MaxExists
  <2> QED
    BY <1>2, <2>1, <2>2 DEF OnFailure
<1> QED
  BY <1>1, <1>2

\* A request ends between its first block and the last one that is wanted.
LEMMA EndInRange ==
    ASSUME RequestInv, WorkerInv, pc = "asking"
    PROVE  End \in Block /\ next <= End /\ End <= to /\ Asked \in Nat \ {0} /\ next \in Block
<1>1. MaxBlock \in Nat /\ next \in Nat /\ to \in 0 .. MaxBlock /\ next <= to
      /\ size \in Nat \ {0}
  BY LogCacheAssumption DEF RequestInv, WorkerInv, Block
<1>2. {to, next + size - 1} \subseteq Nat /\ {to, next + size - 1} # {}
  BY <1>1
<1>3. End \in {to, next + size - 1} /\ End <= to
  BY <1>2, MinExists DEF End
<1> QED
  BY <1>1, <1>3 DEF Asked, Block

-----------------------------------------------------------------------------
(***************************************************************************)
(* The steps.                                                              *)
(***************************************************************************)
LEMMA InvAdvance ==
    ASSUME Inv, Advance \/ Stabilize
    PROVE  Inv'
<1>1. MaxBlock \in Nat
  BY LogCacheAssumption
<1>2. stable' \in Block /\ reliable' \in BOOLEAN
  <2>1. stable' \in Block
    BY <1>1 DEF Advance, Stabilize, Inv, RequestInv, Block
  <2>2. reliable' \in BOOLEAN
    BY Zenon DEF Advance, Stabilize, Inv, RequestInv
  <2> QED
    BY <2>1, <2>2
<1>3. UNCHANGED <<files, up, shape, start, next, got, pc, to, size, increase>>
  BY DEF Advance, Stabilize, worker, request
<1> QED
  BY <1>2, <1>3 DEF Inv, FilesInv, RequestInv, WorkerInv

\* A database that is found is renamed, nothing else.
LEMMA InvOpen ==
    ASSUME Inv, Open
    PROVE  Inv'
<1>1. MaxBlock \in Nat /\ 0 \in Block /\ StartBlocks \subseteq Block
  BY LogCacheAssumption DEF Block
<1>2. PICK name \in Name, s \in Shape : shape' = s /\ files' = Opened(name, s)
  BY DEF Open
<1> DEFINE matching == {f \in files : f.shape = s}
           new == [name |-> name, shape |-> s, ranges |-> {}, logs |-> {}]
<1>3. Exact(new) /\ new.shape = s
  BY <1>2 DEF Exact, File
<1>4. ASSUME NEW f \in matching
      PROVE  Exact([f EXCEPT !.name = name]) /\ [f EXCEPT !.name = name].shape = s
  <2>1. Exact(f) /\ f \in File /\ f.shape = s
    BY DEF Inv, FilesInv, Exact
  <2> DEFINE g == [f EXCEPT !.name = name]
  <2>2. g \in File /\ g.shape = f.shape /\ g.ranges = f.ranges /\ g.logs = f.logs
    BY <1>2, <2>1 DEF File
  <2> HIDE DEF g
  <2>3. Exact(g) /\ g.shape = s
    BY <2>1, <2>2 DEF Exact
  <2> QED
    BY <2>3 DEF g
<1>5. \A f, g \in matching : f = g
  BY DEF Inv, FilesInv
<1>6. PICK opened : files' = (files \ matching) \cup {opened} /\ Exact(opened) /\ opened.shape = s
  <2>1. CASE matching = {}
    BY <1>2, <1>3, <2>1 DEF Opened
  <2>2. CASE matching # {}
    <3>1. PICK f \in matching : matching = {f}
      BY <1>5, <2>2
    <3>2. files' = (files \ matching) \cup {[f EXCEPT !.name = name]}
      BY <1>2, <2>2, <3>1 DEF Opened
    <3> QED
      BY <1>4, <3>1, <3>2
  <2> QED
    BY <2>1, <2>2
<1>7. FilesInv'
  BY <1>2, <1>6 DEF Inv, FilesInv
<1>8. RequestInv'
  BY <1>1 DEF Open, Inv, RequestInv
<1>9. WorkerInv'
  <2>1. start' \in StartBlocks /\ next' = start'
    BY DEF Open
  <2>2. /\ \A a \in Block : Logs(s, a, a - 1) = {}
        /\ \A a \in Block : a \in a .. (MaxBlock + 1)
    BY <1>1 DEF Logs, Block
  <2>3. up' = TRUE /\ got' = {} /\ start' \in Block
    BY <1>1 DEF Open
  <2> QED
    BY <1>1, <1>2, <2>1, <2>2, <2>3 DEF WorkerInv
<1> QED
  BY <1>7, <1>8, <1>9 DEF Inv

\* Only the databases outlive the process.
LEMMA InvCrash ==
    ASSUME Inv, Crash
    PROVE  Inv'
<1>1. MaxBlock \in Nat /\ 0 \in Block
  BY LogCacheAssumption DEF Block
<1>2. FilesInv'
  BY DEF Crash, Inv, FilesInv
<1>3. RequestInv'
  BY <1>1 DEF Crash, Inv, RequestInv
<1>4. WorkerInv'
  <2>1. up' = FALSE /\ got' = {} /\ shape' \in Shape
    BY Zenon DEF Crash, Inv, WorkerInv
  <2>2. start' \in Block /\ next' \in start' .. (MaxBlock + 1)
    BY <1>1 DEF Crash
  <2> QED
    BY <2>1, <2>2 DEF WorkerInv
<1> QED
  BY <1>2, <1>3, <1>4 DEF Inv

\* The covering range of an exact database has the logs of all that is read.
LEMMA InvHit ==
    ASSUME Inv, Hit
    PROVE  Inv'
<1> DEFINE f == Database
           end == Cached(f, next, stable)
<1>1. /\ MaxBlock \in Nat /\ up /\ pc = "idle" /\ next <= stable /\ next \in Block
      /\ stable \in Block /\ stable \in Nat /\ stable <= MaxBlock /\ next \in Nat
  BY LogCacheAssumption DEF Hit, Inv, RequestInv, WorkerInv, Block
<1>2. Exact(f) /\ f.shape = shape
  BY <1>1, DatabaseInUse DEF Inv
<1>3. Covering(f.ranges, next) # {}
  BY DEF Hit
<1>4. Give({l \in f.logs : l.block \in next .. end}, end)
  BY DEF Hit
<1> HIDE DEF f
<1>5. PICK r \in f.ranges : r.from <= next /\ end \in next .. stable /\ end <= r.to
  BY <1>1, <1>2, <1>3, CachedInRange
<1> HIDE DEF end
<1>6. end \in Nat /\ end \in Block /\ next <= end
  BY <1>1, <1>5 DEF Block
<1>7. r.from \in Nat /\ r.to \in Int
  BY <1>2, LogCacheAssumption DEF Exact, File, Block
<1>8. {l \in f.logs : l.block \in next .. end} = Logs(shape, next, end)
  <2>1. {l \in f.logs : l.block \in r.from .. r.to} = Logs(shape, r.from, r.to)
    BY <1>2 DEF Exact
  <2>2. {l \in Logs(shape, r.from, r.to) : l.block \in next .. end} = Logs(shape, next, end)
    BY <1>1, <1>5, <1>6, <1>7, LogsWithin DEF Inv, WorkerInv
  <2>3. \A n \in next .. end : n \in r.from .. r.to
    BY <1>1, <1>5, <1>6, <1>7
  <2> QED
    BY <2>1, <2>2, <2>3
<1>9. WorkerInv'
  BY <1>1, <1>4, <1>6, <1>8, Given DEF Hit, Inv
<1>10. FilesInv' /\ RequestInv'
  BY <1>1 DEF Hit, Inv, FilesInv, RequestInv, worker, request
<1> QED
  BY <1>9, <1>10 DEF Inv

LEMMA InvMiss ==
    ASSUME Inv, Miss
    PROVE  Inv'
BY DEF Miss, Inv, FilesInv, RequestInv, WorkerInv, worker

\* A node that has the last block of the range has all of it, so that what is
\* saved is exact.
LEMMA InvAnswered ==
    ASSUME Inv, Answered
    PROVE  Inv'
<1>1. up /\ pc = "asking" /\ Exact(Database) /\ Database.shape = shape /\ Database \in files
  BY DatabaseInUse DEF Answered, Inv
<1>2. End \in Block /\ next <= End /\ End <= to /\ Asked \in Nat \ {0} /\ next \in Block
  BY <1>1, EndInRange DEF Inv
<1> DEFINE logs == Logs(shape, next, End)
<1>3. /\ Give(logs, End)
      /\ files' \in {files} \cup {(files \ {Database}) \cup {Saved(Database, logs, next, End)}}
  <2>1. PICK height \in Block : /\ NodeHas(height)
           /\ Give(Logs(shape, next, Min({End, height})), End)
           /\ files' \in {files} \cup {(files \ {Database}) \cup
                 {Saved(Database, Logs(shape, next, Min({End, height})), next, End)}}
    BY DEF Answered
  <2>2. Min({End, height}) = End
    <3>1. {End, height} \subseteq Nat /\ {End, height} # {} /\ height >= End
      BY <1>2, <2>1, LogCacheAssumption DEF NodeHas, Block
    <3>2. Min({End, height}) \in {End, height} /\ Min({End, height}) <= End
      BY <3>1, MinExists
    <3> QED
      BY <3>1, <3>2
  <2> QED
    BY <2>1, <2>2
<1>4. WorkerInv'
  BY <1>1, <1>2, <1>3, Given DEF Answered, Inv
<1>5. FilesInv'
  <2> DEFINE g == Saved(Database, logs, next, End)
  <2>1. Exact(g) /\ g.shape = shape
    BY <1>1, <1>2, SavedIsExact
  <2>2. files' = files \/ files' = (files \ {Database}) \cup {g}
    BY <1>3
  <2>3. shape' = shape /\ up' = up
    BY DEF Answered, worker
  <2> HIDE DEF g
  <2>4. CASE files' = files
    BY <2>3, <2>4 DEF Inv, FilesInv
  <2>5. CASE files' = (files \ {Database}) \cup {g}
    BY <1>1, <2>1, <2>3, <2>5 DEF Inv, FilesInv
  <2> QED
    BY <2>2, <2>4, <2>5
<1>6. RequestInv'
  <2>1. size' \in Nat \ {0} /\ increase' \in {"Multiplicative", "Additive"}
    BY <1>2, SizeKept DEF Answered, Inv
  <2>2. 0 \in Block
    BY LogCacheAssumption DEF Block
  <2> QED
    BY <2>1, <2>2 DEF Answered, Inv, RequestInv
<1> QED
  BY <1>4, <1>5, <1>6 DEF Inv

LEMMA InvRejected ==
    ASSUME Inv, Rejected
    PROVE  Inv'
<1>1. Asked \in Nat \ {0}
  BY EndInRange DEF Rejected, Inv
<1>2. size' \in Nat \ {0} /\ increase' \in {"Multiplicative", "Additive"}
  BY <1>1, SizeKept DEF Rejected, Inv
<1> QED
  BY <1>2 DEF Rejected, Inv, FilesInv, RequestInv, WorkerInv, worker

LEMMA InvFailed ==
    ASSUME Inv, Failed
    PROVE  Inv'
<1>1. 0 \in Block
  BY LogCacheAssumption DEF Block
<1> QED
  BY <1>1 DEF Failed, Inv, FilesInv, RequestInv, WorkerInv, worker

\* Requests for unstable blocks leave nothing but another size.
LEMMA InvAskUnstable ==
    ASSUME Inv, AskUnstable
    PROVE  Inv'
<1>1. PICK asked \in 1 .. Min({size, MaxBlock + 1}) : OnSuccess(asked) \/ OnFailure(asked)
  BY DEF AskUnstable
<1>2. asked \in Nat \ {0}
  <2>1. {size, MaxBlock + 1} \subseteq Nat /\ {size, MaxBlock + 1} # {}
    BY LogCacheAssumption DEF Inv, RequestInv
  <2>2. Min({size, MaxBlock + 1}) \in Nat
    BY <2>1, MinExists
  <2> QED
    BY <2>2
<1>3. size' \in Nat \ {0} /\ increase' \in {"Multiplicative", "Additive"}
  BY <1>1, <1>2, SizeKept DEF Inv
<1> QED
  BY <1>3 DEF AskUnstable, Inv, FilesInv, RequestInv, WorkerInv, worker

LEMMA InvNext == Inv /\ [Next]_vars => Inv'
<1> SUFFICES ASSUME Inv, [Next]_vars
             PROVE  Inv'
  OBVIOUS
<1>1. CASE Worker
  BY <1>1, InvHit, InvMiss, InvAnswered, InvRejected, InvFailed DEF Worker
<1>2. CASE UNCHANGED vars
  BY <1>2 DEF vars, worker, request, Inv, FilesInv, RequestInv, WorkerInv
<1> QED
  BY <1>1, <1>2, InvAdvance, InvOpen, InvCrash, InvAskUnstable DEF Next

\* Inv holds in every reachable state, whatever fails.
LEMMA Invariance == Spec => []Inv
  BY InvInit, InvNext, PTL DEF Spec

-----------------------------------------------------------------------------
\* The variables keep their types; sizes of requests stay positive and ranges
\* within the chain.
THEOREM TypeCorrect == Spec => []TypeOK
  BY Invariance, InvImplies, PTL

\* The worker has each log of its query from its first block on, and no other,
\* whatever the databases went through (CachedRpc::get_partial_logs).
THEOREM NeverMissed == Spec => []NothingMissed
  BY Invariance, InvImplies, PTL

\* A range that LogsDb counts as cached has all its logs, after any sequence of
\* saves, renames, crashes and restarts.
THEOREM CachesAlwaysExact == Spec => []CacheExact
  BY Invariance, InvImplies, PTL
=============================================================================
