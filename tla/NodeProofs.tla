----------------------------- MODULE NodeProofs -----------------------------
(***************************************************************************)
(* A node as a whole: its threads, its start and its voters (Node), and    *)
(* the transactions with which it votes (TxSender).  The two modules share *)
(* no variable; the theorems of each are about its own specification.      *)
(*                                                                         *)
(* First, Node, for any files, servers, contracts and on-chain configs.    *)
(* The threads take the locks in one order, what the start has checked     *)
(* holds until the workers run, and a node that votes is one of the voters.*)
(***************************************************************************)
EXTENDS Node, TxSender, FiniteSetTheorems, SequenceTheorems, WellFoundedInduction, TLAPS

\* Every set of natural numbers that is not empty has a least member.
LEMMA Least ==
    ASSUME NEW S \in SUBSET Nat, S # {}
    PROVE  \E x \in S : \A y \in S : x <= y
<1> DEFINE R0 == OpToRel(<, Nat)
<1>1. IsWellFoundedOn(R0, Nat)
  BY NatLessThanWellFounded, Zenon DEF OpToRel
<1>2. PICK x \in S : \A y \in S : <<y, x>> \notin R0
  BY <1>1, WFMin, Zenon
<1>3. \A y \in S : ~(y < x) BY <1>2 DEF OpToRel
<1> QED BY <1>3

\* A set of numbers with 0 and the successor of each of its members has all.
LEMMA Induction ==
    ASSUME NEW S, 0 \in S, \A i \in Nat : i \in S => i + 1 \in S
    PROVE  Nat \subseteq S
<1> SUFFICES ASSUME Nat \ S # {}
             PROVE  FALSE
  OBVIOUS
<1>1. PICK n \in Nat \ S : \A m \in Nat \ S : n <= m
  BY Least
<1>2. n # 0 /\ n - 1 \in Nat /\ n - 1 < n
  OBVIOUS
<1>3. n - 1 \in S
  BY <1>1, <1>2
<1> QED
  BY <1>2, <1>3

\* The order in which every thread takes the locks.
Rank(lock) ==
    CASE lock = "detector" -> 1
      [] lock = "destU" -> 2
      [] lock = "dest" -> 3
      [] lock = "sourceU" -> 4
      [] lock = "sourceTimeU" -> 5
      [] lock = "sourceTime" -> 6
      [] lock = "source" -> 7

\* Where a thread may be: asleep, or somewhere in a section.
Places == {Asleep} \cup {p \in (DOMAIN Sections) \X Nat : p[2] <= Len(Sections[p[1]])}

PlacesOK == at \in [Thread -> Places]

\* What the start reads is of files that are not refused, and there are keys for
\* the chains of it.
FilesInv ==
    phase \notin {"load", "exited"} =>
        /\ \E file \in Files : ~Rejected(file) /\ config = Loaded(file)
        /\ Names(config) \subseteq keys

\* What was checked of the contracts, and with the flag of the servers, holds until
\* the workers run.
ChecksInv ==
    phase \in {"discover", "voters", "spawn"} =>
        /\ \E oldest \in [DOMAIN Logs -> Oldest] :
              kept = [name \in DOMAIN Logs |-> {b \in Logs[name] : b >= oldest[name]}]
        /\ CheckRpcPruning => RpcsNotPruned(kept)
        /\ \A lane \in config.lanes : ContractsAgree(lane, Contracts)

\* The config is one of those that may be discovered; and a node that votes is one
\* of its voters, or there is nothing to vote on.
VotersInv ==
    /\ phase \in {"voters", "spawn"} => onchain \in Configs
    /\ phase = "spawn" /\ Mode # "Passive" /\ config.lanes # {} => Votes

NodeInv == PlacesOK /\ FilesInv /\ ChecksInv /\ VotersInv

\* From holding the locks held to holding next, at most one is taken, and that
\* one comes after all that are held.
Ordered(held, next) ==
    /\ \A g, h \in next \ held : g = h
    /\ \A g \in next \ held : Rank(g[1]) \in 1 .. 7 /\ \A h \in held : Rank(h[1]) < Rank(g[1])

-----------------------------------------------------------------------------
\* What Holding and \o make of tuples, element by element.
LEMMA Holding3 ==
    ASSUME NEW h, NEW a, NEW b, NEW c
    PROVE  Holding(h, <<a, b, c>>) = <<h \cup a, h \cup b, h \cup c>>
BY DEF Holding

LEMMA Holding4 ==
    ASSUME NEW h, NEW a, NEW b, NEW c, NEW d
    PROVE  Holding(h, <<a, b, c, d>>) = <<h \cup a, h \cup b, h \cup c, h \cup d>>
BY DEF Holding

LEMMA Concat13 ==
    ASSUME NEW a, NEW b, NEW c, NEW d
    PROVE  <<a>> \o <<b, c, d>> = <<a, b, c, d>>
<1> DEFINE S == {a, b, c, d}
           s == <<a>> \o <<b, c, d>>
           t == <<a, b, c, d>>
<1>1. \A i \in 1 .. 4 : s[i] = t[i]
  OBVIOUS
<1>2. s \in Seq(S) /\ Len(s) = 4 /\ t \in Seq(S) /\ Len(t) = 4
  <2>1. <<a>> \in Seq(S) /\ <<b, c, d>> \in Seq(S) /\ Len(<<a>>) = 1 /\ Len(<<b, c, d>>) = 3
    OBVIOUS
  <2> QED
    BY <2>1
<1> HIDE DEF S, s, t
<1>3. s = t
  BY <1>1, <1>2, SeqEqual
<1> QED
  BY <1>3 DEF s, t

LEMMA Concat24 ==
    ASSUME NEW a, NEW b, NEW c, NEW d, NEW e, NEW f
    PROVE  <<a, b>> \o <<c, d, e, f>> = <<a, b, c, d, e, f>>
<1> DEFINE S == {a, b, c, d, e, f}
           s == <<a, b>> \o <<c, d, e, f>>
           t == <<a, b, c, d, e, f>>
<1>1. \A i \in 1 .. 6 : s[i] = t[i]
  OBVIOUS
<1>2. s \in Seq(S) /\ Len(s) = 6 /\ t \in Seq(S) /\ Len(t) = 6
  <2>1. /\ <<a, b>> \in Seq(S) /\ <<c, d, e, f>> \in Seq(S)
        /\ Len(<<a, b>>) = 2 /\ Len(<<c, d, e, f>>) = 4
    OBVIOUS
  <2> QED
    BY <2>1
<1> HIDE DEF S, s, t
<1>3. s = t
  BY <1>1, <1>2, SeqEqual
<1> QED
  BY <1>3 DEF s, t

LEMMA Concat63 ==
    ASSUME NEW a, NEW b, NEW c, NEW d, NEW e, NEW f, NEW g, NEW h, NEW i
    PROVE  <<a, b, c, d, e, f>> \o <<g, h, i>> = <<a, b, c, d, e, f, g, h, i>>
<1> DEFINE S == {a, b, c, d, e, f, g, h, i}
           s == <<a, b, c, d, e, f>> \o <<g, h, i>>
           t == <<a, b, c, d, e, f, g, h, i>>
<1>1. \A n \in 1 .. 9 : s[n] = t[n]
  OBVIOUS
<1>2. s \in Seq(S) /\ Len(s) = 9 /\ t \in Seq(S) /\ Len(t) = 9
  <2>1. /\ <<a, b, c, d, e, f>> \in Seq(S) /\ <<g, h, i>> \in Seq(S)
        /\ Len(<<a, b, c, d, e, f>>) = 6 /\ Len(<<g, h, i>>) = 3
    OBVIOUS
  <2> QED
    BY <2>1
<1> HIDE DEF S, s, t
<1>3. s = t
  BY <1>1, <1>2, SeqEqual
<1> QED
  BY <1>3 DEF s, t

LEMMA RankIs ==
    /\ Rank("detector") = 1 /\ Rank("destU") = 2 /\ Rank("dest") = 3 /\ Rank("sourceU") = 4
    /\ Rank("sourceTimeU") = 5 /\ Rank("sourceTime") = 6 /\ Rank("source") = 7
BY DEF Rank

\* The locks that are held at the places of a section are taken in order.
TakenInOrder(sets) ==
    /\ Len(sets) \in Nat \ {0}
    /\ \A i \in 0 .. Len(sets) - 1 : Ordered(IF i = 0 THEN {} ELSE sets[i], sets[i + 1])

\* The row of the detector, written out: the locks it holds at each place.
LEMMA DetectionIs ==
    Detection =
        << {W("detector")},
           {W("detector"), R("destU")},
           {W("detector"), R("destU"), R("dest")},
           {W("detector"), R("destU"), R("dest"), W("sourceTimeU")},
           {W("detector"), R("destU"), R("dest")},
           {W("detector"), R("destU"), R("dest"), R("sourceU")},
           {W("detector"), R("destU"), R("dest"), R("sourceU"), W("sourceTime")},
           {W("detector"), R("destU"), R("dest"), R("sourceU")},
           {W("detector"), R("destU"), R("dest"), R("sourceU"), R("source")} >>
<1> DEFINE three == {W("detector"), R("destU"), R("dest")}
           four == {W("detector"), R("destU"), R("dest"), R("sourceU")}
<1>1. <<{}>> \o Synced("sourceTimeU", "sourceU") = <<{}, {W("sourceTimeU")}, {}, {R("sourceU")}>>
  BY Concat13 DEF Synced
<1>2. Holding(three, <<{}>> \o Synced("sourceTimeU", "sourceU"))
        = <<three \cup {}, three \cup {W("sourceTimeU")}, three \cup {}, three \cup {R("sourceU")}>>
  <2> DEFINE a == {W("sourceTimeU")}
             b == {R("sourceU")}
             none == {}
  <2> HIDE DEF three, a, b, none
  <2>1. Holding(three, <<none, a, none, b>>)
          = <<three \cup none, three \cup a, three \cup none, three \cup b>>
    BY Holding4
  <2> QED
    BY <1>1, <2>1 DEF a, b, none
<1>3. Holding(four, Synced("sourceTime", "source"))
        = <<four \cup {W("sourceTime")}, four \cup {}, four \cup {R("source")}>>
  <2> HIDE DEF four
  <2> QED
    BY Holding3 DEF Synced
<1>4. Detection = (<<{W("detector")}, {W("detector"), R("destU")}>>
                   \o Holding(three, <<{}>> \o Synced("sourceTimeU", "sourceU")))
                   \o Holding(four, Synced("sourceTime", "source"))
  BY DEF Detection
<1>5. /\ three \cup {} = three /\ four \cup {} = four
      /\ three \cup {W("sourceTimeU")} = {W("detector"), R("destU"), R("dest"), W("sourceTimeU")}
      /\ three \cup {R("sourceU")} = four
      /\ four \cup {W("sourceTime")}
            = {W("detector"), R("destU"), R("dest"), R("sourceU"), W("sourceTime")}
      /\ four \cup {R("source")} = {W("detector"), R("destU"), R("dest"), R("sourceU"), R("source")}
  OBVIOUS
<1> HIDE DEF three, four
<1>6. Detection = (<<{W("detector")}, {W("detector"), R("destU")}>>
                   \o <<three, three \cup {W("sourceTimeU")}, three, four>>)
                   \o <<four \cup {W("sourceTime")}, four, four \cup {R("source")}>>
  BY <1>2, <1>3, <1>4, <1>5
<1>7. Detection = <<{W("detector")}, {W("detector"), R("destU")}, three,
                    three \cup {W("sourceTimeU")}, three, four,
                    four \cup {W("sourceTime")}, four, four \cup {R("source")}>>
  <2>1. <<{W("detector")}, {W("detector"), R("destU")}>>
          \o <<three, three \cup {W("sourceTimeU")}, three, four>>
          = <<{W("detector")}, {W("detector"), R("destU")}, three,
              three \cup {W("sourceTimeU")}, three, four>>
    BY Concat24
  <2>2. <<{W("detector")}, {W("detector"), R("destU")}, three,
          three \cup {W("sourceTimeU")}, three, four>>
          \o <<four \cup {W("sourceTime")}, four, four \cup {R("source")}>>
          = <<{W("detector")}, {W("detector"), R("destU")}, three,
              three \cup {W("sourceTimeU")}, three, four,
              four \cup {W("sourceTime")}, four, four \cup {R("source")}>>
    BY Concat63
  <2> QED
    BY <1>6, <2>1, <2>2, Zenon
<1> QED
  BY <1>5, <1>7 DEF three, four

\* The row of a status of a voter to bless, written out.
LEMMA BlessIs ==
    Sections.blessStatus =
        << {R("destU")}, {R("destU"), W("sourceTime")}, {R("destU")}, {R("destU"), R("source")} >>
<1> DEFINE one == {R("destU")}
<1>1. Sections.blessStatus = <<one>> \o Holding(one, Synced("sourceTime", "source"))
  BY DEF Sections
<1>2. Holding(one, <<{W("sourceTime")}, {}, {R("source")}>>)
        = <<one \cup {W("sourceTime")}, one \cup {}, one \cup {R("source")}>>
  BY Holding3, Zenon
<1>3. one \cup {} = one /\ one \cup {W("sourceTime")} = {R("destU"), W("sourceTime")}
      /\ one \cup {R("source")} = {R("destU"), R("source")}
  OBVIOUS
<1>4. <<one>> \o <<one \cup {W("sourceTime")}, one, one \cup {R("source")}>>
        = <<one, one \cup {W("sourceTime")}, one, one \cup {R("source")}>>
  BY Concat13, Zenon
<1>5. Synced("sourceTime", "source") = <<{W("sourceTime")}, {}, {R("source")}>>
  BY DEF Synced
<1> HIDE DEF one
<1>6. Sections.blessStatus = <<one, one \cup {W("sourceTime")}, one, one \cup {R("source")}>>
  BY <1>1, <1>2, <1>3, <1>4, <1>5
<1> QED
  BY <1>3, <1>6 DEF one

\* Every section takes its locks in order.
LEMMA SectionsInOrder == \A s \in DOMAIN Sections : TakenInOrder(Sections[s])
<1>1. TakenInOrder(Sections.update)
  BY RankIs DEF Sections, TakenInOrder, Ordered, R, W
<1>2. TakenInOrder(Sections.clone)
  BY RankIs DEF Sections, TakenInOrder, Ordered, R, W
<1>3. TakenInOrder(Sections.forkFrom)
  BY RankIs DEF Sections, TakenInOrder, Ordered, R, W
<1>4. TakenInOrder(Sections.destUpdate)
  BY RankIs DEF Sections, TakenInOrder, Ordered, R, W
<1>5. TakenInOrder(Sections.destForkFrom)
  BY RankIs DEF Sections, TakenInOrder, Ordered, R, W
<1>6. TakenInOrder(Sections.blessStatus)
  BY BlessIs, RankIs DEF TakenInOrder, Ordered, R, W
<1>7. TakenInOrder(Sections.detection)
  <2>1. Sections.detection = Detection
    BY DEF Sections
  <2> QED
    BY <2>1, DetectionIs, RankIs DEF TakenInOrder, Ordered, R, W
<1>8. TakenInOrder(Sections.reap)
  BY RankIs DEF Sections, TakenInOrder, Ordered, R, W
<1>9. TakenInOrder(Sections.beaconUpdate)
  BY RankIs DEF Sections, TakenInOrder, Ordered, R, W
<1>10. TakenInOrder(Sections.statusReport)
  BY RankIs DEF Sections, TakenInOrder, Ordered, R, W
<1>11. DOMAIN Sections = {"update", "clone", "forkFrom", "destUpdate", "destForkFrom",
                          "blessStatus", "detection", "reap", "beaconUpdate", "statusReport"}
  BY DEF Sections
<1>12. \A s \in DOMAIN Sections :
          s = "update" \/ s = "clone" \/ s = "forkFrom" \/ s = "destUpdate" \/ s = "destForkFrom"
          \/ s = "blessStatus" \/ s = "detection" \/ s = "reap" \/ s = "beaconUpdate"
          \/ s = "statusReport"
  BY <1>11
<1> QED
  BY <1>1, <1>2, <1>3, <1>4, <1>5, <1>6, <1>7, <1>8, <1>9, <1>10, <1>12, Zenon

-----------------------------------------------------------------------------
(***************************************************************************)
(* Threads take locks in order, so that no circle of them can wait.        *)
(***************************************************************************)
\* A thread waits for one lock, which comes after all those that it holds.
LEMMA WantedInOrder ==
    ASSUME NEW t, at[t] \in Places
    PROVE  /\ \A g, h \in Wanted(t) : g = h
           /\ \A g \in Wanted(t) :
                 Rank(g[1]) \in 1 .. 7 /\ \A h \in Held(t) : Rank(h[1]) < Rank(g[1])
<1>1. CASE Wanted(t) = {}
  BY <1>1
<1>2. CASE Wanted(t) # {}
  <2>1. at[t] # Asleep /\ at[t][2] # LastIn(t)
        /\ Wanted(t) = Sections[at[t][1]][at[t][2] + 1] \ Held(t)
    BY <1>2 DEF Wanted
  <2> DEFINE s == at[t][1]
             i == at[t][2]
  <2>2. s \in DOMAIN Sections /\ i \in Nat /\ i <= Len(Sections[s])
    BY <2>1 DEF Places
  <2>3. TakenInOrder(Sections[s])
    BY <2>2, SectionsInOrder
  <2>4. i \in 0 .. Len(Sections[s]) - 1
    BY <2>1, <2>2, <2>3 DEF LastIn, TakenInOrder
  <2>5. Ordered(IF i = 0 THEN {} ELSE Sections[s][i], Sections[s][i + 1])
    BY <2>3, <2>4 DEF TakenInOrder
  <2>6. Ordered(Held(t), Sections[s][i + 1])
    BY <2>5 DEF Held
  <2> HIDE DEF s, i
  <2>7. Wanted(t) = Sections[s][i + 1] \ Held(t)
    BY <2>1 DEF s, i
  <2> QED
    BY <2>6, <2>7 DEF Ordered
<1> QED
  BY <1>1, <1>2

\* In a set of threads that wait for one another, each waits for a lock of a
\* certain rank, and some other waits for one of a higher rank.
LEMMA WaitsRise ==
    ASSUME PlacesOK, NEW waiting \in SUBSET Thread,
           \A t \in waiting : \E u \in waiting : Blocks(u, t), NEW t \in waiting
    PROVE  \E g \in Wanted(t) : \E v \in waiting : \E k \in Wanted(v) : Rank(g[1]) < Rank(k[1])
<1> DEFINE Held2(u, g) == W(g[1]) \in Held(u) \/ R(g[1]) \in Held(u)
<1>1. \A u \in waiting : /\ \A g, h \in Wanted(u) : g = h
                         /\ \A g \in Wanted(u) :
                               Rank(g[1]) \in 1 .. 7 /\ \A h \in Held(u) : Rank(h[1]) < Rank(g[1])
  BY WantedInOrder DEF PlacesOK
<1>2. \A u \in waiting : \E k \in Wanted(u) : TRUE
  BY DEF Blocks
<1>3. ASSUME NEW u \in waiting, NEW g, Held2(u, g)
      PROVE  \E k \in Wanted(u) : Rank(g[1]) < Rank(k[1])
  <2>1. PICK k \in Wanted(u) : TRUE
    BY <1>2
  <2>2. W(g[1])[1] = g[1] /\ R(g[1])[1] = g[1]
    BY DEF W, R
  <2>3. Rank(g[1]) < Rank(k[1])
    BY <1>1, <1>3, <2>1, <2>2
  <2> QED
    BY <2>1, <2>3
<1>4. PICK u \in waiting : Blocks(u, t)
  OBVIOUS
<1>5. PICK g \in Wanted(t) :
          Held2(u, g) \/ (g[2] = "read" /\ queued[u] /\ W(g[1]) \in Wanted(u))
  BY <1>4 DEF Blocks
<1>6. CASE Held2(u, g)
  BY <1>3, <1>5, <1>6
<1>7. CASE W(g[1]) \in Wanted(u)
  <2>1. PICK v \in waiting : Blocks(v, u)
    OBVIOUS
  <2>2. PICK h \in Wanted(u) :
            \/ W(h[1]) \in Held(v) \/ (h[2] = "write" /\ R(h[1]) \in Held(v))
            \/ h[2] = "read" /\ queued[v] /\ W(h[1]) \in Wanted(v)
    BY <2>1 DEF Blocks
  <2>3. h = W(g[1])
    BY <1>1, <1>7, <2>2
  <2>4. h[1] = g[1] /\ h[2] # "read"
    BY <2>3 DEF W
  <2>5. Held2(v, h)
    BY <2>2, <2>4
  <2>6. \E k \in Wanted(v) : Rank(h[1]) < Rank(k[1])
    BY <1>3, <2>5
  <2> QED
    BY <1>5, <2>4, <2>6
<1> HIDE DEF Held2
<1> QED
  BY <1>5, <1>6, <1>7

\* No circle of waiting threads: in one, ranks would rise for ever.
LEMMA NoCircle ==
    ASSUME PlacesOK
    PROVE  NoWaitCycle
<1> SUFFICES ASSUME NEW waiting \in SUBSET {t \in Thread : Blocked(t)},
                    \A t \in waiting : \E u \in waiting : Blocks(u, t),
                    waiting # {}
             PROVE  FALSE
  BY DEF NoWaitCycle
<1> DEFINE S == {n \in Nat : \E t \in waiting : \E g \in Wanted(t) : Rank(g[1]) >= n}
<1>1. waiting \in SUBSET Thread
  OBVIOUS
<1>2. \A t \in waiting : \A g, h \in Wanted(t) : g = h
  BY <1>1, WantedInOrder DEF PlacesOK
<1>3. \A t \in waiting : \A g \in Wanted(t) : Rank(g[1]) \in 1 .. 7
  BY <1>1, WantedInOrder DEF PlacesOK
<1>4. 0 \in S
  <2>1. PICK t \in waiting : TRUE
    OBVIOUS
  <2>2. PICK g \in Wanted(t) : TRUE
    BY DEF Blocks
  <2>3. Rank(g[1]) >= 0
    BY <1>3
  <2> QED
    BY <2>3
<1>5. ASSUME NEW n \in Nat, n \in S
      PROVE  n + 1 \in S
  <2>1. PICK t \in waiting : \E g \in Wanted(t) : Rank(g[1]) >= n
    BY <1>5
  <2>2. PICK g \in Wanted(t) : \E v \in waiting : \E k \in Wanted(v) : Rank(g[1]) < Rank(k[1])
    BY <1>1, WaitsRise
  <2>3. Rank(g[1]) >= n
    BY <1>2, <2>1
  <2>4. PICK v \in waiting : \E k \in Wanted(v) : Rank(g[1]) < Rank(k[1])
    BY <2>2
  <2>5. PICK k \in Wanted(v) : Rank(g[1]) < Rank(k[1])
    BY <2>4
  <2>6. Rank(k[1]) >= n + 1
    BY <1>3, <2>3, <2>5
  <2> QED
    BY <2>6
<1> HIDE DEF S
<1>6. 8 \in S
  BY <1>4, <1>5, Induction
<1>7. \E t \in waiting : \E g \in Wanted(t) : Rank(g[1]) >= 8
  BY <1>6 DEF S
<1> QED
  BY <1>3, <1>7

-----------------------------------------------------------------------------
(***************************************************************************)
(* Every step of the node keeps the threads at their places, and what the  *)
(* start has checked.                                                      *)
(***************************************************************************)
\* Every step moves a thread to a place of a section, or to sleep.
LEMMA PlacesNext ==
    ASSUME PlacesOK, [NodeNext]_nodeVars
    PROVE  PlacesOK'
<1>1. Asleep \in Places
  BY DEF Places
<1>2. \A s \in DOMAIN Sections : <<s, 0>> \in Places
  BY SectionsInOrder DEF Places, TakenInOrder
<1>3. \A t : at' = [at EXCEPT ![t] = Asleep] => PlacesOK'
  BY <1>1 DEF PlacesOK
<1>4. \A t, s : Enter(t, s) /\ s \in DOMAIN Sections => PlacesOK'
  BY <1>2 DEF PlacesOK, Enter
<1>5. at' = at => PlacesOK'
  BY DEF PlacesOK
<1>6. ASSUME NEW t \in Thread, Advance(t)
      PROVE  PlacesOK'
  <2>1. at[t] # Asleep /\ at[t] \in Places
    BY <1>6 DEF Advance, PlacesOK
  <2>2. /\ at[t][1] \in DOMAIN Sections /\ at[t][2] \in Nat
        /\ at[t][2] <= Len(Sections[at[t][1]])
    BY <2>1 DEF Places
  <2>3. Len(Sections[at[t][1]]) \in Nat
    BY <2>2, SectionsInOrder DEF TakenInOrder
  <2> DEFINE p == IF at[t][2] = LastIn(t) THEN Asleep ELSE <<at[t][1], at[t][2] + 1>>
  <2>4. p \in Places
    BY <1>1, <2>2, <2>3 DEF Places, LastIn
  <2>5. at' = [at EXCEPT ![t] = p]
    BY <1>6 DEF Advance
  <2> HIDE DEF p
  <2> QED
    BY <2>4, <2>5 DEF PlacesOK
<1>7. DOMAIN Sections = {"update", "clone", "forkFrom", "destUpdate", "destForkFrom",
                         "blessStatus", "detection", "reap", "beaconUpdate", "statusReport"}
  BY DEF Sections
<1>8. \A t : Polls(t) \subseteq DOMAIN Sections
  BY <1>7 DEF Polls
<1>9. CASE Startup
  <2>1. at' = at
    BY <1>9 DEF Startup, Load, Check, CheckFails, Discover, ValidateVoters, SpawnWorkers, threads
  <2> QED
    BY <1>5, <2>1
<1>10. CASE Monitor
  <2>1. CASE BeginUpdate
    BY <1>4, <1>7, <2>1 DEF BeginUpdate
  <2>2. CASE MainStep
    BY <1>6, <2>2 DEF MainStep, Thread
  <2>3. CASE MainFalls
    BY <1>3, <2>3 DEF MainFalls, Unwind
  <2>4. CASE Decide
    <3>1. at' = at \/ Enter("main", "statusReport")
      BY <2>4 DEF Decide
    <3> QED
      BY <1>4, <1>5, <1>7, <3>1
  <2>5. CASE Sleep \/ Joined
    BY <1>5, <2>5 DEF Sleep, Joined, threads
  <2> QED
    BY <1>10, <2>1, <2>2, <2>3, <2>4, <2>5 DEF Monitor
<1>11. ASSUME NEW t \in Worker, WorkerStep(t)
       PROVE  PlacesOK'
  <2>1. CASE Wake(t)
    BY <1>4, <1>5, <1>8, <2>1 DEF Wake, BeginPoll
  <2>2. CASE Queue(t)
    BY <1>5, <2>2 DEF Queue
  <2>3. CASE Advance(t)
    BY <1>6, <2>3 DEF Thread
  <2>4. CASE Fall(t)
    BY <1>3, <2>4 DEF Fall, Die, Unwind
  <2> QED
    BY <1>11, <2>1, <2>2, <2>3, <2>4 DEF WorkerStep, Run
<1>12. ASSUME NEW t \in Worker, WorkerPanics(t)
       PROVE  PlacesOK'
  BY <1>3, <1>12 DEF WorkerPanics, Panic, Die, Unwind
<1>13. CASE UNCHANGED nodeVars
  BY <1>5, <1>13 DEF nodeVars, threads
<1> QED
  BY <1>9, <1>10, <1>11, <1>12, <1>13 DEF NodeNext

\* What the start has read and checked is not changed until the workers run.
LEMMA StartNext ==
    ASSUME FilesInv, ChecksInv, [NodeNext]_nodeVars
    PROVE  FilesInv' /\ ChecksInv'
<1>1. ASSUME UNCHANGED <<phase, config, keys, kept>>
      PROVE  FilesInv' /\ ChecksInv'
  BY <1>1 DEF FilesInv, ChecksInv, RpcsNotPruned
<1>2. CASE Load
  <2>1. CASE phase' = "exited"
    BY <2>1 DEF FilesInv, ChecksInv
  <2>2. CASE phase' # "exited"
    <3>1. PICK file \in Files, store \in Keystores :
              /\ ~Rejected(file) /\ phase' = "check" /\ config' = Loaded(file)
              /\ Mode # "Passive" => KeysForChains(Names(Loaded(file)), store)
              /\ keys' = IF Mode = "Passive" THEN Names(Loaded(file)) ELSE store
      BY <1>2, <2>2 DEF Load
    <3>2. Names(config)' \subseteq keys'
      BY <3>1 DEF KeysForChains, Names
    <3> QED
      BY <3>1, <3>2 DEF FilesInv, ChecksInv
  <2> QED
    BY <2>1, <2>2
<1>3. CASE Check
  <2>1. phase' = "discover" /\ UNCHANGED <<config, keys>> /\ phase = "check"
    BY <1>3 DEF Check
  <2>2. /\ \E oldest \in [DOMAIN Logs -> Oldest] :
              kept' = [name \in DOMAIN Logs |-> {b \in Logs[name] : b >= oldest[name]}]
        /\ CheckRpcPruning => RpcsNotPruned(kept')
        /\ \A lane \in config.lanes : ContractsAgree(lane, Contracts)
    BY <1>3 DEF Check
  <2>3. CheckRpcPruning => RpcsNotPruned(kept)'
    BY <2>1, <2>2 DEF RpcsNotPruned
  <2> QED
    BY <2>1, <2>2, <2>3 DEF FilesInv, ChecksInv
<1>4. CASE CheckFails
  BY <1>4 DEF CheckFails, FilesInv, ChecksInv
<1>5. CASE Discover \/ ValidateVoters
  BY <1>5 DEF Discover, ValidateVoters, Shutdown, start, FilesInv, ChecksInv, RpcsNotPruned
<1>6. CASE SpawnWorkers
  BY <1>6 DEF SpawnWorkers, FilesInv, ChecksInv
<1>7. CASE Monitor
  <2>1. /\ UNCHANGED <<config, keys>> /\ phase \notin {"load", "exited"}
        /\ phase' \notin {"discover", "voters", "spawn"}
    BY <1>7 DEF Monitor, BeginUpdate, MainStep, MainFalls, Shutdown, Decide, Sleep, Joined, start
  <2> QED
    BY <2>1 DEF FilesInv, ChecksInv
<1>8. ASSUME NEW t \in Worker, WorkerStep(t) \/ WorkerPanics(t)
      PROVE  FilesInv' /\ ChecksInv'
  BY <1>1, <1>8 DEF WorkerStep, WorkerPanics, Others, start
<1>9. CASE UNCHANGED nodeVars
  BY <1>1, <1>9 DEF nodeVars, start
<1> QED
  BY <1>2, <1>3, <1>4, <1>5, <1>6, <1>7, <1>8, <1>9 DEF NodeNext, Startup

\* A config is discovered, and the node found among its voters, before the spawn.
LEMMA VotersNext ==
    ASSUME VotersInv, [NodeNext]_nodeVars
    PROVE  VotersInv'
<1>1. ASSUME UNCHANGED <<phase, config, onchain>>
      PROVE  VotersInv'
  BY <1>1 DEF VotersInv, Votes
<1>2. CASE Discover
  BY <1>2 DEF Discover, VotersInv
<1>3. CASE ValidateVoters
  <2>1. UNCHANGED <<config, onchain>> /\ phase = "voters"
    BY <1>3 DEF ValidateVoters, start
  <2>2. phase' = "spawn" => Mode = "Passive" \/ DestChains(config) = {} \/ Votes
    BY <1>3 DEF ValidateVoters, Shutdown
  <2>3. DestChains(config) = {} => config.lanes = {}
    BY DEF DestChains
  <2>4. Votes' <=> Votes
    BY <2>1 DEF Votes
  <2> QED
    BY <2>1, <2>2, <2>3, <2>4 DEF VotersInv
<1>4. CASE Load \/ Check \/ CheckFails \/ SpawnWorkers \/ Monitor
  <2>1. phase' \notin {"voters", "spawn"}
    BY <1>4 DEF Load, Check, CheckFails, SpawnWorkers, Monitor, BeginUpdate, MainStep, MainFalls,
                Shutdown, Decide, Sleep, Joined
  <2> QED
    BY <2>1 DEF VotersInv
<1>5. ASSUME NEW t \in Worker, WorkerStep(t) \/ WorkerPanics(t)
      PROVE  VotersInv'
  BY <1>1, <1>5 DEF WorkerStep, WorkerPanics, Others, start
<1>6. CASE UNCHANGED nodeVars
  BY <1>1, <1>6 DEF nodeVars, start
<1> QED
  BY <1>2, <1>3, <1>4, <1>5, <1>6 DEF NodeNext, Startup

\* NodeInv holds in every reachable state, for any files, servers and configs.
THEOREM NodeInvariance == NodeSpec => []NodeInv
<1>1. NodeInit => NodeInv
  BY DEF NodeInit, NodeInv, PlacesOK, Places, FilesInv, ChecksInv, VotersInv
<1>2. NodeInv /\ [NodeNext]_nodeVars => NodeInv'
  BY PlacesNext, StartNext, VotersNext DEF NodeInv
<1> QED
  BY <1>1, <1>2, PTL DEF NodeSpec

\* Whatever the threads do, whoever panics and whichever locks are poisoned: no
\* set of threads waits in a circle.
THEOREM NeverDeadlocked == NodeSpec => []NoWaitCycle
<1>1. NodeInv => NoWaitCycle
  BY NoCircle DEF NodeInv
<1> QED
  BY <1>1, NodeInvariance, PTL

-----------------------------------------------------------------------------
(***************************************************************************)
(* What the start checks is what the workers need.                         *)
(***************************************************************************)
\* A set of blocks that is not empty has a lowest one.
LEMMA MinIs ==
    ASSUME NEW S \in SUBSET Nat, NEW x \in S
    PROVE  Min(S) \in S /\ \A y \in S : Min(S) <= y
<1> DEFINE R0 == OpToRel(<, Nat)
<1>1. IsWellFoundedOn(R0, Nat)
  BY NatLessThanWellFounded, Zenon DEF OpToRel
<1>2. S # {} /\ S \subseteq Nat
  OBVIOUS
<1>3. PICK n \in S : \A m \in S : <<m, n>> \notin R0
  BY <1>1, <1>2, WFMin, Zenon
<1>4. \A m \in S : n <= m
  <2>1. \A m \in S : ~(m < n)
    BY <1>3 DEF OpToRel
  <2> QED
    BY <2>1
<1>5. \E m \in S : \A y \in S : m =< y
  BY <1>4
<1> QED
  BY <1>5 DEF Min

\* If a server has a log at a block or before it, and all logs from its oldest
\* block on, then it has all logs from that block on.
LEMMA OldestIsBelow ==
    ASSUME NEW block \in Nat, NEW logs \in SUBSET Nat, NEW o \in Nat,
           NotPruned(block, {b \in logs : b >= o})
    PROVE  o <= block
<1>1. PICK k \in 0 .. block : (Below(block, 2^k - 1) .. block) \cap {b \in logs : b >= o} # {}
  BY DEF NotPruned
<1>2. PICK b \in Below(block, 2^k - 1) .. block : b \in logs /\ b >= o
  BY <1>1
<1>3. 2^k \in Int
  OBVIOUS
<1>4. Below(block, 2^k - 1) \in Int
  BY <1>3 DEF Below
<1>5. b <= block
  BY <1>2, <1>4
<1> QED
  BY <1>2, <1>5

\* A block from which a lane reads a chain is one of the first blocks of the
\* chain, and none of them is pruned if the servers are searched.
LEMMA NothingPruned ==
    ASSUME NodeAssumption, FilesInv, ChecksInv, phase = "spawn", CheckRpcPruning,
           NEW name \in Read(config) \cap Names(config), name \in DOMAIN Logs,
           NEW first \in FirstBlocks(config, name),
           FirstBlocks(config, name) \subseteq Nat,
           NEW b \in Logs[name], b >= first
    PROVE  b \in kept[name]
<1>1. PICK oldest \in [DOMAIN Logs -> Oldest] :
          kept = [n \in DOMAIN Logs |-> {c \in Logs[n] : c >= oldest[n]}]
  BY DEF ChecksInv
<1>2. /\ oldest[name] \in Nat /\ Logs[name] \subseteq Nat
      /\ kept[name] = {c \in Logs[name] : c >= oldest[name]}
  BY <1>1 DEF NodeAssumption
<1> DEFINE block == RequiredBlock(config, name)
<1>3. block \in FirstBlocks(config, name) /\ block <= first
  BY MinIs DEF RequiredBlock
<1>4. NotPruned(block, {c \in Logs[name] : c >= oldest[name]})
  BY <1>2 DEF ChecksInv, RpcsNotPruned
<1> HIDE DEF block
<1>5. oldest[name] <= block
  BY <1>2, <1>3, <1>4, OldestIsBelow
<1>6. block \in Nat /\ first \in Nat /\ b \in Nat
  BY <1>2, <1>3
<1> QED
  BY <1>2, <1>3, <1>5, <1>6

\* The lanes of files that are not refused are of enabled chains; and two of
\* them with the same destination do not have the same commit store.
LEMMA LanesAreChecked ==
    ASSUME NodeAssumption, NEW file \in Files, ~Rejected(file), config = Loaded(file)
    PROVE  /\ \A lane \in config.lanes :
                  /\ lane.source \in Names(config) /\ lane.dest \in Names(config)
                  /\ lane.source \in DOMAIN Logs /\ lane.dest \in DOMAIN Logs
                  /\ lane.sourceStart \in Nat /\ lane.destStart \in Nat
           /\ \A lane, other \in config.lanes :
                  lane.dest = other.dest /\ lane.store = other.store => lane = other
<1> DEFINE lanes == file.lanes
           stores == [i \in DOMAIN lanes |-> <<lanes[i].dest, lanes[i].store>>]
<1>1. /\ config.lanes = EnabledLanes(file) /\ config.chains = EnabledChains(file)
      /\ config.lanes \subseteq ToSet(lanes)
  BY DEF Loaded, EnabledLanes
<1>2. \A lane \in ToSet(lanes) :
          lane.source \in ToSet(file.shared) /\ lane.dest \in ToSet(file.shared)
  BY DEF Rejected
<1>3. ASSUME NEW lane \in config.lanes
      PROVE  /\ lane.source \in Names(config) /\ lane.dest \in Names(config)
             /\ lane.source \in DOMAIN Logs /\ lane.dest \in DOMAIN Logs
             /\ lane.sourceStart \in Nat /\ lane.destStart \in Nat
  <2>1. lane \in ToSet(lanes)
    BY <1>1, <1>3
  <2>2. lane.source \in Names(config) /\ lane.dest \in Names(config)
    BY <1>1, <1>3 DEF EnabledLanes, Names
  <2>3. lane.sourceStart \in Nat /\ lane.destStart \in Nat
    BY <2>1 DEF NodeAssumption
  <2>4. lane.source \in DOMAIN Logs /\ lane.dest \in DOMAIN Logs
    BY <1>2, <2>1 DEF NodeAssumption
  <2> QED
    BY <2>2, <2>3, <2>4
<1>4. ASSUME NEW lane \in config.lanes, NEW other \in config.lanes,
             lane.dest = other.dest, lane.store = other.store
      PROVE  lane = other
  <2>1. PICK i \in DOMAIN lanes : lanes[i] = lane
    BY <1>1, <1>4 DEF ToSet
  <2>2. PICK j \in DOMAIN lanes : lanes[j] = other
    BY <1>1, <1>4 DEF ToSet
  <2>3. ~HasDuplicate(stores)
    BY DEF Rejected
  <2>4. i \in Nat /\ j \in Nat
    BY DEF NodeAssumption
  <2>5. stores[i] = stores[j] /\ DOMAIN stores = DOMAIN lanes
    BY <1>4, <2>1, <2>2
  <2> HIDE DEF stores
  <2>6. ~(i < j) /\ ~(j < i)
    BY <2>3, <2>5 DEF HasDuplicate
  <2> QED
    BY <2>1, <2>2, <2>4, <2>6
<1> QED
  BY <1>3, <1>4

\* What is checked at the start is what the workers of a lane need.
LEMMA StartServes ==
    ASSUME NodeAssumption, NodeInv
    PROVE  WorkersServed
<1> SUFFICES ASSUME phase = "spawn"
             PROVE  WorkersServed
  BY DEF WorkersServed
<1>1. PICK file \in Files : ~Rejected(file) /\ config = Loaded(file)
  BY DEF NodeInv, FilesInv
<1>2. /\ \A lane \in config.lanes :
            /\ lane.source \in Names(config) /\ lane.dest \in Names(config)
            /\ lane.source \in DOMAIN Logs /\ lane.dest \in DOMAIN Logs
            /\ lane.sourceStart \in Nat /\ lane.destStart \in Nat
      /\ \A lane, other \in config.lanes :
            lane.dest = other.dest /\ lane.store = other.store => lane = other
  BY <1>1, LanesAreChecked
<1>3. \A name : FirstBlocks(config, name) \subseteq Nat
  BY <1>2 DEF FirstBlocks
<1>4. ASSUME NEW lane \in config.lanes
      PROVE  /\ {lane.source, lane.dest} \subseteq Names(config) /\ lane.dest \in keys
             /\ CheckRpcPruning =>
                   /\ \A b \in Logs[lane.source] : b >= lane.sourceStart => b \in kept[lane.source]
                   /\ \A b \in Logs[lane.dest] : b >= lane.destStart => b \in kept[lane.dest]
  <2>1. {lane.source, lane.dest} \subseteq Names(config) /\ lane.dest \in keys
    BY <1>2 DEF NodeInv, FilesInv
  <2>2. lane.source \in Read(config) /\ lane.dest \in Read(config)
    BY DEF Read, DestChains
  <2>3. /\ lane.sourceStart \in FirstBlocks(config, lane.source)
        /\ lane.destStart \in FirstBlocks(config, lane.dest)
    BY DEF FirstBlocks
  <2>4. ASSUME CheckRpcPruning, NEW b \in Logs[lane.source], b >= lane.sourceStart
        PROVE  b \in kept[lane.source]
    BY <1>2, <1>3, <2>1, <2>2, <2>3, <2>4, NothingPruned DEF NodeInv
  <2>5. ASSUME CheckRpcPruning, NEW b \in Logs[lane.dest], b >= lane.destStart
        PROVE  b \in kept[lane.dest]
    BY <1>2, <1>3, <2>1, <2>2, <2>3, <2>5, NothingPruned DEF NodeInv
  <2> QED
    BY <2>1, <2>4, <2>5
<1>5. ASSUME NEW lane \in config.lanes, NEW other \in config.lanes,
             lane.dest = other.dest, lane.offRamp = other.offRamp
      PROVE  lane = other
  <2>1. ContractsAgree(lane, Contracts) /\ ContractsAgree(other, Contracts)
    BY DEF NodeInv, ChecksInv
  <2>2. Contracts[<<lane.dest, lane.offRamp>>].store = lane.store
    BY <2>1 DEF ContractsAgree
  <2>3. Contracts[<<other.dest, other.offRamp>>].store = other.store
    BY <2>1 DEF ContractsAgree
  <2> QED
    BY <1>2, <1>5, <2>2, <2>3
<1> QED
  BY <1>4, <1>5 DEF WorkersServed

\* Whatever the files, the servers and the contracts hold: workers are spawned
\* only for lanes that have what they need, their logs included if the node was
\* started with the flag check_rpc_pruning, and none of which share an off-ramp.
THEOREM AlwaysServed == NodeSpec => []WorkersServed
<1>1. NodeInv => WorkersServed
  BY NodeAssumption, StartServes
<1> QED
  BY <1>1, NodeInvariance, PTL

-----------------------------------------------------------------------------
(***************************************************************************)
(* The voters take turns.                                                  *)
(***************************************************************************)
\* A function that is defined from its value at the number before exists.
LEMMA Recursion ==
    ASSUME NEW N \in Nat, NEW add \in [1 .. N -> [Nat -> Nat]]
    PROVE  \E f \in [0 .. N -> Nat] :
               f = [i \in 0 .. N |-> IF i = 0 THEN 0 ELSE add[i][f[i - 1]]]
<1> DEFINE Made(f, n) ==
               /\ f \in [0 .. n -> Nat]
               /\ f[0] = 0 /\ \A i \in 1 .. n : f[i] = add[i][f[i - 1]]
           S == {n \in Nat : n <= N => \E f : Made(f, n)}
<1>1. 0 \in S
  <2>1. Made([i \in 0 .. 0 |-> 0], 0)
    OBVIOUS
  <2> QED
    BY <2>1
<1>2. \A n \in Nat : n \in S => n + 1 \in S
  <2> HIDE DEF Made
  <2> SUFFICES ASSUME NEW n \in Nat, n + 1 <= N, NEW f, Made(f, n)
               PROVE  \E g : Made(g, n + 1)
    OBVIOUS
  <2> USE DEF Made
  <2> DEFINE g == [i \in 0 .. n + 1 |-> IF i = n + 1 THEN add[n + 1][f[n]] ELSE f[i]]
  <2>1. add[n + 1][f[n]] \in Nat
    <3>1. n + 1 \in 1 .. N /\ n \in 0 .. n
      OBVIOUS
    <3>2. add[n + 1] \in [Nat -> Nat] /\ f[n] \in Nat
      BY <3>1
    <3> QED
      BY <3>2
  <2>2. g \in [0 .. n + 1 -> Nat] /\ g[0] = 0
    <3>1. \A i \in 0 .. n + 1 : i # n + 1 => i \in 0 .. n
      OBVIOUS
    <3>2. \A i \in 0 .. n + 1 : g[i] \in Nat
      BY <2>1, <3>1
    <3>3. 0 \in 0 .. n + 1 /\ 0 # n + 1
      OBVIOUS
    <3> QED
      BY <3>2, <3>3
  <2>3. ASSUME NEW i \in 1 .. n + 1
        PROVE  g[i] = add[i][g[i - 1]]
    <3>1. CASE i = n + 1
      <4>1. g[n + 1] = add[n + 1][f[n]] /\ g[n] = f[n] /\ i - 1 = n
        BY <3>1
      <4> QED
        BY <3>1, <4>1
    <3>2. CASE i # n + 1
      <4>1. i \in 1 .. n /\ i - 1 \in 0 .. n /\ i - 1 # n + 1
        BY <3>2
      <4>2. f[i] = add[i][f[i - 1]]
        BY <4>1
      <4>3. g[i] = f[i] /\ g[i - 1] = f[i - 1]
        BY <4>1, <3>2
      <4> QED
        BY <4>2, <4>3
    <3> QED
      BY <3>1, <3>2
  <2>4. Made(g, n + 1)
    BY <2>2, <2>3
  <2> QED
    BY <2>4
<1> HIDE DEF S
<1>3. N \in S
  BY <1>1, <1>2, Induction
<1>4. \E f : Made(f, N)
  <2> HIDE DEF Made
  <2> QED
    BY <1>3 DEF S
<1>5. PICK f : Made(f, N)
  BY <1>4
<1>6. \A i \in 0 .. N : i # 0 => i \in 1 .. N
  OBVIOUS
<1>7. f = [i \in 0 .. N |-> IF i = 0 THEN 0 ELSE add[i][f[i - 1]]]
  BY <1>5, <1>6
<1> QED
  BY <1>5, <1>7

\* Voters in some order: at most 257 of them, with weights of 8 bits.
IsOrder(order) ==
    /\ Len(order) \in 0 .. 257 /\ DOMAIN order = 1 .. Len(order)
    /\ \A i \in 1 .. Len(order) : order[i].weight \in 0 .. 255

\* The bounds of an order, as numbers.
LEMMA OrderIs ==
    ASSUME NEW order, IsOrder(order)
    PROVE  /\ Len(order) \in Nat /\ Len(order) <= 257
           /\ DOMAIN order = 1 .. Len(order) /\ DOMAIN order \subseteq Nat
           /\ \A i \in 1 .. Len(order) : order[i].weight \in Nat /\ order[i].weight <= 255
<1>1. \A n \in 0 .. 257 : n \in Nat /\ n <= 257
  OBVIOUS
<1>2. \A n \in 0 .. 255 : n \in Nat /\ n <= 255
  OBVIOUS
<1>3. \A n \in Nat : 1 .. n \subseteq Nat
  OBVIOUS
<1>4. Len(order) \in Nat /\ Len(order) <= 257 /\ DOMAIN order = 1 .. Len(order)
  BY <1>1, Zenon DEF IsOrder
<1>5. \A i \in 1 .. Len(order) : order[i].weight \in Nat /\ order[i].weight <= 255
  BY <1>2, Zenon DEF IsOrder
<1>6. DOMAIN order \subseteq Nat
  BY <1>3, <1>4, Zenon
<1> QED
  BY <1>4, <1>5, <1>6

\* The sum of the weights, voter by voter.
LEMMA WeightStep ==
    ASSUME NEW order, IsOrder(order)
    PROVE  /\ Weight(order, 0) = 0
           /\ \A i \in 1 .. Len(order) :
                  Weight(order, i) = Weight(order, i - 1) + order[i].weight
<1> DEFINE N == Len(order)
           Plus(x, i) == x + order[i].weight
           Is(sum) == sum = [i \in 0 .. N |-> IF i = 0 THEN 0 ELSE Plus(sum[i - 1], i)]
           Sum == CHOOSE sum : Is(sum)
           add == [i \in 1 .. N |-> [x \in Nat |-> Plus(x, i)]]
<1>1. \A n : Weight(order, n) = Sum[n]
  BY DEF Weight
<1> HIDE DEF N, Sum, add
<1>2. N \in Nat /\ \A i \in 1 .. N : order[i].weight \in Nat
  BY OrderIs, Zenon DEF N
<1> USE DEF Sum, add
<1>3. add \in [1 .. N -> [Nat -> Nat]]
  BY <1>2
<1>4. \A i \in 1 .. N : \A x \in Nat : add[i][x] = Plus(x, i)
  OBVIOUS
<1> HIDE DEF add, Plus
<1>5. PICK f \in [0 .. N -> Nat] : f = [i \in 0 .. N |-> IF i = 0 THEN 0 ELSE add[i][f[i - 1]]]
  BY <1>2, <1>3, Recursion
<1>6. \A i \in 0 .. N : i # 0 => i \in 1 .. N /\ i - 1 \in 0 .. N /\ f[i - 1] \in Nat
  <2>1. \A i \in 0 .. N : i # 0 => i \in 1 .. N /\ i - 1 \in 0 .. N
    BY <1>2
  <2> QED
    BY <1>5, <2>1
<1>7. Is(f)
  <2> HIDE DEF Sum
  <2> QED
    BY <1>4, <1>5, <1>6
<1>8. Is(Sum)
  <2> HIDE DEF Is
  <2> QED
    BY <1>7
<1> HIDE DEF Sum
<1>9. Sum[0] = 0 /\ \A i \in 1 .. N : Sum[i] = Plus(Sum[i - 1], i)
  <2>1. 0 \in 0 .. N /\ \A i \in 1 .. N : i \in 0 .. N /\ i # 0
    BY <1>2
  <2>2. \A i \in 0 .. N : Sum[i] = IF i = 0 THEN 0 ELSE Plus(Sum[i - 1], i)
    BY <1>8
  <2> QED
    BY <2>1, <2>2
<1> QED
  BY <1>1, <1>9 DEF N, Plus

\* The sum that the code keeps, in 16 bits, voter by voter.
LEMMA AccumulatedStep ==
    ASSUME NEW order, IsOrder(order)
    PROVE  /\ AccumulatedWeight(order, 0) = 0
           /\ \A i \in 1 .. Len(order) :
                  AccumulatedWeight(order, i) =
                      (AccumulatedWeight(order, i - 1) + order[i].weight) % 65536
<1> DEFINE N == Len(order)
           Plus(x, i) == (x + order[i].weight) % 65536
           Is(sum) == sum = [i \in 0 .. N |-> IF i = 0 THEN 0 ELSE Plus(sum[i - 1], i)]
           Sum == CHOOSE sum : Is(sum)
           add == [i \in 1 .. N |-> [x \in Nat |-> Plus(x, i)]]
<1>1. \A n : AccumulatedWeight(order, n) = Sum[n]
  BY DEF AccumulatedWeight
<1> HIDE DEF N, Sum, add
<1>2. N \in Nat /\ \A i \in 1 .. N : order[i].weight \in Nat
  BY OrderIs, Zenon DEF N
<1> USE DEF Sum, add
<1>3. add \in [1 .. N -> [Nat -> Nat]]
  BY <1>2
<1>4. \A i \in 1 .. N : \A x \in Nat : add[i][x] = Plus(x, i)
  OBVIOUS
<1> HIDE DEF add, Plus
<1>5. PICK f \in [0 .. N -> Nat] : f = [i \in 0 .. N |-> IF i = 0 THEN 0 ELSE add[i][f[i - 1]]]
  BY <1>2, <1>3, Recursion
<1>6. \A i \in 0 .. N : i # 0 => i \in 1 .. N /\ i - 1 \in 0 .. N /\ f[i - 1] \in Nat
  <2>1. \A i \in 0 .. N : i # 0 => i \in 1 .. N /\ i - 1 \in 0 .. N
    BY <1>2
  <2> QED
    BY <1>5, <2>1
<1>7. Is(f)
  <2> HIDE DEF Sum
  <2> QED
    BY <1>4, <1>5, <1>6
<1>8. Is(Sum)
  <2> HIDE DEF Is
  <2> QED
    BY <1>7
<1> HIDE DEF Sum
<1>9. Sum[0] = 0 /\ \A i \in 1 .. N : Sum[i] = Plus(Sum[i - 1], i)
  <2>1. 0 \in 0 .. N /\ \A i \in 1 .. N : i \in 0 .. N /\ i # 0
    BY <1>2
  <2>2. \A i \in 0 .. N : Sum[i] = IF i = 0 THEN 0 ELSE Plus(Sum[i - 1], i)
    BY <1>8
  <2> QED
    BY <2>1, <2>2
<1> QED
  BY <1>1, <1>9 DEF N, Plus

\* The 16 bits are enough: the weights of 8 bits add up to what they are.
LEMMA NoOverflow ==
    ASSUME NEW order, IsOrder(order)
    PROVE  \A n \in 0 .. Len(order) :
               Weight(order, n) \in Nat /\ AccumulatedWeight(order, n) = Weight(order, n)
<1> DEFINE N == Len(order)
           Right(n) == /\ Weight(order, n) \in Nat /\ Weight(order, n) <= 255 * n
                       /\ AccumulatedWeight(order, n) = Weight(order, n)
           S == {n \in Nat : n <= N => Right(n)}
<1>1. /\ N \in Nat /\ N <= 257
      /\ \A i \in 1 .. N : order[i].weight \in Nat /\ order[i].weight <= 255
  BY OrderIs, Zenon
<1>2. Weight(order, 0) = 0 /\ AccumulatedWeight(order, 0) = 0
  BY WeightStep, AccumulatedStep
<1>3. \A i \in 1 .. N : Weight(order, i) = Weight(order, i - 1) + order[i].weight
  BY WeightStep
<1>4. \A i \in 1 .. N :
          AccumulatedWeight(order, i) = (AccumulatedWeight(order, i - 1) + order[i].weight) % 65536
  BY AccumulatedStep
<1> HIDE DEF N
<1>5. 0 \in S
  BY <1>2
<1>6. ASSUME NEW n \in Nat, n \in S
      PROVE  n + 1 \in S
  <2> SUFFICES ASSUME n + 1 <= N
               PROVE  Right(n + 1)
    OBVIOUS
  <2> DEFINE w == order[n + 1].weight
             before == Weight(order, n)
  <2>1. n + 1 \in 1 .. N /\ n <= 256 /\ n <= N /\ (n + 1) - 1 = n
    BY <1>1
  <2>2. before \in Nat /\ before <= 255 * n /\ AccumulatedWeight(order, n) = before
    BY <1>6, <2>1
  <2>3. w \in Nat /\ w <= 255
    BY <1>1, <2>1
  <2>4. Weight(order, n + 1) = before + w
    BY <1>3, <2>1
  <2>5. AccumulatedWeight(order, n + 1) = (before + w) % 65536
    BY <1>4, <2>1, <2>2
  <2> HIDE DEF w, before
  <2>6. before + w \in Nat /\ before + w <= 255 * (n + 1) /\ before + w < 65536
    BY <2>1, <2>2, <2>3
  <2>7. \A x \in Nat : x < 65536 => x % 65536 = x
    OBVIOUS
  <2>8. (before + w) % 65536 = before + w
    BY <2>6, <2>7
  <2> QED
    BY <2>4, <2>5, <2>6, <2>8
<1> HIDE DEF S, Right
<1>7. \A n \in Nat : n <= N => Right(n)
  BY <1>5, <1>6, Induction DEF S
<1> QED
  BY <1>1, <1>7 DEF Right, N

\* The stage of the voter at a place: none up to the one that reaches the
\* threshold, and one more for each after it.
LEMMA StageIs ==
    ASSUME NEW order, IsOrder(order), NEW threshold \in Nat, NEW n \in 0 .. Len(order),
           NEW first \in 1 .. Len(order) + 1,
           \A j \in 1 .. first - 1 : j <= n => Weight(order, j) < threshold,
           first <= n => Weight(order, first) >= threshold
    PROVE  Stage(order, threshold, n) = IF n < first THEN 0 ELSE n - first + 1
<1> DEFINE Set == {i \in 1 .. n : \E j \in 1 .. i : AccumulatedWeight(order, j) >= threshold}
<1>0. Len(order) \in Nat
  BY OrderIs, Zenon
<1>1. \A j \in 1 .. n : AccumulatedWeight(order, j) = Weight(order, j) /\ Weight(order, j) \in Nat
  BY <1>0, NoOverflow
<1>2. Set = first .. n
  <2>1. ASSUME NEW i \in Set
        PROVE  i \in first .. n
    <3>1. PICK j \in 1 .. i : AccumulatedWeight(order, j) >= threshold
      OBVIOUS
    <3>2. j \in 1 .. n /\ i \in 1 .. n
      BY <1>0
    <3>3. Weight(order, j) >= threshold /\ Weight(order, j) \in Nat
      BY <1>1, <3>1, <3>2
    <3>4. ~(j <= first - 1)
      BY <3>2, <3>3
    <3> QED
      BY <3>1, <3>2, <3>4, <1>0
  <2>2. ASSUME NEW i \in first .. n
        PROVE  i \in Set
    <3>1. first <= n /\ first \in 1 .. i /\ i \in 1 .. n /\ first \in 1 .. n
      BY <1>0
    <3>2. AccumulatedWeight(order, first) >= threshold
      BY <1>1, <3>1
    <3> QED
      BY <3>1, <3>2
  <2> QED
    BY <2>1, <2>2
<1>3. Cardinality(first .. n) = IF first > n THEN 0 ELSE n - first + 1
  BY <1>0, FS_Interval
<1>4. Stage(order, threshold, n) = Cardinality(first .. n)
  BY <1>2 DEF Stage
<1> QED
  BY <1>0, <1>3, <1>4

\* Any order of the voters of a config is one, with each voter once.
LEMMA PermutedIs ==
    ASSUME VotersAssumption, NEW c \in Configs, NEW seed \in Seed(c)
    PROVE  /\ IsOrder(Permuted(c, seed)) /\ Len(Permuted(c, seed)) = Len(c.voters)
           /\ \A i, j \in DOMAIN Permuted(c, seed) :
                  Permuted(c, seed)[i].bless = Permuted(c, seed)[j].bless => i = j
           /\ \A i \in DOMAIN c.voters :
                  \E j \in DOMAIN Permuted(c, seed) : Permuted(c, seed)[j] = c.voters[i]
<1> DEFINE N == Len(c.voters)
           voters == c.voters
           order == Permuted(c, seed)
<1>1. /\ voters \in Seq(ToSet(voters)) /\ Len(voters) <= 257
      /\ \A i, j \in DOMAIN voters :
            voters[i].weight \in 0 .. 255 /\ (voters[i].bless = voters[j].bless => i = j)
  BY DEF VotersAssumption
<1>2. N \in Nat /\ N <= 257 /\ DOMAIN voters = 1 .. N
  BY <1>1
<1>3. /\ seed \in [1 .. N -> 1 .. N]
      /\ \A i, j \in 1 .. N : seed[i] = seed[j] => i = j
      /\ \A i \in 1 .. N : \E j \in 1 .. N : seed[j] = i
  BY <1>2 DEF Seed, Bijection, Injection, Surjection, IsInjective
<1>4. order = [i \in 1 .. N |-> voters[seed[i]]]
  BY <1>2 DEF Permuted
<1> HIDE DEF N, order, voters
<1>5. /\ DOMAIN order = 1 .. N
      /\ \A i \in 1 .. N : order[i] = voters[seed[i]] /\ seed[i] \in 1 .. N
  BY <1>3, <1>4
<1>6. Len(order) = N
  <2>1. \A i \in 1 .. N : order[i] \in ToSet(voters)
    BY <1>2, <1>5 DEF ToSet
  <2>2. order \in [1 .. N -> ToSet(voters)]
    BY <1>4, <2>1, <1>5
  <2>3. order \in Seq(ToSet(voters))
    BY <1>2, <2>2
  <2> QED
    BY <1>2, <1>5, <2>3
<1>7. \A i \in 1 .. N : order[i].weight \in 0 .. 255
  <2>1. \A i \in 1 .. N : voters[i].weight \in 0 .. 255
    BY <1>1, <1>2
  <2> QED
    BY <1>5, <2>1
<1>8. IsOrder(order)
  BY <1>2, <1>5, <1>6, <1>7 DEF IsOrder
<1>9. \A i, j \in 1 .. N : order[i].bless = order[j].bless => i = j
  <2> TAKE i, j \in 1 .. N
  <2> HAVE order[i].bless = order[j].bless
  <2>1. voters[seed[i]].bless = voters[seed[j]].bless
    BY <1>5
  <2>2. seed[i] = seed[j]
    BY <1>1, <1>2, <1>5, <2>1
  <2> QED
    BY <1>3, <2>2
<1>10. \A i \in 1 .. N : \E j \in 1 .. N : order[j] = voters[i]
  <2> TAKE i \in 1 .. N
  <2>1. PICK j \in 1 .. N : seed[j] = i
    BY <1>3
  <2> QED
    BY <1>5, <2>1
<1> QED
  BY <1>2, <1>5, <1>6, <1>8, <1>9, <1>10 DEF order, N, voters

\* In an order there is a first voter with whom the threshold is reached, or all
\* of them are too few.
LEMMA FirstThatReaches ==
    ASSUME NEW order, IsOrder(order), NEW threshold \in Nat \ {0}
    PROVE  \E first \in 1 .. Len(order) + 1 :
               /\ \A j \in 0 .. first - 1 : Weight(order, j) < threshold
               /\ first <= Len(order) => Weight(order, first) >= threshold
<1> DEFINE N == Len(order)
           Reach == {j \in 1 .. N : Weight(order, j) >= threshold} \cup {N + 1}
<1>1. N \in Nat
  BY OrderIs, Zenon
<1>2. \A j \in 0 .. N : Weight(order, j) \in Nat
  BY NoOverflow
<1>3. Weight(order, 0) = 0
  BY WeightStep
<1> HIDE DEF N
<1>4. PICK first \in Reach : \A j \in Reach : first <= j
  <2>1. Reach \in SUBSET Nat /\ Reach # {}
    BY <1>1
  <2> HIDE DEF Reach
  <2> QED
    BY <2>1, Least
<1>5. first \in 1 .. N + 1 /\ first <= N => Weight(order, first) >= threshold
  BY <1>1, <1>4
<1>6. ASSUME NEW j \in 0 .. first - 1
      PROVE  Weight(order, j) < threshold
  <2>1. CASE j = 0
    BY <1>3, <2>1
  <2>2. CASE j # 0
    <3>1. j \in 1 .. N /\ j \in 0 .. N /\ ~(first <= j)
      BY <1>1, <1>4, <2>2
    <3>2. j \notin Reach
      BY <1>4, <3>1
    <3> QED
      BY <1>2, <3>1, <3>2
  <2> QED
    BY <2>1, <2>2
<1>7. first \in 1 .. N + 1
  BY <1>1, <1>4
<1> QED
  BY <1>5, <1>6, <1>7 DEF N

\* A voter of a config has a delay, whatever the order.
LEMMA DelayOfVoter ==
    ASSUME NEW c, NEW seed, NEW address, NEW i \in DOMAIN Permuted(c, seed),
           IsOrder(Permuted(c, seed)), Permuted(c, seed)[i].bless = address
    PROVE  /\ Delay(address, c, seed) # NoDelay
           /\ (\A j \in DOMAIN Permuted(c, seed) : Permuted(c, seed)[j].bless = address => j = i)
              => Delay(address, c, seed) = Stage(Permuted(c, seed), c.threshold, i - 1)
<1> DEFINE order == Permuted(c, seed)
           Found == {j \in DOMAIN order : order[j].bless = address}
           place == CHOOSE j \in Found : \A k \in Found : j <= k
<1>1. i \in Found
  OBVIOUS
<1>2. Delay(address, c, seed) = Stage(order, c.threshold, place - 1)
  BY <1>1 DEF Delay
<1>3. Found \in SUBSET Nat
  <2>1. DOMAIN order \subseteq Nat
    BY OrderIs, Zenon
  <2> QED
    BY <2>1
<1> HIDE DEF order, Found
<1>4. place \in Found
  BY <1>1, <1>3, Least
<1>5. place \in Nat
  BY <1>3, <1>4
<1> HIDE DEF place
<1>6. Stage(order, c.threshold, place - 1) \in Nat
  <2> DEFINE Set == {j \in 1 .. place - 1 :
                        \E k \in 1 .. j : AccumulatedWeight(order, k) >= c.threshold}
  <2>1. IsFiniteSet(1 .. place - 1)
    BY <1>5, FS_Interval
  <2>2. Cardinality(Set) \in Nat
    BY <2>1, FS_Subset, FS_CardinalityType
  <2> QED
    BY <2>2 DEF Stage
<1>7. (\A j \in DOMAIN order : order[j].bless = address => j = i) => place = i
  BY <1>4 DEF Found
<1>8. Delay(address, c, seed) # NoDelay
  BY <1>2, <1>6 DEF NoDelay
<1> QED
  BY <1>2, <1>7, <1>8 DEF order

\* What VotersTakeTurns says of the voters in an order.
LEMMA Turns ==
    ASSUME VotersAssumption, NEW c \in Configs, NEW seed \in Seed(c)
    PROVE  LET order == Permuted(c, seed)
               D(i) == Delay(order[i].bless, c, seed)
               n == Cardinality({i \in DOMAIN order : D(i) = 0})
           IN /\ n = Len(order) \/ Weight(order, n) >= c.threshold
              /\ n > 0 => Weight(order, n - 1) < c.threshold
              /\ \A i \in DOMAIN order : D(i) = IF i <= n THEN 0 ELSE i - n
<1> DEFINE order == Permuted(c, seed)
           threshold == c.threshold
           N == Len(order)
           D(i) == Delay(order[i].bless, c, seed)
           n == Cardinality({i \in DOMAIN order : D(i) = 0})
<1>1. IsOrder(order) /\ \A i, j \in DOMAIN order : order[i].bless = order[j].bless => i = j
  BY PermutedIs
<1>2. threshold \in Nat \ {0}
  BY DEF VotersAssumption
<1>3. ASSUME NEW i \in DOMAIN order
      PROVE  D(i) = Stage(order, threshold, i - 1)
  BY <1>1, DelayOfVoter
<1>4. N \in Nat /\ DOMAIN order = 1 .. N
  BY <1>1, OrderIs, Zenon
<1> HIDE DEF order, threshold, D
<1>5. PICK first \in 1 .. N + 1 :
          /\ \A j \in 0 .. first - 1 : Weight(order, j) < threshold
          /\ first <= N => Weight(order, first) >= threshold
  BY <1>1, <1>2, FirstThatReaches
<1>6. ASSUME NEW i \in 1 .. N
      PROVE  D(i) = IF i <= first THEN 0 ELSE i - first
  <2>1. i - 1 \in 0 .. N
    BY <1>4
  <2>2. Stage(order, threshold, i - 1) = IF i - 1 < first THEN 0 ELSE (i - 1) - first + 1
    <3>1. \A j \in 1 .. first - 1 : j <= i - 1 => Weight(order, j) < threshold
      BY <1>5
    <3>2. first <= i - 1 => Weight(order, first) >= threshold
      BY <1>4, <1>5
    <3> DEFINE m == i - 1
    <3> HIDE DEF m
    <3>3. m \in 0 .. Len(order) /\ first \in 1 .. Len(order) + 1
      BY <2>1 DEF m
    <3>4. \A j \in 1 .. first - 1 : j <= m => Weight(order, j) < threshold
      BY <3>1 DEF m
    <3>5. first <= m => Weight(order, first) >= threshold
      BY <3>2 DEF m
    <3> HIDE DEF N
    <3>6. Stage(order, threshold, m) = IF m < first THEN 0 ELSE m - first + 1
      BY <1>1, <1>2, <3>3, <3>4, <3>5, StageIs
    <3> QED
      BY <3>6 DEF m
  <2>3. D(i) = Stage(order, threshold, i - 1)
    BY <1>3, <1>4
  <2> QED
    BY <1>4, <2>2, <2>3
<1> DEFINE last == IF first <= N THEN first ELSE N
<1> HIDE DEF N
<1>7. last \in 0 .. N /\ (last = N \/ last = first) /\ last <= first
      /\ \A i \in 1 .. N : i <= first <=> i <= last
  BY <1>4, <1>5
<1>8. n = last
  <2>1. {i \in DOMAIN order : D(i) = 0} = 1 .. last
    <3>1. \A i \in 1 .. N : D(i) = 0 <=> i <= first
      BY <1>4, <1>6
    <3>2. \A i \in 1 .. N : D(i) = 0 <=> i <= last
      BY <1>7, <3>1
    <3> HIDE DEF last
    <3> QED
      BY <1>4, <1>7, <3>2
  <2>2. Cardinality(1 .. last) = last
    BY <1>4, <1>7, FS_Interval
  <2> QED
    BY <2>1, <2>2
<1>9. last = N \/ Weight(order, last) >= threshold
  BY <1>4, <1>5
<1>10. last > 0 => Weight(order, last - 1) < threshold
  BY <1>4, <1>5
<1>11. \A i \in 1 .. N : D(i) = IF i <= last THEN 0 ELSE i - last
  BY <1>4, <1>5, <1>6
<1> HIDE DEF n, last
<1>12. /\ n = N \/ Weight(order, n) >= threshold
       /\ n > 0 => Weight(order, n - 1) < threshold
       /\ \A i \in DOMAIN order : D(i) = IF i <= n THEN 0 ELSE i - n
  BY <1>4, <1>8, <1>9, <1>10, <1>11
<1> QED
  BY <1>12 DEF n, N, order, threshold, D

\* A config that was admitted has voters that take turns, and the node among them.
LEMMA VotersServe ==
    ASSUME VotersAssumption, VotersInv
    PROVE  VotersTakeTurns
<1> SUFFICES ASSUME phase = "spawn", config.lanes # {}
             PROVE  VotersTakeTurns
  BY DEF VotersTakeTurns
<1>1. onchain \in Configs
  BY DEF VotersInv
<1>2. ASSUME Mode # "Passive", NEW seed \in Seed(onchain)
      PROVE  Delay(Me.bless, onchain, seed) # NoDelay
  <2>1. PICK i \in DOMAIN onchain.voters : onchain.voters[i].bless = Me.bless
    BY <1>2 DEF VotersInv, Votes
  <2>2. PICK j \in DOMAIN Permuted(onchain, seed) :
            Permuted(onchain, seed)[j] = onchain.voters[i]
    BY <1>1, <1>2, <2>1, PermutedIs
  <2>3. IsOrder(Permuted(onchain, seed))
    BY <1>1, <1>2, PermutedIs
  <2>4. Permuted(onchain, seed)[j].bless = Me.bless
    BY <2>1, <2>2
  <2> QED
    BY <2>3, <2>4, DelayOfVoter
<1>3. ASSUME NEW seed \in Seed(onchain)
      PROVE  LET order == Permuted(onchain, seed)
                 D(i) == Delay(order[i].bless, onchain, seed)
                 n == Cardinality({i \in DOMAIN order : D(i) = 0})
             IN /\ n = Len(order) \/ Weight(order, n) >= onchain.threshold
                /\ n > 0 => Weight(order, n - 1) < onchain.threshold
                /\ \A i \in DOMAIN order : D(i) = IF i <= n THEN 0 ELSE i - n
  BY <1>1, Turns
<1> QED
  BY <1>2, <1>3, Zenon DEF VotersTakeTurns

\* Whichever config was discovered, and however its voters are shuffled: they
\* take turns, and the node has one.
THEOREM TurnsAlwaysTaken == NodeSpec => []VotersTakeTurns
<1>1. NodeInv => VotersTakeTurns
  BY VotersAssumption, VotersServe DEF NodeInv
<1> QED
  BY <1>1, NodeInvariance, PTL

-----------------------------------------------------------------------------
(***************************************************************************)
(* Second, TxSender: its safety, for every number of servers and all       *)
(* limits.                                                                 *)
(***************************************************************************)
-----------------------------------------------------------------------------
(***************************************************************************)
(* The count at the tag "pending".                                         *)
(***************************************************************************)
\* The first nonce that is missing exists, and comes after all those before it.
LEMMA PendingIsNonce ==
    ASSUME latest \in Nat, pool \subseteq Nat, IsFiniteSet(pool)
    PROVE  Pending \in Nat /\ Pending \notin pool /\ latest .. (Pending - 1) \subseteq pool
<1> DEFINE c == Cardinality(pool)
           missing == (latest .. (latest + c)) \ pool
<1>1. c \in Nat BY FS_CardinalityType
<1>2. missing # {}
  <2>1. SUFFICES ASSUME latest .. (latest + c) \subseteq pool PROVE FALSE OBVIOUS
  <2>2. Cardinality(latest .. (latest + c)) = c + 1 BY <1>1, FS_Interval
  <2>3. Cardinality(latest .. (latest + c)) <= c BY <2>1, FS_Subset
  <2> QED BY <1>1, <2>2, <2>3
<1>3. missing \in SUBSET Nat BY <1>1
<1>4. PICK n \in missing : \A m \in missing : n <= m
  <2> HIDE DEF missing
  <2> QED BY <1>2, <1>3, Least
<1>5. n \in latest .. (latest + c) /\ n \notin pool OBVIOUS
<1>6. latest .. (n - 1) \subseteq pool BY <1>1, <1>4, <1>5
<1>7. /\ Pending \in latest .. (latest + c) /\ Pending \notin pool
      /\ latest .. (Pending - 1) \subseteq pool
  BY <1>5, <1>6 DEF Pending
<1> QED BY <1>1, <1>7

\* Without a gap it is the nonce after the last one.
LEMMA PendingIsNext ==
    ASSUME latest \in Nat, NEW p \in Nat, latest <= p, pool = latest .. (p - 1)
    PROVE  Pending = p
<1>1. IsFiniteSet(pool) BY FS_Interval
<1>2. /\ Pending \in Nat /\ Pending \notin pool /\ latest .. (Pending - 1) \subseteq pool
      /\ Pending >= latest
  <2>1. Cardinality(pool) = p - latest
    <3>1. Cardinality(latest .. (p - 1)) = IF latest > p - 1 THEN 0 ELSE (p - 1) - latest + 1
      BY p - 1 \in Int, latest \in Int, FS_Interval
    <3> QED BY <3>1
  <2>2. p \in latest .. (latest + Cardinality(pool)) BY <2>1
  <2>3. p \notin pool /\ latest .. (p - 1) \subseteq pool OBVIOUS
  <2>4. /\ Pending \in latest .. (latest + Cardinality(pool)) /\ Pending \notin pool
        /\ latest .. (Pending - 1) \subseteq pool
    BY <2>2, <2>3 DEF Pending
  <2> QED BY <2>1, <2>4
<1>3. ~(Pending < p) BY <1>2
<1>4. ~(Pending > p)
  <2>1. SUFFICES ASSUME Pending > p PROVE FALSE OBVIOUS
  <2>2. p \in latest .. (Pending - 1) BY <1>2, <2>1
  <2>3. p \in pool BY <1>2, <2>2
  <2> QED BY <2>3
<1> QED BY <1>2, <1>3, <1>4

-----------------------------------------------------------------------------
(***************************************************************************)
(* Types.                                                                  *)
(***************************************************************************)
LEMMA InitTypes == Init => TypeOK
<1>1. Init => IsFiniteSet(pool) BY FS_EmptySet DEF Init
<1>2. /\ MaxFaults \in Nat /\ MaxRestarts \in Nat /\ MaxBlocking \in Nat /\ Stall \in Nat
      /\ Servers \in Nat \ {0} /\ MaxAttempt \in Nat /\ MinWait \in Nat
  BY TxSenderAssumption, JsonRpcAssumption DEF MaxAttempt
<1>3. SUFFICES ASSUME Init PROVE TypeOK OBVIOUS
<1>4. reliable \in BOOLEAN /\ rested \in BOOLEAN /\ known \in BOOLEAN /\ heard \in BOOLEAN
  BY <1>3, Zenon DEF Init
<1>5. /\ latest \in Nat /\ pool \subseteq Nat /\ faults \in 0 .. MaxFaults
      /\ nonce \in Nat \cup {None} /\ previous \in Nat \cup {None} /\ stalled \in 0 .. (Stall + 1)
      /\ pc \in {"idle", "latest", "pending", "estimate", "raw", "recount"}
      /\ age \in 0 .. MaxBlocking /\ count \in Nat /\ use \in Nat /\ restarts \in 0 .. MaxRestarts
  BY <1>2, <1>3 DEF Init
<1>6. /\ server \in 0 .. (Servers - 1) /\ attempt \in 0 .. MaxAttempt /\ best \in Answer
      /\ waited \in 0 .. MinWait /\ asked \subseteq 0 .. (Servers - 1) /\ late \subseteq Nat
  BY <1>2, <1>3 DEF Init, Answer
<1> QED BY <1>1, <1>3, <1>4, <1>5, <1>6 DEF TypeOK

LEMMA CallTypes ==
    ASSUME TypeOK, EndCall
    PROVE  /\ server' \in 0 .. (Servers - 1) /\ attempt' \in 0 .. MaxAttempt /\ best' \in Answer
           /\ waited' \in 0 .. MinWait /\ asked' \subseteq 0 .. (Servers - 1)
BY JsonRpcAssumption DEF EndCall, Answer, MaxAttempt

LEMMA ReturnTypes ==
    ASSUME TypeOK, Return, UNCHANGED <<latest, faults, reliable>>,
           pool' \subseteq Nat, IsFiniteSet(pool'), nonce' \in Nat \cup {None},
           previous' \in Nat \cup {None}, stalled' \in 0 .. (Stall + 1),
           restarts' \in 0 .. MaxRestarts, heard' \in BOOLEAN, late' \subseteq Nat
    PROVE  TypeOK'
<1>1. EndCall BY DEF Return
<1>2. rested' \in BOOLEAN /\ known' \in BOOLEAN BY Zenon DEF Return
<1>3. MaxBlocking \in Nat BY TxSenderAssumption
<1>4. age' \in 0 .. MaxBlocking /\ count' \in Nat /\ use' \in Nat /\ pc' = "idle" BY <1>3 DEF Return
<1> QED BY <1>1, <1>2, <1>4, CallTypes DEF TypeOK

LEMMA AgainTypes ==
    ASSUME TypeOK, NEW next \in {"latest", "recount"}, Again(next),
           UNCHANGED <<latest, faults, reliable, previous, stalled, restarts>>,
           pool' \subseteq Nat, IsFiniteSet(pool'), nonce' \in Nat \cup {None},
           heard' \in BOOLEAN, late' \subseteq Nat
    PROVE  TypeOK'
<1>1. EndCall BY DEF Again
<1> QED BY <1>1, CallTypes DEF Again, TypeOK, call

\* What the account and the environment do.
LEMMA AccountTypes ==
    ASSUME TypeOK, Mine \/ Forget \/ Reorg \/ Stabilize \/ Tick
    PROVE  TypeOK'
<1> USE TxSenderAssumption, JsonRpcAssumption
<1>1. CASE Mine
  <2>1. IsFiniteSet(pool \ {latest}) BY FS_RemoveElement DEF TypeOK
  <2> QED BY <1>1, <2>1 DEF Mine, TypeOK, memory, call, rpc, history, sent
<1>2. CASE Forget
  <2>1. PICK n \in pool : pool' = pool \ {n} BY <1>2 DEF Forget
  <2>2. IsFiniteSet(pool') BY <2>1, FS_RemoveElement DEF TypeOK
  <2> QED BY <1>2, <2>1, <2>2 DEF Forget, TypeOK, memory, call, rpc, history, sent
<1>3. CASE Reorg
  <2>1. IsFiniteSet(pool \cup {latest - 1}) /\ IsFiniteSet(pool) BY FS_AddElement DEF TypeOK
  <2> QED BY <1>3, <2>1 DEF Reorg, TypeOK, memory, call, rpc, history, sent
<1>4. CASE Stabilize
  BY <1>4 DEF Stabilize, TypeOK, memory, call, rpc, history, sent
<1>5. CASE Tick
  BY <1>5 DEF Tick, Wait, TypeOK, account, history, sent
<1> QED BY <1>1, <1>2, <1>3, <1>4, <1>5

\* A server takes the transaction or not.
LEMMA PostedTypes ==
    ASSUME TypeOK, NEW answer \in Answer, NEW knows \in BOOLEAN, Posted(answer, knows)
    PROVE  /\ pool' \subseteq Nat /\ IsFiniteSet(pool') /\ Better(best, answer) \in Answer
           /\ heard' \in BOOLEAN /\ late' \subseteq Nat
<1>1. pool' \in {pool, pool \cup {use}} BY DEF Posted, Treated, Taken
<1>2. IsFiniteSet(pool \cup {use}) /\ IsFiniteSet(pool) BY FS_AddElement DEF TypeOK
<1>3. heard' = heard \/ heard' = (heard \/ answer = "good") BY DEF Posted, Treated, Taken, sent
<1>4. heard' \in BOOLEAN BY <1>3, Zenon DEF TypeOK
<1>5. late' \in {late, late \cup {use}} BY DEF Posted, Treated, Taken, sent
<1> QED BY <1>1, <1>2, <1>4, <1>5 DEF TypeOK, Better

\* The last server was asked: the call of send goes on or returns.
LEMMA LastTypes ==
    ASSUME TypeOK, NEW answer \in Answer, NEW knows \in BOOLEAN, NEW result,
           LastAttempt(answer, knows, result), nonce' \in Nat \cup {None},
           Return \/ Again("recount")
    PROVE  TypeOK'
<1>1. Posted(answer, knows) BY DEF LastAttempt
<1>2. heard' \in BOOLEAN /\ late' \subseteq Nat BY <1>1, PostedTypes
<1>3. UNCHANGED <<latest, faults, reliable, previous, stalled, restarts>> BY <1>1 DEF Posted
<1>4. /\ restarts' \in 0 .. MaxRestarts
      /\ previous' \in Nat \cup {None} /\ stalled' \in 0 .. (Stall + 1)
  BY <1>3 DEF TypeOK
<1> QED BY <1>1, <1>2, <1>3, <1>4, PostedTypes, ReturnTypes, AgainTypes
LEMMA SendTypes ==
    ASSUME TypeOK, Send
    PROVE  TypeOK'
<1> USE TxSenderAssumption, JsonRpcAssumption
<1>1. CASE CountError
  BY <1>1, ReturnTypes DEF CountError, TypeOK, account, memory, sent
<1>2. CASE ReadLatest
  BY <1>2 DEF ReadLatest, TypeOK, account, memory, rpc, history, sent
<1>3. CASE ReadPending
  <2>1. nonce' \in Nat \cup {None} BY <1>3 DEF ReadPending, TrustedNonce, TypeOK
  <2>2. previous' \in Nat \cup {None} /\ stalled' \in 0 .. (Stall + 1)
    BY <1>3 DEF ReadPending, TypeOK
  <2>3. pc' \in {"latest", "estimate"} /\ use' \in Nat
    BY <1>3 DEF ReadPending, TrustedNonce, TypeOK, None
  <2> QED BY <1>3, <2>1, <2>2, <2>3 DEF ReadPending, TypeOK, account, rpc, history, sent
<1>4. CASE EstimateError
  <2>1. Return \/ Again("latest") BY <1>4 DEF EstimateError, RetryOrReturn
  <2> QED BY <1>4, <2>1, ReturnTypes, AgainTypes DEF EstimateError, TypeOK, account, memory, sent
<1>5. CASE Estimate
  BY <1>5 DEF Estimate, BeginCall, Answer, MaxAttempt, TypeOK, account, memory, call, history, sent
<1>6. CASE Recount
  <2>1. Pending \in Nat BY PendingIsNonce DEF TypeOK
  <2> QED BY <1>6, <2>1, AgainTypes DEF Recount, TypeOK, account, sent
<1>7. ASSUME NEW answer \in Answer, NEW knows \in BOOLEAN,
             \/ Post(answer, knows) \/ SendOk(answer, knows)
             \/ Refused(answer, knows) \/ SendError(answer, knows)
      PROVE  TypeOK'
  <2>1. CASE Post(answer, knows)
    <3>1. Posted(answer, knows) /\ NextServer BY <2>1 DEF Post
    <3>2. server' \in 0 .. (Servers - 1) /\ attempt' \in 0 .. MaxAttempt
      BY <3>1 DEF NextServer, MaxAttempt, TypeOK
    <3>3. asked' \subseteq 0 .. (Servers - 1) BY <2>1 DEF Post, TypeOK
    <3>4. best' \in Answer BY <2>1, <3>1, PostedTypes DEF Post
    <3>5. waited' \in 0 .. MinWait BY <3>1 DEF NextServer, TypeOK
    <3>6. UNCHANGED <<latest, faults, reliable, nonce, previous, stalled, pc, age, count, use, rested, restarts>>
      BY <2>1, <3>1 DEF Post, Posted, call
    <3>7. known' \in BOOLEAN BY <2>1 DEF Post
    <3> QED BY <3>1, <3>2, <3>3, <3>4, <3>5, <3>6, <3>7, PostedTypes DEF TypeOK
  <2>2. CASE SendOk(answer, knows)
    BY <2>2, LastTypes DEF SendOk, TypeOK
  <2>3. CASE Refused(answer, knows)
    BY <2>3, LastTypes DEF Refused, RetryOrReturn, TypeOK
  <2>4. CASE SendError(answer, knows)
    BY <2>4, LastTypes DEF SendError, TypeOK
  <2> QED BY <1>7, <2>1, <2>2, <2>3, <2>4
<1> QED BY <1>1, <1>2, <1>3, <1>4, <1>5, <1>6, <1>7 DEF Send

LEMMA NextTypes == TypeOK /\ [Next]_vars => TypeOK'
<1>1. SUFFICES ASSUME TypeOK, [Next]_vars PROVE TypeOK' OBVIOUS
<1>2. CASE Call
  <2>1. heard' \in BOOLEAN BY <1>2, Zenon DEF Call
  <2> QED BY <1>1, <1>2, <2>1, TxSenderAssumption DEF Call, TypeOK, account, memory, rpc
<1>3. CASE Restart
  BY <1>1, <1>3, TxSenderAssumption, ReturnTypes DEF Restart, TypeOK, account, sent
<1>4. CASE UNCHANGED vars
  <2>1. /\ account' = account /\ memory' = memory /\ call' = call /\ rpc' = rpc
        /\ history' = history /\ pc' = pc /\ rested' = rested /\ restarts' = restarts
    BY <1>4 DEF vars
  <2>2. /\ reliable' \in BOOLEAN /\ rested' \in BOOLEAN
        /\ known' \in BOOLEAN /\ heard' \in BOOLEAN
    BY <1>1, <2>1 DEF TypeOK, account, history, sent
  <2> QED BY <1>1, <2>1, <2>2 DEF TypeOK, account, memory, call, rpc, history, sent
<1> QED BY <1>1, <1>2, <1>3, <1>4, AccountTypes, SendTypes DEF Next

\* The state of the sender and of its account has its type.
THEOREM TypeCorrect == Spec => []TypeOK
BY InitTypes, NextTypes, PTL DEF Spec
-----------------------------------------------------------------------------
(***************************************************************************)
(* Every server is asked.                                                  *)
(***************************************************************************)
\* How many servers were asked since s was, if it was.
Since(s) == IF s < server THEN server - s ELSE server - s + Servers

\* While a transaction is sent, the servers that come before the next one were
\* asked, as many as there were attempts, and no answer was good; the nonce is
\* the sender's, if it has one.
RoundInv ==
    /\ pc \in {"estimate", "raw"} => nonce \in {None, use}
    /\ pc = "raw" => /\ attempt >= 1 /\ best # "good"
                     /\ \A s \in 0 .. (Servers - 1) : Since(s) < attempt => s \in asked

LEMMA Distance ==
    ASSUME NEW t \in 0 .. (Servers - 1), NEW s \in 0 .. (Servers - 1)
    PROVE  (IF s < t THEN t - s ELSE t - s + Servers) \in 1 .. Servers
BY JsonRpcAssumption

LEMMA NextServerSince ==
    ASSUME TypeOK, NextServer, NEW s \in 0 .. (Servers - 1)
    PROVE  Since(s)' = IF s = server THEN 1 ELSE Since(s) + 1
<1>1. Servers \in Nat \ {0} BY JsonRpcAssumption
<1>2. server \in 0 .. (Servers - 1) BY DEF TypeOK
<1>3. server' = IF server = Servers - 1 THEN 0 ELSE server + 1
  <2>1. server' = (server + 1) % Servers BY DEF NextServer
  <2>2. CASE server = Servers - 1
    <3>1. Servers % Servers = 0 BY <1>1
    <3> QED BY <1>1, <1>2, <2>1, <2>2, <3>1
  <2>3. CASE server # Servers - 1
    <3>1. server + 1 \in 0 .. (Servers - 1) BY <1>1, <1>2, <2>3
    <3>2. (server + 1) % Servers = server + 1 BY <1>1, <3>1
    <3> QED BY <2>1, <2>3, <3>2
  <2> QED BY <2>2, <2>3
<1> QED BY <1>1, <1>2, <1>3 DEF Since

LEMMA PostRound ==
    ASSUME TypeOK, RoundInv, NEW answer \in Answer, NEW knows \in BOOLEAN, Post(answer, knows)
    PROVE  RoundInv'
<1>1. /\ pc = "raw" /\ NextServer /\ asked' = asked \cup {server} /\ pc' = pc
      /\ nonce' = nonce /\ use' = use /\ best' = Better(best, answer)
      /\ ~EndsWith(Better(best, answer))
  BY DEF Post, Posted, call
<1>2. best' # "good" BY <1>1 DEF EndsWith, Faulty
<1>3. attempt' \in {attempt, attempt + 1} /\ attempt' <= attempt + 1 /\ attempt' >= 1
  BY <1>1 DEF NextServer, RoundInv, TypeOK
<1>4. ASSUME NEW s \in 0 .. (Servers - 1), Since(s)' < attempt'
      PROVE  s \in asked'
  <2>1. CASE s = server BY <1>1, <2>1
  <2>2. CASE s # server
    <3>1. Since(s) \in Int BY JsonRpcAssumption DEF Since, TypeOK
    <3>2. Since(s) + 1 < attempt' BY <1>1, <1>4, <2>2, NextServerSince
    <3>3. Since(s) < attempt BY <1>3, <3>1, <3>2, JsonRpcAssumption DEF TypeOK, MaxAttempt
    <3> QED BY <1>1, <3>3 DEF RoundInv
  <2> QED BY <2>1, <2>2
<1> QED BY <1>1, <1>2, <1>3, <1>4 DEF RoundInv

\* What does not concern the servers that are asked.
LEMMA RoundKept ==
    ASSUME RoundInv, UNCHANGED <<nonce, use, pc, server, attempt, best, asked>>
    PROVE  RoundInv'
BY DEF RoundInv, Since

LEMMA NextRound == TypeOK /\ RoundInv /\ [Next]_vars => RoundInv'
<1>1. SUFFICES ASSUME TypeOK, RoundInv, [Next]_vars PROVE RoundInv' OBVIOUS
<1>2. CASE Mine \/ Forget \/ Reorg \/ Stabilize \/ Tick \/ UNCHANGED vars
  <2>1. UNCHANGED <<nonce, use, pc, server, attempt, best, asked>>
    BY <1>2 DEF Mine, Forget, Reorg, Stabilize, Tick, Wait, vars, memory, call, rpc
  <2> QED BY <1>1, <2>1, RoundKept
<1>3. CASE Call \/ Restart \/ CountError \/ ReadLatest \/ EstimateError \/ Recount
  <2>1. pc' \notin {"estimate", "raw"}
    BY <1>3 DEF Call, Restart, CountError, ReadLatest, EstimateError, Recount, RetryOrReturn, Again, Return
  <2> QED BY <2>1 DEF RoundInv
<1>4. CASE ReadPending
  BY <1>4 DEF ReadPending, TrustedNonce, RoundInv
<1>5. CASE Estimate
  <2>1. /\ pc = "estimate" /\ attempt' = 1 /\ best' = "error" /\ nonce' = nonce /\ use' = use
        /\ server' \in 0 .. (Servers - 1)
    BY <1>5 DEF Estimate, BeginCall, memory, call
  <2>2. ASSUME NEW s \in 0 .. (Servers - 1) PROVE Since(s)' \in 1 .. Servers
    BY <2>1, Distance DEF Since
  <2> QED BY <1>1, <2>1, <2>2 DEF RoundInv
<1>6. ASSUME NEW answer \in Answer, NEW knows \in BOOLEAN,
             \/ Post(answer, knows) \/ SendOk(answer, knows)
             \/ Refused(answer, knows) \/ SendError(answer, knows)
      PROVE  RoundInv'
  <2>1. CASE SendOk(answer, knows) \/ Refused(answer, knows) \/ SendError(answer, knows)
    <3>1. pc' \in {"idle", "recount"}
      BY <2>1 DEF SendOk, Refused, SendError, RetryOrReturn, Again, Return
    <3> QED BY <3>1 DEF RoundInv
  <2> QED BY <1>1, <1>6, <2>1, PostRound
<1> QED BY <1>1, <1>2, <1>3, <1>4, <1>5, <1>6 DEF Next, Send

\* A transaction is given up only after every server was asked for it.
THEOREM EveryServerAsked == Spec => AsksEveryServer
<1> DEFINE GivenUp == pc = "raw" /\ pc' # "raw" /\ nonce' \in {None, nonce} /\ restarts' = restarts
           All == asked \cup {server} = 0 .. (Servers - 1)
<1>1. Init => RoundInv BY DEF Init, RoundInv
<1>2. TypeOK /\ RoundInv /\ [Next]_vars => [GivenUp => All]_vars
  <2>1. SUFFICES ASSUME TypeOK, RoundInv, Next, GivenUp PROVE All OBVIOUS
  <2>2. PICK answer \in Answer, knows \in BOOLEAN :
           SendOk(answer, knows) \/ Refused(answer, knows) \/ SendError(answer, knows)
    BY <2>1 DEF Next, Send, Mine, Forget, Reorg, Stabilize, Tick, Call, Restart, CountError, ReadLatest,
       ReadPending, EstimateError, Estimate, Recount, Post, TypeOK
  <2>3. ~SendOk(answer, knows)
    <3>1. SUFFICES ASSUME SendOk(answer, knows) PROVE FALSE OBVIOUS
    <3>2. nonce' = use + 1 /\ use \in Nat BY <2>1, <3>1 DEF SendOk, TypeOK
    <3> QED BY <2>1, <3>2 DEF RoundInv, None
  <2>4. PICK result : EndsWith(result) /\ Faulty(result) # 0
    BY <2>2, <2>3 DEF Refused, SendError, LastAttempt, Faulty
  <2>5. attempt >= Servers BY <2>4 DEF EndsWith, ExhaustedRetries, TriedAllServers
  <2>6. ASSUME NEW s \in 0 .. (Servers - 1), s # server PROVE s \in asked
    <3>1. Since(s) < Servers /\ Since(s) \in Int BY <2>1, <2>6, JsonRpcAssumption DEF Since, TypeOK
    <3>2. Since(s) < attempt BY <2>1, <2>5, <3>1, JsonRpcAssumption DEF Since, TypeOK, MaxAttempt
    <3> QED BY <2>1, <3>2 DEF RoundInv
  <2> QED BY <2>1, <2>6 DEF TypeOK
<1> QED BY <1>1, <1>2, TypeCorrect, NextRound, PTL DEF Spec, AsksEveryServer

-----------------------------------------------------------------------------
(***************************************************************************)
(* A request that is sent again.                                           *)
(***************************************************************************)
\* Until a call of send returns no server took a transaction and said so; one
\* that was taken after MAX_BLOCKING_TIME is the one that is being sent.
CopyInv ==
    pc # "idle" => /\ ~heard
                   /\ late # {} => ~CanRetry
                   /\ late \subseteq IF pc = "raw" THEN {use} ELSE {}

\* A good answer ends the call of the client: the call of send then returns.
LEMMA GoodAnswerEnds ==
    ASSUME RoundInv, NEW answer \in Answer, NEW knows \in BOOLEAN,
           Post(answer, knows) \/ Refused(answer, knows)
    PROVE  answer # "good"
<1>1. SUFFICES ASSUME answer = "good" PROVE FALSE OBVIOUS
<1>2. best # "good" BY DEF Post, Refused, LastAttempt, Posted, RoundInv
<1>3. Better(best, answer) = "good"
  BY <1>1, <1>2 DEF Better, Faulty, Post, Refused, LastAttempt, Posted, Answer
<1>4. EndsWith("good") BY DEF EndsWith, Faulty
<1> QED BY <1>3, <1>4 DEF Post, Refused, LastAttempt

LEMMA PostedCopies ==
    ASSUME CopyInv, NEW answer \in Answer, NEW knows \in BOOLEAN,
           Posted(answer, knows), answer # "good"
    PROVE  /\ ~heard' /\ late' \subseteq {use} /\ (late' # {} => ~CanRetry)
<1>1. pc = "raw" BY DEF Posted
<1>2. CASE UNCHANGED sent BY <1>1, <1>2 DEF CopyInv, sent
<1>3. CASE Taken(answer) BY <1>1, <1>3 DEF CopyInv, Taken
<1> QED BY <1>2, <1>3 DEF Posted, Treated

LEMMA NextCopies == TypeOK /\ RoundInv /\ CopyInv /\ [Next]_vars => CopyInv'
<1>1. SUFFICES ASSUME TypeOK, RoundInv, CopyInv, [Next]_vars PROVE CopyInv' OBVIOUS
<1>2. CASE Mine \/ Forget \/ Reorg \/ Stabilize \/ UNCHANGED vars
  <2>1. UNCHANGED <<pc, age, use, heard, late>>
    BY <1>2 DEF Mine, Forget, Reorg, Stabilize, vars, call, history, sent
  <2> QED BY <1>1, <2>1 DEF CopyInv, CanRetry
<1>3. CASE Tick
  <2>1. UNCHANGED <<pc, use, heard, late>> /\ (~CanRetry => age' = age)
    BY <1>3 DEF Tick, CanRetry, history, sent
  <2> QED BY <1>1, <2>1 DEF CopyInv, CanRetry
<1>4. CASE Call
  BY <1>4 DEF CopyInv, Call
<1>5. CASE ReadLatest \/ ReadPending \/ Estimate
  <2>1. UNCHANGED <<age, heard, late>> /\ pc \notin {"idle", "raw"}
    BY <1>5 DEF ReadLatest, ReadPending, Estimate, call, history, sent
  <2> QED BY <1>1, <2>1 DEF CopyInv
<1>6. CASE CountError \/ Restart
  BY <1>6 DEF CopyInv, CountError, Restart, Return
<1>7. CASE EstimateError \/ Recount
  <2>1. CASE Return BY <2>1 DEF CopyInv, Return
  <2>2. CASE Again("latest")
    <3>1. /\ UNCHANGED <<age, heard, late>> /\ pc' = "latest" /\ pc \notin {"idle", "raw"}
      BY <1>7, <2>2 DEF EstimateError, Recount, Again, call, sent
    <3> QED BY <1>1, <3>1 DEF CopyInv
  <2> QED BY <1>7, <2>1, <2>2 DEF EstimateError, Recount, RetryOrReturn
<1>8. ASSUME NEW answer \in Answer, NEW knows \in BOOLEAN,
             \/ Post(answer, knows) \/ SendOk(answer, knows)
             \/ Refused(answer, knows) \/ SendError(answer, knows)
      PROVE  CopyInv'
  <2>1. CASE Post(answer, knows)
    <3>1. /\ Posted(answer, knows) /\ UNCHANGED <<pc, age, use>> /\ pc = "raw"
      BY <2>1 DEF Post, Posted, call
    <3> QED BY <1>1, <2>1, <3>1, GoodAnswerEnds, PostedCopies DEF CopyInv, CanRetry
  <2>2. CASE Refused(answer, knows)
    <3>1. Posted(answer, knows) BY <2>2 DEF Refused, LastAttempt
    <3>2. CASE Return BY <3>2 DEF CopyInv, Return
    <3>3. CASE CanRetry /\ Again("recount")
      <4>1. pc' = "recount" BY <3>3 DEF Again
      <4>2. ~heard' /\ late' = {} BY <1>1, <2>2, <3>1, <3>3, GoodAnswerEnds, PostedCopies
      <4> QED BY <4>1, <4>2 DEF CopyInv
    <3> QED BY <2>2, <3>2, <3>3 DEF Refused, RetryOrReturn
  <2>3. CASE SendOk(answer, knows) \/ SendError(answer, knows)
    BY <2>3 DEF CopyInv, SendOk, SendError, Return
  <2> QED BY <1>8, <2>1, <2>2, <2>3
<1> QED BY <1>1, <1>2, <1>3, <1>4, <1>5, <1>6, <1>7, <1>8 DEF Next, Send

\* A call of send puts its request on the chain again only as long as no server
\* that took it has said so, and never after a copy that was taken when the time
\* was over, wherever the client begins and whatever the other servers answer.
THEOREM CopiesAlwaysUnheard == Spec => CopiesAreUnheard
<1>1. Init => RoundInv /\ CopyInv BY DEF Init, RoundInv, CopyInv
<1>2. CopyInv /\ [Next]_vars =>
        [pc = "raw" /\ latest' = latest /\ use \in pool' \ pool => ~heard /\ late \subseteq {use}]_vars
  BY DEF CopyInv
<1> QED BY <1>1, <1>2, TypeCorrect, NextRound, NextCopies, PTL DEF Spec, CopiesAreUnheard

-----------------------------------------------------------------------------
(***************************************************************************)
(* The pool has no gap.                                                    *)
(***************************************************************************)
\* p is the next nonce of a pool without a gap, the sender's nonce is not
\* beyond it, and a transaction that takes it is within the limit.  The count
\* that the sender read may be outdated, but is then too low.
InOrder(p) ==
    /\ latest <= p /\ p <= latest + MaxInflight + 1 /\ pool = latest .. (p - 1)
    /\ nonce # None => nonce <= p
    /\ pc = "pending" => count <= latest
    /\ pc \in {"estimate", "raw"} => use <= p /\ (use = p => p <= latest + MaxInflight)

OrderInv == faults = 0 => \E p \in Nat : InOrder(p)

LEMMA OrderMoves ==
    ASSUME TypeOK, NEW p \in Nat, InOrder(p), Mine \/ Stabilize \/ Tick \/ Call \/ Restart
    PROVE  InOrder(p)'
<1> USE TxSenderAssumption DEF InOrder, TypeOK, None
<1>1. CASE Mine
  BY <1>1 DEF Mine, memory, call
<1>2. CASE Stabilize \/ Tick
  BY <1>2 DEF Stabilize, Tick, account, memory, call
<1>3. CASE Call
  BY <1>3 DEF Call, account, memory
<1>4. CASE Restart
  BY <1>4 DEF Restart, Return, account
<1> QED BY <1>1, <1>2, <1>3, <1>4

\* The counts are read: this is where the limit is tested.
LEMMA OrderReads ==
    ASSUME TypeOK, NEW p \in Nat, InOrder(p),
           CountError \/ ReadLatest \/ ReadPending \/ EstimateError \/ Estimate \/ Recount
    PROVE  InOrder(p)'
<1> USE TxSenderAssumption DEF InOrder, TypeOK, None
<1>1. Pending = p BY PendingIsNext
<1>2. CASE CountError \/ EstimateError
  BY <1>2 DEF CountError, EstimateError, RetryOrReturn, Again, Return, account, memory
<1>3. CASE ReadLatest
  BY <1>3 DEF ReadLatest, account, memory
<1>4. CASE ReadPending
  <2>1. nonce' = TrustedNonce /\ TrustedNonce \in {None, nonce} BY <1>4 DEF ReadPending, TrustedNonce
  <2>2. CASE TrustedNonce # None /\ TooManyInflight
    BY <1>4, <2>1, <2>2 DEF ReadPending, account
  <2>3. CASE TrustedNonce = None
    BY <1>4, <2>1, <2>3 DEF ReadPending, account
  <2>4. CASE TrustedNonce # None /\ ~TooManyInflight
    <3>1. p - count <= MaxInflight BY <1>1, <2>4 DEF TooManyInflight
    <3> QED BY <1>4, <2>1, <2>4, <3>1 DEF ReadPending, account
  <2> QED BY <2>2, <2>3, <2>4
<1>5. CASE Estimate
  BY <1>5 DEF Estimate, account, memory, call
<1>6. CASE Recount
  BY <1>1, <1>6 DEF Recount, Again, account, call
<1> QED BY <1>2, <1>3, <1>4, <1>5, <1>6

\* What a server makes of the transaction: the next nonce is p or p + 1.
LEMMA OrderTreats ==
    ASSUME TypeOK, NEW p \in Nat, InOrder(p),
           NEW answer \in Answer, NEW knows \in BOOLEAN, Posted(answer, knows)
    PROVE  \E q \in {p, p + 1} :
              /\ latest' <= q /\ q <= latest' + MaxInflight + 1 /\ pool' = latest' .. (q - 1)
              /\ p <= q /\ use <= q /\ (use = q => pool' = pool /\ q = p)
              /\ answer = "good" => use < q
<1> USE TxSenderAssumption DEF InOrder, TypeOK
<1>1. pc = "raw" /\ latest' = latest BY DEF Posted
<1>2. CASE pool' = pool /\ (answer = "good" => known /\ ~Free)
  BY <1>1, <1>2 DEF Free
<1>3. CASE pool' = pool \cup {use} /\ Free
  <2>1. use = p BY <1>1, <1>3 DEF Free
  <2>2. pool' = latest .. ((p + 1) - 1) BY <1>3, <2>1
  <2>3. p + 1 <= latest + MaxInflight + 1 /\ latest <= p /\ p \in Nat
    BY <1>1, <2>1 DEF Posted
  <2> WITNESS p + 1 \in {p, p + 1}
  <2>4. latest' <= p + 1 /\ p + 1 <= latest' + MaxInflight + 1 /\ p <= p + 1
    BY <1>1, <2>3
  <2>5. use < p + 1 /\ use # p + 1 BY <2>1, <2>3
  <2> QED BY <1>1, <2>1, <2>2, <2>4, <2>5
<1> QED BY <1>2, <1>3 DEF Posted, Treated, Taken
LEMMA OrderSends ==
    ASSUME TypeOK, RoundInv, NEW p \in Nat, InOrder(p),
           NEW answer \in Answer, NEW knows \in BOOLEAN,
           \/ Post(answer, knows) \/ SendOk(answer, knows)
           \/ Refused(answer, knows) \/ SendError(answer, knows)
    PROVE  \E q \in Nat : InOrder(q)'
<1>1. Posted(answer, knows) /\ pc = "raw" BY DEF Post, SendOk, Refused, SendError, LastAttempt, Posted
<1>2. PICK q \in {p, p + 1} :
         /\ latest' <= q /\ q <= latest' + MaxInflight + 1 /\ pool' = latest' .. (q - 1)
         /\ p <= q /\ use <= q /\ (use = q => pool' = pool /\ q = p)
         /\ answer = "good" => use < q
  BY <1>1, OrderTreats
<1>3. CASE Post(answer, knows)
  <2>1. pc' = pc /\ nonce' = nonce /\ use' = use /\ latest' = latest
    BY <1>3 DEF Post, Posted, call
  <2>2. nonce # None => nonce <= q BY <1>2 DEF InOrder, TypeOK, None
  <2>3. use = q => q <= latest + MaxInflight BY <1>1, <1>2 DEF InOrder
  <2> QED BY <1>1, <1>2, <2>1, <2>2, <2>3 DEF InOrder
<1>4. CASE SendOk(answer, knows)
  <2>1. answer = "good" BY <1>1, <1>4 DEF SendOk, LastAttempt, Better, RoundInv
  <2>2. nonce' = use + 1 /\ pc' = "idle" BY <1>4 DEF SendOk, Return
  <2>3. nonce' <= q BY <1>2, <2>1, <2>2 DEF TypeOK
  <2> QED BY <1>2, <2>2, <2>3 DEF InOrder
<1>5. CASE Refused(answer, knows) \/ SendError(answer, knows)
  <2>1. nonce' = nonce /\ pc' \in {"idle", "recount"}
    BY <1>5 DEF Refused, SendError, RetryOrReturn, Again, Return
  <2>2. nonce # None => nonce <= q BY <1>2 DEF InOrder, TypeOK, None
  <2> QED BY <1>2, <2>1, <2>2 DEF InOrder
<1> QED BY <1>3, <1>4, <1>5

LEMMA NextOrder == TypeOK /\ RoundInv /\ OrderInv /\ [Next]_vars => OrderInv'
<1>1. SUFFICES ASSUME TypeOK, RoundInv, OrderInv, [Next]_vars, faults' = 0
               PROVE  \E q \in Nat : InOrder(q)'
  BY DEF OrderInv
<1>2. ~Forget /\ ~Reorg BY <1>1 DEF Forget, Reorg, TypeOK
<1>3. faults = 0
  BY <1>1, <1>2 DEF Next, Send, Mine, Stabilize, Tick, Call, Restart, CountError, ReadLatest, ReadPending,
     EstimateError, Estimate, Recount, Post, SendOk, Refused, SendError, LastAttempt, Posted, vars, account
<1>4. PICK p \in Nat : InOrder(p) BY <1>1, <1>3 DEF OrderInv
<1>5. CASE UNCHANGED vars
  BY <1>4, <1>5 DEF vars, account, memory, call, InOrder
<1>6. CASE Next
  BY <1>1, <1>2, <1>4, <1>6, OrderMoves, OrderReads, OrderSends DEF Next, Send
<1> QED BY <1>1, <1>5, <1>6

\* While the servers forget and revert nothing, the pool has no gap and at most
\* MaxInflight + 1 transactions, whatever requests fail and however often the
\* process restarts.
THEOREM NoGap == Spec => []PoolInOrder
<1>1. Init => RoundInv BY DEF Init, RoundInv
<1>2. Init => OrderInv
  <2>1. SUFFICES ASSUME Init PROVE InOrder(0) BY DEF OrderInv
  <2> QED BY <2>1, TxSenderAssumption DEF Init, InOrder
<1>3. TypeOK /\ OrderInv => PoolInOrder
  <2>1. SUFFICES ASSUME TypeOK, NEW p \in Nat, InOrder(p)
                 PROVE  \E n \in 0 .. (MaxInflight + 1) : pool = latest .. (latest + n - 1)
    BY DEF OrderInv, PoolInOrder
  <2>2. p - latest \in 0 .. (MaxInflight + 1) /\ latest + (p - latest) - 1 = p - 1
    BY <2>1, TxSenderAssumption DEF InOrder, TypeOK
  <2> QED BY <2>1, <2>2 DEF InOrder
<1> QED BY <1>1, <1>2, <1>3, TypeCorrect, NextRound, NextOrder, PTL DEF Spec
=============================================================================
