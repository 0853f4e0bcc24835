----------------------------- MODULE CurseProofs -----------------------------
(***************************************************************************)
(* The two halves of a curse: the watch over an off-ramp that finds a      *)
(* reason for one (OffRampAnomaly), and the votes that follow from a       *)
(* reason (CurseVoting).  The two modules share no variable; the theorems  *)
(* of each are about its own specification.                                *)
(*                                                                         *)
(* First, that an off-ramp that works is never cursed, and that no id is   *)
(* dropped which was wrong and not known to be: for any number of messages *)
(* and executions, any delay and any freshness.                            *)
(***************************************************************************)
EXTENDS OffRampAnomaly, CurseVoting, SequenceTheorems, WellFoundedInduction, TLAPS

Event == [nr : SeqNr, id : Id, state : ExecutionState]
State == [done : SUBSET SeqNr, ids : [SeqNr -> Id \cup {NoId}], bad : SUBSET SeqNr]
Progress == [nr : Nat, time : Nat \cup {NoTime}]

TypeOK ==
    /\ honest \in BOOLEAN /\ now \in Nat /\ sent \in 0 .. MaxSeqNr
    /\ finalAt \in Seq(Nat) /\ Len(finalAt) <= sent
    /\ log \in Seq(Event) /\ fork \in Seq(Event) /\ reverted \subseteq SeqNr
    /\ srcTip \in Progress /\ srcStable \in Progress /\ srcUnstable \in Progress
    /\ seen \in 0 .. Len(log)
    /\ destStable \in State /\ destUnstable \in State /\ working \in State
    /\ cloned \in BOOLEAN /\ phase \in {"idle", "dest", "unstable"}
    /\ unstableNr \in Nat /\ unstableSynced \in BOOLEAN /\ stableSynced \in BOOLEAN
    /\ reapable \subseteq SeqNr /\ anomalies \subseteq SeqNr /\ taken \subseteq SeqNr

\* The executions, those that may be reverted at the end.
Events == log \o fork

-----------------------------------------------------------------------------
\* The message k has been final for Delay.
Old(k) == k \in DOMAIN finalAt /\ finalAt[k] + Delay <= now

\* p has the messages that became final before its time.
Knows(p) ==
    /\ p.time <= now
    /\ \A k \in DOMAIN finalAt : finalAt[k] < p.time => k <= p.nr

SourceInv ==
    /\ \A k \in DOMAIN finalAt : finalAt[k] <= now
    /\ Knows(srcTip) /\ Knows(srcUnstable)
    /\ srcTip.time # NoTime => srcUnstable.time <= srcTip.time

\* A state in which no event was out of order.
Clean(s) ==
    /\ s.bad = {}
    /\ \A k \in SeqNr : s.ids[k] # NoId => s.ids[k] = "right" /\ Old(k)

Right(e) == e.id = "right" /\ e.state \in {"Success", "Failure"} /\ Old(e.nr)

\* The executions of an off-ramp that works.
EventsInv ==
    /\ \A i \in DOMAIN Events : Right(Events[i])
    /\ \A i, j \in DOMAIN Events :
          i < j /\ Events[i].nr = Events[j].nr => Events[i].state # "Success"

StatesInv ==
    /\ Clean(destStable) /\ Clean(destUnstable) /\ Clean(working)
    /\ \A k \in destStable.done :
          \E i \in 1 .. seen : Events[i].nr = k /\ Events[i].state = "Success"

HonestInv == honest => EventsInv /\ StatesInv

\* What the detector has read of the source has all that the destination has.
DetectorInv ==
    honest /\ Delay > MaxFresh =>
        /\ phase = "dest" /\ unstableSynced =>
              \A k \in Executed : finalAt[k] < srcUnstable.time
        /\ phase = "unstable" /\ unstableSynced => \A k \in Executed : k <= unstableNr

AlarmInv == SourceInv /\ HonestInv /\ DetectorInv /\ NoFalseAlarm

-----------------------------------------------------------------------------
\* The first n of the events es say the same id of k; it is that of s, which
\* has the success, if it has no id of k but there is an event.
Agrees(s, k, es, n) ==
    \E d \in Id :
        /\ \A i \in 1 .. n : es[i].nr = k => es[i].id = d
        /\ s.ids[k] \in {NoId, d}
        /\ s.ids[k] = NoId => k \in s.done \/ \A i \in 1 .. n : es[i].nr # k
        /\ s.ids[k] # NoId => \E i \in 1 .. n : es[i].nr = k

\* s is the fold of the first n events, but for ids that were dropped.
Folds(s, es, n) == \A k \in SeqNr \ s.bad : Agrees(s, k, es, n)

\* There is an event with the right id of k, and none with a wrong one before.
SeenRight(k) ==
    \E j \in DOMAIN Events :
        Events[j].nr = k /\ \A i \in 1 .. j : Events[i].nr = k => Events[i].id = "right"

RightOrLeft(s) ==
    \A k \in SeqNr : s.ids[k] = "right" => k \in s.bad \/ k \in reverted \/ SeenRight(k)

RightOrKnown(k) ==
    \/ \A i \in 1 .. seen : log[i].nr = k => log[i].id = "right"
    \/ k \in anomalies \cup destStable.bad \cup reverted

ReapInv ==
    /\ Folds(destStable, Events, seen)
    /\ RightOrLeft(working) /\ RightOrLeft(destUnstable)
    /\ \A k \in reapable \cup taken : k \in destStable.done /\ RightOrKnown(k)
    /\ \A k \in destStable.done : destStable.ids[k] = NoId => RightOrKnown(k)

-----------------------------------------------------------------------------
(***************************************************************************)
(* Folds.  Induction is over sets of numbers: a set of them that has 0 and *)
(* is closed under the successor has all, as it would lack a least one.    *)
(***************************************************************************)
LEMMA Induction ==
    ASSUME NEW S, 0 \in S, \A i \in Nat : i \in S => i + 1 \in S
    PROVE  Nat \subseteq S
<1> SUFFICES ASSUME Nat \ S # {}
             PROVE  FALSE
  OBVIOUS
<1> DEFINE R == OpToRel(<, Nat)
<1>1. IsWellFoundedOn(R, Nat)
  BY NatLessThanWellFounded, Zenon DEF OpToRel
<1>2. PICK n \in Nat \ S : \A m \in Nat \ S : <<m, n>> \notin R
  BY <1>1, WFMin, Zenon
<1>3. \A m \in Nat \ S : ~(m < n)
  BY <1>2 DEF OpToRel
<1>4. n # 0 /\ n - 1 \in Nat /\ n - 1 < n
  OBVIOUS
<1>5. n - 1 \in S
  BY <1>3, <1>4
<1> QED
  BY <1>4, <1>5

\* The states that s goes through with the events es.
Trace(s, es) ==
    CHOOSE f : f = [i \in 0 .. Len(es) |-> IF i = 0 THEN s ELSE Updated(f[i - 1], es[i])]

LEMMA TraceStep ==
    ASSUME NEW s, NEW es, Len(es) \in Nat
    PROVE  Trace(s, es) =
               [i \in 0 .. Len(es) |->
                   IF i = 0 THEN s ELSE Updated(Trace(s, es)[i - 1], es[i])]
<1> DEFINE IsTrace(f, n) ==
               f = [i \in 0 .. n |-> IF i = 0 THEN s ELSE Updated(f[i - 1], es[i])]
           S == {n \in Nat : \E f : IsTrace(f, n)}
<1>1. 0 \in S
  <2>1. IsTrace([i \in 0 .. 0 |-> s], 0)
    OBVIOUS
  <2> QED
    BY <2>1
<1>2. \A n \in Nat : n \in S => n + 1 \in S
  <2> SUFFICES ASSUME NEW n \in Nat, NEW f, IsTrace(f, n)
               PROVE  \E g : IsTrace(g, n + 1)
    OBVIOUS
  <2> DEFINE g == [i \in 0 .. n + 1 |-> IF i = n + 1 THEN Updated(f[n], es[n + 1]) ELSE f[i]]
  <2>1. \A i \in 0 .. n + 1 : g[i] = IF i = 0 THEN s ELSE Updated(g[i - 1], es[i])
    OBVIOUS
  <2>2. IsTrace(g, n + 1)
    BY <2>1
  <2> QED
    BY <2>2
<1>3. Len(es) \in S
  <2> HIDE DEF S
  <2> QED
    BY <1>1, <1>2, Induction
<1> QED
  BY <1>3 DEF Trace

\* What holds of s and is kept by each event holds after the events.
LEMMA AfterInduction ==
    ASSUME NEW s, NEW es, Len(es) \in Nat, NEW G,
           <<0, s>> \in G,
           \A i \in 0 .. Len(es) - 1 : \A t :
               <<i, t>> \in G => <<i + 1, Updated(t, es[i + 1])>> \in G
    PROVE  <<Len(es), After(s, es)>> \in G
<1> DEFINE f == Trace(s, es)
           S == {n \in Nat : n <= Len(es) => <<n, f[n]>> \in G}
<1>1. /\ f[0] = s
      /\ \A i \in 0 .. Len(es) - 1 : f[i + 1] = Updated(f[i], es[i + 1])
  <2> HIDE DEF f
  <2>1. f = [i \in 0 .. Len(es) |-> IF i = 0 THEN s ELSE Updated(f[i - 1], es[i])]
    BY TraceStep DEF f
  <2>2. \A i \in 0 .. Len(es) : f[i] = IF i = 0 THEN s ELSE Updated(f[i - 1], es[i])
    BY <2>1
  <2> QED
    BY <2>2
<1>2. After(s, es) = f[Len(es)]
  BY DEF After, Trace
<1> HIDE DEF f
<1>3. 0 \in S
  BY <1>1
<1>4. \A n \in Nat : n \in S => n + 1 \in S
  BY <1>1
<1>5. Len(es) \in S
  <2> HIDE DEF S
  <2> QED
    BY <1>3, <1>4, Induction
<1> QED
  BY <1>2, <1>5

LEMMA UpdatedType ==
    ASSUME NEW t \in State, NEW e \in Event
    PROVE  Updated(t, e) \in State
BY DEF Updated, State, Event, Double, Invalid

\* What the events es, of which there are n, do to s.  An id that is missing was
\* missing, and had no event; what was done and has an event again is bad.
Moved(s, es, n, t) ==
    /\ s.done \subseteq t.done /\ s.bad \subseteq t.bad
    /\ \A k \in SeqNr :
          /\ t.ids[k] = NoId => s.ids[k] = NoId /\ \A i \in 1 .. n : es[i].nr # k
          /\ k \in s.done => k \in t.bad \/ \A i \in 1 .. n : es[i].nr # k
          /\ k \in t.done =>
                k \in s.done \/ \E i \in 1 .. n : es[i].nr = k /\ es[i].state = "Success"

LEMMA MovedStep ==
    ASSUME NEW s \in State, NEW es \in Seq(Event), NEW n \in 0 .. Len(es) - 1,
           NEW t \in State, Moved(s, es, n, t)
    PROVE  Moved(s, es, n + 1, Updated(t, es[n + 1]))
<1> DEFINE e == es[n + 1]
           u == Updated(t, e)
<1>1. e \in Event /\ u \in State
  BY UpdatedType
<1>2. \A i \in 1 .. n + 1 : i \in 1 .. n \/ i = n + 1
  OBVIOUS
<1>3. t.done \subseteq u.done /\ t.bad \subseteq u.bad
  BY DEF Updated
<1>4. ASSUME NEW k \in SeqNr
      PROVE  /\ u.ids[k] = NoId => s.ids[k] = NoId /\ \A i \in 1 .. n + 1 : es[i].nr # k
             /\ k \in s.done => k \in u.bad \/ \A i \in 1 .. n + 1 : es[i].nr # k
             /\ k \in u.done =>
                   \/ k \in s.done
                   \/ \E i \in 1 .. n + 1 : es[i].nr = k /\ es[i].state = "Success"
  <2>1. u.ids[k] = IF k = e.nr THEN e.id ELSE t.ids[k]
    BY <1>1 DEF Updated, State, Event
  <2>2. e.id # NoId
    BY <1>1 DEF Event, Id, NoId
  <2>3. k \in s.done /\ e.nr = k => k \in u.bad
    BY DEF Updated, Double, Moved
  <2>4. k \in u.done => k \in t.done \/ (e.nr = k /\ e.state = "Success")
    BY DEF Updated
  <2>5. n + 1 \in 1 .. n + 1 /\ 1 .. n \subseteq 1 .. n + 1
    OBVIOUS
  <2> QED
    BY <1>2, <1>3, <2>1, <2>2, <2>3, <2>4, <2>5 DEF Moved
<1> QED
  BY <1>3, <1>4 DEF Moved

LEMMA AfterMoved ==
    ASSUME NEW s \in State, NEW es \in Seq(Event)
    PROVE  After(s, es) \in State /\ Moved(s, es, Len(es), After(s, es))
<1> DEFINE G == {p \in Nat \X State : Moved(s, es, p[1], p[2])}
<1>1. <<0, s>> \in G
  BY DEF Moved
<1>2. ASSUME NEW i \in 0 .. Len(es) - 1, NEW t, <<i, t>> \in G
      PROVE  <<i + 1, Updated(t, es[i + 1])>> \in G
  BY <1>2, UpdatedType, MovedStep
<1>3. <<Len(es), After(s, es)>> \in G
  <2> HIDE DEF G
  <2> QED
    BY <1>1, <1>2, AfterInduction
<1> QED
  BY <1>3

\* A fold that goes on from the first m events of L is one of these and more.
LEMMA FoldsStep ==
    ASSUME NEW L \in Seq(Event), NEW n \in 0 .. Len(L) - 1, NEW t \in State, Folds(t, L, n)
    PROVE  Folds(Updated(t, L[n + 1]), L, n + 1)
<1> DEFINE e == L[n + 1]
           u == Updated(t, e)
<1>1. e \in Event /\ u \in State
  BY UpdatedType
<1>2. SUFFICES ASSUME NEW k \in SeqNr, k \notin u.bad
               PROVE  Agrees(u, k, L, n + 1)
  BY DEF Folds
<1>3. t.done \subseteq u.done /\ k \notin t.bad
  BY <1>2 DEF Updated
<1>4. u.ids[k] = IF k = e.nr THEN e.id ELSE t.ids[k]
  BY <1>1 DEF Updated, State, Event
<1>5. PICK d \in Id :
          /\ \A i \in 1 .. n : L[i].nr = k => L[i].id = d
          /\ t.ids[k] \in {NoId, d}
          /\ t.ids[k] = NoId => k \in t.done \/ \A i \in 1 .. n : L[i].nr # k
          /\ t.ids[k] # NoId => \E i \in 1 .. n : L[i].nr = k
  BY <1>3 DEF Folds, Agrees
<1>6. /\ \A i \in 1 .. n + 1 : i \in 1 .. n \/ i = n + 1
      /\ n + 1 \in 1 .. n + 1 /\ 1 .. n \subseteq 1 .. n + 1
  OBVIOUS
<1>7. CASE k # e.nr
  BY <1>3, <1>4, <1>5, <1>6, <1>7 DEF Agrees
<1>8. CASE k = e.nr
  <2>1. t.ids[k] \in {NoId, e.id} /\ k \notin t.done
    BY <1>2, <1>8 DEF Updated, Double
  <2>2. \A i \in 1 .. n : L[i].nr = k => L[i].id = e.id
    BY <1>5, <2>1
  <2>3. e.id \in Id /\ e.id # NoId
    BY <1>1 DEF Event, Id, NoId
  <2> QED
    BY <1>4, <1>6, <1>8, <2>2, <2>3 DEF Agrees
<1> QED
  BY <1>7, <1>8

LEMMA AfterFolds ==
    ASSUME NEW L \in Seq(Event), NEW m \in Nat, NEW s \in State, Folds(s, L, m),
           NEW es \in Seq(Event), m + Len(es) <= Len(L),
           \A i \in 1 .. Len(es) : es[i] = L[m + i]
    PROVE  Folds(After(s, es), L, m + Len(es))
<1> DEFINE G == {p \in Nat \X State : Folds(p[2], L, m + p[1])}
<1>1. <<0, s>> \in G
  OBVIOUS
<1>2. ASSUME NEW i \in 0 .. Len(es) - 1, NEW t, <<i, t>> \in G
      PROVE  <<i + 1, Updated(t, es[i + 1])>> \in G
  <2>1. /\ m + i \in 0 .. Len(L) - 1 /\ m + (i + 1) = (m + i) + 1
        /\ es[i + 1] = L[(m + i) + 1] /\ i + 1 \in Nat /\ es[i + 1] \in Event
    <3>1. Len(es) \in Nat /\ Len(L) \in Nat /\ i + 1 \in 1 .. Len(es)
      OBVIOUS
    <3>2. m + (i + 1) = (m + i) + 1 /\ m + i \in 0 .. Len(L) - 1
      BY <3>1
    <3>3. es[i + 1] \in Event
      BY <3>1
    <3>4. es[i + 1] = L[(m + i) + 1]
      BY <3>1, <3>2
    <3> QED
      BY <3>1, <3>2, <3>3, <3>4
  <2>2. t \in State /\ Folds(t, L, m + i)
    BY <1>2
  <2> QED
    BY <2>1, <2>2, FoldsStep, UpdatedType
<1>3. <<Len(es), After(s, es)>> \in G
  <2> HIDE DEF G
  <2> QED
    BY <1>1, <1>2, AfterInduction
<1> QED
  BY <1>3

\* An off-ramp that works: no event of those is out of order.
LEMMA AfterClean ==
    ASSUME NEW s \in State, NEW es \in Seq(Event), Clean(s),
           \A i \in 1 .. Len(es) : Right(es[i]) /\ es[i].nr \notin s.done,
           \A i, j \in 1 .. Len(es) :
               i < j /\ es[i].nr = es[j].nr => es[i].state # "Success"
    PROVE  Clean(After(s, es))
<1> DEFINE G == {p \in Nat \X State :
                    /\ Clean(p[2])
                    /\ \A k \in p[2].done : k \in s.done \/
                          \E i \in 1 .. p[1] : es[i].nr = k /\ es[i].state = "Success"}
<1>1. <<0, s>> \in G
  OBVIOUS
<1>2. ASSUME NEW n \in 0 .. Len(es) - 1, NEW t, <<n, t>> \in G
      PROVE  <<n + 1, Updated(t, es[n + 1])>> \in G
  <2> DEFINE e == es[n + 1]
             u == Updated(t, e)
  <2>1. /\ t \in State /\ Clean(t) /\ e \in Event /\ n + 1 \in 1 .. Len(es) /\ Right(e)
        /\ \A k \in t.done : k \in s.done \/
              \E i \in 1 .. n : es[i].nr = k /\ es[i].state = "Success"
    BY <1>2
  <2>2. u \in State
    BY <2>1, UpdatedType
  <2>3. e.nr \notin t.done
    BY <2>1
  <2>4. ~Double(t, e) /\ ~Invalid(t, e)
    BY <2>1, <2>3 DEF Double, Invalid, Clean, Right, Event
  <2>5. \A k \in SeqNr : u.ids[k] = IF k = e.nr THEN e.id ELSE t.ids[k]
    BY <2>1 DEF Updated, State, Event
  <2>6. Clean(u)
    BY <2>1, <2>4, <2>5 DEF Clean, Right, Updated
  <2>7. \A k \in u.done : k \in s.done \/
           \E i \in 1 .. n + 1 : es[i].nr = k /\ es[i].state = "Success"
    <3>1. \A k \in u.done : k \in t.done \/ (k = e.nr /\ e.state = "Success")
      BY DEF Updated
    <3>2. n + 1 \in 1 .. n + 1 /\ 1 .. n \subseteq 1 .. n + 1
      OBVIOUS
    <3> QED
      BY <2>1, <3>1, <3>2
  <2> QED
    BY <2>2, <2>6, <2>7
<1>3. <<Len(es), After(s, es)>> \in G
  <2> HIDE DEF G
  <2> QED
    BY <1>1, <1>2, AfterInduction
<1> QED
  BY <1>3

-----------------------------------------------------------------------------
(***************************************************************************)
(* The executions.                                                         *)
(***************************************************************************)
LEMMA Joined ==
    ASSUME NEW S, NEW s \in Seq(S), NEW t \in Seq(S)
    PROVE  /\ s \o t \in Seq(S) /\ Len(s \o t) = Len(s) + Len(t)
           /\ \A i \in 1 .. Len(s) : (s \o t)[i] = s[i]
           /\ \A i \in 1 .. Len(t) : (s \o t)[Len(s) + i] = t[i]
OBVIOUS

LEMMA Part ==
    ASSUME NEW S, NEW s \in Seq(S), NEW m \in Nat, NEW n \in m .. Len(s)
    PROVE  /\ SubSeq(s, m + 1, n) \in Seq(S) /\ Len(SubSeq(s, m + 1, n)) = n - m
           /\ \A i \in 1 .. n - m : SubSeq(s, m + 1, n)[i] = s[m + i]
<1> DEFINE es == SubSeq(s, m + 1, n)
<1>1. CASE m < n
  <2>1. /\ es \in Seq(S) /\ Len(es) = n - (m + 1) + 1
        /\ \A i \in 1 .. n - (m + 1) + 1 : es[i] = s[(m + 1) + i - 1]
    BY <1>1
  <2>2. n - (m + 1) + 1 = n - m /\ \A i \in Nat : (m + 1) + i - 1 = m + i
    OBVIOUS
  <2> HIDE DEF es
  <2>3. es \in Seq(S) /\ Len(es) = n - m /\ \A i \in 1 .. n - m : es[i] = s[m + i]
    BY <2>1, <2>2
  <2> QED
    BY <2>3 DEF es
<1>2. CASE m = n
  <2>1. es = << >>
    BY <1>2
  <2> QED
    BY <1>2, <2>1
<1> QED
  BY <1>1, <1>2

LEMMA EventsType ==
    ASSUME TypeOK
    PROVE  /\ Events \in Seq(Event) /\ Len(Events) = Len(log) + Len(fork)
           /\ \A i \in 1 .. Len(log) : Events[i] = log[i]
           /\ \A i \in 1 .. Len(fork) : Events[Len(log) + i] = fork[i]
BY Joined DEF TypeOK, Events

\* The logs that the stable state is updated with.
LEMMA NewLogs ==
    ASSUME TypeOK, NEW n \in seen .. Len(log)
    PROVE  /\ SubSeq(log, seen + 1, n) \in Seq(Event)
           /\ Len(SubSeq(log, seen + 1, n)) = n - seen
           /\ \A i \in 1 .. n - seen :
                 SubSeq(log, seen + 1, n)[i] = log[seen + i] /\ log[seen + i] = Events[seen + i]
<1>1. log \in Seq(Event) /\ Len(log) \in Nat /\ seen \in 0 .. Len(log)
  BY DEF TypeOK
<1>2. \A i \in 1 .. n - seen : seen + i \in 1 .. Len(log)
  BY <1>1
<1> QED
  BY <1>1, <1>2, Part, EventsType

\* Those that the copy of it goes on with.
LEMMA RestOfEvents ==
    ASSUME TypeOK, NEW n \in 0 .. Len(Rest)
    PROVE  /\ SubSeq(Rest, 1, n) \in Seq(Event) /\ Len(SubSeq(Rest, 1, n)) = n
           /\ seen + n <= Len(Events)
           /\ \A i \in 1 .. n : SubSeq(Rest, 1, n)[i] = Events[seen + i]
<1> DEFINE es == SubSeq(log, seen + 1, Len(log))
<1>1. /\ log \in Seq(Event) /\ Len(log) \in Nat /\ seen \in 0 .. Len(log)
      /\ fork \in Seq(Event) /\ Len(fork) \in Nat /\ Rest = es \o fork
  BY DEF TypeOK, Rest
<1>2. /\ es \in Seq(Event) /\ Len(es) = Len(log) - seen
      /\ \A i \in 1 .. Len(log) - seen : es[i] = Events[seen + i]
  <2>1. Len(log) \in seen .. Len(log)
    BY <1>1
  <2> QED
    BY <2>1, NewLogs
<1> HIDE DEF es
<1>3. /\ Rest \in Seq(Event) /\ Len(Rest) = Len(log) - seen + Len(fork)
      /\ \A i \in 1 .. Len(es) : Rest[i] = es[i]
      /\ \A i \in 1 .. Len(fork) : Rest[Len(es) + i] = fork[i]
  <2>1. /\ es \o fork \in Seq(Event) /\ Len(es \o fork) = Len(es) + Len(fork)
        /\ \A i \in 1 .. Len(es) : (es \o fork)[i] = es[i]
        /\ \A i \in 1 .. Len(fork) : (es \o fork)[Len(es) + i] = fork[i]
    <3>1. es \in Seq(Event) /\ fork \in Seq(Event)
      BY <1>1, <1>2
    <3> QED
      BY <3>1, Joined
  <2>2. Rest = es \o fork /\ Len(es) = Len(log) - seen
    BY <1>1, <1>2
  <2> QED
    BY <2>1, <2>2, Zenon
<1>4. ASSUME NEW i \in 1 .. Len(Rest)
      PROVE  Rest[i] = Events[seen + i]
  <2>1. CASE i <= Len(es)
    BY <1>1, <1>2, <1>3, <2>1
  <2>2. CASE i > Len(es)
    <3>1. /\ i - Len(es) \in 1 .. Len(fork) /\ Len(es) + (i - Len(es)) = i
          /\ Len(log) + (i - Len(es)) = seen + i
      BY <1>1, <1>2, <1>3, <2>2
    <3>2. Rest[i] = fork[i - Len(es)]
      BY <1>3, <3>1
    <3> QED
      BY <3>1, <3>2, EventsType
  <2> QED
    BY <1>1, <1>2, <1>3, <2>1, <2>2
<1>5. n \in 0 .. Len(Rest) /\ Len(Rest) \in Nat
  BY <1>3
<1>6. SubSeq(Rest, 0 + 1, n) = SubSeq(Rest, 1, n)
  OBVIOUS
<1>7. /\ SubSeq(Rest, 1, n) \in Seq(Event) /\ Len(SubSeq(Rest, 1, n)) = n
      /\ \A i \in 1 .. n : SubSeq(Rest, 1, n)[i] = Rest[i]
  BY <1>3, <1>5, <1>6, Part
<1> QED
  BY <1>1, <1>3, <1>4, <1>7, EventsType

-----------------------------------------------------------------------------
(***************************************************************************)
(* Types.                                                                  *)
(***************************************************************************)
LEMMA InitType == WatchInit => TypeOK
<1> SUFFICES ASSUME WatchInit
             PROVE  TypeOK
  OBVIOUS
<1>1. NewState \in State /\ NotSynced \in Progress
  BY DEF State, Progress, NewState, NotSynced, NoId
<1>2. /\ honest \in BOOLEAN /\ cloned \in BOOLEAN
      /\ unstableSynced \in BOOLEAN /\ stableSynced \in BOOLEAN
  BY OffRampAnomalyAssumption, Zenon DEF WatchInit, OffRampAnomalyAssumption
<1>3. /\ log \in Seq(Event) /\ fork \in Seq(Event) /\ finalAt \in Seq(Nat)
      /\ Len(finalAt) = 0 /\ Len(log) = 0
  BY DEF WatchInit
<1> QED
  BY <1>1, <1>2, <1>3, OffRampAnomalyAssumption DEF WatchInit, TypeOK

LEMMA TypeNext == TypeOK /\ [WatchNext]_watchVars => TypeOK'
<1> SUFFICES ASSUME TypeOK, [WatchNext]_watchVars
             PROVE  TypeOK'
  OBVIOUS
<1> USE DEF chains, source, dest, detector
<1>1. CASE Tick
  BY <1>1 DEF TypeOK, Tick
<1>2. CASE SendMessage
  BY <1>2, OffRampAnomalyAssumption DEF TypeOK, SendMessage
<1>3. CASE Finalize
  <2>1. finalAt' \in Seq(Nat) /\ Len(finalAt') = Len(finalAt) + 1 /\ Len(finalAt') <= sent
    BY <1>3 DEF TypeOK, Finalize
  <2> QED
    BY <1>3, <2>1 DEF TypeOK, Finalize
<1>4. CASE Execute
  <2>1. fork' \in Seq(Event)
    BY <1>4 DEF TypeOK, Execute, Event
  <2> QED
    BY <1>4, <2>1 DEF TypeOK, Execute
<1>5. CASE Revert
  <2> PICK n \in 0 .. (Len(fork) - 1) :
        /\ fork' = SubSeq(fork, 1, n)
        /\ reverted' = reverted \cup
              {fork[i].nr : i \in {j \in (n + 1) .. Len(fork) : fork[j].id = "right"}}
    BY <1>5 DEF Revert
  <2>1. fork \in Seq(Event) /\ \A i \in (n + 1) .. Len(fork) : fork[i] \in Event
    BY DEF TypeOK
  <2>2. fork' \in Seq(Event)
    BY <2>1
  <2>3. reverted' \subseteq SeqNr
    BY <2>1 DEF TypeOK, Event
  <2> QED
    BY <1>5, <2>2, <2>3 DEF TypeOK, Revert
<1>6. CASE Settle
  <2>1. log' \in Seq(Event) /\ fork' \in Seq(Event) /\ Len(log') = Len(log) + 1
    BY <1>6 DEF TypeOK, Settle
  <2> QED
    BY <1>6, <2>1 DEF TypeOK, Settle
<1>7. CASE SourceStable
  BY <1>7 DEF TypeOK, SourceStable, Progress
<1>8. CASE SourcePublish
  <2>1. srcTip' \in Progress
    BY <1>8 DEF SourcePublish, NotSynced, Progress
  <2>2. srcUnstable' \in Progress
    BY <1>8 DEF TypeOK, SourcePublish, Progress
  <2> QED
    BY <1>8, <2>1, <2>2 DEF TypeOK, SourcePublish
<1>9. CASE DestStable
  <2>1. /\ seen' \in (seen + 1) .. Len(log)
        /\ destStable' = After(destStable, SubSeq(log, seen + 1, seen'))
    BY <1>9 DEF DestStable
  <2>2. seen' \in seen .. Len(log) /\ seen' \in 0 .. Len(log)
    BY <2>1 DEF TypeOK
  <2>3. destStable' \in State
    BY <2>1, <2>2, NewLogs, AfterMoved DEF TypeOK
  <2> QED
    BY <1>9, <2>2, <2>3 DEF TypeOK, DestStable
<1>10. CASE Clone
  <2>1. working' \in State
    BY <1>10, RestOfEvents, AfterMoved DEF Clone, TypeOK
  <2> QED
    BY <1>10, <2>1 DEF TypeOK, Clone
<1>11. CASE Publish
  <2>1. NewState \in State
    BY DEF NewState, State, NoId
  <2> QED
    BY <1>11, <2>1 DEF TypeOK, Publish
<1>12. CASE Begin
  BY <1>12 DEF TypeOK, Begin, Synced
<1>13. CASE ReadUnstable
  BY <1>13 DEF TypeOK, ReadUnstable, Synced, Progress
<1>14. CASE Finish
  <2>1. destUnstable.bad \subseteq SeqNr /\ Executed \subseteq SeqNr
    BY DEF TypeOK, State, Executed
  <2> QED
    BY <1>14, <2>1 DEF TypeOK, Finish, Falsified, ThinAir, Confirmed
<1>15. CASE Take
  BY <1>15 DEF TypeOK, Take
<1>16. CASE Reap
  <2>1. destStable' \in State
    BY <1>16 DEF TypeOK, Reap, State
  <2> QED
    BY <1>16, <2>1 DEF TypeOK, Reap
<1>17. CASE UNCHANGED watchVars
  BY <1>17 DEF TypeOK, watchVars
<1> QED
  BY <1>1, <1>2, <1>3, <1>4, <1>5, <1>6, <1>7, <1>8, <1>9, <1>10, <1>11, <1>12, <1>13,
     <1>14, <1>15, <1>16, <1>17 DEF WatchNext, Chains, Workers, Detector, Reaper

-----------------------------------------------------------------------------
(***************************************************************************)
(* What the steps do to the executions.                                    *)
(***************************************************************************)
LEMMA ExecuteEvents ==
    ASSUME TypeOK, Execute
    PROVE  \E e \in Event :
              /\ honest => Rightful(e)
              /\ Len(Events') = Len(Events) + 1 /\ Events'[Len(Events) + 1] = e
              /\ \A i \in 1 .. Len(Events) : Events'[i] = Events[i]
<1>1. PICK e \in Event : (honest => Rightful(e)) /\ fork' = Append(fork, e)
  BY DEF Execute, Event
<1>2. log' = log /\ log \in Seq(Event) /\ fork \in Seq(Event)
  BY DEF Execute, TypeOK
<1>3. Events' = Append(Events, e)
  BY <1>1, <1>2 DEF Events
<1> QED
  BY <1>1, <1>3, EventsType

LEMMA RevertEvents ==
    ASSUME TypeOK, Revert
    PROVE  /\ Len(Events') \in Len(log) .. Len(Events)
           /\ \A i \in 1 .. Len(Events') : Events'[i] = Events[i]
           /\ reverted \subseteq reverted'
           /\ \A i \in 1 .. Len(Events) :
                 Events[i].id = "right" => i <= Len(Events') \/ Events[i].nr \in reverted'
<1> PICK n \in 0 .. (Len(fork) - 1) :
      /\ fork' = SubSeq(fork, 1, n)
      /\ reverted' = reverted \cup
            {fork[i].nr : i \in {j \in (n + 1) .. Len(fork) : fork[j].id = "right"}}
  BY DEF Revert
<1>1. log' = log /\ log \in Seq(Event) /\ fork \in Seq(Event)
  BY DEF Revert, TypeOK
<1>2. /\ fork' \in Seq(Event) /\ Len(fork') = n
      /\ \A i \in 1 .. n : fork'[i] = fork[i]
  BY <1>1
<1>3. /\ Len(Events') = Len(log) + n
      /\ \A i \in 1 .. Len(log) : Events'[i] = log[i]
      /\ \A i \in 1 .. n : Events'[Len(log) + i] = fork[i]
  BY <1>1, <1>2 DEF Events
<1>4. ASSUME NEW i \in 1 .. Len(Events)
      PROVE  \/ i \in 1 .. Len(log)
             \/ i - Len(log) \in 1 .. Len(fork) /\ i = Len(log) + (i - Len(log))
  BY <1>1, EventsType
<1>5. ASSUME NEW i \in 1 .. Len(Events')
      PROVE  i \in 1 .. Len(Events) /\ Events'[i] = Events[i]
  <2>1. i \in 1 .. Len(Events)
    BY <1>1, <1>3, EventsType
  <2>2. CASE i \in 1 .. Len(log)
    BY <1>3, <2>1, <2>2, EventsType
  <2>3. CASE i - Len(log) \in 1 .. Len(fork) /\ i = Len(log) + (i - Len(log))
    <3>1. i - Len(log) \in 1 .. n
      BY <1>1, <1>3, <2>3
    <3> QED
      BY <1>3, <2>1, <2>3, <3>1, EventsType
  <2> QED
    BY <1>4, <2>1, <2>2, <2>3
<1>6. ASSUME NEW i \in 1 .. Len(Events), Events[i].id = "right", ~(i <= Len(Events'))
      PROVE  Events[i].nr \in reverted'
  <2>1. i - Len(log) \in (n + 1) .. Len(fork) /\ i = Len(log) + (i - Len(log))
    BY <1>1, <1>3, <1>4, <1>6
  <2>2. i - Len(log) \in 1 .. Len(fork)
    BY <2>1
  <2>3. Events[i] = fork[i - Len(log)]
    BY <2>1, <2>2, EventsType
  <2> QED
    BY <1>6, <2>1, <2>3
<1>7. Len(Events') \in Len(log) .. Len(Events)
  BY <1>1, <1>3, EventsType
<1>8. reverted \subseteq reverted'
  OBVIOUS
<1> QED
  BY <1>5, <1>6, <1>7, <1>8

LEMMA SettleEvents ==
    ASSUME TypeOK, Settle
    PROVE  /\ Events' = Events /\ Len(log') = Len(log) + 1
           /\ \A i \in 1 .. Len(log) : log'[i] = log[i]
<1>1. /\ log \in Seq(Event) /\ fork \in Seq(Event) /\ fork # << >>
      /\ log' = Append(log, Head(fork)) /\ fork' = Tail(fork)
  BY DEF Settle, TypeOK
<1>2. Events' = Events
  BY <1>1 DEF Events
<1> QED
  BY <1>1, <1>2

LEMMA EventsTypeNext ==
    ASSUME TypeOK, [WatchNext]_watchVars
    PROVE  Events' \in Seq(Event) /\ Len(Events') \in Nat
<1>1. log' \in Seq(Event) /\ fork' \in Seq(Event)
  BY TypeNext DEF TypeOK
<1> QED
  BY <1>1, Joined DEF Events

LEMMA SameEvents ==
    ASSUME UNCHANGED <<log, fork>>
    PROVE  Events' = Events
BY DEF Events

-----------------------------------------------------------------------------
(***************************************************************************)
(* The source worker.                                                      *)
(***************************************************************************)
\* What is old stays so.
LEMMA OldKept ==
    ASSUME TypeOK, [WatchNext]_watchVars, NEW k, Old(k)
    PROVE  Old(k)'
<1>1. CASE Tick
  BY <1>1, OffRampAnomalyAssumption DEF TypeOK, Old, Tick
<1>2. CASE Finalize
  <2>1. k \in DOMAIN finalAt' /\ finalAt'[k] = finalAt[k]
    BY <1>2 DEF TypeOK, Old, Finalize
  <2> QED
    BY <1>2, <2>1 DEF Old, Finalize
<1>3. CASE UNCHANGED <<now, finalAt>>
  BY <1>3 DEF Old
<1> QED
  BY <1>1, <1>2, <1>3
     DEF WatchNext, Chains, Workers, Detector, Reaper, watchVars, chains, SendMessage, Execute, Revert,
         Settle, SourceStable, SourcePublish, DestStable, Clone, Publish, Begin,
         ReadUnstable, Finish, Take, Reap

LEMMA SourceNext == TypeOK /\ SourceInv /\ [WatchNext]_watchVars => SourceInv'
<1> SUFFICES ASSUME TypeOK, SourceInv, [WatchNext]_watchVars
             PROVE  SourceInv'
  OBVIOUS
<1>0. /\ now \in Nat /\ finalAt \in Seq(Nat) /\ srcTip \in Progress /\ srcUnstable \in Progress
      /\ srcTip.time \in Nat \cup {NoTime} /\ srcUnstable.time \in Nat \cup {NoTime}
  BY DEF TypeOK, Progress
<1>1. CASE Tick
  BY <1>0, <1>1 DEF Tick, source, SourceInv, Knows, NoTime
<1>2. CASE Finalize
  <2>1. /\ DOMAIN finalAt' = 1 .. Len(finalAt) + 1 /\ DOMAIN finalAt = 1 .. Len(finalAt)
        /\ \A k \in DOMAIN finalAt : finalAt'[k] = finalAt[k]
        /\ finalAt'[Len(finalAt) + 1] = now
    BY <1>0, <1>2 DEF Finalize
  <2>2. /\ \A k \in DOMAIN finalAt' : k \in DOMAIN finalAt \/ k = Len(finalAt) + 1
        /\ UNCHANGED <<now, srcTip, srcUnstable>>
    BY <1>0, <1>2, <2>1 DEF Finalize, source
  <2> QED
    BY <1>0, <2>1, <2>2 DEF SourceInv, Knows, NoTime
<1>3. CASE SourceStable
  <2>1. srcTip' = [nr |-> Len(finalAt), time |-> now] /\ UNCHANGED <<now, finalAt, srcUnstable>>
    BY <1>3 DEF SourceStable, chains
  <2> QED
    BY <1>0, <2>1 DEF SourceInv, Knows
<1>4. CASE SourcePublish
  <2>1. /\ srcTip.time # NoTime /\ srcTip' = NotSynced /\ UNCHANGED <<now, finalAt>>
        /\ srcUnstable'.time = srcTip.time /\ srcUnstable'.nr >= srcTip.nr
        /\ srcUnstable'.nr \in Nat
    BY <1>0, <1>4 DEF SourcePublish, chains, Progress, TypeOK
  <2>2. srcTip.nr \in Nat /\ \A k \in DOMAIN finalAt : k \in Nat /\ finalAt[k] \in Nat
    BY <1>0 DEF Progress
  <2> QED
    BY <1>0, <2>1, <2>2 DEF SourceInv, Knows, NotSynced, NoTime
<1>5. CASE UNCHANGED <<now, finalAt, srcTip, srcUnstable>>
  BY <1>5 DEF SourceInv, Knows
<1> QED
  BY <1>1, <1>2, <1>3, <1>4, <1>5
     DEF WatchNext, Chains, Workers, Detector, Reaper, watchVars, chains, source, SendMessage, Execute, Revert,
         Settle, DestStable, Clone, Publish, Begin, ReadUnstable, Finish, Take, Reap

-----------------------------------------------------------------------------
(***************************************************************************)
(* An off-ramp that works.                                                 *)
(***************************************************************************)
LEMMA RightKept ==
    ASSUME TypeOK, [WatchNext]_watchVars
    PROVE  /\ \A e : Right(e) =>
                 /\ e.id = "right" /\ e.state \in {"Success", "Failure"}
                 /\ e.nr \in DOMAIN finalAt' /\ finalAt'[e.nr] + Delay <= now'
           /\ \A s : Clean(s) =>
                 /\ s.bad = {}
                 /\ \A k \in SeqNr : s.ids[k] # NoId =>
                       s.ids[k] = "right" /\ k \in DOMAIN finalAt' /\ finalAt'[k] + Delay <= now'
<1>1. \A k : Old(k) => k \in DOMAIN finalAt' /\ finalAt'[k] + Delay <= now'
  BY OldKept DEF Old
<1> QED
  BY <1>1 DEF Right, Clean

LEMMA EventsNext ==
    ASSUME TypeOK, [WatchNext]_watchVars, honest, EventsInv
    PROVE  EventsInv'
<1> DEFINE RightNext(e) ==
              /\ e.id = "right" /\ e.state \in {"Success", "Failure"}
              /\ e.nr \in DOMAIN finalAt' /\ finalAt'[e.nr] + Delay <= now'
           Once(es) == \A i, j \in DOMAIN es :
                          i < j /\ es[i].nr = es[j].nr => es[i].state # "Success"
<1>0. Events \in Seq(Event) /\ Events' \in Seq(Event)
  BY EventsType, EventsTypeNext
<1>1. \A i \in DOMAIN Events : RightNext(Events[i])
  BY RightKept DEF EventsInv
<1>2. Once(Events)
  BY DEF EventsInv
<1>3. SUFFICES (\A i \in DOMAIN Events' : RightNext(Events'[i])) /\ Once(Events')
  BY DEF EventsInv, Right, Old
<1>4. CASE Execute
  <2> PICK e \in Event :
        /\ Rightful(e)
        /\ Len(Events') = Len(Events) + 1 /\ Events'[Len(Events) + 1] = e
        /\ \A i \in 1 .. Len(Events) : Events'[i] = Events[i]
    BY <1>4, ExecuteEvents
  <2>1. e.nr \in 1 .. Len(finalAt) /\ finalAt \in Seq(Nat)
    BY DEF Rightful, Event, SeqNr, TypeOK
  <2>2. Right(e)
    BY <2>1 DEF Rightful, Right, Old
  <2>3. RightNext(e)
    BY <2>2, RightKept
  <2>4. \A i \in DOMAIN Events : Events[i].nr = e.nr => Events[i].state # "Success"
    BY DEF Rightful, Events
  <2>5. \A i \in DOMAIN Events' : i \in DOMAIN Events \/ i = Len(Events) + 1
    BY <1>0
  <2>6. /\ \A i \in DOMAIN Events : i \in 1 .. Len(Events) /\ i < Len(Events) + 1
        /\ \A i \in DOMAIN Events' : i \in Nat
    BY <1>0
  <2> HIDE DEF RightNext
  <2>7. \A i \in DOMAIN Events' : RightNext(Events'[i])
    BY <1>1, <2>3, <2>5, <2>6
  <2>8. Once(Events')
    BY <1>2, <2>4, <2>5, <2>6
  <2> QED
    BY <2>7, <2>8
<1>5. CASE Revert
  <2>1. \A i \in DOMAIN Events' : i \in DOMAIN Events /\ Events'[i] = Events[i]
    BY <1>0, <1>5, RevertEvents
  <2> HIDE DEF RightNext
  <2> QED
    BY <1>1, <1>2, <2>1
<1>6. CASE Events' = Events
  <2> HIDE DEF RightNext
  <2> QED
    BY <1>1, <1>2, <1>6
<1>7. Execute \/ Revert \/ Settle \/ UNCHANGED <<log, fork>>
  BY DEF WatchNext, Chains, Workers, Detector, Reaper, watchVars, chains, Tick, SendMessage, Finalize,
         SourceStable, SourcePublish, DestStable, Clone, Publish, Begin, ReadUnstable,
         Finish, Take, Reap
<1> QED
  BY <1>4, <1>5, <1>6, <1>7, SettleEvents, SameEvents

\* The events n of which follow those of the stable state keep it clean.
LEMMA CleanAfter ==
    ASSUME TypeOK, EventsInv, StatesInv, NEW es \in Seq(Event), seen + Len(es) <= Len(Events),
           \A i \in 1 .. Len(es) : es[i] = Events[seen + i]
    PROVE  Clean(After(destStable, es))
<1>1. /\ seen \in Nat /\ Events \in Seq(Event) /\ Len(Events) \in Nat
      /\ destStable \in State /\ Clean(destStable)
  BY EventsType DEF TypeOK, StatesInv
<1>2. /\ \A i \in 1 .. Len(es) : seen + i \in DOMAIN Events /\ seen + i > seen
      /\ \A i \in 1 .. seen : i \in DOMAIN Events
  BY <1>1
<1>3. \A i \in 1 .. Len(es) : Right(es[i])
  BY <1>2 DEF EventsInv
<1>4. ASSUME NEW i \in 1 .. Len(es), es[i].nr \in destStable.done
      PROVE  FALSE
  <2>1. PICK j \in 1 .. seen : Events[j].nr = es[i].nr /\ Events[j].state = "Success"
    BY <1>4 DEF StatesInv
  <2>2. j < seen + i
    BY <1>1
  <2> QED
    BY <1>2, <2>1, <2>2 DEF EventsInv
<1>5. ASSUME NEW i \in 1 .. Len(es), NEW j \in 1 .. Len(es), i < j, es[i].nr = es[j].nr
      PROVE  es[i].state # "Success"
  <2>1. seen + i < seen + j
    BY <1>1, <1>5
  <2> QED
    BY <1>2, <1>5, <2>1 DEF EventsInv
<1> QED
  BY <1>1, <1>3, <1>4, <1>5, AfterClean

LEMMA StatesNext ==
    ASSUME TypeOK, [WatchNext]_watchVars, honest, EventsInv, StatesInv
    PROVE  StatesInv'
<1> DEFINE CleanNext(s) ==
              /\ s.bad = {}
              /\ \A k \in SeqNr : s.ids[k] # NoId =>
                    s.ids[k] = "right" /\ k \in DOMAIN finalAt' /\ finalAt'[k] + Delay <= now'
           Successes(n, es) == {k \in SeqNr :
                                   \E i \in 1 .. n : es[i].nr = k /\ es[i].state = "Success"}
<1>0. /\ TypeOK' /\ \A s : Clean(s) => CleanNext(s)
      /\ destStable \in State /\ destStable' \in State /\ seen \in 0 .. Len(log)
      /\ Events \in Seq(Event) /\ Len(Events) = Len(log) + Len(fork) /\ Len(fork) \in Nat
      /\ Len(log) \in Nat
  BY TypeNext, RightKept, EventsType DEF TypeOK
<1>1. destStable.done \subseteq Successes(seen, Events)
  BY <1>0 DEF StatesInv, State
<1> HIDE DEF CleanNext
<1>2. SUFFICES /\ CleanNext(destStable') /\ CleanNext(destUnstable') /\ CleanNext(working')
               /\ destStable'.done \subseteq Successes(seen', Events')
  BY DEF CleanNext, StatesInv, Clean, Old
<1>3. CleanNext(NewState)
  BY DEF CleanNext, NewState, NoId
<1>4. /\ CleanNext(destStable) /\ CleanNext(destUnstable) /\ CleanNext(working)
  BY <1>0 DEF StatesInv
<1>5. CASE Execute
  <2>1. /\ \A i \in 1 .. Len(Events) : Events'[i] = Events[i]
        /\ UNCHANGED <<seen, destStable, destUnstable, working>>
    BY <1>5, ExecuteEvents DEF Execute, dest
  <2>2. \A i \in 1 .. seen : Events'[i] = Events[i]
    BY <1>0, <2>1
  <2> QED
    BY <1>1, <1>4, <2>1, <2>2
<1>6. CASE Revert
  <2>1. UNCHANGED <<seen, destStable, destUnstable, working>>
    BY <1>6 DEF Revert, dest
  <2>2. PICK n \in Len(log) .. Len(Events) : n = Len(Events')
    BY <1>6, RevertEvents
  <2>3. \A i \in 1 .. n : Events'[i] = Events[i]
    BY <1>6, <2>2, RevertEvents
  <2>4. \A i \in 1 .. seen : i \in 1 .. n
    BY <1>0, <2>2
  <2>5. \A i \in 1 .. seen : Events'[i] = Events[i]
    BY <2>3, <2>4
  <2> QED
    BY <1>1, <1>4, <2>1, <2>5
<1>7. CASE DestStable
  <2>1. PICK n \in (seen + 1) .. Len(log) :
            /\ seen' = n /\ destStable' = After(destStable, SubSeq(log, seen + 1, n))
            /\ UNCHANGED <<log, fork, destUnstable, working>>
    BY <1>7 DEF DestStable, chains
  <2> DEFINE es == SubSeq(log, seen + 1, n)
  <2>2. n \in seen .. Len(log) /\ seen + (n - seen) = n /\ n \in Nat
    BY <1>0, <2>1
  <2>3. /\ es \in Seq(Event) /\ Len(es) = n - seen /\ seen + Len(es) <= Len(Events)
        /\ \A i \in 1 .. Len(es) : es[i] = Events[seen + i]
    <3>1. /\ es \in Seq(Event) /\ Len(es) = n - seen
          /\ \A i \in 1 .. n - seen : es[i] = Events[seen + i]
      BY <2>2, NewLogs
    <3> HIDE DEF es
    <3> QED
      BY <1>0, <2>1, <2>2, <3>1
  <2>4. destStable' = After(destStable, es)
    BY <2>1
  <2> HIDE DEF es
  <2>5. Clean(destStable')
    BY <2>3, <2>4, CleanAfter
  <2>6. Moved(destStable, es, Len(es), destStable')
    BY <1>0, <2>3, <2>4, AfterMoved
  <2>7. ASSUME NEW k \in destStable'.done
        PROVE  k \in Successes(n, Events)
    <3>1. k \in SeqNr
      BY <1>0 DEF State
    <3>2. CASE k \in destStable.done
      <4>1. PICK i \in 1 .. seen : Events[i].nr = k /\ Events[i].state = "Success"
        BY <1>1, <3>2
      <4>2. i \in 1 .. n
        BY <1>0, <2>2
      <4> QED
        BY <3>1, <4>1, <4>2
    <3>3. CASE \E i \in 1 .. Len(es) : es[i].nr = k /\ es[i].state = "Success"
      <4>1. PICK i \in 1 .. Len(es) : es[i].nr = k /\ es[i].state = "Success"
        BY <3>3
      <4>2. seen + i \in 1 .. n /\ es[i] = Events[seen + i]
        BY <1>0, <2>2, <2>3
      <4> QED
        BY <3>1, <4>1, <4>2
    <3> QED
      BY <2>6, <3>1, <3>2, <3>3 DEF Moved
  <2> QED
    BY <1>0, <1>4, <2>1, <2>5, <2>7, SameEvents
<1>8. CASE Clone
  <2>1. /\ \E n \in 0 .. Len(Rest) : working' = After(destStable, SubSeq(Rest, 1, n))
        /\ UNCHANGED <<log, fork, seen, destStable, destUnstable>>
    BY <1>8 DEF Clone, chains
  <2>2. Clean(working')
    BY <2>1, RestOfEvents, CleanAfter
  <2> QED
    BY <1>0, <1>1, <1>4, <2>1, <2>2, SameEvents
<1>9. CASE Publish
  BY <1>1, <1>3, <1>4, <1>9, SameEvents DEF Publish, chains
<1>10. CASE Reap
  <2>1. /\ destStable'.done = destStable.done /\ destStable'.bad = destStable.bad
        /\ \A k \in SeqNr : destStable'.ids[k] \in {destStable.ids[k], NoId}
        /\ UNCHANGED <<log, fork, seen, destUnstable, working>>
    BY <1>0, <1>10 DEF Reap, State, chains
  <2>2. CleanNext(destStable')
    BY <1>4, <2>1 DEF CleanNext
  <2> QED
    BY <1>1, <1>4, <2>1, <2>2, SameEvents
<1>11. CASE UNCHANGED <<seen, destStable, destUnstable, working>> /\ Events' = Events
  BY <1>1, <1>4, <1>11
<1>12. CASE Settle
  BY <1>11, <1>12, SettleEvents DEF Settle, dest
<1>13. \/ Execute \/ Revert \/ Settle \/ DestStable \/ Clone \/ Publish \/ Reap
       \/ UNCHANGED <<log, fork, seen, destStable, destUnstable, working>>
  BY DEF WatchNext, Chains, Workers, Detector, Reaper, watchVars, chains, dest, Tick, SendMessage, Finalize,
         SourceStable, SourcePublish, Begin, ReadUnstable, Finish, Take
<1> QED
  BY <1>5, <1>6, <1>7, <1>8, <1>9, <1>10, <1>11, <1>12, <1>13, SameEvents

\* While the detector works, what it has read stays enough for what is executed.
LEMMA DetectorNext ==
    ASSUME TypeOK, SourceInv, HonestInv, DetectorInv, NoFalseAlarm, [WatchNext]_watchVars
    PROVE  DetectorInv' /\ NoFalseAlarm'
<1> SUFFICES ASSUME honest', Delay > MaxFresh
             PROVE  /\ anomalies' = {}
                    /\ phase' = "dest" /\ unstableSynced' =>
                          \A k \in Executed' : finalAt'[k] < srcUnstable'.time
                    /\ phase' = "unstable" /\ unstableSynced' =>
                          \A k \in Executed' : k <= unstableNr'
  BY DEF DetectorInv, NoFalseAlarm
<1>0. /\ honest /\ finalAt \in Seq(Nat) /\ now \in Nat /\ MaxFresh \in Nat /\ Delay \in Nat
      /\ srcUnstable.time \in Nat \cup {NoTime} /\ srcTip.time \in Nat \cup {NoTime}
  <2>1. honest
    BY DEF WatchNext, Chains, Workers, Detector, Reaper, watchVars, chains, Tick, SendMessage, Finalize, Execute,
           Revert, Settle, SourceStable, SourcePublish, DestStable, Clone, Publish, Begin,
           ReadUnstable, Finish, Take, Reap
  <2> QED
    BY <2>1, OffRampAnomalyAssumption DEF TypeOK, Progress
<1>1. /\ anomalies = {} /\ Clean(destUnstable)
      /\ phase = "dest" /\ unstableSynced => \A k \in Executed : finalAt[k] < srcUnstable.time
      /\ phase = "unstable" /\ unstableSynced => \A k \in Executed : k <= unstableNr
  BY <1>0 DEF DetectorInv, NoFalseAlarm, HonestInv, StatesInv
<1>2. \A k \in Executed : k \in DOMAIN finalAt /\ finalAt[k] \in Nat /\ finalAt[k] + Delay <= now
  BY <1>0, <1>1 DEF Executed, Clean, Old
<1>3. CASE Begin
  <2>1. phase' = "dest" /\ unstableSynced' = Synced(srcUnstable)
        /\ UNCHANGED <<anomalies, finalAt, srcUnstable, destUnstable>>
    BY <1>3 DEF Begin, chains, source, dest
  <2>2. ASSUME NEW k \in Executed, Synced(srcUnstable)
        PROVE  finalAt[k] < srcUnstable.time
    BY <1>0, <1>2, <2>2 DEF Synced, NoTime
  <2> QED
    BY <1>1, <2>1, <2>2 DEF Executed
<1>4. CASE ReadUnstable
  <2>1. /\ phase = "dest" /\ phase' = "unstable" /\ unstableNr' = srcUnstable.nr
        /\ UNCHANGED <<anomalies, unstableSynced, destUnstable>>
    BY <1>4 DEF ReadUnstable, dest
  <2>2. unstableSynced => \A k \in Executed : k <= srcUnstable.nr
    BY <1>1, <1>2, <2>1 DEF SourceInv, Knows
  <2> QED
    BY <1>1, <2>1, <2>2 DEF Executed
<1>5. CASE Finish
  <2>1. /\ phase = "unstable" /\ phase' = "idle"
        /\ anomalies' = anomalies \cup destUnstable.bad \cup Falsified \cup ThinAir
    BY <1>5 DEF Finish
  <2>2. destUnstable.bad = {} /\ Falsified = {}
    BY <1>1 DEF Clean, Falsified, Executed
  <2>3. ThinAir = {}
    <3>1. ASSUME NEW k \in ThinAir
          PROVE  FALSE
      <4>1. k \in Executed /\ k > unstableNr /\ unstableSynced
        BY DEF ThinAir
      <4>2. k \in Nat /\ unstableNr \in Nat /\ k <= unstableNr
        BY <1>1, <2>1, <4>1 DEF Executed, SeqNr, TypeOK
      <4> QED
        BY <4>1, <4>2
    <3> QED
      BY <3>1
  <2> QED
    BY <1>1, <2>1, <2>2, <2>3
<1>6. CASE SourcePublish
  <2>1. /\ srcTip.time # NoTime /\ srcUnstable'.time = srcTip.time
        /\ UNCHANGED <<anomalies, phase, unstableSynced, unstableNr, finalAt, destUnstable>>
    BY <1>6 DEF SourcePublish, chains, dest, detector
  <2>2. srcUnstable.time <= srcTip.time
    BY <2>1 DEF SourceInv
  <2>3. \A k \in Executed : finalAt[k] < srcUnstable.time => finalAt[k] < srcTip.time
    BY <1>0, <1>2, <2>1, <2>2 DEF NoTime
  <2> QED
    BY <1>1, <2>1, <2>3 DEF Executed
<1>7. CASE Finalize
  <2>1. UNCHANGED <<anomalies, phase, unstableSynced, unstableNr, srcUnstable, destUnstable>>
    BY <1>7 DEF Finalize, source, dest, detector
  <2>2. \A k \in Executed : finalAt'[k] = finalAt[k]
    BY <1>0, <1>2, <1>7 DEF Finalize
  <2> QED
    BY <1>1, <2>1, <2>2 DEF Executed
<1>8. CASE Publish
  <2>1. phase = "idle" /\ phase' = phase /\ anomalies' = anomalies
    BY <1>8 DEF Publish, DestLocked, detector
  <2> QED
    BY <1>1, <2>1
<1>9. CASE UNCHANGED <<anomalies, phase, unstableSynced, unstableNr, finalAt, srcUnstable, destUnstable>>
  BY <1>1, <1>9 DEF Executed
<1> QED
  BY <1>3, <1>4, <1>5, <1>6, <1>7, <1>8, <1>9
     DEF WatchNext, Chains, Workers, Detector, Reaper, watchVars, chains, source, dest, detector, Tick,
         SendMessage, Execute, Revert, Settle, SourceStable, DestStable, Clone, Take, Reap

LEMMA InitAlarm == WatchInit => AlarmInv
<1> SUFFICES ASSUME WatchInit
             PROVE  AlarmInv
  OBVIOUS
<1>1. DOMAIN finalAt = {}
  BY DEF WatchInit
<1>2. Events = << >>
  BY DEF WatchInit, Events
<1>3. SourceInv
  BY <1>1 DEF WatchInit, SourceInv, Knows, NotSynced, NoTime
<1>4. Clean(NewState) /\ NewState.done = {}
  BY DEF Clean, NewState, NoId
<1>5. HonestInv
  BY <1>2, <1>4 DEF WatchInit, HonestInv, EventsInv, StatesInv
<1> QED
  BY <1>3, <1>5 DEF WatchInit, AlarmInv, DetectorInv, NoFalseAlarm

LEMMA AlarmNext == TypeOK /\ AlarmInv /\ [WatchNext]_watchVars => AlarmInv'
<1> SUFFICES ASSUME TypeOK, AlarmInv, [WatchNext]_watchVars
             PROVE  AlarmInv'
  OBVIOUS
<1>1. SourceInv' /\ DetectorInv' /\ NoFalseAlarm'
  BY SourceNext, DetectorNext DEF AlarmInv
<1>2. honest' = honest
  BY DEF WatchNext, Chains, Workers, Detector, Reaper, watchVars, chains, Tick, SendMessage, Finalize, Execute,
         Revert, Settle, SourceStable, SourcePublish, DestStable, Clone, Publish, Begin,
         ReadUnstable, Finish, Take, Reap
<1>3. HonestInv'
  BY <1>2, EventsNext, StatesNext DEF AlarmInv, HonestInv
<1> QED
  BY <1>1, <1>3 DEF AlarmInv

\* Every reachable state has the types of the code's fields.
THEOREM TypeCorrect == WatchSpec => []TypeOK
BY InitType, TypeNext, PTL DEF WatchSpec

\* Whatever the delay, if it exceeds the freshness that is asked for, a node never
\* curses for an off-ramp that works.
THEOREM HonestNeverCursed == WatchSpec => []NoFalseAlarm
<1>1. TypeOK /\ AlarmInv /\ [WatchNext]_watchVars => (TypeOK /\ AlarmInv)'
  BY TypeNext, AlarmNext
<1>2. AlarmInv => NoFalseAlarm
  BY DEF AlarmInv
<1> QED
  BY InitType, InitAlarm, <1>1, <1>2, PTL DEF WatchSpec

-----------------------------------------------------------------------------
(***************************************************************************)
(* The ids that are dropped.                                               *)
(***************************************************************************)
\* What a fold has the right id of was seen with it.
LEMMA FoldsSeen ==
    ASSUME TypeOK, NEW s \in State, NEW n \in 0 .. Len(Events), Folds(s, Events, n)
    PROVE  RightOrLeft(s)
<1>1. Events \in Seq(Event)
  BY EventsType
<1> SUFFICES ASSUME NEW k \in SeqNr, s.ids[k] = "right", k \notin s.bad
             PROVE  SeenRight(k)
  BY DEF RightOrLeft
<1>2. PICK d \in Id :
          /\ \A i \in 1 .. n : Events[i].nr = k => Events[i].id = d
          /\ s.ids[k] \in {NoId, d}
          /\ s.ids[k] # NoId => \E i \in 1 .. n : Events[i].nr = k
  BY DEF Folds, Agrees
<1>3. d = "right" /\ s.ids[k] # NoId
  BY <1>2 DEF NoId
<1>4. PICK j \in 1 .. n : Events[j].nr = k
  BY <1>2, <1>3
<1>5. j \in DOMAIN Events /\ 1 .. j \subseteq 1 .. n
  BY <1>1, <1>4
<1> QED
  BY <1>2, <1>3, <1>4, <1>5 DEF SeenRight

\* That stays so: what a reorganisation takes away is remembered.
LEMMA SeenKept ==
    ASSUME TypeOK, [WatchNext]_watchVars
    PROVE  \A k : SeenRight(k) =>
              \/ k \in reverted'
              \/ \E j \in DOMAIN Events' :
                    /\ Events'[j].nr = k
                    /\ \A i \in 1 .. j : Events'[i].nr = k => Events'[i].id = "right"
<1> SUFFICES ASSUME NEW k, SeenRight(k)
             PROVE  \/ k \in reverted'
                    \/ \E j \in DOMAIN Events' :
                          /\ Events'[j].nr = k
                          /\ \A i \in 1 .. j : Events'[i].nr = k => Events'[i].id = "right"
  OBVIOUS
<1>0. /\ Events \in Seq(Event) /\ Len(Events) \in Nat
      /\ Events' \in Seq(Event) /\ Len(Events') \in Nat
  BY EventsType, EventsTypeNext
<1> PICK j \in 1 .. Len(Events) :
      Events[j].nr = k /\ \A i \in 1 .. j : Events[i].nr = k => Events[i].id = "right"
  BY <1>0 DEF SeenRight
<1>1. 1 .. j \subseteq 1 .. Len(Events) /\ j \in 1 .. j
  BY <1>0
<1>2. CASE Execute
  <2>1. /\ Len(Events') = Len(Events) + 1
        /\ \A i \in 1 .. Len(Events) : Events'[i] = Events[i]
    BY <1>2, ExecuteEvents
  <2>2. j \in DOMAIN Events'
    BY <1>0, <2>1
  <2> QED
    BY <1>1, <2>1, <2>2
<1>3. CASE Revert
  <2>1. PICK n \in Len(log) .. Len(Events) : n = Len(Events')
    BY <1>3, RevertEvents
  <2>2. /\ \A i \in 1 .. n : Events'[i] = Events[i]
        /\ \A i \in 1 .. Len(Events) :
              Events[i].id = "right" => i <= n \/ Events[i].nr \in reverted'
    BY <1>3, <2>1, RevertEvents
  <2>3. CASE j <= n
    <3>1. j \in DOMAIN Events' /\ 1 .. j \subseteq 1 .. n
      BY <1>0, <2>1, <2>3
    <3> QED
      BY <1>1, <2>2, <3>1
  <2>4. CASE ~(j <= n)
    BY <1>1, <2>2, <2>4
  <2> QED
    BY <2>3, <2>4
<1>4. CASE Events' = Events
  BY <1>0, <1>4
<1>5. Execute \/ Revert \/ Settle \/ UNCHANGED <<log, fork>>
  BY DEF WatchNext, Chains, Workers, Detector, Reaper, watchVars, chains, Tick, SendMessage, Finalize,
         SourceStable, SourcePublish, DestStable, Clone, Publish, Begin, ReadUnstable,
         Finish, Take, Reap
<1> QED
  BY <1>2, <1>3, <1>4, <1>5, SettleEvents, SameEvents

\* reverted and the final log only grow.
LEMMA Grows ==
    ASSUME TypeOK, [WatchNext]_watchVars
    PROVE  /\ reverted \subseteq reverted' /\ anomalies \subseteq anomalies'
           /\ \A i \in 1 .. Len(log) : i \in 1 .. Len(log') /\ log'[i] = log[i]
<1>1. CASE Revert
  BY <1>1, RevertEvents DEF Revert, detector
<1>2. CASE Settle
  <2>1. /\ Len(log') = Len(log) + 1 /\ \A i \in 1 .. Len(log) : log'[i] = log[i]
        /\ Len(log) \in Nat
    BY <1>2, SettleEvents DEF TypeOK
  <2> QED
    BY <1>2, <2>1 DEF Settle, detector
<1>3. CASE UNCHANGED <<log, reverted>> /\ anomalies \subseteq anomalies'
  BY <1>3
<1> QED
  BY <1>1, <1>2, <1>3
     DEF WatchNext, Chains, Workers, Detector, Reaper, watchVars, chains, detector, Tick, SendMessage, Finalize,
         Execute, SourceStable, SourcePublish, DestStable, Clone, Publish, Begin, ReadUnstable,
         Finish, Take, Reap

\* What is right, or known to be wrong, stays so until there is a new event.
LEMMA KnownKept ==
    ASSUME TypeOK, [WatchNext]_watchVars, UNCHANGED seen, destStable.bad \subseteq destStable'.bad
    PROVE  \A k : RightOrKnown(k) =>
              \/ \A i \in 1 .. seen' : log'[i].nr = k => log'[i].id = "right"
              \/ k \in anomalies' \cup destStable'.bad \cup reverted'
<1>1. \A i \in 1 .. seen : i \in 1 .. Len(log)
  BY DEF TypeOK
<1> QED
  BY <1>1, Grows DEF RightOrKnown

LEMMA LeftKept ==
    ASSUME TypeOK, [WatchNext]_watchVars, NEW s, RightOrLeft(s), NEW t, t' = s
    PROVE  RightOrLeft(t)'
<1>1. reverted \subseteq reverted'
  BY Grows
<1>2. \A k \in SeqNr : s.ids[k] = "right" =>
         \/ k \in s.bad \/ k \in reverted'
         \/ \E j \in DOMAIN Events' :
               /\ Events'[j].nr = k
               /\ \A i \in 1 .. j : Events'[i].nr = k => Events'[i].id = "right"
  BY <1>1, SeenKept DEF RightOrLeft
<1> QED
  BY <1>2 DEF RightOrLeft, SeenRight

\* The first events, those of the stable state, are final.
LEMMA FinalKept ==
    ASSUME TypeOK, [WatchNext]_watchVars
    PROVE  \A i \in 1 .. seen : Events[i] = log[i] /\ Events'[i] = Events[i]
<1>1. /\ log \in Seq(Event) /\ fork \in Seq(Event) /\ seen \in 0 .. Len(log)
      /\ log' \in Seq(Event) /\ fork' \in Seq(Event) /\ Len(log) \in Nat
  BY TypeNext DEF TypeOK
<1>2. \A i \in 1 .. Len(log') : Events'[i] = log'[i]
  BY <1>1, Joined DEF Events
<1>3. \A i \in 1 .. seen : i \in 1 .. Len(log)
  BY <1>1
<1> QED
  BY <1>2, <1>3, Grows, EventsType

\* The detector has looked at k: its id is right in the unstable state, which
\* goes on from the success in the stable one.
LEMMA ConfirmedIsRight ==
    ASSUME TypeOK, ReapInv, NEW k \in Confirmed
    PROVE  \/ \A i \in 1 .. seen : log[i].nr = k => log[i].id = "right"
           \/ k \in destUnstable.bad \cup destStable.bad \cup reverted
<1>0. /\ k \in SeqNr /\ destUnstable.ids[k] = "right" /\ k \in destStable.done
      /\ seen \in 0 .. Len(log) /\ Len(log) \in Nat
      /\ Events \in Seq(Event) /\ Len(Events) \in Nat
      /\ \A i \in 1 .. seen : Events[i] = log[i]
  BY EventsType DEF Confirmed, Executed, TypeOK
<1> SUFFICES ASSUME k \notin destUnstable.bad, k \notin destStable.bad, k \notin reverted,
                    NEW i \in 1 .. seen, Events[i].nr = k
             PROVE  Events[i].id = "right"
  BY <1>0
<1>1. PICK j \in DOMAIN Events :
        Events[j].nr = k /\ \A h \in 1 .. j : Events[h].nr = k => Events[h].id = "right"
  BY <1>0 DEF ReapInv, RightOrLeft, SeenRight
<1>2. PICK d \in Id : \A h \in 1 .. seen : Events[h].nr = k => Events[h].id = d
  BY <1>0 DEF ReapInv, Folds, Agrees
<1>3. j \in Nat /\ j \in 1 .. j
  BY <1>0
<1>4. CASE j <= seen
  <2>1. j \in 1 .. seen
    BY <1>0, <1>3, <1>4
  <2> QED
    BY <1>1, <1>2, <1>3, <2>1
<1>5. CASE i <= j
  <2>1. i \in 1 .. j
    BY <1>3, <1>5
  <2> QED
    BY <1>1, <2>1
<1> QED
  BY <1>0, <1>3, <1>4, <1>5

LEMMA ReapNext == TypeOK /\ ReapInv /\ [WatchNext]_watchVars => ReapInv'
<1> SUFFICES ASSUME TypeOK, ReapInv, [WatchNext]_watchVars
             PROVE  ReapInv'
  OBVIOUS
<1> DEFINE Known(k) ==
              \/ \A i \in 1 .. seen' : log'[i].nr = k => log'[i].id = "right"
              \/ k \in anomalies' \cup destStable'.bad \cup reverted'
<1>0. /\ TypeOK' /\ destStable \in State /\ destStable' \in State
      /\ destUnstable \in State /\ working \in State
      /\ seen \in 0 .. Len(log) /\ Len(log) \in Nat
      /\ Events \in Seq(Event) /\ Len(Events) = Len(log) + Len(fork) /\ Len(fork) \in Nat
  <2>1. TypeOK'
    BY TypeNext
  <2>2. /\ destStable \in State /\ destUnstable \in State /\ working \in State
        /\ seen \in 0 .. Len(log)
    BY DEF TypeOK
  <2>3. destStable' \in State
    BY <2>1 DEF TypeOK
  <2> QED
    BY <2>1, <2>2, <2>3, EventsType
<1>1. /\ Folds(destStable, Events, seen) /\ RightOrLeft(working) /\ RightOrLeft(destUnstable)
      /\ \A k \in reapable \cup taken : k \in destStable.done /\ RightOrKnown(k)
      /\ \A k \in destStable.done : destStable.ids[k] = NoId => RightOrKnown(k)
  BY DEF ReapInv
<1>2. UNCHANGED seen /\ destStable.bad \subseteq destStable'.bad =>
         \A k : RightOrKnown(k) => Known(k)
  BY KnownKept
<1>3. \A s : Folds(s, Events, seen) => Folds(s, Events', seen)
  BY FinalKept DEF Folds, Agrees
<1>4. /\ UNCHANGED working => RightOrLeft(working)'
      /\ destUnstable' = destUnstable => RightOrLeft(destUnstable)'
  BY <1>1, LeftKept
<1> SUFFICES /\ Folds(destStable', Events', seen')
             /\ RightOrLeft(working)' /\ RightOrLeft(destUnstable)'
             /\ \A k \in reapable' \cup taken' : k \in destStable'.done /\ Known(k)
             /\ \A k \in destStable'.done : destStable'.ids[k] = NoId => Known(k)
  BY DEF ReapInv, RightOrKnown
<1> HIDE DEF Known
<1>5. CASE DestStable
  <2>1. PICK n \in (seen + 1) .. Len(log) :
            /\ seen' = n /\ destStable' = After(destStable, SubSeq(log, seen + 1, n))
            /\ UNCHANGED <<log, fork, reverted, destUnstable, working, anomalies, reapable, taken>>
    BY <1>5 DEF DestStable, chains, detector
  <2> DEFINE es == SubSeq(log, seen + 1, n)
  <2>2. n \in seen .. Len(log) /\ seen + (n - seen) = n /\ n \in Nat
    BY <1>0, <2>1
  <2>3. /\ es \in Seq(Event) /\ Len(es) = n - seen
        /\ \A i \in 1 .. n - seen : es[i] = log[seen + i] /\ es[i] = Events[seen + i]
    BY <2>2, NewLogs
  <2>4. destStable' = After(destStable, es)
    BY <2>1
  <2> HIDE DEF es
  <2>5. Moved(destStable, es, n - seen, destStable')
    BY <1>0, <2>3, <2>4, AfterMoved
  <2>6. Folds(destStable', Events', seen')
    <3>1. /\ seen \in Nat /\ seen + Len(es) = n /\ seen + Len(es) <= Len(Events)
          /\ \A i \in 1 .. Len(es) : es[i] = Events[seen + i]
      BY <1>0, <2>1, <2>2, <2>3
    <3>2. Folds(After(destStable, es), Events, seen + Len(es))
      BY <1>0, <1>1, <2>3, <3>1, AfterFolds
    <3> QED
      BY <2>1, <2>4, <3>1, <3>2, SameEvents
  <2>7. ASSUME NEW k \in destStable.done, RightOrKnown(k)
        PROVE  Known(k)
    <3>1. CASE k \in destStable'.bad
      BY <3>1 DEF Known
    <3>2. CASE \A i \in 1 .. n - seen : es[i].nr # k
      <4>1. ASSUME NEW i \in 1 .. n, log[i].nr = k
            PROVE  i \in 1 .. seen
        <5>1. CASE i <= seen
          BY <1>0, <5>1
        <5>2. CASE ~(i <= seen)
          <6>1. i - seen \in 1 .. n - seen /\ seen + (i - seen) = i
            BY <1>0, <2>2, <5>2
          <6>2. es[i - seen] = log[i]
            BY <2>3, <6>1
          <6> QED
            BY <3>2, <4>1, <6>1, <6>2
        <5> QED
          BY <5>1, <5>2
      <4>2. destStable.bad \subseteq destStable'.bad
        BY <2>5 DEF Moved
      <4> QED
        BY <2>1, <2>7, <4>1, <4>2 DEF RightOrKnown, Known
    <3>3. k \in SeqNr
      BY <1>0 DEF State
    <3> QED
      BY <2>5, <3>1, <3>2, <3>3 DEF Moved
  <2>8. ASSUME NEW k \in destStable'.done, destStable'.ids[k] = NoId
        PROVE  Known(k)
    <3>1. k \in SeqNr
      BY <1>0 DEF State
    <3>2. k \in destStable.done /\ destStable.ids[k] = NoId
      BY <2>5, <2>8, <3>1 DEF Moved
    <3> QED
      BY <1>1, <2>7, <3>2
  <2>9. \A k \in reapable' \cup taken' : k \in destStable'.done /\ Known(k)
    BY <1>1, <2>1, <2>5, <2>7 DEF Moved
  <2> QED
    BY <1>4, <2>1, <2>6, <2>8, <2>9
<1>6. CASE Clone
  <2>1. PICK n \in 0 .. Len(Rest) :
            /\ working' = After(destStable, SubSeq(Rest, 1, n))
            /\ UNCHANGED <<log, fork, reverted, seen, destStable, destUnstable, anomalies,
                           reapable, taken>>
    BY <1>6 DEF Clone, chains, detector
  <2> DEFINE es == SubSeq(Rest, 1, n)
  <2>2. /\ es \in Seq(Event) /\ Len(es) = n /\ seen + n <= Len(Events)
        /\ \A i \in 1 .. n : es[i] = Events[seen + i]
    BY RestOfEvents
  <2>3. working' = After(destStable, es)
    BY <2>1
  <2> HIDE DEF es
  <2>4. /\ seen \in Nat /\ n \in Nat /\ seen + n \in 0 .. Len(Events)
        /\ After(destStable, es) \in State
    BY <1>0, <2>2, AfterMoved
  <2>5. Folds(After(destStable, es), Events, seen + n)
    BY <1>0, <1>1, <2>2, <2>4, AfterFolds
  <2>6. RightOrLeft(After(destStable, es))
    BY <2>4, <2>5, FoldsSeen
  <2>7. RightOrLeft(working)'
    BY <2>3, <2>6, LeftKept
  <2> QED
    BY <1>1, <1>2, <1>3, <1>4, <2>1, <2>7
<1>7. CASE Publish
  <2>1. /\ destUnstable' = working /\ working' = NewState
        /\ UNCHANGED <<seen, destStable, reapable, taken>>
    BY <1>7 DEF Publish
  <2>2. RightOrLeft(NewState)
    BY DEF RightOrLeft, NewState, NoId
  <2>3. RightOrLeft(working)' /\ RightOrLeft(destUnstable)'
    BY <1>1, <2>1, <2>2, LeftKept
  <2> QED
    BY <1>1, <1>2, <1>3, <2>1, <2>3
<1>8. CASE Finish
  <2>1. /\ UNCHANGED <<seen, log, reverted, destStable, destUnstable, working, taken>>
        /\ anomalies' = anomalies \cup destUnstable.bad \cup Falsified \cup ThinAir
        /\ reapable' = reapable \cup Confirmed
    BY <1>8 DEF Finish, chains, dest
  <2>2. ASSUME NEW k \in Confirmed
        PROVE  k \in destStable.done /\ Known(k)
    BY <2>1, ConfirmedIsRight DEF Confirmed, Known
  <2> QED
    BY <1>1, <1>2, <1>3, <1>4, <2>1, <2>2
<1>9. CASE Take
  BY <1>1, <1>2, <1>3, <1>4, <1>9 DEF Take, dest
<1>10. CASE Reap
  <2>1. /\ destStable'.done = destStable.done /\ destStable'.bad = destStable.bad
        /\ \A k \in SeqNr :
              destStable'.ids[k] = IF k \in taken THEN NoId ELSE destStable.ids[k]
        /\ UNCHANGED <<seen, destUnstable, working, reapable>> /\ taken' = {}
    BY <1>0, <1>10 DEF Reap, State
  <2>2. Folds(destStable', Events, seen)
    BY <1>1, <2>1 DEF Folds, Agrees
  <2>3. destStable'.done \subseteq SeqNr
    BY <1>0 DEF State
  <2> QED
    BY <1>1, <1>2, <1>3, <1>4, <2>1, <2>2, <2>3
<1>11. CASE UNCHANGED <<seen, destStable, destUnstable, working, reapable, taken>>
  BY <1>1, <1>2, <1>3, <1>4, <1>11
<1> QED
  BY <1>5, <1>6, <1>7, <1>8, <1>9, <1>10, <1>11
     DEF WatchNext, Chains, Workers, Detector, Reaper, watchVars, dest, Tick, SendMessage, Finalize, Execute,
         Revert, Settle, SourceStable, SourcePublish, Begin, ReadUnstable

LEMMA InitReap == WatchInit => ReapInv
<1> SUFFICES ASSUME WatchInit
             PROVE  ReapInv
  OBVIOUS
<1>1. \A k \in SeqNr : NewState.ids[k] = NoId
  BY DEF NewState
<1>2. NewState.done = {} /\ NewState.bad = {} /\ "right" \in Id /\ NoId # "right"
  BY DEF NewState, Id, NoId
<1>3. Folds(NewState, Events, 0)
  BY <1>1, <1>2 DEF Folds, Agrees
<1>4. RightOrLeft(NewState)
  BY <1>1, <1>2 DEF RightOrLeft
<1> QED
  BY <1>2, <1>3, <1>4 DEF WatchInit, ReapInv

\* An id that the reaper drops, long after the detector looked at it and in a
\* state that has moved on, is right or already known to be wrong.
THEOREM DroppedWasRight == WatchSpec => []ReapedWasRight
<1>1. TypeOK /\ ReapInv /\ [WatchNext]_watchVars => (TypeOK /\ ReapInv)'
  BY TypeNext, ReapNext
<1>2. ReapInv => ReapedWasRight
  BY DEF ReapInv, ReapedWasRight, RightOrKnown
<1> QED
  BY InitType, InitReap, <1>1, <1>2, PTL DEF WatchSpec

-----------------------------------------------------------------------------
(***************************************************************************)
(* That an anomaly is forgotten only by a node that falls over a poisoned  *)
(* lock, that its votes are for one curse id, and that no vote is cast     *)
(* without cause: for all chains and lanes, and any number of reports,     *)
(* panics, restarts and lost votes.                                        *)
(***************************************************************************)
\* What is reported in this run of the node.
Due == {Manual} \cup {Violation(c) : c \in violated} \cup {OffRamp(lane) : lane \in suspect}

\* Each anomaly of f has an id of its own, which was drawn.
Drew(f) == /\ \A a \in DOMAIN f : f[a] \in Nat /\ f[a] < nextId
           /\ \A a, b \in DOMAIN f : f[a] = f[b] => a = b

\* g has what f has.
Extends(g, f) == \A a \in DOMAIN f : a \in DOMAIN g /\ g[a] = f[a]

NotedInv == /\ nextId \in Nat \ {0}
            /\ Drew(noted) /\ DOMAIN noted \subseteq Due
            /\ Due \subseteq {Manual} \cup reported
            /\ pc = "start" => DOMAIN noted = {}

\* The update that is under way has all that is noted.
LocalInv == /\ Drew(local) /\ DOMAIN local \subseteq Due
            /\ IF pc = "read" THEN Extends(local, noted) ELSE DOMAIN local = {}

\* What a voter is about to vote for is noted, and so is what it voted for.
TodoInv == /\ todo = [c \in Dest |-> todo[c]]
           /\ \A c \in Dest : /\ Extends(noted, todo[c])
                              /\ \A a \in DOMAIN todo[c] : ChainIsCursed(a, c)

\* Votes outlive a run that fell while it was cursed, and no more are cast.
VotesInv ==
    /\ \A v \in pending \cup votes :
          /\ ChainIsCursed(v.anomaly, v.chain) /\ v.anomaly \in {Manual} \cup reported
          /\ pc # "exited" => v.anomaly \in DOMAIN noted /\ v.id = noted[v.anomaly]
    /\ OneIdPerAnomaly

Inv == NotedInv /\ LocalInv /\ TodoInv /\ VotesInv

-----------------------------------------------------------------------------
(***************************************************************************)
(* note().                                                                 *)
(***************************************************************************)
LEMMA NotedKeeps ==
    ASSUME NEW f, NEW a, NEW id
    PROVE  /\ DOMAIN Noted(f, a, id) = DOMAIN f \cup {a}
           /\ Extends(Noted(f, a, id), f)
           /\ a \notin DOMAIN f => Noted(f, a, id)[a] = id
BY DEF Noted, Extends

\* Read(x) adds at most the anomaly that x shows, with an id of its own.
LEMMA ReadExtends ==
    ASSUME NEW x, Read(x), nextId \in Nat \ {0}, Drew(local), DOMAIN local \subseteq Due
    PROVE  /\ nextId' \in Nat \ {0} /\ nextId <= nextId'
           /\ Extends(local', local) /\ Drew(local)'
           /\ DOMAIN local' \subseteq Due
<1>1. CASE Shown(x) = {}
  BY <1>1 DEF Read, Drawn, Extends, Drew
<1>2. CASE Shown(x) # {}
  <2> DEFINE a == CHOOSE y \in Shown(x) : TRUE
  <2>1. a \in Shown(x) /\ \A y \in Shown(x) : y = a
    BY <1>2 DEF Shown
  <2>2. a \in Due
    BY <2>1 DEF Shown, Due
  <2>3. local' = Noted(local, a, nextId)
    BY <1>2 DEF Read
  <2>4. DOMAIN local' = DOMAIN local \cup {a} /\ Extends(local', local)
    BY <2>3, NotedKeeps
  <2>5. CASE a \in DOMAIN local
    <3>1. nextId' = nextId
      BY <2>1, <2>5 DEF Read, Drawn
    <3>2. DOMAIN local' = DOMAIN local
      BY <2>4, <2>5
    <3>3. Drew(local)'
      BY <3>1, <3>2, <2>4 DEF Drew, Extends
    <3> QED
      BY <3>1, <3>2, <3>3, <2>4
  <2>6. CASE a \notin DOMAIN local
    <3>1. nextId' = nextId + 1
      BY <2>1, <2>6 DEF Read, Drawn
    <3>2. local'[a] = nextId
      BY <2>3, <2>6, NotedKeeps
    <3>3. \A y \in DOMAIN local' : y = a \/ (y \in DOMAIN local /\ local'[y] = local[y])
      BY <2>4 DEF Extends
    <3>4. Drew(local)'
      <4>1. \A y \in DOMAIN local : local[y] \in Nat /\ local[y] < nextId
        BY DEF Drew
      <4>2. \A y \in DOMAIN local' : local'[y] \in Nat /\ local'[y] < nextId'
        <5> TAKE y \in DOMAIN local'
        <5>1. CASE y = a
          BY <5>1, <3>1, <3>2
        <5>2. CASE y \in DOMAIN local /\ local'[y] = local[y]
          BY <5>2, <3>1, <4>1
        <5> QED
          BY <3>3, <5>1, <5>2
      <4>3. ASSUME NEW y \in DOMAIN local', NEW z \in DOMAIN local', local'[y] = local'[z]
            PROVE  y = z
        <5>1. CASE y \in DOMAIN local /\ z \in DOMAIN local
          BY <4>3, <5>1, <2>4 DEF Drew, Extends
        <5>2. \A u \in DOMAIN local : local'[u] # local'[a]
          <6> TAKE u \in DOMAIN local
          <6>1. local'[u] = local[u]
            BY <2>4 DEF Extends
          <6>2. local[u] \in Nat /\ local[u] < nextId
            BY <4>1
          <6> QED
            BY <6>1, <6>2, <3>2
        <5>3. CASE y = a \/ z = a
          BY <4>3, <5>2, <5>3, <3>3
        <5> QED
          BY <3>3, <5>1, <5>3
      <4> QED
        BY <4>2, <4>3 DEF Drew
    <3>5. nextId' \in Nat \ {0} /\ nextId <= nextId'
      BY <3>1
    <3>6. DOMAIN local' \subseteq Due
      BY <2>2, <2>4
    <3> QED
      BY <3>4, <3>5, <3>6, <2>4
  <2> QED
    BY <2>5, <2>6
<1> QED
  BY <1>1, <1>2

-----------------------------------------------------------------------------
(***************************************************************************)
(* The invariant.                                                          *)
(***************************************************************************)
LEMMA InitInv == Init => Inv
BY DEF Init, Inv, NotedInv, LocalInv, TodoInv, VotesInv, Drew, NoAnomaly, Extends, Due, OneIdPerAnomaly

\* A step that leaves the monitor and the voters alone, and forgets no report.
LEMMA FrameInv ==
    ASSUME Inv, UNCHANGED <<pc, local, noted, nextId, todo, pending, votes>>,
           violated \subseteq violated', suspect \subseteq suspect', reported \subseteq reported',
           Due' \subseteq {Manual} \cup reported'
    PROVE  Inv'
<1>1. Due \subseteq Due'
  BY DEF Due
<1>2. NotedInv' /\ LocalInv' /\ TodoInv'
  BY <1>1 DEF Inv, NotedInv, LocalInv, TodoInv, Drew, Extends
<1>3. VotesInv'
  BY DEF Inv, VotesInv, OneIdPerAnomaly
<1> QED
  BY <1>2, <1>3 DEF Inv

\* A run ends when nothing is noted, and there is nothing to vote for, or for good.
LEMMA EndedInv ==
    ASSUME Inv, Ended, pc # "exited", pc' # "read", DOMAIN noted = {} \/ pc' = "exited"
    PROVE  Inv'
<1>1. DOMAIN noted' = {} /\ DOMAIN local' = {} /\ \A c \in Dest : DOMAIN todo'[c] = {}
  BY DEF Ended, NoAnomaly
<1>2. UNCHANGED <<nextId, pending, votes, reported>> /\ violated' = {} /\ suspect' = {}
  BY DEF Ended, ledger
<1>3. NotedInv'
  BY <1>1, <1>2 DEF NotedInv, Inv, Drew, Due
<1>4. LocalInv'
  BY <1>1 DEF LocalInv, Drew
<1>5. TodoInv'
  BY <1>1 DEF TodoInv, Ended, Extends
<1>6. pc' # "exited" => pending \cup votes = {}
  BY DEF Inv, VotesInv
<1>7. VotesInv'
  BY <1>2, <1>6 DEF Inv, VotesInv, OneIdPerAnomaly
<1> QED
  BY <1>3, <1>4, <1>5, <1>7 DEF Inv

\* What is noted grows, and the votes are what they were.
LEMMA VotesKept ==
    ASSUME VotesInv, pc # "exited", Extends(noted', noted), UNCHANGED <<pending, votes, reported>>
    PROVE  VotesInv'
BY DEF VotesInv, OneIdPerAnomaly, Extends

\* The votes are for what is noted, each with the id that it was noted with.
LEMMA VotesOfNoted ==
    ASSUME NotedInv',
           \A v \in pending' \cup votes' :
              /\ v.anomaly \in DOMAIN noted' /\ v.id = noted'[v.anomaly]
              /\ ChainIsCursed(v.anomaly, v.chain)
    PROVE  VotesInv'
<1>1. \A v \in pending' \cup votes' : v.anomaly \in {Manual} \cup reported'
  BY DEF NotedInv
<1>2. \A a, b \in DOMAIN noted' : noted'[a] = noted'[b] => a = b
  BY DEF NotedInv, Drew
<1> QED
  BY <1>1, <1>2 DEF VotesInv, OneIdPerAnomaly

\* The invariant holds after a step of the monitor.
LEMMA MonitorInv ==
    ASSUME Inv, Monitor \/ Refuse
    PROVE  Inv'
<1>1. CASE Start
  <2>1. DOMAIN noted = {} /\ local' = noted' /\ noted' = AtStart /\ pc' = "read"
    BY <1>1 DEF Start, BeginUpdate, Inv, NotedInv
  <2>2. UNCHANGED <<violated, suspect, nextId, todo, pending, votes, reported>> /\ pc = "start"
    BY <1>1 DEF Start, workers, voters, ledger
  <2>3. DOMAIN AtStart \subseteq {Manual} /\ \A a \in DOMAIN AtStart : AtStart[a] = 0
    BY DEF AtStart, NoAnomaly, Noted, ManualId
  <2>4. Drew(noted)' /\ DOMAIN noted' \subseteq Due'
    BY <2>1, <2>2, <2>3 DEF Drew, Due, Inv, NotedInv
  <2>5. NotedInv' /\ LocalInv'
    BY <2>1, <2>2, <2>4 DEF Inv, NotedInv, LocalInv, Drew, Extends, Due
  <2>6. Extends(noted', noted)
    BY <2>1 DEF Extends
  <2>7. TodoInv' /\ VotesInv'
    BY <2>1, <2>2, <2>6, VotesKept DEF Inv, TodoInv, Extends
  <2> QED
    BY <2>5, <2>7 DEF Inv
<1>2. ASSUME NEW x \in unread, Read(x)
      PROVE  Inv'
  <2>1. pc = "read" /\ UNCHANGED <<pc, noted, violated, suspect, todo, pending, votes, reported>>
    BY <1>2 DEF Read, NextRead, workers, voters, ledger
  <2>2. /\ nextId' \in Nat \ {0} /\ nextId <= nextId'
        /\ Extends(local', local) /\ Drew(local)' /\ DOMAIN local' \subseteq Due
    BY <1>2, ReadExtends DEF Inv, NotedInv, LocalInv
  <2>3. NotedInv'
    BY <2>1, <2>2 DEF Inv, NotedInv, Drew, Due
  <2>4. LocalInv'
    BY <2>1, <2>2 DEF Inv, LocalInv, Extends, Due
  <2>5. TodoInv' /\ VotesInv'
    BY <2>1, VotesKept DEF Inv, TodoInv, Extends
  <2> QED
    BY <2>3, <2>4, <2>5 DEF Inv
<1>3. CASE Write
  <2>1. /\ pc = "read" /\ pc' = "decide" /\ noted' = local /\ local' = NoAnomaly
        /\ UNCHANGED <<violated, suspect, nextId, todo, pending, votes, reported>>
    BY <1>3 DEF Write, workers, voters, ledger
  <2>2. Extends(noted', noted)
    BY <2>1 DEF Inv, LocalInv
  <2>3. NotedInv'
    BY <2>1 DEF Inv, NotedInv, LocalInv, Drew, Due
  <2>4. LocalInv'
    BY <2>1 DEF LocalInv, NoAnomaly, Drew
  <2>5. TodoInv' /\ VotesInv'
    BY <2>1, <2>2, VotesKept DEF Inv, TodoInv, Extends
  <2> QED
    BY <2>3, <2>4, <2>5 DEF Inv
<1>4. CASE Continue
  <2>1. /\ pc = "decide" /\ pc' = "read" /\ local' = noted
        /\ UNCHANGED <<noted, violated, suspect, nextId, todo, pending, votes, reported>>
    BY <1>4 DEF Continue, BeginUpdate, workers, voters, ledger
  <2>2. NotedInv' /\ LocalInv'
    BY <2>1 DEF Inv, NotedInv, LocalInv, Drew, Due, Extends
  <2>3. TodoInv' /\ VotesInv'
    BY <2>1, VotesKept DEF Inv, TodoInv, Extends
  <2> QED
    BY <2>2, <2>3 DEF Inv
<1>5. CASE Restart
  BY <1>5, EndedInv DEF Restart, Changed, IsCursed
<1>6. CASE Exit
  BY <1>6, EndedInv DEF Exit, Died, IsCursed
<1>7. CASE Refuse
  BY <1>7, EndedInv DEF Refuse
<1>8. CASE Fall
  BY <1>8, EndedInv DEF Fall, NextRead
<1> QED
  BY <1>1, <1>2, <1>3, <1>4, <1>5, <1>6, <1>7, <1>8 DEF Monitor, Update

\* The invariant holds after a step of a voter.
LEMMA VoterInv ==
    ASSUME Inv, NEW c \in Dest, Voter(c)
    PROVE  Inv'
<1>0. /\ UNCHANGED <<violated, suspect, pc, noted, local, nextId, votes, reported>>
      /\ Due' = Due
  BY DEF Voter, Poll, Treat, Pass, Send, WriteFile, FileError, Expire, workers, monitor, ledger, Due
<1>1. NotedInv' /\ LocalInv'
  BY <1>0 DEF Inv, NotedInv, LocalInv, Drew, Extends
<1>2. TodoInv' /\ VotesInv'
  <2>1. CASE Poll(c)
    <3>1. UNCHANGED pending /\ todo' = [todo EXCEPT ![c] = [a \in Cursing(c) |-> noted[a]]]
      BY <2>1 DEF Poll, ledger
    <3>2. TodoInv'
      BY <3>1, <1>0 DEF Inv, TodoInv, Cursing, Extends
    <3> QED
      BY <3>1, <3>2, <1>0 DEF Inv, VotesInv, OneIdPerAnomaly
  <2>2. ASSUME NEW a \in DOMAIN todo[c], Treat(c, a)
        PROVE  TodoInv' /\ VotesInv'
    <3>1. \/ Treated(c, a)
          \/ todo' = [todo EXCEPT ![c] = NoAnomaly]
      BY <2>2 DEF Treat, Pass, Send, WriteFile, FileError
    <3>2. TodoInv'
      BY <3>1, <1>0 DEF Inv, TodoInv, Treated, NoAnomaly, Extends
    <3>3. \/ UNCHANGED pending
          \/ pending' = pending \cup {[chain |-> c, anomaly |-> a, id |-> todo[c][a]]}
      BY <2>2 DEF Treat, Pass, Send, WriteFile, FileError, ledger
    <3>4. pc # "exited"
      BY <2>2 DEF Treat, Pass, Send, WriteFile, FileError, Turn, Running, Spawned
    <3>5. \A v \in pending' \cup votes' :
             /\ v.anomaly \in DOMAIN noted' /\ v.id = noted'[v.anomaly]
             /\ ChainIsCursed(v.anomaly, v.chain)
      BY <3>3, <3>4, <1>0 DEF Inv, TodoInv, VotesInv, Extends
    <3>6. VotesInv'
      BY <3>5, <1>1, VotesOfNoted
    <3> QED
      BY <3>2, <3>6
  <2>3. ASSUME NEW id \in recent[c], Expire(c, id)
        PROVE  TodoInv' /\ VotesInv'
    <3>1. UNCHANGED <<todo, pending>>
      BY <2>3 DEF Expire, ledger
    <3> QED
      BY <3>1, <1>0 DEF Inv, TodoInv, VotesInv, OneIdPerAnomaly, Extends
  <2> QED
    BY <2>1, <2>2, <2>3 DEF Voter
<1> QED
  BY <1>1, <1>2 DEF Inv

LEMMA NextInv == Inv /\ [Next]_vars => Inv'
<1> SUFFICES ASSUME Inv, [Next]_vars PROVE Inv'
  OBVIOUS
<1>1. CASE Reports
  <2>1. /\ UNCHANGED <<pc, local, noted, nextId, todo, pending, votes>>
        /\ violated \subseteq violated' /\ suspect \subseteq suspect' /\ reported \subseteq reported'
    BY <1>1 DEF Reports, ReportViolation, ReportAnomaly, Reconfigure, Discover, Panic, PanicUnderLock,
       DetectorFalls, Dies, workers, monitor, voters, ledger
  <2>2. Due' \subseteq Due \cup reported' /\ Due \subseteq {Manual} \cup reported
    BY <1>1 DEF Reports, ReportViolation, ReportAnomaly, Reconfigure, Discover, Panic, PanicUnderLock,
       DetectorFalls, Dies, workers, Due, Inv, NotedInv
  <2> QED
    BY <2>1, <2>2, FrameInv
<1>2. CASE Monitor \/ Refuse
  BY <1>2, MonitorInv
<1>3. CASE \E c \in Dest : Voter(c)
  BY <1>3, VoterInv
<1>4. ASSUME NEW vote \in pending, Confirm(vote) \/ Lose(vote)
      PROVE  Inv'
  <2>1. /\ UNCHANGED <<violated, suspect, pc, noted, local, nextId, todo, reported>>
        /\ Due' = Due /\ pending' \cup votes' \subseteq pending \cup votes
    BY <1>4 DEF Confirm, Lose, workers, monitor, voters, Due
  <2> QED
    BY <2>1 DEF Inv, NotedInv, LocalInv, TodoInv, VotesInv, OneIdPerAnomaly, Drew, Extends
<1>5. CASE UNCHANGED vars
  <2>1. UNCHANGED <<pc, local, noted, nextId, todo, pending, votes, violated, suspect, reported>> /\ Due' = Due
    BY <1>5 DEF vars, workers, monitor, voters, ledger, Due
  <2> QED
    BY <2>1, FrameInv DEF Inv, NotedInv
<1> QED
  BY <1>1, <1>2, <1>3, <1>4, <1>5 DEF Next

\* Inv holds in every reachable state, for any chains, reports and restarts.
THEOREM Invariance == Spec => []Inv
BY InitInv, NextInv, PTL DEF Spec

-----------------------------------------------------------------------------
(***************************************************************************)
(* What it is for.                                                         *)
(***************************************************************************)
\* An anomaly that was noted is forgotten only by a main thread that panics over a
\* poisoned lock: any other step of the node keeps it, with its curse id.  Only an
\* update changes what is noted, and otherwise a run ends only if nothing is.
THEOREM ForgottenByPoisonOnly == Spec => KeptUnlessPoisoned
<1> DEFINE Kept == \A a \in DOMAIN noted : a \in DOMAIN noted' /\ noted'[a] = noted[a]
<1>1. Inv /\ [Next]_vars => [Kept \/ (pc' = "exited" /\ poisoned # {})]_vars
  <2> SUFFICES ASSUME Inv, Next
               PROVE  Kept \/ (pc' = "exited" /\ poisoned # {})
    OBVIOUS
  <2>1. CASE Reports \/ (\E c \in Dest : Voter(c)) \/ \E vote \in pending : Confirm(vote) \/ Lose(vote)
    <3>1. UNCHANGED noted
      BY <2>1 DEF Reports, ReportViolation, ReportAnomaly, Reconfigure, Discover, Panic, PanicUnderLock,
         DetectorFalls, Dies, Voter, Poll, Treat, Pass, Send, WriteFile, FileError, Expire, Confirm, Lose, monitor
    <3> QED
      BY <3>1
  <2>2. CASE Start \/ Refuse
    BY <2>2 DEF Start, Refuse, Inv, NotedInv
  <2>3. CASE Restart \/ Exit
    BY <2>3 DEF Restart, Exit, Changed, Died, IsCursed
  <2>4. CASE (\E x \in unread : Read(x)) \/ Continue
    BY <2>4 DEF Read, Continue
  <2>5. CASE Write
    BY <2>5 DEF Write, Inv, LocalInv, Extends
  <2>6. CASE Fall
    BY <2>6 DEF Fall
  <2> QED
    BY <2>1, <2>2, <2>3, <2>4, <2>5, <2>6 DEF Next, Monitor, Update
<1> QED
  BY <1>1, Invariance, PTL DEF Spec, KeptUnlessPoisoned

\* The votes for an anomaly have the id that it was noted with, on every chain
\* and in every run, and ids are not shared.
THEOREM OneId == Spec => []OneIdPerAnomaly
<1>1. Inv => OneIdPerAnomaly
  BY DEF Inv, VotesInv
<1> QED
  BY <1>1, Invariance, PTL

\* A vote is cast only for what is reported, and a violation that is to be
\* handled locally only where it happened.
THEOREM Justified == Spec => []VotesAreDue
<1>1. ASSUME Inv
      PROVE  VotesAreDue
  <2>1. \A v \in pending \cup votes :
           v.anomaly \in IF pc = "exited" THEN {Manual} \cup reported ELSE Due
    BY <1>1 DEF Inv, NotedInv, VotesInv
  <2>2. ASSUME NEW v \in pending \cup votes, NEW c \in Chain \ (GlobalCurse \cup {v.chain})
        PROVE  v.anomaly # Violation(c)
    BY <1>1, <2>2 DEF Inv, VotesInv, ChainIsCursed, Violation
  <2> QED
    BY <2>1, <2>2 DEF VotesAreDue, Due
<1> QED
  BY <1>1, Invariance, PTL
=============================================================================
