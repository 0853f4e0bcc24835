------------------------------ MODULE Workers ------------------------------
(***************************************************************************)
(* The threads of a node: the workers of a lane and the main thread, the   *)
(* locks they share, and the Context that shuts the workers down           *)
(* (afn/src/worker.rs).                                                    *)
(*                                                                         *)
(* What a thread does under locks is a section: the sequence of the sets   *)
(* of locks that it holds one after the other.  The locks of std::sync: a  *)
(* reader waits for a writer that waits; a thread that panics poisons what *)
(* it holds to write, and one that asks for a poisoned lock panics too     *)
(* (unwrap).                                                               *)
(***************************************************************************)
EXTENDS Integers, Sequences, FiniteSets

CONSTANTS
    MaxPanics,  \* a bound: the workers that panic of themselves
    MaxPolling  \* a bound: the workers that poll at the same time

VARIABLES
    done,     \* Context::done
    life,     \* of a thread: "none", "up", "ended" or "dead", by a panic
    at,       \* of a thread: <<its section, where it is in that section>>
    queued,   \* TRUE: it waits for a lock that it will write
    poisoned  \* the locks that are poisoned

threads == <<done, life, at, queued, poisoned>>

\* "chain" stands for the workers of chains, "voter" for those that vote.
Worker == {"chain", "source", "dest", "bless", "detector", "reaper", "voter"}
Thread == Worker \cup {"main"}

Asleep == <<"sleep", 0>>

-----------------------------------------------------------------------------
(***************************************************************************)
(* The locks: the state and the timestamp of the stable and the unstable   *)
(* machine of the source; the states of those of the destination, whose    *)
(* two workers (of the commit store and of the off-ramp) run the same code *)
(* and count as one; and the state of the detector.  A Mutex is a lock     *)
(* that is only written.  Left out are the locks that one thread takes,    *)
(* and those that are held alone, for a copy or an assignment: the status  *)
(* of a chain and of a lane, the on-chain config, the beacon's anomalies.  *)
(***************************************************************************)
R(lock) == <<lock, "read">>
W(lock) == <<lock, "write">>

\* The sets of locks with those of the first argument held all along.
Holding(held, sets) == [i \in DOMAIN sets |-> held \cup sets[i]]

\* Mutant: the timestamp is held until the state is.
SyncedUnderTimestamp(time, state) == <<{W(time)}, {W(time), R(state)}, {R(state)}>>

\* synced_state_read
Synced(time, state) == <<{W(time)}, {}, {R(state)}>>

\* The poll of the detector; what it reads of the source, it reads at the end.
Detection ==
    <<{W("detector")}, {W("detector"), R("destU")}>>
    \o Holding({W("detector"), R("destU"), R("dest")},
               <<{}>> \o Synced("sourceTimeU", "sourceU"))
    \o Holding({W("detector"), R("destU"), R("dest"), R("sourceU")},
               Synced("sourceTime", "source"))

Sections == [
    update       |-> <<{W("source")}, {}, {W("sourceTime")}>>,
    clone        |-> <<{W("sourceTime")}, {W("sourceTime"), W("source")}>>,
    forkFrom     |-> <<{W("sourceU")}, {W("sourceU"), W("sourceTimeU")}>>,
    destUpdate   |-> <<{W("dest")}>>,
    destForkFrom |-> <<{W("destU")}>>,
    blessStatus  |-> <<{R("destU")}>> \o Holding({R("destU")}, Synced("sourceTime", "source")),
    detection    |-> Detection,
    reap         |-> <<{W("detector")}, {}, {W("dest")}>>,
    beaconUpdate |-> <<{R("detector")}>>,
    statusReport |-> <<{R("source")}, {}, {R("destU")}, {}, {R("detector")}>> ]

\* The sections that the polls of a worker consist of.
Polls(t) ==
    CASE t = "source" -> {"update", "clone", "forkFrom"}
      [] t = "dest" -> {"destUpdate", "destForkFrom"}
      [] t = "bless" -> {"blessStatus"}
      [] t = "detector" -> {"detection"}
      [] t = "reaper" -> {"reap"}
      [] OTHER -> {}

-----------------------------------------------------------------------------
(***************************************************************************)
(* Threads that wait for threads.                                          *)
(***************************************************************************)
LastIn(t) == Len(Sections[at[t][1]])
Held(t) == IF at[t][2] = 0 THEN {} ELSE Sections[at[t][1]][at[t][2]]
Wanted(t) == IF at[t] = Asleep \/ at[t][2] = LastIn(t) THEN {}
             ELSE Sections[at[t][1]][at[t][2] + 1] \ Held(t)

Blocks(u, t) ==
    /\ u # t
    /\ \E g \in Wanted(t) :
          \/ W(g[1]) \in Held(u) \/ (g[2] = "write" /\ R(g[1]) \in Held(u))
          \/ g[2] = "read" /\ queued[u] /\ W(g[1]) \in Wanted(u)

Blocked(t) == \E u \in Thread : Blocks(u, t)

\* It wants a lock that is poisoned.
Doomed(t) == \E g \in Wanted(t) : g[1] \in poisoned

Queue(t) ==
    /\ ~queued[t] /\ (\E g \in Wanted(t) : g[2] = "write") /\ Blocked(t)
    /\ queued' = [queued EXCEPT ![t] = TRUE]
    /\ UNCHANGED <<done, life, at, poisoned>>

\* It gets the lock it wants, or releases what it no longer holds.
Advance(t) ==
    /\ at[t] # Asleep /\ ~Doomed(t) /\ ~Blocked(t)
    /\ at' = [at EXCEPT ![t] = IF @[2] = LastIn(t) THEN Asleep ELSE <<@[1], @[2] + 1>>]
    /\ queued' = [queued EXCEPT ![t] = FALSE]
    /\ UNCHANGED <<done, life, poisoned>>

Enter(t, section) == at' = [at EXCEPT ![t] = <<section, 0>>]

\* A panic: the guards are dropped.
Unwind(t) ==
    /\ at' = [at EXCEPT ![t] = Asleep] /\ queued' = [queued EXCEPT ![t] = FALSE]
    /\ poisoned' = poisoned \cup {g[1] : g \in {h \in Held(t) : h[2] = "write"}}

Die(t) == Unwind(t) /\ life' = [life EXCEPT ![t] = "dead"] /\ UNCHANGED done

-----------------------------------------------------------------------------
(***************************************************************************)
(* Context::repeat, of a worker.                                           *)
(***************************************************************************)
BeginPoll(t) ==
    /\ Cardinality({u \in Worker : at[u] # Asleep}) < MaxPolling
    /\ \E section \in Polls(t) : Enter(t, section)

\* Mutant: the loop does not ask whether the context is done.
WakeAlways(t) ==
    /\ life[t] = "up" /\ at[t] = Asleep /\ BeginPoll(t)
    /\ UNCHANGED <<done, life, queued, poisoned>>

\* The sleep is over: a poll begins, or the loop ends.  The test of done and
\* the wait are one step under the mutex of done.
Wake(t) ==
    /\ life[t] = "up" /\ at[t] = Asleep
    /\ IF done THEN life' = [life EXCEPT ![t] = "ended"] /\ UNCHANGED at
               ELSE BeginPoll(t) /\ UNCHANGED life
    /\ UNCHANGED <<done, queued, poisoned>>

\* A machine that applies an event panics: the sequence numbers are those of
\* the chain.  Only the stable machine is shared as it does.
Panic(t) ==
    /\ at[t] \in {<<"update", 1>>, <<"destUpdate", 1>>}
    /\ Cardinality({u \in Worker : life[u] = "dead"}) < MaxPanics
    /\ Die(t)

\* It panics because another one did.
Fall(t) == Doomed(t) /\ ~Blocked(t) /\ Die(t)

Run(t) == Wake(t) \/ Queue(t) \/ Advance(t) \/ Fall(t)

\* Workers are spawned.
Spawn(names) == life' = [t \in Thread |-> IF t \in names THEN "up" ELSE life[t]]
=============================================================================
