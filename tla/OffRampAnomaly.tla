---------------------------- MODULE OffRampAnomaly ----------------------------
(***************************************************************************)
(* The watch over the off-ramp of one lane: the DestOffRampState that is   *)
(* folded from the executions on the destination chain                     *)
(* (afn/src/contract_event_state_machine.rs), the detector that compares   *)
(* it with the messages of the source chain                                *)
(* (afn/src/offramp_anomaly_detector.rs), and the reaper that drops the    *)
(* message ids that were found to be right (afn/src/reaper.rs).            *)
(*                                                                         *)
(* The workers that fold the two chains are here what EventStateMachine    *)
(* says of them: a stable state, and an unstable one that is made of a     *)
(* copy of it and published whole.  An anomaly is a sequence number with   *)
(* something wrong.  Time is counted in units of the source chain's blocks.*)
(***************************************************************************)
EXTENDS Integers, Sequences

CONSTANTS MaxSeqNr,  \* a bound: the messages have sequence numbers 1 .. MaxSeqNr
          MaxEvents, \* a bound: the executions on the destination chain
          MaxTime,   \* a bound: the time, while the off-ramp works
          ExecutionState, \* the states that an execution may leave a message in
          MaxFresh,  \* max_fresh_block_age of the source chain
          Delay,     \* from the finality of a message to its execution, at least
          Honesty    \* {TRUE}: the off-ramp executes what it should; {FALSE}: anything

ASSUME OffRampAnomalyAssumption ==
    /\ MaxSeqNr \in Nat /\ MaxEvents \in Nat /\ MaxTime \in Nat
    /\ ExecutionState \subseteq {"Success", "Failure", "InProgress", "Untouched"}
    /\ MaxFresh \in Nat /\ Delay \in Nat /\ Honesty \subseteq BOOLEAN

VARIABLES
    honest,    \* TRUE: the off-ramp works
    now,       \* the time
    sent,      \* how many messages were sent on the source chain
    finalAt,   \* when the first of them became final
    log,       \* the executions on the destination chain that are final
    fork,      \* those after them that are not
    reverted,  \* the messages executed on a fork that was left behind (history)
    srcTip,    \* what the running poll of the source chain is to reach
    srcStable, srcUnstable,  \* the two states of the source worker
    seen,      \* how much of log the stable destination state was updated with
    destStable, destUnstable,  \* the two states of the destination worker
    working,   \* the unstable state that its running poll makes
    cloned,    \* TRUE once the running poll has cloned the stable state for it
    phase,     \* the detector: "idle", "dest" or "unstable", as far as it has read
    unstableNr, unstableSynced, stableSynced,  \* what it has read
    reapable, anomalies,  \* OffRampAnomalyDetectorState
    taken      \* the sequence numbers that the reaper took

chains == <<honest, now, sent, finalAt, log, fork, reverted>>
source == <<srcTip, srcStable, srcUnstable>>
dest == <<seen, destStable, destUnstable, working, cloned>>
detector == <<phase, unstableNr, unstableSynced, stableSynced, anomalies>>
watchVars == <<chains, source, dest, detector, reapable, taken>>

SeqNr == 1 .. MaxSeqNr
NoTime == -1   \* the timestamp None
NoId == "none" \* no entry in message_id_by_sequence_number
Id == {"right", "wrong"} \* the id of the message on the source chain, another one

\* DestOffRampState: successfully_executed_seq_nrs, message_id_by_sequence_number
\* and local_anomalies.
NewState == [done |-> {}, ids |-> [k \in SeqNr |-> NoId], bad |-> {}]

\* What a machine is up to that no poll has completed: no message, no timestamp.
NotSynced == [nr |-> 0, time |-> NoTime]

WatchInit ==
    /\ honest \in Honesty /\ now = 0 /\ sent = 0 /\ finalAt = << >>
    /\ log = << >> /\ fork = << >> /\ reverted = {}
    /\ srcTip = NotSynced /\ srcStable = NotSynced /\ srcUnstable = NotSynced
    /\ seen = 0 /\ destStable = NewState /\ destUnstable = NewState
    /\ working = NewState /\ cloned = FALSE
    /\ phase = "idle" /\ unstableNr = 0 /\ unstableSynced = FALSE /\ stableSynced = FALSE
    /\ reapable = {} /\ anomalies = {} /\ taken = {}

-----------------------------------------------------------------------------
(***************************************************************************)
(* The two chains.                                                         *)
(***************************************************************************)
Tick ==
    /\ honest /\ now < MaxTime /\ now' = now + 1
    /\ UNCHANGED <<honest, sent, finalAt, log, fork, reverted, source, dest, detector, reapable, taken>>

SendMessage ==
    /\ sent < MaxSeqNr /\ sent' = sent + 1
    /\ UNCHANGED <<honest, now, finalAt, log, fork, reverted, source, dest, detector, reapable, taken>>

Finalize ==
    /\ Len(finalAt) < sent /\ finalAt' = Append(finalAt, now)
    /\ UNCHANGED <<honest, now, sent, log, fork, reverted, source, dest, detector, reapable, taken>>

\* What an off-ramp that works does: a message that has been final for long is
\* executed until it succeeds, and no more.
Rightful(e) ==
    /\ e.id = "right" /\ e.state \in {"Success", "Failure"}
    /\ e.nr <= Len(finalAt) /\ finalAt[e.nr] + Delay <= now
    /\ ~\E i \in DOMAIN (log \o fork) :
          (log \o fork)[i].nr = e.nr /\ (log \o fork)[i].state = "Success"

Execute ==
    /\ Len(log) + Len(fork) < MaxEvents
    /\ \E e \in [nr : SeqNr, id : Id, state : ExecutionState] :
          /\ honest => Rightful(e)
          /\ fork' = Append(fork, e)
    /\ UNCHANGED <<honest, now, sent, finalAt, log, reverted, source, dest, detector, reapable, taken>>

\* A reorganisation: the last executions are gone.
Revert ==
    /\ \E n \in 0 .. (Len(fork) - 1) :
          /\ fork' = SubSeq(fork, 1, n)
          /\ reverted' = reverted \cup
                {fork[i].nr : i \in {j \in (n + 1) .. Len(fork) : fork[j].id = "right"}}
    /\ UNCHANGED <<honest, now, sent, finalAt, log, source, dest, detector, reapable, taken>>

Settle ==
    /\ fork # << >>
    /\ log' = Append(log, Head(fork)) /\ fork' = Tail(fork)
    /\ UNCHANGED <<honest, now, sent, finalAt, reverted, source, dest, detector, reapable, taken>>

-----------------------------------------------------------------------------
(***************************************************************************)
(* The source worker.  A state knows the messages 1 .. nr.                 *)
(***************************************************************************)
\* A poll.  The stable tip may be short of what is final for others, the tip has
\* it all.
SourceStable ==
    /\ srcTip = NotSynced
    /\ \E n \in srcStable.nr .. Len(finalAt) : srcStable' = [nr |-> n, time |-> now]
    /\ srcTip' = [nr |-> Len(finalAt), time |-> now]
    /\ UNCHANGED <<chains, srcUnstable, dest, detector, reapable, taken>>

\* The fork of the tip may have messages that are not final.
SourcePublish ==
    /\ srcTip.time # NoTime
    /\ \E n \in srcTip.nr .. sent : srcUnstable' = [nr |-> n, time |-> srcTip.time]
    /\ srcTip' = NotSynced
    /\ UNCHANGED <<chains, srcStable, dest, detector, reapable, taken>>

\* synced_state_read: is the timestamp fresh?
Synced(state) == state.time # NoTime /\ now - state.time <= MaxFresh

-----------------------------------------------------------------------------
(***************************************************************************)
(* DestOffRampState::update_with_event, and the destination worker.        *)
(***************************************************************************)
\* The event tells another id, or it is not the first after a success.
Double(s, e) == s.ids[e.nr] \notin {NoId, e.id} \/ e.nr \in s.done

Invalid(s, e) == e.nr \notin s.done /\ e.state \notin {"Success", "Failure"}

Updated(s, e) ==
    [done |-> IF e.state = "Success" THEN s.done \cup {e.nr} ELSE s.done,
     ids |-> [s.ids EXCEPT ![e.nr] = e.id],
     bad |-> IF Double(s, e) \/ Invalid(s, e) THEN s.bad \cup {e.nr} ELSE s.bad]

\* The state s after the events es.
After(s, es) ==
    LET f[i \in 0 .. Len(es)] == IF i = 0 THEN s ELSE Updated(f[i - 1], es[i])
    IN f[Len(es)]

\* The detector holds the read locks of both destination states while it works.
DestLocked == phase # "idle"

DestStable ==
    /\ ~cloned /\ ~DestLocked /\ seen < Len(log)
    /\ seen' \in (seen + 1) .. Len(log)
    /\ destStable' = After(destStable, SubSeq(log, seen + 1, seen'))
    /\ UNCHANGED <<chains, source, destUnstable, working, cloned, detector, reapable, taken>>

\* The logs that follow those of the stable state, up to the tip.
Rest == SubSeq(log, seen + 1, Len(log)) \o fork

\* A copy of the stable state goes on with them, as far as the node has them.
\* (A poll that fails from here on is one that makes no copy.)
Clone ==
    /\ ~cloned /\ cloned' = TRUE
    /\ \E n \in 0 .. Len(Rest) : working' = After(destStable, SubSeq(Rest, 1, n))
    /\ UNCHANGED <<chains, source, seen, destStable, destUnstable, detector, reapable, taken>>

\* The poll is done.
Publish ==
    /\ cloned /\ ~DestLocked
    /\ destUnstable' = working
    /\ working' = NewState /\ cloned' = FALSE
    /\ UNCHANGED <<chains, source, seen, destStable, detector, reapable, taken>>

-----------------------------------------------------------------------------
(***************************************************************************)
(* The detector.  It reads the destination states, then the source states, *)
(* unstable before stable, and of each the timestamp before the state.     *)
(***************************************************************************)
Begin ==
    /\ phase = "idle" /\ phase' = "dest"
    /\ unstableSynced' = Synced(srcUnstable)
    /\ UNCHANGED <<chains, source, dest, unstableNr, stableSynced, anomalies, reapable, taken>>

ReadUnstable ==
    /\ phase = "dest" /\ phase' = "unstable"
    /\ unstableNr' = srcUnstable.nr
    /\ stableSynced' = Synced(srcStable)
    /\ UNCHANGED <<chains, source, dest, unstableSynced, anomalies, reapable, taken>>

\* The sequence numbers of which the destination state has a message id.
Executed == {k \in SeqNr : destUnstable.ids[k] # NoId}

\* The source's stable state has the message, with another id.
Falsified == {k \in Executed : k <= srcStable.nr /\ destUnstable.ids[k] # "right"}

\* Mutant: the unstable state of the source is not asked.
ThinAirStable ==
    {k \in Executed : k > srcStable.nr /\ stableSynced}

\* Neither state of the source has the message, and both are fresh.
ThinAir ==
    {k \in Executed : /\ k > srcStable.nr /\ stableSynced
                      /\ k > unstableNr /\ unstableSynced}

\* Mutant: the id need not be known from the source chain.
ConfirmedUnchecked == {k \in Executed : k \in destStable.done}

\* The id is right, and the success is stable: the id is of no more use.
Confirmed ==
    {k \in Executed : /\ k <= srcStable.nr /\ destUnstable.ids[k] = "right"
                      /\ k \in destStable.done}

Finish ==
    /\ phase = "unstable" /\ phase' = "idle"
    /\ anomalies' = anomalies \cup destUnstable.bad \cup Falsified \cup ThinAir
    /\ reapable' = reapable \cup Confirmed
    /\ unstableNr' = 0 /\ unstableSynced' = FALSE /\ stableSynced' = FALSE
    /\ UNCHANGED <<chains, source, dest, taken>>

-----------------------------------------------------------------------------
(***************************************************************************)
(* The reaper.                                                             *)
(***************************************************************************)
Take ==
    /\ phase = "idle" /\ taken = {} /\ reapable # {}
    /\ taken' = reapable /\ reapable' = {}
    /\ UNCHANGED <<chains, source, dest, detector>>

\* Mutant: what is known of the executions is dropped with the ids.
ReapAll ==
    /\ ~DestLocked /\ taken # {}
    /\ destStable' = [destStable EXCEPT
          !.ids = [k \in SeqNr |-> IF k \in taken THEN NoId ELSE @[k]],
          !.done = @ \ taken]
    /\ taken' = {}
    /\ UNCHANGED <<chains, source, seen, destUnstable, working, cloned, detector, reapable>>

Reap ==
    /\ ~DestLocked /\ taken # {}
    /\ destStable' = [destStable EXCEPT
          !.ids = [k \in SeqNr |-> IF k \in taken THEN NoId ELSE @[k]]]
    /\ taken' = {}
    /\ UNCHANGED <<chains, source, seen, destUnstable, working, cloned, detector, reapable>>

-----------------------------------------------------------------------------
Chains == Tick \/ SendMessage \/ Finalize \/ Execute \/ Revert \/ Settle
Workers == SourceStable \/ SourcePublish \/ DestStable \/ Clone \/ Publish
Detector == Begin \/ ReadUnstable \/ Finish
Reaper == Take \/ Reap

WatchNext == Chains \/ Workers \/ Detector \/ Reaper

WatchSpec == WatchInit /\ [][WatchNext]_watchVars

\* The two chains are followed to their ends, again and again, and the detector
\* runs for ever.  Nothing is assumed of the reaper.
FairWatchSpec ==
    /\ WatchSpec
    /\ SF_watchVars(SourceStable /\ srcStable'.nr = Len(finalAt)) /\ WF_watchVars(SourcePublish)
    /\ SF_watchVars(DestStable /\ seen' = Len(log))
    /\ SF_watchVars(Clone /\ working' = After(destStable, Rest))
    /\ SF_watchVars(Publish) /\ WF_watchVars(Detector)

-----------------------------------------------------------------------------
(***************************************************************************)
(* Correctness.                                                            *)
(***************************************************************************)
\* An off-ramp that works is never cursed for an anomaly, not even for a message
\* out of thin air, although the two chains are read at different times, the
\* executions may be reverted and repeated, and each state may be behind: a
\* source state counts as evidence only while it is fresher than Delay.
NoFalseAlarm == honest /\ Delay > MaxFresh => anomalies = {}

\* An id that was dropped is the one in the final log, or known to be wrong by
\* then, or executed twice; unless the right id was seen on a fork left behind:
\* the wrong one, which comes with the stable state before the unstable state is
\* published anew, is then dropped unseen.
ReapedWasRight ==
    \A k \in destStable.done :
        destStable.ids[k] = NoId =>
            \/ \A i \in 1 .. seen : log[i].nr = k => log[i].id = "right"
            \/ k \in anomalies \cup destStable.bad
            \/ k \in reverted

\* The final log has an execution of k that should not be there: of another
\* message than the final one, of one that was never sent, in an invalid state,
\* or one more after a success.
Wrong(k) ==
    \/ \E i \in DOMAIN log :
          /\ log[i].nr = k
          /\ \/ log[i].id = "wrong" /\ k <= Len(finalAt) /\ k \notin reverted
             \/ k > sent
             \/ log[i].state \notin {"Success", "Failure"}
    \/ \E i, j \in DOMAIN log :
          i < j /\ log[i].nr = k /\ log[j].nr = k /\ log[i].state = "Success"

\* A wrong execution is found in the end, whether or not the reaper has dropped
\* the id of an earlier one.
Detects == \A k \in SeqNr : <>[]Wrong(k) => <>(anomalies # {})
=============================================================================
