-------------------------- MODULE EventStateMachine --------------------------
(***************************************************************************)
(* One UnstableContractEventStateMachineWorker and its two                 *)
(* ContractEventStateMachines (afn/src/contract_event_state_machine.rs):   *)
(* the stable one folds the logs up to the stable tip, the unstable one is *)
(* made anew by each poll, as a copy of the stable one that goes on to the *)
(* tip.  Logs are asked for by number, from a chain that moves.            *)
(*                                                                         *)
(* The chain status worker is here what StableChain says of it.  A log is  *)
(* the block it is in; a state is the sequence of the logs it was updated  *)
(* with, and what the code of a state does with an event is to accept or   *)
(* to refuse it.                                                           *)
(***************************************************************************)
EXTENDS BlockTree, Sequences, FiniteSets

CONSTANTS Genesis,      \* the first head
          StartBlock,   \* the number from which logs are asked for
          Logged,       \* the blocks with a log of the contract
          Undecodable,  \* those among them with a log that does not decode
          MaxLogs       \* a bound: no poll of a state that repeated so many logs

ASSUME EventStateMachineAssumption ==
    /\ Genesis \in Block /\ StartBlock \in Nat
    /\ Undecodable \subseteq Logged /\ Logged \subseteq Block
    /\ MaxLogs \in Nat

VARIABLES
    head,       \* the latest block of the chain
    chain,      \* latest_chain_status: phase, stable (the stable tip) and tip
    reliable,   \* TRUE once calls to the node no longer fail
    done,       \* TRUE once shutdown is requested
    contiguous, \* the state numbers its events (SourceBlessState)
    pc,         \* where the worker is: "idle", "stable", "unstable", "stopped"
    snap,       \* the chain status that this poll read
    stable,     \* stable_cesm
    working,    \* new_unstable_cesm
    unstable    \* unstable_cesm, which the other workers read

envVars == <<head, chain, reliable, done>>
vars == <<head, chain, reliable, done, contiguous, pc, snap, stable, working, unstable>>

NoTime == -1  \* the timestamp None

\* A state machine: update_progress (ok unless Corrupted, and the next block
\* number), the logs its state was updated with, and its timestamp, which is
\* that of a tip (here its number).  of is the tip it was made for (history).
NewMachine ==
    [ok |-> TRUE, next |-> StartBlock, logs |-> << >>, time |-> NoTime, of |-> Genesis]

NotInitialised == [phase |-> "none", stable |-> Genesis, tip |-> Genesis]

\* What a poll keeps for itself is dropped at its end.
EndPoll == pc' = "idle" /\ snap' = NotInitialised /\ working' = NewMachine

Init ==
    /\ head = Genesis /\ chain = NotInitialised
    /\ reliable = FALSE /\ done = FALSE /\ contiguous \in BOOLEAN
    /\ pc = "idle" /\ snap = NotInitialised
    /\ stable = NewMachine /\ working = NewMachine /\ unstable = NewMachine

-----------------------------------------------------------------------------
(***************************************************************************)
(* The chain, its status worker, and the rest of the node.                 *)
(***************************************************************************)
workerVars == <<contiguous, pc, snap, stable, working, unstable>>

\* A new head, that keeps what was reported stable: the folds of a chain that
\* breaks this are worth nothing, and its lanes are cursed for the violation.
MoveHead ==
    /\ head' \in Block \ {head}
    /\ chain.phase = "good" => chain.stable \preceq head'
    /\ UNCHANGED <<chain, reliable, done, workerVars>>

\* A new status: the tip is the head, the stable tip has advanced.
Follow ==
    /\ chain.phase \in {"none", "good"}
    /\ \E s \in Block :
          /\ s \preceq head
          /\ chain.phase = "good" => chain.stable \preceq s
          /\ chain' = [phase |-> "good", stable |-> s, tip |-> head]
    /\ chain' # chain
    /\ UNCHANGED <<head, reliable, done, workerVars>>

Violate ==
    /\ chain.phase = "good"
    /\ chain' = [chain EXCEPT !.phase = "violated"]
    /\ UNCHANGED <<head, reliable, done, workerVars>>

Stabilize ==
    /\ ~reliable /\ reliable' = TRUE
    /\ UNCHANGED <<head, chain, done, workerVars>>

Cancel ==
    /\ ~done /\ done' = TRUE
    /\ UNCHANGED <<head, chain, reliable, workerVars>>

-----------------------------------------------------------------------------
(***************************************************************************)
(* ContractEventStateMachine::update.                                      *)
(***************************************************************************)
\* The logs of the chain of each block, in the order of the chain.
Logs == [b \in Block |->
    LET found == {a \in Logged : a \preceq b}
    IN CHOOSE s \in [1 .. Cardinality(found) -> found] :
          \A i, j \in DOMAIN s : i < j => Number[s[i]] < Number[s[j]]]

\* Those with numbers from .. to, for which the node is asked.
LogsOf(b, from, to) ==
    LET Below(n) == {i \in DOMAIN Logs[b] : Number[Logs[b][i]] < n}
    IN SubSeq(Logs[b], Cardinality(Below(from)) + 1, Cardinality(Below(to + 1)))

\* The sequence number of the log of b, which its contract counted.
SeqNr(b) == Cardinality({a \in Logged : a \preceq b /\ Number[a] >= StartBlock})

\* The block of a tail with the number of b is not b.
OffTail(b) == ~(b \preceq snap.tip)

\* Mutant: the blocks of the logs are not compared with the tail.
MismatchedNever(b, final) == FALSE

\* The unstable machine accepts a log of a block of the tail only.
Mismatched(b, final) == ~final /\ OffTail(b)

\* Mutant: a gap is noticed, an event that comes twice is not.
RefusedGap(m, i, b) == contiguous /\ SeqNr(b) > Len(m.logs) + i

\* The state refuses an event that leaves a gap, or comes twice.
Refused(m, i, b) == contiguous /\ SeqNr(b) # Len(m.logs) + i

\* How many of the logs the state takes before one is not accepted.
Taken(m, logs, final) ==
    LET accepted(i) == /\ ~Mismatched(logs[i], final)
                       /\ logs[i] \notin Undecodable
                       /\ ~Refused(m, i, logs[i])
    IN CHOOSE n \in 0 .. Len(logs) :
          /\ \A i \in 1 .. n : accepted(i)
          /\ n < Len(logs) => ~accepted(n + 1)

\* The last block number that m is to reach.
Goal(final) == IF final THEN Number[snap.stable] ELSE Number[snap.tip]

\* Mutant: a part of the logs is taken for all of them.
ProcessedStamped(m, end, final) ==
    LET logs == LogsOf(head, m.next, end)
        n == Taken(m, logs, final)
        all == n = Len(logs)
        undecoded == ~all /\ ~Mismatched(logs[n + 1], final) /\ logs[n + 1] \in Undecodable
    IN [m |-> [m EXCEPT !.ok = all \/ undecoded,
                        !.next = IF all THEN end + 1 ELSE @,
                        !.logs = @ \o SubSeq(logs, 1, n),
                        !.time = IF all THEN Number[snap.tip] ELSE @],
        outcome |-> IF all THEN "complete" ELSE "error"]

\* The answer to get_partial_logs covers m.next .. end.  Each log that is taken
\* stays taken when a later one is not; only then is progress corrupted, or,
\* when decoding is what failed, left where it was.
Processed(m, end, final) ==
    LET logs == LogsOf(head, m.next, end)
        n == Taken(m, logs, final)
        all == n = Len(logs)
        undecoded == ~all /\ ~Mismatched(logs[n + 1], final) /\ logs[n + 1] \in Undecodable
        complete == all /\ end = Goal(final)
    IN [m |-> [m EXCEPT !.ok = all \/ undecoded,
                        !.next = IF all THEN end + 1 ELSE @,
                        !.logs = @ \o SubSeq(logs, 1, n),
                        !.time = IF complete THEN Number[snap.tip] ELSE @],
        outcome |-> IF complete THEN "complete" ELSE IF all THEN "partial" ELSE "error"]

\* Mutant: a failed call corrupts the machine, like a mismatch.
FailedCorrupts(m, final) ==
    {[m |-> [m EXCEPT !.ok = FALSE], outcome |-> "error"]}

\* The node fails, as it does past the end of its chain.
Failed(m, final) == {[m |-> m, outcome |-> "error"]}

\* The results that one call on machine m may have, final if finality is Stable:
\* the machine after it, and whether it is complete, partial or an error.
Results(m, final) ==
    IF ~m.ok \/ snap.phase = "violated"
    \* A corrupted machine stays so, and a violation corrupts it.
    THEN {[m |-> [m EXCEPT !.ok = FALSE], outcome |-> "error"]}
    ELSE IF Goal(final) < m.next
    \* There is nothing left to ask for: m is as fresh as the tip.
    THEN {[m |-> [m EXCEPT !.time = Number[snap.tip]], outcome |-> "complete"]}
    \* The node answers a part of the chain it has by now, or fails.
    ELSE {Processed(m, end, final) :
             end \in {n \in m.next .. Goal(final) : n <= Number[head]}}
         \cup (IF reliable /\ Goal(final) <= Number[head] THEN {} ELSE Failed(m, final))

-----------------------------------------------------------------------------
(***************************************************************************)
(* The worker.                                                             *)
(***************************************************************************)
\* A poll starts with the status of the moment, for both machines.
Poll ==
    /\ pc = "idle" /\ ~done
    /\ chain.phase # "none" /\ Len(stable.logs) <= MaxLogs
    /\ snap' = chain /\ pc' = "stable"
    /\ UNCHANGED <<envVars, contiguous, stable, working, unstable>>

\* One turn of the loop that updates the stable machine.
UpdateStable ==
    /\ pc = "stable" /\ ~done
    /\ \E r \in Results(stable, TRUE) :
          /\ stable' = r.m
          /\ \/ r.outcome = "partial" /\ UNCHANGED <<pc, snap, working>>
             \* A copy of it will be the new unstable machine.
             \/ /\ r.outcome = "complete"
                /\ working' = [r.m EXCEPT !.of = snap.tip]
                /\ pc' = "unstable" /\ UNCHANGED snap
             \/ r.outcome = "error" /\ EndPoll
    /\ UNCHANGED <<envVars, contiguous, unstable>>

\* One turn of the loop that updates the new unstable machine, which replaces
\* the old one when it is complete, and is dropped if it fails.
UpdateUnstable ==
    /\ pc = "unstable" /\ ~done
    /\ \E r \in Results(working, FALSE) :
          \/ /\ r.outcome = "partial"
             /\ working' = r.m /\ UNCHANGED <<pc, snap, unstable>>
          \/ r.outcome = "complete" /\ unstable' = r.m /\ EndPoll
          \/ r.outcome = "error" /\ EndPoll /\ UNCHANGED unstable
    /\ UNCHANGED <<envVars, contiguous, stable>>

\* The loops end without an error when shutdown is requested: what there is of
\* the new unstable machine is published.
Interrupted ==
    /\ done
    /\ \/ pc = "stable" /\ unstable' = [stable EXCEPT !.of = snap.tip]
       \/ pc = "unstable" /\ unstable' = working
    /\ EndPoll
    /\ UNCHANGED <<envVars, contiguous, stable>>

\* The worker ends.
Stop ==
    /\ pc = "idle" /\ done
    /\ pc' = "stopped"
    /\ UNCHANGED <<envVars, contiguous, snap, stable, working, unstable>>

Worker == Poll \/ UpdateStable \/ UpdateUnstable \/ Interrupted \/ Stop

Next == Worker \/ MoveHead \/ Follow \/ Violate \/ Stabilize \/ Cancel

Spec == Init /\ [][Next]_vars

\* The status worker keeps following the head, as it is proved to; calls fail
\* only for a while; the worker polls for ever; a poll that goes on asking for
\* logs gets the last ones (SmartGetLogs asks for more blocks at each success).
FairSpec == /\ Spec /\ WF_vars(Worker) /\ WF_vars(Follow) /\ WF_vars(Stabilize)

-----------------------------------------------------------------------------
(***************************************************************************)
(* Correctness.                                                            *)
(***************************************************************************)
\* All the logs of the chain of b decode.
AllDecode(b) == \A u \in Undecodable : ~(u \preceq b)

\* The stable state has each log of the stable chain below its progress once,
\* in order, and no other, although logs are asked for by number and in parts
\* and polls fail between them.  A log that does not decode makes the next poll
\* repeat the logs before it: a state that numbers its events refuses them and
\* is exact all the same, the other states are only exact while all decode.
StableExact ==
    chain.phase = "good" /\ (contiguous \/ AllDecode(chain.stable)) =>
        LET expected == LogsOf(chain.stable, StartBlock, Number[chain.stable]) IN
        /\ Len(stable.logs) <= Len(expected)
        /\ \A i \in DOMAIN stable.logs : stable.logs[i] = expected[i]
        /\ AllDecode(chain.stable) =>
              stable.ok /\ stable.logs = LogsOf(chain.stable, StartBlock, stable.next - 1)

\* What other workers read has no log of a block that is not in the tail of
\* the poll that published it, and none twice; if the state numbers its events,
\* neither has it a gap, though the chain may have left the tail and returned.
UnstableSound ==
    chain.phase # "violated" /\ (contiguous \/ AllDecode(unstable.of)) =>
        LET expected == LogsOf(unstable.of, StartBlock, Number[unstable.of]) IN
        /\ \A i \in DOMAIN unstable.logs : unstable.logs[i] \preceq unstable.of
        /\ \A i, j \in DOMAIN unstable.logs :
              i < j => Number[unstable.logs[i]] < Number[unstable.logs[j]]
        /\ contiguous => \A i \in DOMAIN unstable.logs : unstable.logs[i] = expected[i]

\* The timestamp that readers take for freshness is that of a tip up to which
\* the logs were asked for; a shutdown is the exception, for which see Interrupted.
FreshIsScanned ==
    ~done /\ unstable.time # NoTime => unstable.next > unstable.time

\* "we have a bug: block number found in logs not in chain status" is never
\* reported: the unstable machine asks for numbers of the tail only.
LogsInTail ==
    pc = "unstable" /\ ~done /\ working.ok => working.next >= Number[snap.stable]

\* If the head rests, and all the logs of its chain decode, the unstable state
\* ends up with exactly these logs.
Syncs ==
    /\ <>[][FALSE]_head
    /\ <>[](~done /\ chain.phase # "violated" /\ AllDecode(head))
    => <>[](unstable.logs = LogsOf(head, StartBlock, Number[head]))
=============================================================================
