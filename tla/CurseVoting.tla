----------------------------- MODULE CurseVoting -----------------------------
(***************************************************************************)
(* From an anomaly to the votes to curse: the curse beacon                 *)
(* (afn/src/curse_beacon.rs), the monitor that updates it and decides      *)
(* whether the node goes on, stops or restarts (State::monitor in          *)
(* afn/src/state.rs, the loop in afn/src/bin/afn.rs), and the workers that *)
(* vote, one for each destination chain (afn/src/vote_to_curse_worker.rs). *)
(*                                                                         *)
(* The chain status workers and the anomaly detectors are here what they   *)
(* report, and the locks of a lane what is left of them when a thread      *)
(* panics; a run of the node is what lies between two restarts of it.      *)
(***************************************************************************)
EXTENDS Integers, FiniteSets

CONSTANTS Chain,
          Lane,         \* records [source, dest] of chains
          GlobalCurse,  \* upon_finality_violation_vote_to_curse_on_other_chains
          Modes,        \* the voting modes that the node may be started in
          ManualCurse,  \* may the node be started with a curse id?  {TRUE, FALSE}
          MaxReports,   \* a bound: what the workers report over all runs
          MaxVersion,   \* a bound: the version of an on-chain config
          MaxPanics,    \* a bound: the workers that panic of themselves in a run
          Writers       \* a bound: those of a lane that may panic as they write

ASSUME CurseVotingAssumption ==
    /\ IsFiniteSet(Chain)
    /\ Lane \subseteq [source : Chain, dest : Chain]
    /\ GlobalCurse \subseteq Chain
    /\ Modes \subseteq {"Active", "UnreliableRemote", "DryRun", "Passive"}
    /\ ManualCurse \subseteq BOOLEAN
    /\ MaxReports \in Nat /\ MaxVersion \in Nat /\ MaxPanics \in Nat
    /\ Writers \subseteq {"source", "dest"}

VARIABLES
    mode,        \* the voting mode
    manual,      \* TRUE: manual_curse is given
    \* what the workers of this run know
    violated,    \* the chains whose status is FinalityViolated
    suspect,     \* the lanes whose detector has an anomaly
    discovered,  \* the version of the on-chain config of each chain, or None
    dead,        \* the workers that panicked
    poisoned,    \* those of them that held a lock to write: it is poisoned
    \* the monitor
    pc,          \* "start", "read", "decide" or "exited"
    initial,     \* onchain_configs
    finished,    \* finished_workers_and_results
    unread,      \* the workers and detectors that update() has yet to read
    local,       \* local_cursable_anomalies
    noted,       \* cursable_anomalies: the curse ids of the anomalies
    \* the voters, by chain
    todo,        \* the anomalies that the running poll has yet to treat
    recent,      \* do_not_send_vote_for_curse_id_until
    file,        \* what the curse file says: <<chain, anomaly>>
    \* outside
    version,     \* the version of the config of each chain's AFN contract
    pending,     \* the votes that were sent: [chain, anomaly, id]
    votes,       \* those that are on their chain
    nextId,      \* the curse ids drawn so far are 1 .. nextId - 1
    reported     \* every anomaly that was reported, in any run (history)

given == <<mode, manual>>
workers == <<violated, suspect, discovered, dead, poisoned>>
monitor == <<pc, initial, finished, unread, local, noted, nextId>>
voters == <<todo, recent, file>>
ledger == <<pending, votes>>
vars == <<given, workers, monitor, voters, version, ledger, reported>>

Dest == {lane.dest : lane \in Lane}  \* OffchainConfig::dest_chains

Manual == <<"manual">>
Violation(c) == IF c \in GlobalCurse THEN <<"global", c>> ELSE <<"local", c>>
OffRamp(lane) == <<"offramp", lane>>
Anomaly == {Manual} \cup {Violation(c) : c \in Chain} \cup {OffRamp(lane) : lane \in Lane}

None == 0       \* a version, before the config is discovered
ManualId == 0   \* the id that is given on the command line

\* The workers of the chains and the voters, and those of a lane that write the
\* stable machines that its detector reads.
Worker == ({"status"} \X Chain) \cup ({"config", "vote"} \X Dest)
Machine == Writers \X Lane

Alive(role, c) == <<role, c>> \notin dead
Spawned == pc \notin {"start", "exited"}  \* the voters run

\* Mutant: a violation curses every chain.
ChainIsCursedEverywhere(a, c) == TRUE

\* CursableAnomaly::chain_is_cursed
ChainIsCursed(a, c) == a[1] = "local" => a[2] = c

NoAnomaly == [a \in {} |-> 0]

\* Mutant: the anomaly is given an id each time it is noted.
NotedAnew(known, a, id) ==
    [x \in DOMAIN known \cup {a} |-> IF x = a THEN id ELSE known[x]]

\* CursableAnomaliesWithCurseIds::note: an anomaly keeps the id it has.
Noted(known, a, id) ==
    [x \in DOMAIN known \cup {a} |-> IF x \in DOMAIN known THEN known[x] ELSE id]

\* The anomalies that a beacon starts with.
AtStart == IF manual THEN Noted(NoAnomaly, Manual, ManualId) ELSE NoAnomaly

Init ==
    /\ mode \in Modes /\ manual \in ManualCurse
    /\ violated = {} /\ suspect = {} /\ discovered = [c \in Dest |-> None]
    /\ dead = {} /\ poisoned = {}
    /\ pc = "start" /\ initial = [c \in Dest |-> None] /\ finished = {} /\ unread = {}
    /\ local = NoAnomaly /\ noted = NoAnomaly
    /\ todo = [c \in Dest |-> NoAnomaly] /\ recent = [c \in Dest |-> {}] /\ file = {}
    /\ version = [c \in Dest |-> 1] /\ pending = {} /\ votes = {}
    /\ nextId = 1 /\ reported = {}

-----------------------------------------------------------------------------
(***************************************************************************)
(* The workers that report, and those that panic.                          *)
(***************************************************************************)
ReportViolation(c) ==
    /\ pc # "exited" /\ Alive("status", c) /\ c \notin violated
    /\ Cardinality(reported \cup {Violation(c)}) <= MaxReports
    /\ violated' = violated \cup {c}
    /\ reported' = reported \cup {Violation(c)}
    /\ UNCHANGED <<given, suspect, discovered, dead, poisoned, monitor, voters, version, ledger>>

\* The detector finds it, with both machines of the lane locked.  The workers of
\* lanes are spawned once the on-chain configs are known.
ReportAnomaly(lane) ==
    /\ Spawned /\ lane \notin suspect
    /\ poisoned \cap ({"source", "dest", "detector"} \X {lane}) = {}
    /\ Cardinality(reported \cup {OffRamp(lane)}) <= MaxReports
    /\ suspect' = suspect \cup {lane}
    /\ reported' = reported \cup {OffRamp(lane)}
    /\ UNCHANGED <<given, violated, discovered, dead, poisoned, monitor, voters, version, ledger>>

Reconfigure(c) ==
    /\ version[c] < MaxVersion
    /\ version' = [version EXCEPT ![c] = @ + 1]
    /\ UNCHANGED <<given, workers, monitor, voters, ledger, reported>>

\* The node may answer with a version that is outdated.
Discover(c) ==
    /\ pc # "exited" /\ Alive("config", c)
    /\ \E n \in (1 .. version[c]) \ {discovered[c]} : discovered' = [discovered EXCEPT ![c] = n]
    /\ UNCHANGED <<given, violated, suspect, dead, poisoned, monitor, voters, version, ledger, reported>>

\* Worker w panics.
Dies(w) ==
    /\ pc # "exited" /\ w \notin dead /\ dead' = dead \cup {w}
    /\ UNCHANGED <<given, violated, suspect, discovered, monitor, voters, version, ledger, reported>>

\* Another one may panic of itself.
MayPanic == Cardinality({w \in dead : w[1] # "detector"}) < MaxPanics

\* A worker panics between two of its steps, when it holds no lock.
Panic(w) ==
    /\ MayPanic /\ (w[1] = "vote" => Spawned) /\ Dies(w)
    /\ UNCHANGED poisoned

\* The worker of a machine panics as it writes the state.
PanicUnderLock(m) ==
    /\ MayPanic /\ Spawned /\ Dies(m)
    /\ poisoned' = poisoned \cup {m}

\* The detector asks for that state, with its own locked to write, and panics too.
DetectorFalls(lane) ==
    /\ Spawned /\ \E m \in Machine \cap poisoned : m[2] = lane
    /\ Dies(<<"detector", lane>>)
    /\ poisoned' = poisoned \cup {<<"detector", lane>>}

-----------------------------------------------------------------------------
(***************************************************************************)
(* The monitor.                                                            *)
(***************************************************************************)
\* get_onchain_configs: waits for every config.
Configs == \A c \in Dest : discovered[c] # None

\* finished_workers_and_results, and the start of CurseBeacon::update.
BeginUpdate ==
    /\ finished' = dead
    /\ local' = noted' /\ unread' = Chain \cup Lane
    /\ pc' = "read"

\* State::new_and_spawn_workers, and the first round of the monitor.
Start ==
    /\ pc = "start" /\ Configs
    /\ initial' = discovered /\ noted' = AtStart
    /\ BeginUpdate
    /\ UNCHANGED <<given, workers, nextId, voters, version, ledger, reported>>

\* The anomaly that a chain status worker or a detector shows, if any.
Shown(x) == IF x \in Chain THEN {Violation(c) : c \in {x} \cap violated}
                           ELSE {OffRamp(lane) : lane \in {x} \cap suspect}

\* A fresh id is drawn if it is needed.
Drawn(x) == IF Shown(x) \subseteq DOMAIN local THEN nextId ELSE nextId + 1

\* The chains are read before the lanes.
NextRead(x) == pc = "read" /\ x \in unread /\ (x \in Lane => unread \cap Chain = {})

Read(x) ==
    /\ NextRead(x) /\ <<"detector", x>> \notin poisoned
    /\ unread' = unread \ {x}
    /\ local' = IF Shown(x) = {} THEN local
                ELSE Noted(local, CHOOSE a \in Shown(x) : TRUE, nextId)
    /\ nextId' = Drawn(x)
    /\ UNCHANGED <<given, workers, pc, initial, finished, noted, voters, version, ledger, reported>>

Write ==
    /\ pc = "read" /\ unread = {}
    /\ noted' = local /\ pc' = "decide"
    /\ local' = NoAnomaly
    /\ UNCHANGED <<given, workers, initial, finished, unread, nextId, voters, version, ledger, reported>>

IsCursed == DOMAIN noted # {}

\* Mutant: a node that is cursed restarts like any other.
ChangedAnyhow == finished = {} /\ discovered # initial

\* MonitorResult::OnchainConfigChanged
Changed == ~IsCursed /\ finished = {} /\ discovered # initial

\* MonitorResult::WorkersDied
Died == ~IsCursed /\ finished # {}

\* A node that is cursed stays.
Continue ==
    /\ pc = "decide" /\ ~Changed /\ ~Died
    /\ UNCHANGED noted /\ BeginUpdate
    /\ UNCHANGED <<given, workers, initial, nextId, voters, version, ledger, reported>>

\* The workers are joined, and all that is in memory is gone.
Ended ==
    /\ violated' = {} /\ suspect' = {} /\ dead' = {} /\ poisoned' = {} /\ finished' = {}
    /\ noted' = NoAnomaly /\ local' = NoAnomaly /\ unread' = {}
    /\ discovered' = [c \in Dest |-> None] /\ initial' = [c \in Dest |-> None]
    /\ todo' = [c \in Dest |-> NoAnomaly] /\ recent' = [c \in Dest |-> {}]
    /\ UNCHANGED <<given, nextId, file, version, ledger, reported>>

Restart == pc = "decide" /\ Changed /\ pc' = "start" /\ Ended
\* The checks of the configuration fail at start.
Refuse == pc = "start" /\ pc' = "exited" /\ Ended
Exit == pc = "decide" /\ Died /\ pc' = "exited" /\ Ended

\* The main thread panics, whether the node is cursed or not: as update() reads a
\* detector, or as the status of a lane is reported, which is done now and then.
Fall ==
    /\ \/ \E lane \in Lane : NextRead(lane) /\ <<"detector", lane>> \in poisoned
       \/ /\ pc = "decide" /\ ~Changed /\ ~Died
          /\ poisoned \cap ({"source", "detector"} \X Lane) # {}
    /\ pc' = "exited" /\ Ended

-----------------------------------------------------------------------------
(***************************************************************************)
(* The voter of chain c.                                                   *)
(***************************************************************************)
Running(c) == Spawned /\ Alive("vote", c)

\* get_anomalies_and_curse_ids_for_chain
Cursing(c) == {a \in DOMAIN noted : ChainIsCursed(a, c)}

\* Mutant: of several anomalies, one is taken.
PollOne(c) ==
    /\ Running(c) /\ todo[c] = NoAnomaly /\ Cursing(c) # {}
    /\ todo' = [todo EXCEPT ![c] = [a \in {CHOOSE x \in Cursing(c) : TRUE} |-> noted[a]]]
    /\ UNCHANGED <<given, workers, monitor, recent, file, version, ledger, reported>>

Poll(c) ==
    /\ Running(c) /\ todo[c] = NoAnomaly /\ Cursing(c) # {}
    /\ todo' = [todo EXCEPT ![c] = [a \in Cursing(c) |-> noted[a]]]
    /\ UNCHANGED <<given, workers, monitor, recent, file, version, ledger, reported>>

Treated(c, a) == todo' = [todo EXCEPT ![c] = [x \in DOMAIN @ \ {a} |-> @[x]]]

\* The poll comes to anomaly a: was a vote for its id sent in the last 30 s?
MaySend(c, a) == todo[c][a] \notin recent[c]

Turn(c, a) == Running(c) /\ a \in DOMAIN todo[c]

\* The vote is skipped, or the mode only logs it, or it cannot be sent.
Pass(c, a) ==
    /\ Turn(c, a) /\ (mode = "UnreliableRemote" => ~MaySend(c, a))
    /\ Treated(c, a)
    /\ UNCHANGED <<given, workers, monitor, recent, file, version, ledger, reported>>

\* An AFN contract refuses a second vote for an id, so the gas cannot be estimated.
Send(c, a) ==
    /\ Turn(c, a) /\ mode = "Active" /\ MaySend(c, a)
    /\ LET vote == [chain |-> c, anomaly |-> a, id |-> todo[c][a]]
       IN vote \notin pending \cup votes /\ pending' = pending \cup {vote}
    /\ recent' = [recent EXCEPT ![c] = @ \cup {todo[c][a]}]
    /\ Treated(c, a)
    /\ UNCHANGED <<given, workers, monitor, file, version, votes, reported>>

WriteFile(c, a) ==
    /\ Turn(c, a) /\ mode = "UnreliableRemote" /\ MaySend(c, a)
    /\ file' = file \cup {<<c, a>>}
    /\ Treated(c, a)
    /\ UNCHANGED <<given, workers, monitor, recent, version, ledger, reported>>

\* An error of the file ends the poll, before or after the line is in the file.
FileError(c, a) ==
    /\ Turn(c, a) /\ mode = "UnreliableRemote" /\ MaySend(c, a)
    /\ todo' = [todo EXCEPT ![c] = NoAnomaly] /\ file' \in {file, file \cup {<<c, a>>}}
    /\ UNCHANGED <<given, workers, monitor, recent, version, ledger, reported>>

\* VOTE_TO_CURSE_SEND_INTERVAL_PER_CURSE_ID is over.
Expire(c, id) ==
    /\ id \in recent[c] /\ recent' = [recent EXCEPT ![c] = @ \ {id}]
    /\ UNCHANGED <<given, workers, monitor, todo, file, version, ledger, reported>>

Confirm(vote) ==
    /\ vote \in pending /\ pending' = pending \ {vote} /\ votes' = votes \cup {vote}
    /\ UNCHANGED <<given, workers, monitor, voters, version, reported>>

Lose(vote) ==
    /\ vote \in pending /\ pending' = pending \ {vote}
    /\ UNCHANGED <<given, workers, monitor, voters, version, votes, reported>>

-----------------------------------------------------------------------------
Reports ==
    \/ \E c \in Chain : ReportViolation(c)
    \/ \E lane \in Lane : ReportAnomaly(lane)
    \/ \E c \in Dest : Reconfigure(c) \/ Discover(c)
    \/ \E w \in Worker : Panic(w)
    \/ \E m \in Machine : PanicUnderLock(m)
    \/ \E lane \in Lane : DetectorFalls(lane)

Update == Start \/ (\E x \in unread : Read(x)) \/ Write \/ Continue
Monitor == Update \/ Restart \/ Exit \/ Fall

Treat(c, a) == Pass(c, a) \/ Send(c, a) \/ WriteFile(c, a) \/ FileError(c, a)

Voter(c) == \/ Poll(c) \/ \E a \in DOMAIN todo[c] : Treat(c, a)
            \/ \E id \in recent[c] : Expire(c, id)

Next == \/ Reports \/ Monitor \/ Refuse \/ \E c \in Dest : Voter(c)
        \/ \E vote \in pending : Confirm(vote) \/ Lose(vote)

Spec == Init /\ [][Next]_vars

\* The monitor, the discovery of the configs and the voters go on; to send, to
\* write and to be mined succeed in the end.
FairSpec ==
    /\ Spec /\ WF_vars(Monitor)
    /\ \A c \in Dest :
          /\ WF_vars(Discover(c)) /\ WF_vars(Poll(c))
          /\ WF_vars(\E a \in DOMAIN todo[c] : Treat(c, a))
          /\ WF_vars(\E id \in recent[c] : Expire(c, id))
          /\ \A a \in Anomaly :
                /\ SF_vars(Send(c, a) \/ WriteFile(c, a))
                /\ SF_vars(\E vote \in pending : vote.chain = c /\ vote.anomaly = a /\ Confirm(vote))

-----------------------------------------------------------------------------
(***************************************************************************)
(* Correctness.                                                            *)
(***************************************************************************)
\* An anomaly that was noted is not forgotten and keeps its curse id, whatever
\* changes in the configs and whichever workers die, the voters among them: the
\* node neither stops nor restarts.  There is one exception: a worker that panics
\* as it writes a state poisons the lock, and the main thread may panic in turn.
KeptUnlessPoisoned ==
    [][\/ \A a \in DOMAIN noted : a \in DOMAIN noted' /\ noted'[a] = noted[a]
       \/ pc' = "exited" /\ poisoned # {}]_vars

\* All votes for an anomaly, on whichever chain, in whichever poll and run of
\* the node, are for one curse id, so that the votes of a voter are counted once;
\* two anomalies do not share an id, so that none hides behind the other.
OneIdPerAnomaly ==
    \A v, w \in pending \cup votes : v.anomaly = w.anomaly <=> v.id = w.id

\* A finality violation that is to be handled locally is voted for on its own
\* chain only; and there is no vote without a report, in the run of the node
\* that lasts while the vote is on its way, or in the one that fell.
VotesAreDue ==
    \A v \in pending \cup votes :
        /\ \A c \in Chain \ (GlobalCurse \cup {v.chain}) : v.anomaly # Violation(c)
        /\ v.anomaly \in {Manual} \cup IF pc = "exited" THEN reported
                                      ELSE {Violation(c) : c \in violated}
                                           \cup {OffRamp(lane) : lane \in suspect}

\* The anomaly is voted for on chain c, as the mode has it.
VotedOn(c, a) ==
    CASE mode = "Active" -> \E v \in votes : v.chain = c /\ v.anomaly = a
      [] mode = "UnreliableRemote" -> <<c, a>> \in file
      [] OTHER -> TRUE

\* What is reported is voted for, on every chain that it curses, however many
\* anomalies are noted and whenever; or the report is lost with the run of the
\* node that had it, or the voter is dead, or the node waits for a config whose
\* worker died before it was discovered.
Prevented(c) ==
    \/ <<"vote", c>> \in dead
    \/ pc = "start" /\ \E d \in Dest : <<"config", d>> \in dead /\ discovered[d] = None

ReportsAreVotedFor ==
    \A c \in Dest :
        /\ \A x \in Chain : x = c \/ x \in GlobalCurse =>
              (x \in violated ~> x \notin violated \/ VotedOn(c, Violation(x)) \/ Prevented(c))
        /\ \A lane \in Lane :
              (lane \in suspect ~> lane \notin suspect \/ VotedOn(c, OffRamp(lane)) \/ Prevented(c))
=============================================================================
