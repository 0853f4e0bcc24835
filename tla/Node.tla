-------------------------------- MODULE Node --------------------------------
(***************************************************************************)
(* A node from its start to its end: run_afn (afn/src/bin/afn.rs), the     *)
(* State and its monitor (afn/src/state.rs), over the threads of Workers.  *)
(*                                                                         *)
(* What the start reads is forgotten when the workers run: they share the  *)
(* locks whatever it was.  Every chain has the same on-chain config.       *)
(***************************************************************************)
EXTENDS Workers, OffchainConfig, VoterDelay

CONSTANTS
    Files,      \* what the two files may hold
    Keystores,  \* what the keystore may hold: sets of chains
    Mode,       \* the voting mode
    Me,         \* the addresses of the node: [bless, curse]
    Configs,    \* the on-chain configs that may be discovered
    Contracts,  \* of <<chain, address>>, the contract there
    Logs,       \* of each chain, the blocks with logs
    Oldest,     \* the blocks that servers may keep as their oldest
    AllowMultipleRpcs, \* the flag dangerous_allow_multiple_rpcs
    CheckRpcPruning    \* the flag check_rpc_pruning, which is off by default

\* Blocks are numbered, and a chain of the files has logs, or none.
ASSUME NodeAssumption ==
    /\ \A file \in Files :
          /\ file.lanes \in Seq(ToSet(file.lanes)) /\ ToSet(file.shared) \subseteq DOMAIN Logs
          /\ \A lane \in ToSet(file.lanes) : lane.sourceStart \in Nat /\ lane.destStart \in Nat
    /\ \A name \in DOMAIN Logs : Logs[name] \subseteq Nat
    /\ Oldest \subseteq Nat

\* The contract has voters with different addresses and weights of 8 bits, so few
\* of them that their sum has 16 bits; the code does not check it.
ASSUME VotersAssumption ==
    \A c \in Configs :
        /\ c.voters \in Seq(ToSet(c.voters)) /\ Len(c.voters) <= 257
        /\ c.threshold \in Nat \ {0}
        /\ \A i, j \in DOMAIN c.voters :
              /\ c.voters[i].weight \in 0 .. 255
              /\ c.voters[i].bless = c.voters[j].bless => i = j

VARIABLES
    phase,    \* where the main thread is
    config,   \* the OffchainConfig
    keys,     \* the chains of the keystore
    kept,     \* of each chain, the blocks whose logs the server still has
    onchain,  \* the on-chain config that was discovered; it is of each chain
    cursed,   \* the beacon has an anomaly
    finished, \* monitor: some worker has ended
    restart   \* the main thread joins the workers to begin again

start == <<config, keys, kept, onchain>>
nodeVars == <<threads, phase, start, cursed, finished, restart>>

Forgotten == <<>>

NodeInit ==
    /\ phase = "load" /\ config = Forgotten /\ keys = {}
    /\ kept = Forgotten /\ onchain = Forgotten
    /\ cursed = FALSE /\ finished = FALSE /\ restart = FALSE
    /\ done = FALSE /\ life = [t \in Thread |-> IF t = "main" THEN "up" ELSE "none"]
    /\ at = [t \in Thread |-> Asleep] /\ queued = [t \in Thread |-> FALSE] /\ poisoned = {}

-----------------------------------------------------------------------------
(***************************************************************************)
(* The start.                                                              *)
(***************************************************************************)
\* ensure_keys_for_chains
KeysForChains(chains, store) == chains \subseteq store

\* load_config_files, and the keystore: it is read, or generated.
Load ==
    /\ phase = "load"
    /\ \E file \in Files, store \in Keystores :
          LET loaded == Loaded(file) IN
          IF Rejected(file) \/ (Mode # "Passive" /\ ~KeysForChains(Names(loaded), store))
          THEN phase' = "exited" /\ UNCHANGED <<config, keys>>
          ELSE /\ phase' = "check" /\ config' = loaded
               /\ keys' = IF Mode = "Passive" THEN Names(loaded) ELSE store
    /\ UNCHANGED <<threads, kept, onchain, cursed, finished, restart>>

\* A server is configured, and only one of them unless the flag is set.
RpcsCount == \A c \in config.chains : c.rpcs > 0 /\ (c.rpcs = 1 \/ AllowMultipleRpcs)

\* ensure_rpcs_not_pruned
RpcsNotPruned(logs) ==
    \A name \in Read(config) \cap Names(config) :
        NotPruned(RequiredBlock(config, name), logs[name])

\* The checks pass, and the workers of the chains are spawned.
Check ==
    /\ phase = "check" /\ RpcsCount
    /\ \E oldest \in [DOMAIN Logs -> Oldest] :
          kept' = [name \in DOMAIN Logs |-> {b \in Logs[name] : b >= oldest[name]}]
    /\ CheckRpcPruning => RpcsNotPruned(kept')
    /\ \A lane \in config.lanes : ContractsAgree(lane, Contracts)
    /\ Spawn({"chain"}) /\ phase' = "discover"
    /\ UNCHANGED <<done, at, queued, poisoned, config, keys, onchain, cursed, finished, restart>>

\* Some check fails: one of those above, or the curse file does not open.
CheckFails ==
    /\ phase = "check" /\ phase' = "exited"
    /\ UNCHANGED <<threads, start, cursed, finished, restart>>

\* get_onchain_configs: the main thread waits for what a worker discovers.
Discover ==
    /\ phase = "discover" /\ onchain' \in Configs /\ phase' = "voters"
    /\ UNCHANGED <<threads, config, keys, kept, cursed, finished, restart>>

\* The workers that shut down are joined: ShutdownHandleGroup is dropped.
Shutdown(again) == done' = TRUE /\ phase' = "joining" /\ restart' = again

\* validate_voter_addresses
Votes == \E i \in DOMAIN onchain.voters :
             onchain.voters[i].bless = Me.bless /\ onchain.voters[i].curse = Me.curse

ValidateVoters ==
    /\ phase = "voters"
    /\ IF Mode # "Passive" /\ ~(DestChains(config) = {} \/ (Votes /\ DestChains(config) \subseteq keys))
       THEN Shutdown(FALSE)
       ELSE phase' = "spawn" /\ UNCHANGED <<done, restart>>
    /\ UNCHANGED <<life, at, queued, poisoned, start, cursed, finished>>

\* The workers of each lane, the voters of each destination, and the reaper.
SpawnWorkers ==
    /\ phase = "spawn" /\ phase' = "monitor"
    /\ Spawn({"reaper"} \cup IF config.lanes = {} THEN {} ELSE Worker)
    /\ kept' = Forgotten /\ onchain' = Forgotten
    /\ UNCHANGED <<done, at, queued, poisoned, config, keys, cursed, finished, restart>>

-----------------------------------------------------------------------------
(***************************************************************************)
(* monitor                                                                 *)
(***************************************************************************)
\* finished_workers_and_results is not empty.
Finished == \E t \in Worker : life[t] \in {"ended", "dead"}

BeginUpdate ==
    /\ phase = "monitor" /\ phase' = "update"
    /\ finished' = Finished /\ Enter("main", "beaconUpdate")
    /\ UNCHANGED <<done, life, queued, poisoned, start, cursed, restart>>

\* The main thread under locks.  What update reads may be an anomaly, of the
\* detector or of a chain.
MainStep ==
    /\ phase \in {"update", "report"} /\ Advance("main")
    /\ cursed' \in {cursed} \cup IF phase = "update" THEN {TRUE} ELSE {}
    /\ UNCHANGED <<phase, start, finished, restart>>

\* It panics, since a lock is poisoned: the State is dropped.
MainFalls ==
    /\ phase \in {"update", "report"} /\ Doomed("main") /\ ~Blocked("main")
    /\ Unwind("main") /\ Shutdown(FALSE)
    /\ UNCHANGED <<life, start, cursed, finished>>

\* Is it cursed, has a worker ended, has the on-chain config changed?  If the
\* node stays up, it reports from time to time.
Decide ==
    /\ phase = "update" /\ at["main"] = Asleep
    /\ \E changed, due \in BOOLEAN :
          CASE ~cursed /\ (finished \/ changed) -> Shutdown(~finished) /\ UNCHANGED at
            [] OTHER -> /\ IF due THEN phase' = "report" /\ Enter("main", "statusReport")
                                  ELSE phase' = "monitor" /\ UNCHANGED at
                        /\ UNCHANGED <<done, restart>>
    /\ UNCHANGED <<life, queued, poisoned, start, cursed, finished>>

Sleep ==
    /\ phase = "report" /\ at["main"] = Asleep /\ phase' = "monitor"
    /\ UNCHANGED <<threads, start, cursed, finished, restart>>

\* The workers have been joined: a new Context, or the end.
Joined ==
    /\ phase = "joining" /\ \A t \in Worker : life[t] # "up"
    /\ phase' = IF restart THEN "check" ELSE "exited"
    /\ done' = FALSE /\ life' = [t \in Thread |-> IF t = "main" THEN "up" ELSE "none"]
    /\ poisoned' = {} /\ cursed' = FALSE /\ finished' = FALSE /\ restart' = FALSE
    /\ kept' = Forgotten /\ onchain' = Forgotten
    /\ UNCHANGED <<at, queued, config, keys>>

-----------------------------------------------------------------------------
Startup == Load \/ Check \/ CheckFails \/ Discover \/ ValidateVoters \/ SpawnWorkers
Monitor == BeginUpdate \/ MainStep \/ MainFalls \/ Decide \/ Sleep \/ Joined

Others == <<phase, start, cursed, finished, restart>>
WorkerStep(t) == Run(t) /\ UNCHANGED Others
WorkerPanics(t) == Panic(t) /\ UNCHANGED Others

NodeNext == Startup \/ Monitor \/ \E t \in Worker : WorkerStep(t) \/ WorkerPanics(t)

NodeSpec == NodeInit /\ [][NodeNext]_nodeVars

\* Threads are scheduled, and polls end.  Those that write take a lock now and
\* then only: the main thread and the detector, which wait for several, are not
\* overtaken for ever.  What the start waits for may never come.
FairNodeSpec ==
    /\ NodeSpec /\ SF_nodeVars(Monitor) /\ SF_nodeVars(WorkerStep("detector"))
    /\ \A t \in Worker \ {"detector"} : WF_nodeVars(WorkerStep(t))

-----------------------------------------------------------------------------
(***************************************************************************)
(* Properties.                                                             *)
(***************************************************************************)
\* No threads wait for one another in a circle: the orders in which the
\* detector, the reaper, the machines, the voters and the main thread take
\* the locks agree, for a reader that a waiting writer holds up as well.
NoWaitCycle ==
    \A waiting \in SUBSET {t \in Thread : Blocked(t)} :
        (\A t \in waiting : \E u \in waiting : Blocks(u, t)) => waiting = {}

\* When the workers of the lanes are spawned, each lane has what they need: its
\* two chains are enabled, there are keys to vote with, and, if the node was
\* started with the flag check_rpc_pruning, no log from its first blocks on has
\* been pruned; without the flag nothing is known of that.  And no two lanes
\* share an off-ramp, whose executions would be held against the messages of the
\* other, although only the commit stores of the files are looked through for
\* duplicates.
WorkersServed ==
    phase = "spawn" =>
        /\ \A lane \in config.lanes :
              /\ {lane.source, lane.dest} \subseteq Names(config) /\ lane.dest \in keys
              /\ CheckRpcPruning =>
                    /\ \A b \in Logs[lane.source] : b >= lane.sourceStart => b \in kept[lane.source]
                    /\ \A b \in Logs[lane.dest] : b >= lane.destStart => b \in kept[lane.dest]
        /\ \A lane, other \in config.lanes :
              lane.dest = other.dest /\ lane.offRamp = other.offRamp => lane = other

Weight(order, n) ==
    LET sum[i \in 0 .. Len(order)] == IF i = 0 THEN 0 ELSE sum[i - 1] + order[i].weight
    IN sum[n]

\* In any hour the voters that bless at once are no more than are needed to
\* reach the threshold, and reach it; the others take turns, one a stage; and
\* the node that was admitted has a turn.
VotersTakeTurns ==
    phase = "spawn" /\ config.lanes # {} =>
        /\ Mode # "Passive" => \A seed \in Seed(onchain) : Delay(Me.bless, onchain, seed) # NoDelay
        /\ \A seed \in Seed(onchain) :
              LET order == Permuted(onchain, seed)
                  D(i) == Delay(order[i].bless, onchain, seed)
                  n == Cardinality({i \in DOMAIN order : D(i) = 0})
              IN /\ n = Len(order) \/ Weight(order, n) >= onchain.threshold
                 /\ n > 0 => Weight(order, n - 1) < onchain.threshold
                 /\ \A i \in DOMAIN order : D(i) = IF i <= n THEN 0 ELSE i - n

\* A shutdown ends, whatever the workers were doing and whoever panicked; and
\* if a worker panics, there is one, unless the node is cursed.
ShutdownEnds ==
    /\ phase = "joining" ~> phase # "joining"
    /\ (phase = "monitor" /\ \E t \in Worker : life[t] = "dead") ~> (cursed \/ phase = "joining")
=============================================================================
