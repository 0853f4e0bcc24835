# The risk management node in TLA+

The node of this repository watches the chains and lanes of a cross-chain
messaging network. It *blesses* roots of messages that it has verified and
*curses* chains when something is wrong: finality was violated, or a message was
executed that was never sent. This directory models the node in TLA+, checks the
models with TLC, and proves what matters most about them with TLAPS. `src/` stands
for the root of the repository; the node is `src/afn`, its Ethereum client
`src/minieth`.

The repository has no tests and, but for the code's comments and messages, no
documents. So the properties say what the code must do for the node to be sound:
no curse without a cause, no cause without a curse, no state that readers take
for something that it is not.

## 1. Inventory

All state lives in one process, in threads ("workers") that poll for ever and
publish what they find in a lock that other workers read. What outlives a process
is little: the keystore and the configuration (read only), the optional curse file
(written only), and the databases of logs, which later processes read and add to.

| Part | State | Operations | Read by |
|---|---|---|---|
| Chain status worker (`chain_status_worker.rs`, `chain_status.rs`), one for each chain | the tail: a run of linked blocks from the stable tip to the tip; or "finality violated" | `initial`, `update`, with a finality tag or by depth of confirmations; several calls to the node each | event state machines, curse beacon |
| Contract event state machines (`contract_event_state_machine.rs`), three workers for each lane | a stable state, and an unstable one that each poll makes anew from a copy of it | `update`: ask for logs, compare their blocks with the tail, fold them | lane bless status, anomaly detector, reaper |
| The states that are folded: source messages, commit store, off-ramp | numbered messages; roots, votes and blessings; executed messages and their anomalies | `update_with_event` | as above |
| Lane bless status (`lane_bless_status.rs`, `commit_store_common.rs`, `merkle.rs`), for each lane | the roots that verify | verify open roots over the source messages | voter to bless |
| Off-ramp anomaly detector and reaper | anomalies found, message ids of no more use | compare four states under their locks; drop ids | curse beacon |
| Curse beacon and monitor (`curse_beacon.rs`, `state.rs`, `bin/afn.rs`) | anomaly -> curse id | `update`; go on, stop or restart | both voters |
| Voter to curse, for each destination chain | when a vote for an id was last sent | vote for each anomaly | AFN contract |
| Voter to bless (`vote_to_bless_worker.rs`, `inflight_root_cache.rs`), for each destination chain | queue of roots with send times, inflight roots | collect, queue, batch, send | AFN contract |
| On-chain config discovery | the last config of the AFN contract | read | monitor, start |
| Log cache (`cached_rpc.rs`, `smart_get_logs.rs`), for each event state machine | a database with ranges of blocks and their logs; the size of a request | open or migrate; answer in part from the database or the node; save | event state machines |
| Transaction sender (`minieth/tx_sender.rs`) | nonce, last count of transactions | estimate, sign, send, retry | both voters |
| JSON-RPC client (`minieth/json_rpc.rs`) | the server in use | call, fail over, keep the better answer | everything that reads a chain |
| Worker context (`worker.rs`) | a flag and a condition variable | cancel, sleep, repeat with backoff, join | all workers |
| Start (`bin/afn.rs`, `state.rs`, `config.rs`) | the configuration, the keys | load, check chains, keys, servers and contracts, spawn | everything |
| Delay of a voter (`permutation.rs`) | none | shuffle the voters of the hour, sum their weights | voter to bless |
| Code without state: merkle roots, ABI, RLP, keys, metrics, forensics | | | |

What is hard here, and hardly reached by a test:

* *A chain that moves under the reader.* A status update, and a request for logs
  by number, are several calls, answered at different times, by a node that may
  lag; a reorganisation falls between any two of them. An answer of another fork
  must not be taken for a conflict (a false curse), nor folded into a state.
* *Partial progress.* Answers in part, logs that do not decode, errors and
  cancellation in the middle of an update.
* *States of different moments.* The detector compares four states, each behind
  its chain by something else, while the reaper deletes from one of them.
* *A decision that must last.* Once an anomaly is noted, neither dead workers nor
  new configs may end the run that knows of it, and its curse id must not change;
  but a worker that panics under a lock can bring the main thread down with it.
* *Retries.* Votes that are lost are sent again, but not too often, and not in
  the way of others; and each retry of a transaction has a nonce that must fit
  what the servers have, of which an answer may be lost or too late.
* *Locks.* The detector holds four locks at a time, the voter's status two, while
  others write; a reader waits for a writer that waits, and a thread that panics
  poisons what it was writing.
* *Restarts.* The databases of logs are found again by a process with other names,
  queries and start blocks, and may have been left in the middle of a save.

`PROJECT.json` lists these hazards line by line, with the properties that cover
them, and those that nothing covers yet with the reason.

What makes each part correct:

* chain status: the stable tip only moves to its descendants; it is final (or
  deep enough); violations are reported if and only if they happened;
* event state machines: the stable state is exactly the fold of the logs of the
  stable chain; the unstable one holds nothing off its tail; a state that counts
  as fresh was asked for up to there;
* off-ramp anomalies: none for a lane that works, one for each final wrong
  execution, in spite of the reaper;
* curse: ids are stable, votes are due, reports reach the contract, and a node that
  is cursed ends only if its main thread panics over a poisoned lock;
* bless: a root verifies exactly if it is that of the messages of its interval; it
  is voted for in the end, not twice within its inflight time, and after a curse at
  most in the batch that is in the making;
* log cache: a range that counts as cached has all its logs, and the stable state is
  given each log once, whatever earlier processes left behind;
* sender and JSON-RPC client: a call of `send` makes no gap in the nonces, asks every
  server before it gives up, and returns; it may put its request on the chain more than
  once, but not after a server has said that it took it;
* node: the workers that are spawned have the chains and keys they need, and the logs
  if the node is to look for them (`--check-rpc-pruning`), the
  threads never wait for one another in a circle, a death is noticed, and every
  shutdown ends; of the voters enough bless at once, and the others take turns.

## 2. Modules and how they relate to the code

| Module | Models | Uses |
|---|---|---|
| `BlockTree` | blocks with parents and numbers; `Tail` and its operations as operators on runs of blocks | |
| `StableChain` | *abstract*: what readers of a chain status rely on | `BlockTree` |
| `FinalityTag` | `FinalityTagChainStatusUpdater` and its worker | implements `StableChain` |
| `ConfirmationDepth` | `ConfirmationDepthChainStatusUpdater` and its worker | implements `StableChain` |
| `EventStateMachine` | `ContractEventStateMachine::update` and `UnstableContractEventStateMachineWorker` | a chain status as `StableChain` has it |
| `OffRampAnomaly` | `DestOffRampState`, `OffRampAnomalyDetector`, the off-ramp part of the reaper | workers as `EventStateMachine` has them |
| `CurseVoting` | `CurseBeacon`, `State::monitor`, the restart loop, config discovery, `VoteToCurseWorker` | what the chain status workers and detectors report |
| `LogCache` | `LogsDb`, `CachedRpc`, `SmartGetLogs`, `Rpc::get_logs` for stable blocks | |
| `MerkleRoot` | `root_from_hashed_leafs`, and the tree it is to be the root of | |
| `LaneBless` | `SourceBlessState`, `DestBlessState`, `LaneBlessStatusWorker` | `MerkleRoot`; workers as `EventStateMachine` has them |
| `VoteToBless` | `VoteToBlessWorker`, `InflightRootCache` | statuses as `LaneBless` publishes them, curses as `CurseVoting` has them |
| `JsonRpc` | `JsonRpc::call`: one server after the other | |
| `TxSender` | `TransactionSender::send`, with the account of the voter on chain and in the servers | `JsonRpc` |
| `OffchainConfig` | `OffchainConfig::new`, the checks of pruned servers and of lanes | |
| `VoterDelay` | `permutation::delay` | |
| `Workers` | the threads of a lane, the locks they share, `Context` | |
| `Node` | `run_afn`, `State::new_and_spawn_workers`, `State::monitor`, shutdown and restart | `Workers`, `OffchainConfig`, `VoterDelay` |
| `BlockTreeProofs`, `FinalityTagProofs`, `ConfirmationDepthProofs`, `LogCacheProofs`, `VoteToBlessProofs` | theorems about the module of that name | |
| `CurseProofs` | theorems about `OffRampAnomaly` and `CurseVoting`: what raises a curse, and what follows from it | |
| `LaneProofs` | theorems about `EventStateMachine`, `MerkleRoot` and `LaneBless`: how states are folded, and what two of them say of roots | |
| `NodeProofs` | theorems about `Node` (with `Workers`, `OffchainConfig`, `VoterDelay`) and `TxSender` | |
| `MC*` | instances for TLC | |

The tower is one of assumptions and guarantees: the status workers are shown to
implement `StableChain`; the event state machines are checked over any chain
status that behaves like it; the anomaly detector over states that behave like
those machines; the beacon over whatever the workers report. `LogCache` stands under
the event state machines: it gives a stable state each log once, as their `Results`
say. `LaneBless` stands between them and `VoteToBless`: it says which roots a status
holds, the voter what becomes of those. `TxSender` is below both voters: they say
that a vote is sent, and mined or lost, it says how. `Node` is around all of them: the
same monitor as in `CurseVoting`, seen with the locks it takes and the threads it
waits for, where `CurseVoting` sees the anomalies, their ids and the votes.

**BlockTree.** The constants are a set of blocks, `Number`, `Parent` and the
ancestry relation (`\preceq`); the named assumption `TreeAssumption` says that
they form trees. A tail is a record of a lowest and a highest number and the
block at each number between (`VecDeque<Block>` in the code); `Extended`,
`Trimmed` and `Reanchored` are the two loops at the end of an update that fetch
or drop blocks at its lower end, `Contains` and `IsTail` the methods of `Tail`.

**FinalityTag.** One action for each call to the node: `ReadFinalized`,
`ReadLatest` (with the substitution of the finalized block for a latest one below
it), `WalkBack` for each parent, and `Attach`, `Violate` or `KeepOld` for the
ends of the walk, tested in the order of the code. `Abort` is any error.
`MoveHead` and `Finalize` are the chain; a node that is not yet `reliable`
answers a tag with the block or any ancestor of it. With `anyChain`
the chain may break its rules.

**ConfirmationDepth.** `ReadLatest` and `ReadTip` are the two calls of
`get_block_with_confirmations`; the rest is as above, without the finalized
block. `settled` and `deepReorg` are history: the blocks that once had all their
confirmations, and whether one of them was reverted.

**EventStateMachine.** A poll is `Poll` (read the chain status), any number of
`UpdateStable`, then `UpdateUnstable` until the copy is published; each takes one
of the `Results` of `update`: an answer for all or part of the range, from the
chain as it is at that moment, logs that do not decode or are refused, a
mismatch with the tail that marks the machine as corrupted, or an error. `Cancel`
requests shutdown, `Interrupted` is what the update loops do about it. A state
is the sequence of logs that it was updated with. `contiguous` states refuse
gaps and repetitions, as `SourceBlessState` does; the others accept everything.

**OffRampAnomaly.** The two chains (messages, their finality, executions,
forks; `honest` says whether the off-ramp executes only what it should), the source and the destination worker, the detector with one action for
each stretch between lock operations that matter (`Begin`, `ReadUnstable`,
`Finish`), and the reaper (`Take`, `Reap`). Execution states and message ids are
the few that the code distinguishes. A timestamp is fresh for `MaxFresh` units.

**CurseVoting.** `ReportViolation` and `ReportAnomaly` stand for the workers that
report, `Panic` for any that dies without a lock. `PanicUnderLock` is the worker of a
stable machine that panics as it writes the state: the lock is poisoned, the detector
that asks for it panics with its own state locked (`DetectorFalls`), and `Fall` is the
main thread that asks for one of the two, in `CurseBeacon::update` or as it reports the
status of the lanes: the process ends, cursed or not. (`Node` has the same with all the
locks.) The monitor's round is `BeginUpdate` (collect
the finished workers, copy the beacon), `Read` for each worker and detector,
`Write`, and one of `Continue`, `Restart`, `Exit`; `Start` waits for the configs,
`Refuse` is a check at start that fails. A voter's poll is `Poll` (its anomalies
with their ids) and `Pass`, `Send`, `WriteFile` or `FileError` for each; `Expire`
is the end of the 30 seconds. Votes on their way are mined or lost.

**LogCache.** `Open` is a process that starts: `Opened` finds the database of its
query by the digest of the query (here the `shape`) and renames it, or makes a new
one. `Crash` may come at any moment; the databases stay. A call of
`get_partial_logs` for the stable state is `Hit` (the cached part from its start on,
halved by `Cached` while it has too many logs) or `Miss` and then `Rejected` any
number of times and `Answered` or `Failed`; `OnFailure` and `OnSuccess` move the
size of the requests. Saving (`Saved`, the two queries and the delete of `save_logs`)
succeeds or not. The node answers from a backend of any `height`; `NodeHas` is what
the batch of `Rpc::get_logs` makes of that by asking for both ends of the range too.
A block is a number here, since stable blocks do not change.

**MerkleRoot.** Hashes are what they were made from. `RootFromHashedLeafs` is the loop
with its queue, one `Paired` for each round; `Tree` is the reference, the lowest
complete binary tree that holds the leaves, from the top.

**LaneBless.** `SourceUpdate` and `DestUpdate` are the two `update_with_event`; events
carry for each field that is compared (commit store, config version, voter) whether
it is the own one or another. `Publish` is a poll of the status worker: `CouldVote`,
`MessageHashes` with its arithmetic on positions, and `Verifies`.

**VoteToBless.** A poll is `Collect` (the votable roots of all lanes, those that are
new to the queue with a send time), `Pop` for each root that is due, `Send`,
`SendFails` or `Pretend` (modes that do not vote) for each batch, and `Sleep`.
`Ripen` and `Expire` are the times in the queue and in the inflight cache. `Publish`
and `PublishBehind` stand for `LaneBless` over exact states and over states that are
behind; transactions are mined or lost, votes reset, commitments reverted, and others
bless. `hot` and `late` are history: roots sent within the inflight time, and votes
that left after a curse.

**JsonRpc, TxSender.** A call of `send` goes from request to request by `pc`:
`ReadLatest`, `ReadPending` (the nonce that was trusted or not, the limit of
transactions inflight), `Estimate`, then the transaction, then `Recount` after a
refusal. Only the transaction changes something on a server, so it alone is a call of
`JsonRpc` with one step for each server (`Post`, and `SendOk`, `Refused` or `SendError`
for the last one); `Treated` says whether the server takes it, and an answer may be
lost although it did. The account is the count in the latest block and the set of
nonces that the servers hold: `Mine`, `Forget`, `Reorg`. `Restart` is a new process or
new workers. `known`, `heard` and `late` are history: whether a server knows of the
transaction that is sent, whether one that took a transaction of this call has said so,
and the nonces of those taken after `MAX_BLOCKING_TIME`. The gas and its price are left out: they
only decide whether a transaction is refused.

**Workers.** What a thread does under locks is a row of `Sections`: the sets of locks
that it holds one after the other, as the guards of the code are made and dropped.
`Wake` is `Context::repeat`, `Queue` and `Advance` a request for a lock, `Panic` one of
a machine as it applies an event (a stable machine holds its write lock then),
`Fall` that of a thread that asks for a poisoned lock with `unwrap`. Left out are
locks that are held for a copy or an assignment alone (chain status, lane status,
on-chain config, the anomalies of the beacon): no thread asks for another lock while it
holds one of these. The two workers of the destination run the same code on locks of
their own that every other thread takes in the same order; they count as one.

**Node, OffchainConfig, VoterDelay.** `Load` reads the files and the keystore, `Check`
is `new_and_spawn_workers` up to the workers of the chains (it searches the servers for
pruned logs only with the flag, `CheckRpcPruning`), `CheckFails` any check
that fails (also for an error of a server, or a curse file that does not open),
`Discover` the wait for the on-chain configs, `ValidateVoters`, `SpawnWorkers`; then
the rounds of `monitor`: `BeginUpdate` and `MainStep` (the beacon, under the
detector's lock), `Decide`, the status report under its locks, `Sleep`. `Joined` is
the end of `ShutdownHandleGroup`: the process exits, or the loop of `run_afn` begins
again. `RpcsNotPruned` walks back from the lowest first block as `ensure_rpc_not_pruned`
does, over servers that keep their logs from an `Oldest` block on. All chains have one
on-chain config here. The stages of the voters are computed for every order that the
shuffle of an hour may make, with sums of 16 bits.

Two modules that are proved about in one module of theorems have different names for
what they declare: the specifications are `WatchSpec` (`OffRampAnomaly`), `LaneSpec`
(`LaneBless`) and `NodeSpec` (`Node`), and `Spec` elsewhere.

## 3. What TLC checks

Each property has a mutant, a changed definition such as a plausible bug would
make, that breaks it under the same configuration; the mutants stand next to the
definitions they change and are used nowhere else.

| Run | Instance | Shows |
|---|---|---|
| `FinalityTag` | 7 blocks, numbers 0-4, one long fork; the chain keeps its rules, or does anything | while it keeps them no violation is reported (`NoFalseViolation`), the stable tip is final (`StableIsFinal`), and when the chain rests the tail is exactly finalized..latest (`CatchesUp`); whatever it does, tails stay linked, `StableChain` is implemented, and a chain that rests in conflict with the stable tip is reported (`DetectsViolation`) |
| `ConfirmationDepth` | 13 blocks, numbers 0-6, forks deeper and shallower than the 1 + 2 confirmations | a violation means a deep reorganisation, the stable tip was deep enough, `StableChain` is implemented, the worker settles on the chain of the head or reports |
| `LogCache` | blocks 0-3, two queries, two names, processes that start from block 0 or 2, a node that answers for one block at a time in the end | the worker is given each log once (`NothingMissed`), cached ranges are complete (`CacheExact`), and it gets to the stable tip (`CatchesUp`) |
| `EventStateMachine` | 5 blocks, numbers 0-3, two forks, logs on all but the two first blocks, one of which does not decode | `StableExact`, `UnstableSound`, `FreshIsScanned`, `LogsInTail`, and once the head rests and all logs decode, the unstable state has exactly the logs of its chain (`Syncs`) |
| `OffRampAnomaly` | one message, two executions, right ones or any; time to 4, executions 2 after finality, fresh for 1 | `NoFalseAlarm`, `ReapedWasRight` |
| `OffRampAnomaly_live` | any two executions, all of them successful | `Detects` |
| `CurseVoting` | two chains that vote for each other, one of them cursing globally; one report, one panic, with or without a lock and with all that falls after it, one new config for each chain | `KeptUnlessPoisoned`, `OneIdPerAnomaly`, `VotesAreDue` |
| `CurseVoting_live` | one destination; a manual curse and one report; one panic, under the lock of the destination's machine if under one; modes Active and UnreliableRemote | `ReportsAreVotedFor` |
| `LaneBless` | 5 messages; 9 reports: right ones of 1, 2 and 5 messages, and intervals that are shifted, reversed, from 0 on, or too long; 3 events of the destination chain out of votes, blessings and resets that are the lane's own or differ in one field | `DestExact`, `VerifiesGenuine`, `StatusIsGenuine` |
| `VoteToBless` | one lane, two roots, batches of one, modes Active and DryRun; one reset or reorganisation | `AtMostOneLateVote`, `NotSentTwice`, `VotedInTheEnd` |
| `TxSender` | two servers, one transaction allowed inflight, nonces to 8, two mined; one that is forgotten or reverted, one restart, requests that fail or whose answer is lost | `CopiesAreUnheard`, `PoolInOrder`, `AsksEveryServer`, `SendReturns`, `GapsClose` |
| `Node` | 13 pairs of files, good ones and such as the checks refuse, 4 ages of the oldest block, 4 on-chain configs, 2 keystores, the flag to search for pruned logs; at most two workers that poll, with the main thread, and one that panics | `NoWaitCycle`, `WorkersServed`, `VotersTakeTurns`, `ShutdownEnds` |

*Why the bounds suffice.* A fork needs two branches; the walks need a tail that
is shorter than, as long as and longer than the fork, so the trees have forks at
two heights and branches of two lengths. `MaxLogs` bounds the logs that repeated
polls pile up in a state that takes repetitions; three is one round more than an
exact state holds before the log that does not decode. One message suffices for
the off-ramp because the code treats each sequence number alone; two executions
make the pairs that matter (right and wrong id, success and again). The time
needs one step past `Delay` for each of the two. Anomalies are treated one by
one, so one report and a manual curse make the case of two; two chains make that
of one vote with two voters; one panic, at any worker and with or without a lock, and one new config make each of the ways
in which a run can end. `ReportsAreVotedFor` is run with the panics of one of the two
machines only: the detector falls over either in the same way. For the databases, four blocks make two ranges with a gap
that a third one fills, a start in the middle and one at 0, and one block with more
logs than `MaxLogs`; the size of a request has room to double, to grow by one, and to
be cut short by the end of the range. Five messages make three rounds of hashing,
two of them odd. Three events of the destination chain are a vote, a blessing and a
reset in any order; the theorems cover longer logs. Two roots in batches of one make
a batch that is sent and one that was collected before the curse; `Delays` has "some"
only, because a root with a delay may be due at once. Batches on their way are a set:
to send one twice at the same time is the same as to send it once and lose nothing.
Two servers are the least that one can fail over to, and `EveryServerAsked` is proved for
any number; of two transactions
the first or the last is forgotten, and the next one makes a gap in the middle. For
the locks, two workers and the main thread are at work at the same time: all sections
take their locks along one order (detector, unstable destination, destination,
unstable source, its timestamp, timestamp of the source, source; a timestamp that
comes before its state is released before the state is asked for), which no number of
threads can bend into a circle (`NeverDeadlocked` is proved for any), and a section that left this order would meet one
other section and, with the detector in between, the main thread. The logs at blocks
0, 1 and 3 and first blocks from 0 to 4 make lanes before, between and after
them; the weights of a config go to 255 and beyond the threshold. The instance of `Node`
votes (`Active`); without votes there is less to check.

*Deadlock* is checked but for `CurseVoting` and `Node`, where a node may exit.

*Fairness.* Each worker repeats its poll for ever (`Context::repeat`; after errors
with a delay of at most five minutes), so its steps are weakly fair. Calls to the
node fail and lag only for a while: `Stabilize` says so where liveness is
concerned; safety is checked without it. `OffRampAnomaly` asks strong fairness of
the polls that reach the ends of the chains, because a poll may keep falling
behind only if the node keeps answering in part; nothing is asked of the reaper.
`CurseVoting` asks strong fairness of sending (or writing to the file) and of
being mined: a vote that is retried for ever is sent and mined at some time, and
`VoteToBless` the same for each root. `LogCache` asks that the worker polls and that
the node and the disk are well in the end: then the node answers for `Limit` blocks
and rejects more, so that the requests must have shrunk. `TxSender` asks that time
passes, that requests end and stop failing, and that the voter has something to send;
it asks nothing of the chain: transactions need not be mined for `send` to return.
`Node` asks strong fairness of the main thread and of the detector, which wait for locks
that others take now and then and release in between; weak fairness of the other
workers; nothing of the start, which may wait for the on-chain configs for ever.

*What the properties leave out, because the code does not give it:*

* A state that accepts repeated events is only exact while all logs decode: after
  a log that does not, each poll folds the logs before it again
  (`StableExact` says so with `contiguous \/ AllDecode`).
* On shutdown an unstable state that is only partly updated is published with the
  timestamp of the stable update (`FreshIsScanned` exempts `done`).
* `NoFalseAlarm` needs `Delay > MaxFresh`. The code does not enforce it: that a
  message is executed later than a source state counts as fresh is a matter of
  the chain's configuration (`max_fresh_block_age`) and the protocol.
* `ReapedWasRight` and `Detects` exempt a message whose right id was executed on a
  fork of the destination chain that was left behind: the stable destination state
  is updated before the unstable one is published anew, so the detector can see
  the right id in the old unstable state and the execution of the wrong one in the
  new stable state, call the number reapable, and the reaper drops the wrong id.
* `LogCache` takes stable blocks to be final. If they are reverted, the database keeps
  the logs of the fork that was left; the chain is then reported, and its lanes
  cursed, by the process that sees it, but a later one would read those logs.
* `AtMostOneLateVote` allows one vote after a curse: the batch that was being made.
* `VotedInTheEnd` speaks of roots that stay committed on a lane that is not cursed, in
  a mode that votes, and of a voter that `permutation::delay` gives a delay.
* `CopiesAreUnheard` does not forbid a second copy, because the code makes one: a
  server that takes the transaction and whose answer is lost makes the client ask the
  next one, which answers that the transaction is known; `send` takes this for a
  refusal and sends the request again with a new nonce. The same vote is then on its way
  twice. What holds is that this ends: with the first good answer of a server that took
  a copy, however bad the answers before it, and with the first copy that is taken when
  the time is over (the limit is not tested while `send` waits for transactions
  inflight, so one copy may be taken late).
* `PoolInOrder` speaks of servers that forget nothing; `GapsClose` of the others.
* `SendReturns` holds although the loop that waits for transactions inflight has no limit
  of time: the count that stalls for 20 s resets the nonce.
* `KeptUnlessPoisoned` and `ShutdownEnds` allow the main thread to panic: a worker that
  panics as it writes poisons the lock, the detector panics as it reads it, with its own
  state locked, and the monitor in `CurseBeacon::update` or in the status report. Then the
  node stops even if it is cursed, where a worker that merely returns or panics between
  its locks does not stop it. Nothing in the code or its comments says which of the two
  is meant.
* `WorkersServed` says of pruned logs only what the flag `--check-rpc-pruning` gives, which is off
  by default. Without it a lane may begin with a gap that nothing reports.
* `ReportsAreVotedFor` exempts a report that is lost when the run ends between the
  update of the beacon and the monitor's decision to restart or stop, or when the main
  thread panics; a voter that died; and a node that waits at start for a config whose
  worker died before it was discovered.

## 4. What is proved

TLAPS proves for every value of the constants:

* **Tails** (`BlockTreeProofs`). From `TreeAssumption`, that a chain stays a chain
  when blocks are put in front, when it is trimmed, and when the two loops splice
  the tail of one walk onto that of another (`ReanchoredIsChain`). The step that
  matters: two blocks at the same number that have a common descendant are equal.
* **Links and refinement** (`FinalityTagProofs`, `ConfirmationDepthProofs`).
  `TypeCorrect`, `TailsAlwaysLinked` and `Refinement` (the worker implements
  `StableChain`), for any behaviour of the chain. `TailsLinked` is not inductive
  for the finality tag: `LinkInv` adds that a walk starts no lower than the
  finalized block, or trimming could empty the tail.
* **No false curse, finality tag** (`NeverFalseViolation`, `StableAlwaysFinal`).
  The invariant `HonestInv` adds, for a chain that keeps its rules, that the walk
  and the stable tip are on comparable blocks: whatever moment the answers are of,
  the finalized block that was read is below all of them.
* **No false curse, confirmation depth** (`NeverFalseViolation`,
  `StableAlwaysSettled`). `SettledInv` says that while no settled block was
  reverted, the number that was read is that of a chain that had the settled
  blocks in it, so the walk meets the stable tip (`Anchored`).
* **Events** (`LaneProofs`: `StableIsExact`, `UnstableIsSound`, `FreshImpliesScanned`,
  `AsksInTail`), for any tree of blocks, any logs, start block and chain that behaves
  like `StableChain`. Neither of the two properties is inductive. `MachinesInv` says of
  the stable machine that its logs are those of the chain of the *stable tip that the
  poll has read* (`Base`), which is behind the one that readers see, and not above its
  `next` block; of the copy that is being updated that it holds logs of the tip that was
  read, as the one that is published holds logs of the tip it was made for, below its
  `next`, in the order of their numbers. `ChainInv` adds that what was stable when the
  poll began is still below the head and both tips, so that an answer for a part of
  the range comes from a chain that agrees with the stable tip, or is found not to fit
  the tail. The lemmas about `LogsOf` (it lists the logs of a chain in a range once,
  and two ranges that meet are joined by it) are proved by induction over the range.
* **Off-ramps** (`CurseProofs`: `HonestNeverCursed`, `DroppedWasRight`), for any number
  of messages and executions, any delay and any freshness. The first is about four
  states of four moments. `SourceInv` says that a source state with timestamp `t` has
  every message that was final before `t`; `HonestInv` that what an off-ramp that works
  has executed was final for `Delay`, in each of the destination states; `DetectorInv`
  carries the comparison from one lock to the next: once the destination was read,
  all it has executed was final before the timestamp that counted as fresh, and so is
  in the source state that is read after it. The second rests on `Agrees`: of each
  message a state knows the one id that its events have, but for ids that were dropped,
  and an id that may be dropped is right, known to be wrong, or was left on a fork.
* **Curse** (`CurseProofs`: `ForgottenByPoisonOnly`, `OneId`, `Justified`). `Inv`
  relates the copy of an update, the beacon, the polls of the voters and the votes:
  each extends the one before it, ids are distinct and below the next one to be
  drawn, and all of it is due. A run that restarts or exits has an empty beacon; then,
  by the invariant, no vote is under way either. A run that falls may leave votes: they
  outlive the beacon that justified them, so `VotesInv` keeps of them what was reported
  and that their ids are distinct, and no voter runs that could add one.
* **Log cache** (`LogCacheProofs`: `TypeCorrect`, `NeverMissed`, `CachesAlwaysExact`),
  for any number of blocks, logs, queries and names. The lemma it rests on is
  `SavedIsExact`: what `save_logs` merges has, block by block, its logs from the new
  answer or from a range that it deletes, and what it keeps is apart from the merged
  range. `Inv` adds to the properties that the database in use exists and that a
  request lies between the next block and the end that is wanted.
* **Bless states** (`LaneProofs`: `TypeCorrect`, `DestAlwaysExact`, `VerifiedIsGenuine`,
  `StatusAlwaysGenuine`). For any reports and events, in any order, the three sets are
  what the log says; a root verifies if and only if it is that of the messages of its
  interval; and a status lists nothing else, although the states go on after it is
  published. `LaneInv` adds that the messages of the source state are numbered from 1
  without a gap, so that the positions counted in `MessageHashes` are the numbers of
  the interval. `RootIsTree` is the other half: after `k` rounds the hashes that are left
  are the subtrees of height `k` that have a leaf (`LevelRises`), padding included, for any
  number of leaves; `Room` shows that there is a lowest tree, and `Doubles`, that it has
  twice the leaves of one that is lower by one.
* **Votes to bless** (`VoteToBlessProofs`: `TypeCorrect`, `CurseStopsVotes`,
  `NeverSentTwice`), for any roots, lanes, batch size and modes. `Inv` adds that a lane
  that is cursed and for which no late vote was sent may have roots in the batch, and
  one for which a vote was sent has none; and that what is hot is inflight.
* **Transactions** (`NodeProofs`: `TypeCorrect`, `CopiesAlwaysUnheard`,
  `EveryServerAsked`, `NoGap`), for any number of servers, retries and limits. `InOrder(p)`
  says that the pool is `latest .. p - 1`, that the sender's nonce is not beyond `p`, and
  that a transaction which would take `p` was tested against the limit with a count that
  can only have been too low; `RoundInv` that the servers which come before the next one
  around the ring, as many as there were attempts, were asked, and that no answer was
  good. `CopyInv` says that until a call returns no server that took a copy has said so,
  and that a copy taken when the time was over is the one being sent: a good answer is
  better than any before it and ends the round (`GoodAnswerEnds`), and the time does not
  come back. `PendingIsNonce` shows that the count at the tag "pending" exists, by counting
  the pool.
* **Node** (`NodeProofs`: `NeverDeadlocked`, `AlwaysServed`, `TurnsAlwaysTaken`), for any
  files, servers, contracts and on-chain configs. `NodeInv` has a part for each.
  *Locks*: a thread is asleep or at a place of one of its sections (`PlacesOK`), and every
  section takes its locks in the order of `Rank`, one at a time (`SectionsInOrder`, for
  each row of `Sections`). So a thread that waits does so for a lock above all that it
  holds. In a set of threads that wait for one another, the lock that a thread waits for
  is held by another thread, which waits for a higher one; or another thread waits
  for the same lock as a writer, and is in turn held up by one that holds it
  (`WaitsRise`): the ranks would rise for ever (`NoCircle`). *Start*: what was accepted of
  the files, what was found of contracts, and with the flag of servers, still holds when the workers
  are spawned, although the files are forgotten and a restart begins with the checks again
  (`FilesInv`, `ChecksInv`). That with the flag no lane begins with a gap follows from the search for a
  log: one that it finds is not below the oldest block of the server, and not above the
  lowest first block. That no two lanes share an off-ramp follows from the contracts:
  an off-ramp has one commit store, and the commit stores of the files are all different.
  *Voters* (`VotersInv`: a node that votes is one of the voters of the config that was
  discovered): the sums of 16 bits are the sums of the weights (`NoOverflow`), and the
  stage after `n` voters is the number of them from the one that reaches the threshold
  on (`StageIs`).

A module of theorems about two components has two parts that do not depend on each other:
the components share no variable, and each theorem is about the specification of its own.

The invariants were model-checked before they were proved, and so were the type
invariants, which are left to the theorems named `TypeCorrect` now. The
assumptions, which TLC evaluates in each run:

* `TreeAssumption`: facts about trees that an induction would prove from `Parent` alone;
* `NodeAssumption`: the files list lanes whose first blocks are numbers, of chains that have
  logs; blocks are numbers;
* `VotersAssumption`: the AFN contract has voters with different addresses to bless, weights
  of 8 bits (`Voter`), a threshold that is not 0, and at most 257 voters. With more
  of them the sum of the weights may not fit the `u16` of `delay_with_seed`, which
  the node does not check; it relies on the contract, as it does for the rest of this;
* the types of the other constants.

Inductions (over ranges of blocks, rounds of hashing, sums, lists of events) go over *sets*
of numbers: a set that has 0 and is closed under the successor has all of them, or it
would lack a least one (`Induction`). Recursive functions have a domain that is finite,
and are shown to exist in the same way, before what they compute is proved (`LevelStep`,
`Recursion`).

Only model-checked: liveness (`CatchesUp`, `DetectsViolation`, `Settles`, `Syncs`,
`Detects`, `ReportsAreVotedFor`, `CatchesUp` of `LogCache`, `VotedInTheEnd`, `SendReturns`,
`GapsClose`, `ShutdownEnds`), which needs fairness and `ENABLED` and is out of the
prover's reach. All invariants and action properties of the runs are proved.

## 5. Not modelled

Metrics and forensics are output that nothing reads. Formats (ABI, RLP, transactions,
hex), the decoding of events, the tables of chain names, and the parsing of the
configuration are functions without state. Cryptography and the keystore: the models take
a key to be there or not. Servers of one chain that are on different forks at the same
time, or of another chain, are excluded; the node refuses several servers unless
`--dangerous-allow-multiple-rpcs` is given, because of the false curses they can cause.

Four hazards stay without a property. Two are about what one process leaves to the next:
the logs of a fork of *stable* blocks in the database (section 3), and a cursed process
that is killed, which begins again with nothing. Two are modelled, but the code does what
a property would have to forbid: the main thread of a cursed node that panics over a
poisoned lock, and the start that waits for ever for a config whose worker is dead.

What would come next: that `EventStateMachine` implements an abstract follower of a chain, so
that the workers of `OffRampAnomaly` and `LaneBless` can be shown to be ones, and that `TxSender`
implements the sending of a vote as `CurseVoting` and `VoteToBless` have it (sent, then mined
or lost, and perhaps sent twice); and the case of a restart that finds the databases of an
earlier process on a fork of stable blocks.
