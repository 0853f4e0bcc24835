------------------------------ MODULE LogCache ------------------------------
(***************************************************************************)
(* The logs of stable blocks, from which a stable state is folded: the     *)
(* database that outlives the process (LogsDb and CachedRpc in             *)
(* afn/src/cached_rpc.rs), the size of the requests to the node            *)
(* (afn/src/smart_get_logs.rs), and the node that answers them             *)
(* (Rpc::get_logs in minieth/src/rpc.rs).                                  *)
(*                                                                         *)
(* Stable blocks do not change (see StableChain): a block has the logs     *)
(* 1 .. LogsIn[shape][block] for a query of that shape, that is for the    *)
(* addresses and topics of one state machine.                              *)
(***************************************************************************)
EXTENDS Integers, FiniteSets, FiniteSetsExt

CONSTANTS MaxBlock,   \* a bound: the blocks are 0 .. MaxBlock
          Shape,      \* what query_shape_digest tells apart
          Name,       \* the names that a worker has in this release or another
          LogsIn,     \* Shape -> block -> its number of logs
          StartBlocks,\* what the configuration may say in one process or the next
          MaxLogs,    \* MAX_NUM_LOGS_OVER_MANY_BLOCKS
          Limit       \* a node that is well answers for so many blocks at once, not for more

Block == 0 .. MaxBlock

ASSUME LogCacheAssumption ==
    /\ MaxBlock \in Nat /\ MaxLogs \in Nat
    /\ LogsIn \in [Shape -> [Block -> Nat]]
    /\ StartBlocks \subseteq Block
    /\ Limit \in Nat \ {0}

VARIABLES
    files,      \* the databases: name, shape, ranges (queriable_block_ranges), logs
    up,         \* a process runs the worker
    shape,      \* that of its query
    start,      \* the block it started from
    next,       \* the block it asks for next
    got,        \* the logs that it was given (history)
    stable,     \* the number of the stable tip
    reliable,   \* TRUE once the node and the disk are well
    pc,         \* "idle", or "asking" the node
    to,         \* what for: next .. to
    size,       \* block_range.size
    increase    \* block_range.increase

worker == <<up, shape, start>>
request == <<pc, to, size, increase>>
vars == <<files, worker, next, got, stable, reliable, request>>

\* The logs of a query of shape s in the blocks a .. b.
Logs(s, a, b) ==
    UNION {{[block |-> n, index |-> i] : i \in 1 .. LogsIn[s][n]} : n \in a .. b}

Init ==
    /\ files = {}
    /\ up = FALSE /\ shape \in Shape /\ start = 0 /\ next = 0 /\ got = {}
    /\ stable \in Block /\ reliable = FALSE
    /\ pc = "idle" /\ to = 0 /\ size = 1 /\ increase = "Multiplicative"

-----------------------------------------------------------------------------
(***************************************************************************)
(* The chain, the node and the process.                                    *)
(***************************************************************************)
Advance ==
    /\ stable < MaxBlock /\ stable' = stable + 1
    /\ UNCHANGED <<files, worker, next, got, reliable, request>>

Stabilize ==
    /\ ~reliable /\ reliable' = TRUE
    /\ UNCHANGED <<files, worker, next, got, stable, request>>

\* get_or_migrate_db_file_path: the database of the same shape, whatever the name
\* of the worker was, under its present name; or a new one.
Opened(name, s) ==
    LET matching == {f \in files : f.shape = s}
    IN (files \ matching) \cup
       (IF matching = {} THEN {[name |-> name, shape |-> s, ranges |-> {}, logs |-> {}]}
        ELSE {[f EXCEPT !.name = name] : f \in matching})

\* CachedRpc::new.  With several databases of the shape it fails.
Open ==
    /\ ~up /\ up' = TRUE
    /\ \E name \in Name, s \in Shape :
          /\ Cardinality({f \in files : f.shape = s}) <= 1
          /\ shape' = s /\ files' = Opened(name, s)
    /\ start' \in StartBlocks /\ next' = start' /\ got' = {}
    /\ pc' = "idle" /\ to' = 0 /\ size' = 1 /\ increase' = "Multiplicative"
    /\ UNCHANGED <<stable, reliable>>

\* The process ends, or is killed, at any moment.
Crash ==
    /\ up /\ up' = FALSE
    /\ next' = 0 /\ start' = 0 /\ got' = {}
    /\ pc' = "idle" /\ to' = 0 /\ size' = 1 /\ increase' = "Multiplicative"
    /\ UNCHANGED <<files, shape, stable, reliable>>

-----------------------------------------------------------------------------
(***************************************************************************)
(* LogsDb.                                                                 *)
(***************************************************************************)
Database == CHOOSE f \in files : f.shape = shape

Covering(ranges, from) == {r \in ranges : r.from <= from /\ from <= r.to}

\* get_partial_logs: the cached part of from .. last from its start on, halved
\* while it has several blocks and too many logs.
Cached(f, from, last) ==
    LET end == Min({last, Max({r.to : r \in Covering(f.ranges, from)})}) - from
        halves == {from} \cup {n \in from .. (from + end) :
                     \E k \in 0 .. end : n = from + end \div 2^k}
    IN Max({n \in halves :
              n = from \/ Cardinality({l \in f.logs : l.block \in from .. n}) <= MaxLogs})

\* Mutant: all the ranges are merged, those that lie apart too.
SavedApart(f, logs, from, last) ==
    LET lowest == Min({from} \cup {r.from : r \in f.ranges})
        highest == Max({last} \cup {r.to : r \in f.ranges})
    IN [f EXCEPT !.ranges = {[from |-> lowest, to |-> highest]}, !.logs = @ \cup logs]

\* save_logs: the new range is merged with those that it meets or adjoins; logs
\* that are there already are replaced, by number and index.
Saved(f, logs, from, last) ==
    LET above == {r.from : r \in {q \in f.ranges : q.to + 1 >= from}}
        below == {r.to : r \in {q \in f.ranges : q.from - 1 <= last}}
        lowest == IF above = {} THEN from ELSE Min(above)
        highest == IF below = {} THEN last ELSE Max(below)
        rest == {r \in f.ranges : ~(r.from >= lowest /\ r.to <= highest)}
        merged == [from |-> Min({from, lowest}), to |-> Max({last, highest})]
    IN [f EXCEPT !.ranges = rest \cup {merged}, !.logs = @ \cup logs]

-----------------------------------------------------------------------------
(***************************************************************************)
(* CachedRpc::get_partial_logs, for the update of a stable state.          *)
(***************************************************************************)
\* The answer: the logs of next .. end.
Give(logs, end) == got' = got \cup logs /\ next' = end + 1

\* The database has a part: that is the answer.
Hit ==
    /\ up /\ pc = "idle" /\ next <= stable
    /\ Covering(Database.ranges, next) # {}
    /\ LET end == Cached(Database, next, stable)
       IN Give({l \in Database.logs : l.block \in next .. end}, end)
    /\ UNCHANGED <<files, worker, stable, reliable, request>>

\* It has none, or cannot be read: the node is asked.
Miss ==
    /\ up /\ pc = "idle" /\ next <= stable
    /\ Covering(Database.ranges, next) = {} \/ ~reliable
    /\ pc' = "asking" /\ to' = stable
    /\ UNCHANGED <<files, worker, next, got, stable, reliable, size, increase>>

-----------------------------------------------------------------------------
(***************************************************************************)
(* SmartGetLogs::get_partial_logs.                                         *)
(***************************************************************************)
\* The last block of the next request, and its number of blocks.
End == Min({to, next + size - 1})
Asked == End - next + 1

\* Mutant: a request is never made smaller.
OnFailureKept(asked) == size' = size /\ increase' = "Additive"

\* After a failed or slow request for so many blocks.
OnFailure(asked) == size' = Max({asked \div 2, 1}) /\ increase' = "Additive"

\* After another one: if it was not cut short by its last block, ask for more.
OnSuccess(asked) ==
    /\ size' = IF size > asked THEN size
               ELSE IF increase = "Multiplicative" THEN size * 2 ELSE size + 1
    /\ UNCHANGED increase

\* Mutant: a node that does not have the last block answers with the logs it has.
NodeHasUnchecked(height) == TRUE

\* Rpc::get_logs asks for the first and the last block along with the logs: what
\* answers has all the blocks of the range, though not the head of the chain.
NodeHas(height) == height >= End

\* The node answers, slowly or not; the logs are saved if that succeeds.
Answered ==
    /\ up /\ pc = "asking"
    /\ \E height \in Block :
          /\ NodeHas(height) /\ (reliable => height >= stable /\ Asked <= Limit)
          /\ LET logs == Logs(shape, next, Min({End, height}))
             IN /\ Give(logs, End)
                /\ files' \in {files} \cup
                     {(files \ {Database}) \cup {Saved(Database, logs, next, End)}}
    /\ OnSuccess(Asked) \/ OnFailure(Asked)
    /\ pc' = "idle" /\ to' = 0
    /\ UNCHANGED <<worker, stable, reliable>>

\* The node rejects the request, for its size or any other reason: it is asked
\* for less, in the same call.
Rejected ==
    /\ up /\ pc = "asking" /\ size # 1
    /\ reliable => Asked > Limit
    /\ OnFailure(Asked)
    /\ UNCHANGED <<files, worker, next, got, stable, reliable, pc, to>>

\* The call fails: nothing less can be asked for, or a block is not there.
Failed ==
    /\ up /\ pc = "asking" /\ ~reliable
    /\ pc' = "idle" /\ to' = 0
    /\ UNCHANGED <<files, worker, next, got, stable, reliable, size, increase>>

Worker == Hit \/ Miss \/ Answered \/ Rejected \/ Failed

\* Once the stable state is complete, requests for the logs of unstable blocks go
\* past the database, but they move the size of all requests.
AskUnstable ==
    /\ up /\ pc = "idle" /\ next > stable
    /\ \E asked \in 1 .. Min({size, MaxBlock + 1}) : OnSuccess(asked) \/ OnFailure(asked)
    /\ UNCHANGED <<files, worker, next, got, stable, reliable, pc, to>>

Next == Worker \/ AskUnstable \/ Advance \/ Stabilize \/ Open \/ Crash

Spec == Init /\ [][Next]_vars

\* The worker polls for ever, and the node is well in the end.
FairSpec == Spec /\ WF_vars(Worker) /\ WF_vars(Stabilize)

-----------------------------------------------------------------------------
(***************************************************************************)
(* Correctness.                                                            *)
(***************************************************************************)
\* The type invariant.
TypeOK ==
    /\ \A f \in files :
          /\ f.name \in Name /\ f.shape \in Shape
          /\ f.ranges \subseteq [from : Block, to : Block]
          /\ f.logs \subseteq Logs(f.shape, 0, MaxBlock)
    /\ {up, reliable} \subseteq BOOLEAN /\ shape \in Shape
    /\ start \in Block /\ next \in 0 .. (MaxBlock + 1)
    /\ got \subseteq Logs(shape, 0, MaxBlock)
    /\ stable \in Block /\ to \in Block
    /\ pc \in {"idle", "asking"} /\ pc = "asking" => next <= to
    /\ size \in Nat \ {0} /\ increase \in {"Multiplicative", "Additive"}

\* The worker is given each log of its query from its first block on, and no
\* other, whatever earlier processes left in the databases, under which name,
\* from which block on and for which queries, whether reading or saving fails,
\* and whichever backend of the node answers.
NothingMissed == up => got = Logs(shape, start, next - 1)

\* A range that counts as cached has all its logs; ranges neither meet nor adjoin,
\* so that the one that covers a block is the best; and there is one database for
\* each shape.
CacheExact ==
    /\ \A f \in files :
          /\ \A r \in f.ranges :
                {l \in f.logs : l.block \in r.from .. r.to} = Logs(f.shape, r.from, r.to)
          /\ \A q, r \in f.ranges : q = r \/ q.to + 1 < r.from \/ r.to + 1 < q.from
    /\ \A f, g \in files : f.shape = g.shape => f = g

\* A process that runs long enough is given everything up to the stable tip,
\* although requests that are too large fail and slow ones make them smaller.
CatchesUp == <>[]up => <>[](next > stable)
=============================================================================
