------------------------------ MODULE TxSender ------------------------------
(***************************************************************************)
(* The sender of a voter's transactions on one chain (TransactionSender,   *)
(* minieth/src/tx_sender.rs), with the account of the voter as the servers *)
(* have it.  A call of send is a loop of requests: the counts of           *)
(* transactions, an estimate of the gas, the transaction itself.  The      *)
(* account moves, and time passes, between two requests.                   *)
(*                                                                         *)
(* A request goes through the client of JsonRpc.  Only the transaction     *)
(* changes something on a server; the other requests are one step, whoever *)
(* answers them.  All transactions of an account have the fees of the      *)
(* configuration, so a server does not let one take the place of another.  *)
(***************************************************************************)
EXTENDS JsonRpc, FiniteSets

CONSTANTS Stall,       \* LATEST_TRANSACTION_COUNT_STALL_THRESHOLD, in units of time
          MaxBlocking, \* MAX_BLOCKING_TIME
          MaxInflight, \* MAX_TXS_INFLIGHT
          MaxNonce,    \* a bound: send is not called with a nonce above it
          MaxMined,    \* a bound: the transactions that are mined
          MaxFaults,   \* a bound: the transactions that the servers forget or revert
          MaxRestarts  \* a bound: the restarts of the process

ASSUME TxSenderAssumption ==
    /\ Stall \in Nat /\ MaxBlocking \in Nat \ {0} /\ MaxInflight \in Nat
    /\ {MaxNonce, MaxMined, MaxFaults, MaxRestarts} \subseteq Nat

VARIABLES
    \* the account
    latest,    \* the count of the transactions in the latest block
    pool,      \* the nonces of those that the servers hold beyond it
    faults,    \* how often they forgot or reverted one
    reliable,  \* TRUE once requests no longer fail and take no time
    \* the sender
    nonce,     \* TransactionSender::nonce, or None
    previous,  \* previous_transaction_count_with_timestamp: the count, or None
    stalled,   \* how old its timestamp is, up to Stall + 1
    pc,        \* "idle", or the request of send that is next
    age,       \* how long the call of send has run, up to MaxBlocking
    count,     \* latest_transaction_count
    use,       \* the nonce of the transaction that is to be sent
    rested,    \* TRUE: the caller's poll interval is over
    restarts,
    known,     \* TRUE: a server accepted the transaction that is sent (history)
    \* history, of the transactions of this call of send
    heard,     \* TRUE: a server took one of them, and its answer was good
    late       \* the nonces of those that it took when the time was over

account == <<latest, pool, faults, reliable>>
memory == <<nonce, previous, stalled>>
call == <<age, count, use>>
sent == <<heard, late>>
history == <<known, sent>>
vars == <<account, memory, pc, call, rpc, rested, restarts, history>>

None == -1

Init ==
    /\ latest = 0 /\ pool = {} /\ faults = 0 /\ reliable = FALSE
    /\ nonce = None /\ previous = None /\ stalled = 0
    /\ pc = "idle" /\ age = 0 /\ count = 0 /\ use = 0
    /\ server = 0 /\ attempt = 0 /\ best = "error" /\ waited = 0 /\ asked = {}
    /\ rested = TRUE /\ restarts = 0 /\ known = FALSE
    /\ heard = FALSE /\ late = {}

-----------------------------------------------------------------------------
(***************************************************************************)
(* The account, and time.                                                  *)
(***************************************************************************)
\* The count at the tag "pending": the first nonce that is missing.
Pending ==
    CHOOSE n \in latest .. (latest + Cardinality(pool)) :
        n \notin pool /\ latest .. (n - 1) \subseteq pool

Mine ==
    /\ latest \in pool /\ latest < MaxMined
    /\ latest' = latest + 1 /\ pool' = pool \ {latest}
    /\ UNCHANGED <<faults, reliable, memory, pc, call, rpc, rested, restarts, history>>

\* The node restarts, or drops a transaction that is cheap.
Forget ==
    /\ faults < MaxFaults /\ faults' = faults + 1
    /\ \E n \in pool : pool' = pool \ {n}
    /\ UNCHANGED <<latest, reliable, memory, pc, call, rpc, rested, restarts, history>>

\* A reorganisation: the last transaction is pending again, or it is lost.
Reorg ==
    /\ faults < MaxFaults /\ faults' = faults + 1
    /\ latest > 0 /\ latest' = latest - 1
    /\ pool' \in {pool, pool \cup {latest - 1}}
    /\ UNCHANGED <<reliable, memory, pc, call, rpc, rested, restarts, history>>

Stabilize ==
    /\ ~reliable /\ reliable' = TRUE
    /\ UNCHANGED <<latest, pool, faults, memory, pc, call, rpc, rested, restarts, history>>

\* Time passes between two calls, in requests that take long, and while send
\* waits for transactions inflight.
Tick ==
    /\ reliable => \/ pc = "idle"
                   \/ pc \in {"latest", "pending"} /\ Pending - latest > MaxInflight
    /\ stalled' = IF stalled <= Stall THEN stalled + 1 ELSE stalled
    /\ age' = IF pc # "idle" /\ age < MaxBlocking THEN age + 1 ELSE age
    /\ rested' = TRUE /\ Wait
    /\ UNCHANGED <<account, nonce, previous, pc, count, use, restarts, history>>

-----------------------------------------------------------------------------
(***************************************************************************)
(* TransactionSender::send.                                                *)
(***************************************************************************)
Call ==
    /\ pc = "idle" /\ rested /\ nonce <= MaxNonce
    /\ pc' = "latest" /\ age' = 0 /\ heard' = FALSE /\ late' = {}
    /\ UNCHANGED <<account, memory, count, use, rpc, rested, restarts, known>>

\* send returns.
Return ==
    /\ pc' = "idle" /\ rested' = FALSE
    /\ age' = 0 /\ count' = 0 /\ use' = 0 /\ known' = FALSE /\ EndCall

\* A request for a count fails.
CountError ==
    /\ ~reliable /\ pc \in {"latest", "pending", "recount"}
    /\ Return
    /\ UNCHANGED <<account, memory, restarts, sent>>

ReadLatest ==
    /\ pc = "latest" /\ pc' = "pending" /\ count' = latest
    /\ UNCHANGED <<account, memory, age, use, rpc, rested, restarts, history>>

\* Mutant: a count that stalls is never given up.
NeverStalled == previous # None /\ previous > count

\* The count went back, or it has not moved for long: the nonce is not trusted.
Stalled == /\ previous # None
           /\ previous > count \/ (previous = count /\ stalled > Stall)

TrustedNonce == IF Stalled THEN None ELSE nonce

\* txs_inflight, a saturating difference, is above the limit.
TooManyInflight == Pending - count > MaxInflight

ReadPending ==
    /\ pc = "pending"
    /\ nonce' = TrustedNonce
    /\ IF previous = count /\ ~Stalled
       THEN UNCHANGED <<previous, stalled>>
       ELSE previous' = count /\ stalled' = 0
    /\ IF TrustedNonce # None /\ TooManyInflight
       THEN pc' = "latest" /\ UNCHANGED use
       ELSE pc' = "estimate" /\ use' = IF TrustedNonce = None THEN count ELSE nonce
    /\ UNCHANGED <<account, age, count, rpc, rested, restarts, history>>

\* Mutant: there is no limit to the time that a call may take.
CanAlwaysRetry == TRUE

\* can_retry
CanRetry == age < MaxBlocking

Again(next) == pc' = next /\ known' = FALSE /\ UNCHANGED <<call, rested>> /\ EndCall

\* Another round, or the end.
RetryOrReturn(next) == IF CanRetry THEN Again(next) ELSE Return

EstimateError ==
    /\ ~reliable /\ pc = "estimate"
    /\ RetryOrReturn("latest")
    /\ UNCHANGED <<account, memory, restarts, sent>>

\* The transaction is made.
Estimate ==
    /\ pc = "estimate" /\ pc' = "raw"
    /\ BeginCall
    /\ UNCHANGED <<account, memory, call, rested, restarts, history>>

\* No transaction of that nonce is known.
Free == use >= latest /\ use \notin pool

Taken(answer) ==
    /\ pool' = pool \cup {use}
    /\ heard' = (heard \/ answer = "good")
    /\ late' = IF CanRetry THEN late ELSE late \cup {use}

\* A server takes the transaction, or not; it then knows of it.
Treated(answer, knows) ==
    \/ knows = TRUE /\ answer # "refused" /\ Free /\ Taken(answer)
    \/ /\ knows = known /\ (answer = "good" => known /\ ~Free)
       /\ UNCHANGED <<pool, sent>>

MayAnswer(answer) == reliable => answer = IF Free THEN "good" ELSE "refused"

Posted(answer, knows) ==
    /\ pc = "raw" /\ MayAnswer(answer) /\ Treated(answer, knows)
    /\ UNCHANGED <<latest, faults, reliable, previous, stalled, restarts>>

\* The next server is asked.
Post(answer, knows) ==
    /\ Posted(answer, knows) /\ ~EndsWith(Better(best, answer))
    /\ best' = Better(best, answer) /\ asked' = asked \cup {server} /\ NextServer
    /\ known' = knows
    /\ UNCHANGED <<nonce, pc, call, rested>>

LastAttempt(answer, knows, result) ==
    /\ Posted(answer, knows) /\ result = Better(best, answer) /\ EndsWith(result)

SendOk(answer, knows) ==
    /\ LastAttempt(answer, knows, "good")
    /\ nonce' = use + 1 /\ Return

\* RpcError::ErrorResponse.
Refused(answer, knows) ==
    /\ LastAttempt(answer, knows, "refused")
    /\ RetryOrReturn("recount") /\ UNCHANGED nonce

\* Any other error.
SendError(answer, knows) ==
    /\ \E result \in {"spoilt", "broken", "error"} : LastAttempt(answer, knows, result)
    /\ Return /\ UNCHANGED nonce

\* Mutant: the nonce that was refused is counted up.
RecountNext ==
    /\ pc = "recount" /\ nonce' = use + 1 /\ Again("latest")
    /\ UNCHANGED <<account, previous, stalled, restarts, sent>>

Recount ==
    /\ pc = "recount" /\ nonce' = Pending /\ Again("latest")
    /\ UNCHANGED <<account, previous, stalled, restarts, sent>>

\* The process is killed, or the node starts its workers anew.
Restart ==
    /\ restarts < MaxRestarts /\ restarts' = restarts + 1
    /\ nonce' = None /\ previous' = None /\ stalled' = 0 /\ Return
    /\ UNCHANGED <<account, sent>>

-----------------------------------------------------------------------------
Send ==
    \/ CountError \/ ReadLatest \/ ReadPending \/ EstimateError \/ Estimate \/ Recount
    \/ \E answer \in Answer, knows \in BOOLEAN :
          \/ Post(answer, knows) \/ SendOk(answer, knows)
          \/ Refused(answer, knows) \/ SendError(answer, knows)

Next == Mine \/ Forget \/ Reorg \/ Stabilize \/ Tick \/ Call \/ Send \/ Restart

Spec == Init /\ [][Next]_vars

\* Time passes, every request ends, and there is always something to vote for.
FairSpec ==
    Spec /\ WF_vars(Stabilize) /\ WF_vars(Tick) /\ WF_vars(Send) /\ WF_vars(Call)

-----------------------------------------------------------------------------
(***************************************************************************)
(* Correctness.                                                            *)
(***************************************************************************)
\* The type invariant.
TypeOK ==
    /\ latest \in Nat /\ pool \subseteq Nat /\ IsFiniteSet(pool) /\ faults \in 0 .. MaxFaults /\ reliable \in BOOLEAN
    /\ nonce \in Nat \cup {None} /\ previous \in Nat \cup {None} /\ stalled \in 0 .. (Stall + 1)
    /\ pc \in {"idle", "latest", "pending", "estimate", "raw", "recount"}
    /\ age \in 0 .. MaxBlocking /\ count \in Nat /\ use \in Nat
    /\ rested \in BOOLEAN /\ restarts \in 0 .. MaxRestarts
    /\ server \in 0 .. (Servers - 1) /\ attempt \in 0 .. MaxAttempt /\ best \in Answer
    /\ waited \in 0 .. MinWait /\ asked \subseteq 0 .. (Servers - 1)
    /\ known \in BOOLEAN /\ heard \in BOOLEAN /\ late \subseteq Nat

\* A call of send may put its request on the chain again and again: a server takes
\* the transaction, its answer is lost or spoilt, the client asks on and hears that
\* the transaction is known, and send reads that as a refusal and sends the request
\* with another nonce.  But it does so only as long as no server that took a copy
\* has said so, whatever other servers answered before that one; and only until a
\* copy was taken after MAX_BLOCKING_TIME, a limit that is not tested while send
\* waits for transactions inflight.
CopiesAreUnheard ==
    [][pc = "raw" /\ latest' = latest /\ use \in pool' \ pool => ~heard /\ late \subseteq {use}]_vars

\* A transaction is given up only after every server was asked for it.
AsksEveryServer ==
    [][pc = "raw" /\ pc' # "raw" /\ nonce' \in {None, nonce} /\ restarts' = restarts
          => asked \cup {server} = 0 .. (Servers - 1)]_vars

\* While the servers forget and revert nothing, no vote waits behind a nonce that
\* is missing, after no failure of a request and no restart, and there are at
\* most MaxInflight + 1 transactions on their way, although the limit is not
\* tested when the nonce is not known.
PoolInOrder ==
    faults = 0 => \E n \in 0 .. (MaxInflight + 1) : pool = latest .. (latest + n - 1)

\* Every call of send returns: the loop that waits for transactions inflight
\* has no limit of time of its own, and does not wait.
SendReturns == (pc # "idle") ~> (pc = "idle")

\* A vote that waits behind a missing nonce does not wait for ever, as long as
\* there are votes to send, and they need not wait for those before the gap.
GapsClose == []<>(pool = latest .. (Pending - 1) \/ Pending - latest > MaxInflight)
=============================================================================
