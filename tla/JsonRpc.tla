------------------------------- MODULE JsonRpc -------------------------------
(***************************************************************************)
(* A call of the JSON-RPC client with several servers (JsonRpc::call,      *)
(* minieth/src/json_rpc.rs): it asks one server after the other until an   *)
(* answer is good or it gives up, and returns the best answer it had.      *)
(*                                                                         *)
(* The threads of the process share the index of the server to begin with, *)
(* and each sets it to the server it ended with: a call begins with any.   *)
(***************************************************************************)
EXTENDS Integers

CONSTANTS Servers,    \* servers.len()
          MinRetries, \* MIN_RETRIES
          MinWait     \* MIN_WAIT, in units of time

ASSUME JsonRpcAssumption ==
    Servers \in Nat \ {0} /\ MinRetries \in Nat \ {0} /\ MinWait \in Nat

VARIABLES
    server,   \* server_id
    attempt,  \* i, up to the number from which on it makes no difference
    best,     \* best_jsonrpc_batch_result
    waited,   \* loop_start.elapsed(), up to MinWait
    asked     \* the servers that were asked in this call (history)

rpc == <<server, attempt, best, waited, asked>>

(***************************************************************************)
(* What a server makes of the batch of a request and eth_chainId: "good",  *)
(* the request is "refused" by a JsonRpcResponse::Failure, the batch is    *)
(* "spoilt" by a null or by a Failure for the chain id, or by both         *)
(* ("broken"), or there is no answer, or not one for every id ("error").   *)
(* No server is of another chain.                                          *)
(***************************************************************************)
Answer == {"good", "refused", "spoilt", "broken", "error"}

\* count_potentially_faulty_responses
Faulty(answer) == CASE answer = "good" -> 0 [] answer = "broken" -> 2 [] OTHER -> 1

\* Mutant: the first answer is kept, if there is one.
BetterFirst(older, newer) == IF older = "error" THEN newer ELSE older

\* better_jsonrpc_batch_result
Better(older, newer) ==
    IF newer = "error" \/ (older # "error" /\ Faulty(older) <= Faulty(newer))
    THEN older ELSE newer

MaxAttempt == IF Servers < MinRetries THEN MinRetries ELSE Servers

BeginCall ==
    /\ server' \in 0 .. (Servers - 1) /\ attempt' = 1
    /\ best' = "error" /\ waited' = 0 /\ asked' = {}

EndCall == server' = 0 /\ attempt' = 0 /\ best' = "error" /\ waited' = 0 /\ asked' = {}

\* Mutant: the last server is left out.
TriedAllButOne == attempt >= Servers - 1

TriedAllServers == attempt >= Servers

ExhaustedRetries == TriedAllServers /\ attempt >= MinRetries /\ waited >= MinWait

\* The call ends with the result, rather than to ask another server.
EndsWith(result) ==
    \/ ExhaustedRetries
    \/ result # "error" /\ (Faulty(result) = 0 \/ TriedAllServers)

NextServer ==
    /\ attempt' = IF attempt < MaxAttempt THEN attempt + 1 ELSE attempt
    /\ server' = (server + 1) % Servers
    /\ UNCHANGED waited

\* Time passes in a call.
Wait ==
    /\ waited' = IF attempt > 0 /\ waited < MinWait THEN waited + 1 ELSE waited
    /\ UNCHANGED <<server, attempt, best, asked>>
=============================================================================
