----------------------------- MODULE VoterDelay -----------------------------
(***************************************************************************)
(* When a voter may bless (afn/src/permutation.rs): in each hour the       *)
(* voters are shuffled; the first of them vote at once, until their        *)
(* weights are enough, and each of the others waits one stage more.        *)
(*                                                                         *)
(* An on-chain config is a record [voters, threshold], a voter a record    *)
(* [bless, curse, weight] with two addresses.                              *)
(***************************************************************************)
EXTENDS Integers, Sequences, FiniteSets, Functions

\* What a seed of the generator may make of the voters: any order.
Seed(config) == Bijection(DOMAIN config.voters, DOMAIN config.voters)

\* permute
Permuted(config, seed) == [i \in DOMAIN config.voters |-> config.voters[seed[i]]]

\* accumulated_weight, in 16 bits, after the first n voters.
AccumulatedWeight(order, n) ==
    LET sum[i \in 0 .. Len(order)] ==
            IF i = 0 THEN 0 ELSE (sum[i - 1] + order[i].weight) % 65536
    IN sum[n]

\* Mutant: the voter that reaches the threshold is not counted.
StageTooHigh(order, threshold, n) ==
    Cardinality({i \in 1 .. n : \E j \in 1 .. i : AccumulatedWeight(order, j) > threshold})

\* The stage after the first n voters: 0 before the threshold, then one more
\* for each voter.
Stage(order, threshold, n) ==
    Cardinality({i \in 1 .. n : \E j \in 1 .. i : AccumulatedWeight(order, j) >= threshold})

NoDelay == -1

\* delay_with_seed, in DELTA_STAGE.
Delay(address, config, seed) ==
    LET order == Permuted(config, seed)
        Found == {i \in DOMAIN order : order[i].bless = address}
    IN IF Found = {} THEN NoDelay
       ELSE Stage(order, config.threshold, (CHOOSE i \in Found : \A j \in Found : i <= j) - 1)
=============================================================================
