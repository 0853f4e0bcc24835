--------------------------- MODULE OffchainConfig ---------------------------
(***************************************************************************)
(* The configuration of a node, as OffchainConfig::new (afn/src/config.rs) *)
(* takes it from the files, and what the start asks of it                  *)
(* (afn/src/state.rs).                                                     *)
(*                                                                         *)
(* The files are a record of three sequences: local, of [name, disabled,   *)
(* rpcs], with the number of servers for rpcs; shared, of the names of     *)
(* chains; lanes, of [source, dest, name, type, onRamp, offRamp, store,    *)
(* sourceStart, destStart], with three addresses and the first blocks.     *)
(***************************************************************************)
EXTENDS Integers, Sequences, FiniteSets, FiniteSetsExt, SequencesExt

\* find_duplicate, of the keys of a list.
HasDuplicate(keys) == \E i, j \in DOMAIN keys : i < j /\ keys[i] = keys[j]

LaneId(lane) == <<lane.source, lane.dest, lane.name>>

\* OffchainConfig::new returns an error.
Rejected(file) ==
    \/ HasDuplicate([i \in DOMAIN file.local |-> file.local[i].name])
    \/ HasDuplicate(file.shared)
    \/ {c.name : c \in ToSet(file.local)} # ToSet(file.shared)
    \/ HasDuplicate([i \in DOMAIN file.lanes |-> LaneId(file.lanes[i])])
    \/ HasDuplicate([i \in DOMAIN file.lanes |-> <<file.lanes[i].dest, file.lanes[i].store>>])
    \/ \E lane \in ToSet(file.lanes) :
          \/ ~({lane.source, lane.dest} \subseteq ToSet(file.shared))
          \/ lane.source = lane.dest

\* local_config_by_enabled_chain, and with it shared_config_by_enabled_chain.
EnabledChains(file) == {c \in ToSet(file.local) : ~c.disabled}

\* shared_config_by_enabled_lane
EnabledLanes(file) ==
    {lane \in ToSet(file.lanes) :
        {lane.source, lane.dest} \subseteq {c.name : c \in EnabledChains(file)}}

\* The OffchainConfig of files that are not refused.
Loaded(file) == [chains |-> EnabledChains(file), lanes |-> EnabledLanes(file)]

Names(config) == {c.name : c \in config.chains}

\* dest_chains
DestChains(config) == {lane.dest : lane \in config.lanes}

\* The versions of contracts that are of a type of lane.
Version(type) == IF type = "1.0" THEN {"1.0.0", "1.1.0"} ELSE {"1.2.0"}

\* validate_onchain_lane_config: what is at the addresses, of <<chain, address>>,
\* are the contracts of the lane, and they refer to one another.
ContractsAgree(lane, contracts) ==
    LET on == <<lane.source, lane.onRamp>>
        off == <<lane.dest, lane.offRamp>>
        store == <<lane.dest, lane.store>>
        Ends(c) == c.source = lane.source /\ c.dest = lane.dest
    IN /\ {on, off, store} \subseteq DOMAIN contracts
       /\ \A c \in {contracts[on], contracts[off], contracts[store]} :
             Ends(c) /\ c.version \in Version(lane.type)
       /\ contracts[on].kind = "OnRamp"
       /\ contracts[off].kind = "OffRamp"
       /\ contracts[off].store = lane.store /\ contracts[off].onRamp = lane.onRamp
       /\ contracts[store].kind = "CommitStore" /\ contracts[store].onRamp = lane.onRamp

\* The blocks of a chain that lanes begin with.
FirstBlocks(config, name) ==
    {lane.sourceStart : lane \in {l \in config.lanes : l.source = name}}
    \cup {lane.destStart : lane \in {l \in config.lanes : l.dest = name}}

\* The chains that some lane reads.
Read(config) == {lane.source : lane \in config.lanes} \cup DestChains(config)

\* Mutant: of the blocks of a chain, the highest counts.
HighestBlock(config, name) == Max(FirstBlocks(config, name))

\* min_block_number_required_by_chain
RequiredBlock(config, name) == Min(FirstBlocks(config, name))

\* u64::saturating_sub
Below(n, m) == IF m < n THEN n - m ELSE 0

\* ensure_rpc_not_pruned: the range that ends with the block is doubled, down
\* to the genesis block, until there is a log in it.
NotPruned(block, logs) ==
    \E k \in 0 .. block : Below(block, 2^k - 1) .. block \cap logs # {}
=============================================================================
