------------------------------ MODULE LaneBless ------------------------------
(***************************************************************************)
(* Which roots of a lane the node may vote to bless: the messages of the   *)
(* source chain (SourceBlessState) and the roots, votes and blessings of   *)
(* the destination chain (DestBlessState), both folded from events         *)
(* (afn/src/contract_event_state_machine.rs), and the roots that verify    *)
(* (afn/src/lane_bless_status.rs, afn/src/commit_store_common.rs).  How a  *)
(* state follows its chain is in EventStateMachine; here are the events.   *)
(***************************************************************************)
EXTENDS MerkleRoot, FiniteSets

CONSTANTS MaxSeqNr,   \* a bound: the source chain has the messages 1 .. MaxSeqNr
          MaxEvents,  \* a bound: the events of the destination chain
          Report,     \* the reports that the commit store may accept
          DestEvent   \* what the AFN contract may log

\* Tags of an event that are those of this lane and this voter, or are not.
Tag == {"own", "other"}

ASSUME LaneBlessAssumption ==
    /\ MaxSeqNr \in Nat /\ MaxEvents \in Nat
    /\ \A r \in Report : r.min \in Nat /\ r.max \in Nat
    /\ \A e \in DestEvent :
          /\ e.kind \in {"Blessed", "Voted", "BlessVotesReset"}
          /\ e.store \in Tag /\ e.version \in Tag /\ e.voter \in Tag

VARIABLES
    messages,   \* seq_nrs_and_message_hashes of the stable source state
    log,        \* what was logged on the destination chain (history)
    committed,  \* committed_roots_with_intervals of the destination state
    blessed,    \* blessed_roots
    voted,      \* my_voted_but_not_yet_blessed_roots
    status      \* verified_tagged_roots of lane_bless_status, none while it is None

laneVars == <<messages, log, committed, blessed, voted, status>>

Root == {r.root : r \in Report} \cup {e.root : e \in DestEvent}

LaneInit ==
    /\ messages = << >> /\ log = << >>
    /\ committed = {} /\ blessed = {} /\ voted = {}
    /\ status = {}

-----------------------------------------------------------------------------
(***************************************************************************)
(* The source state.                                                       *)
(***************************************************************************)
\* What a source event may be: the n-th message, with an id that is its hash or
\* is not.
SourceEvent == [nr : 1 .. MaxSeqNr, genuine : BOOLEAN]

\* Mutant: the messages need not be contiguous.
SourceUpdateWithGaps ==
    /\ \E e \in SourceEvent :
          /\ e.genuine
          /\ e.nr > IF messages = << >> THEN 0 ELSE messages[Len(messages)].nr
          /\ messages' = Append(messages, [nr |-> e.nr, hash |-> Leaf(e.nr)])
    /\ UNCHANGED <<log, committed, blessed, voted, status>>

\* update_with_event pushes a message whose id is its hash, next in number.
SourceUpdate ==
    /\ \E e \in SourceEvent :
          /\ e.genuine
          /\ e.nr = IF messages = << >> THEN 1 ELSE messages[Len(messages)].nr + 1
          /\ messages' = Append(messages, [nr |-> e.nr, hash |-> Leaf(e.nr)])
    /\ UNCHANGED <<log, committed, blessed, voted, status>>

\* get_message_hashes, << >> for None: positions are counted from the number of
\* the first message.
MessageHashes(min, max) ==
    IF messages = << >> THEN << >>
    ELSE LET start == min - messages[1].nr
             end == start + (max - min)
         IN IF start < 0 \/ max < min \/ end >= Len(messages) THEN << >>
            ELSE [i \in 1 .. (max - min + 1) |-> messages[start + i].hash]

-----------------------------------------------------------------------------
(***************************************************************************)
(* The destination state: update_with_event.  An event that says what was  *)
(* so already (AlreadyBlessed, AlreadyVoted) counts as if it said it first. *)
(***************************************************************************)
\* The event is about this commit store, and in force under this config.
Ours(e) == e.store = "own"
InForce(e) == e.version = "own" /\ Ours(e)

Commit(r) ==
    /\ log' = Append(log, [kind |-> "Committed", report |-> r])
    /\ committed' = committed \cup {r}
    /\ UNCHANGED <<blessed, voted>>

Bless(e) ==
    /\ e.kind = "Blessed"
    /\ log' = Append(log, e)
    /\ blessed' = IF Ours(e) THEN blessed \cup {e.root} ELSE blessed
    /\ voted' = IF Ours(e) THEN voted \ {e.root} ELSE voted
    /\ UNCHANGED committed

Vote(e) ==
    /\ e.kind = "Voted"
    /\ log' = Append(log, e)
    /\ voted' = IF InForce(e) /\ e.voter = "own" /\ e.root \notin blessed
                THEN voted \cup {e.root} ELSE voted
    /\ UNCHANGED <<committed, blessed>>

\* Mutant: the blessing is forgotten, the own vote is not.
ResetBlessing(e) ==
    /\ e.kind = "BlessVotesReset"
    /\ log' = Append(log, e)
    /\ blessed' = IF InForce(e) THEN blessed \ {e.root} ELSE blessed
    /\ UNCHANGED <<committed, voted>>

Reset(e) ==
    /\ e.kind = "BlessVotesReset"
    /\ log' = Append(log, e)
    /\ blessed' = IF InForce(e) THEN blessed \ {e.root} ELSE blessed
    /\ voted' = IF InForce(e) THEN voted \ {e.root} ELSE voted
    /\ UNCHANGED committed

DestUpdate ==
    /\ Len(log) < MaxEvents
    /\ \/ \E r \in Report : Commit(r)
       \/ \E e \in DestEvent : Bless(e) \/ Vote(e) \/ Reset(e)
    /\ UNCHANGED <<messages, status>>

-----------------------------------------------------------------------------
(***************************************************************************)
(* LaneBlessStatusWorker.  It reads both states under their locks at once. *)
(***************************************************************************)
\* unverified_roots_with_intervals_we_could_vote
CouldVote == {r \in committed : r.root \notin blessed \cup voted}

\* verify_root_with_interval returns Ok(true).
Verifies(r) ==
    /\ r.min <= r.max
    /\ MessageHashes(r.min, r.max) # << >>
    /\ r.root = RootFromHashedLeafs(MessageHashes(r.min, r.max))

VerifiedRoots == {r.root : r \in {c \in CouldVote : Verifies(c)}}

Publish ==
    /\ status' = VerifiedRoots
    /\ UNCHANGED <<messages, log, committed, blessed, voted>>

LaneNext == SourceUpdate \/ DestUpdate \/ Publish

LaneSpec == LaneInit /\ [][LaneNext]_laneVars

-----------------------------------------------------------------------------
(***************************************************************************)
(* Correctness.                                                            *)
(***************************************************************************)
\* The type invariant.
TypeOK ==
    /\ messages \in Seq([nr : 1 .. MaxSeqNr, hash : {Leaf(n) : n \in 1 .. MaxSeqNr}])
    /\ log \in Seq(DestEvent \cup [kind : {"Committed"}, report : Report])
    /\ committed \subseteq Report /\ blessed \subseteq Root /\ voted \subseteq Root
    /\ status \subseteq Root

\* What the log says of a root: it was blessed, or voted for, and that was not
\* reset since.
IsBlessing(e, root) == e.kind = "Blessed" /\ Ours(e) /\ e.root = root
IsVote(e, root) ==
    e.kind = "Voted" /\ InForce(e) /\ e.voter = "own" /\ e.root = root
IsReset(e, root) == e.kind = "BlessVotesReset" /\ InForce(e) /\ e.root = root

Holds(Is(_, _), root) ==
    \E i \in DOMAIN log :
        /\ Is(log[i], root)
        /\ \A j \in DOMAIN log : j > i => ~IsReset(log[j], root)

\* The three sets say of each root what the whole log says of it, in whatever
\* order votes, blessings and resets of this and other lanes, voters and configs
\* come: no root is dropped from the roots to vote for, nor kept among them, by
\* an event that came late.
DestExact ==
    /\ blessed = {r \in Root : Holds(IsBlessing, r)}
    /\ voted = {r \in Root : Holds(IsVote, r) /\ ~Holds(IsBlessing, r)}
    /\ committed = {r \in Report : \E i \in DOMAIN log :
                       log[i].kind = "Committed" /\ log[i].report = r}

\* The root of the messages min .. max, as the source chain has them.
GenuineRoot(min, max) == Tree([i \in 1 .. (max - min + 1) |-> Leaf(min + i - 1)])

Genuine(r) ==
    /\ 1 <= r.min /\ r.min <= r.max /\ r.max <= Len(messages)
    /\ r.root = GenuineRoot(r.min, r.max)

\* The worker verifies a root if and only if it is that of the messages of its
\* interval, of which none is missing: not of an interval that is reversed,
\* starts at 0, is that of other messages, or reaches beyond what is stable; and
\* the rounds over a queue of hashes build the tree, for odd numbers too.
VerifiesGenuine == \A r \in Report : Verifies(r) <=> Genuine(r)

\* A status, however old, lists roots only that a report on the destination
\* chain gave with the interval of its messages.
StatusIsGenuine ==
    \A root \in status : \E r \in committed : r.root = root /\ Genuine(r)
=============================================================================
