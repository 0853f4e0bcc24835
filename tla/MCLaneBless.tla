----------------------------- MODULE MCLaneBless -----------------------------
(***************************************************************************)
(* LaneBless, for five messages and a few reports of each kind.           *)
(***************************************************************************)
EXTENDS LaneBless

RootOf(min, max) == Tree([i \in 1 .. (max - min + 1) |-> Leaf(min + i - 1)])

Both == RootOf(1, 2)
Last == RootOf(3, 3)
Forged == Leaf(6)

\* Genuine ones; right roots with an interval that is shifted, reversed, or that
\* starts at 0; a root of no message; and an interval too long.
MCReport ==
    {[root |-> Both, min |-> 1, max |-> 2], [root |-> Last, min |-> 3, max |-> 3],
     [root |-> RootOf(1, 5), min |-> 1, max |-> 5],
     [root |-> Both, min |-> 2, max |-> 3], [root |-> Both, min |-> 0, max |-> 1],
     [root |-> Last, min |-> 2, max |-> 2], [root |-> Last, min |-> 3, max |-> 2],
     [root |-> Forged, min |-> 2, max |-> 2], [root |-> Forged, min |-> 1, max |-> 6]}

Event(kind, root, store, version, voter) ==
    [kind |-> kind, root |-> root, store |-> store, version |-> version, voter |-> voter]

\* What concerns this lane and voter for one root, and what differs in one tag.
MCDestEvent ==
    {Event(kind, Both, tags[1], tags[2], tags[3]) :
        kind \in {"Blessed", "Voted", "BlessVotesReset"},
        tags \in {<<"own", "own", "own">>, <<"other", "own", "own">>,
                  <<"own", "other", "own">>, <<"own", "own", "other">>}}
=============================================================================
