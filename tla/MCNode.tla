------------------------------- MODULE MCNode -------------------------------
(***************************************************************************)
(* Instances of Node for TLC.                                              *)
(***************************************************************************)
EXTENDS Node

Local(name, disabled, rpcs) == [name |-> name, disabled |-> disabled, rpcs |-> rpcs]

\* The first blocks of a lane decide whether the history of a chain suffices.
Lane(source, dest, sourceStart, destStart) ==
    [source |-> source, dest |-> dest, name |-> "1", type |-> "1.2", onRamp |-> "on",
     offRamp |-> "off", store |-> "s", sourceStart |-> sourceStart, destStart |-> destStart]

File(local, lanes) == [local |-> local, shared |-> <<"a", "b", "c">>, lanes |-> lanes]

AB == Lane("a", "b", 1, 4)
BA == [Lane("b", "a", 2, 3) EXCEPT !.type = "1.0"]
Abc(b, c, rpcs) == <<Local("a", FALSE, rpcs), Local("b", b, 1), Local("c", c, 1)>>

\* Two lanes, one of them to and one from a disabled chain as well, or none;
\* another lane with the off-ramp of the first; and files that are refused: an
\* entry twice, a chain that is not known, a lane from a chain to itself.
FilesDef == {
    File(Abc(FALSE, TRUE, 1), <<AB, BA>>),
    File(Abc(FALSE, TRUE, 1), <<AB, BA, Lane("c", "b", 0, 0), Lane("b", "c", 0, 0)>>),
    File(Abc(FALSE, TRUE, 1), <<AB, [AB EXCEPT !.name = "2", !.store = "t"]>>),
    File(Abc(TRUE, TRUE, 1), <<AB, BA>>),
    File(Abc(FALSE, TRUE, 0), <<AB, BA>>), File(Abc(FALSE, TRUE, 2), <<AB>>),
    File(Abc(FALSE, TRUE, 1), <<AB, AB>>),
    File(Abc(FALSE, TRUE, 1), <<BA, [BA EXCEPT !.name = "2"]>>),
    File(Abc(FALSE, TRUE, 1), <<Lane("a", "a", 0, 0)>>),
    File(Abc(FALSE, TRUE, 1), <<Lane("a", "d", 0, 0)>>),
    File(Abc(FALSE, TRUE, 1) \o <<Local("a", TRUE, 1)>>, <<AB>>),
    File(<<Local("a", FALSE, 1)>>, <<>>),
    [File(Abc(FALSE, TRUE, 1), <<>>) EXCEPT !.shared = <<"a", "b", "c", "a">>] }

\* The contracts of the two lanes, and a commit store that is of neither.
Contract(kind, version, source, dest) ==
    [kind |-> kind, version |-> version, source |-> source, dest |-> dest,
     onRamp |-> "on", store |-> "s"]

ContractsDef ==
    <<"a", "on">> :> Contract("OnRamp", "1.2.0", "a", "b")
    @@ <<"b", "off">> :> Contract("OffRamp", "1.2.0", "a", "b")
    @@ <<"b", "s">> :> Contract("CommitStore", "1.2.0", "a", "b")
    @@ <<"b", "t">> :> Contract("CommitStore", "1.2.0", "a", "b")
    @@ <<"b", "on">> :> Contract("OnRamp", "1.1.0", "b", "a")
    @@ <<"a", "off">> :> Contract("OffRamp", "1.0.0", "b", "a")
    @@ <<"a", "s">> :> Contract("CommitStore", "1.0.0", "b", "a")

KeystoresDef == {{"a", "b"}, {"a"}}

MeDef == [bless |-> "x1", curse |-> "x2"]

Voter(name, weight) == [bless |-> name[1], curse |-> name[2], weight |-> weight]
X == <<"x1", "x2">>
Y == <<"y1", "y2">>
Z == <<"z1", "z2">>

\* The node is one of three voters, or has another address to curse, or none.
ConfigsDef == {
    [voters |-> <<Voter(X, 1), Voter(Y, 2), Voter(Z, 3)>>, threshold |-> 3],
    [voters |-> <<Voter(Y, 255), Voter(X, 1), Voter(Z, 255)>>, threshold |-> 256],
    [voters |-> <<Voter(<<"x1", "y2">>, 1), Voter(Y, 2)>>, threshold |-> 3],
    [voters |-> <<Voter(Y, 2)>>, threshold |-> 2] }

LogsDef == [name \in {"a", "b", "c"} |-> {0, 1, 3}]
=============================================================================
