------------------------------- MODULE MCAdmin -------------------------------
(* The datastore's hierarchy, part by part: sessions of clients that send    *)
(* their requests in any order, operations on namespaces and snapshots, and  *)
(* the selection of snapshots to prune.                                      *)
EXTENDS BackupSession, Namespaces, TLC

VARIABLE part

adminVars == <<part, vars, nsVars, pruneVars>>

MCNs == {<<>>, <<"a">>, <<"a", "a">>, <<"b">>, <<"b", "a">>}
MCGroups == {[n \in MCNs |-> CASE n = <<"a", "a">> -> {1, 2} [] n = <<"b">> -> {1} [] OTHER -> {}]}
MCUsed == {<<"a", "a">>, <<"b">>}
MCMoves == {<<<<"a">>, <<"b">>, 2>>, <<<<"a", "a">>, <<"b">>, 0>>, <<<<"b">>, <<"a", "a">>, 2>>, <<<<"b">>, <<"a", "a">>, 0>>}
MCPeriods == {<<1, 2, 4>>, <<1, 2, 3>>}

Symmetry == Permutations(Writer) \cup Permutations(Request) \cup Permutations(Chunk) \cup Permutations(NsTask)

AdminInit ==
    /\ part \in {"session", "namespaces", "prune"}
    /\ Init /\ NsInit /\ PruneInit
    /\ part # "prune" => snaps = << >> /\ keep = <<1, 1, 1>> /\ period = <<1, 2, 4>>

Session == part = "session" /\ Next /\ UNCHANGED <<part, nsVars, pruneVars>>
Hierarchy == part = "namespaces" /\ NsNext /\ UNCHANGED <<part, vars, pruneVars>>
Select == part = "prune" /\ PruneNext /\ UNCHANGED <<part, vars, nsVars>>

AllNext == Session \/ Hierarchy \/ Select

AllSpec == AdminInit /\ [][AllNext]_adminVars
=============================================================================
