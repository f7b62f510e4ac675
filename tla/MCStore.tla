------------------------------ MODULE MCStore ------------------------------
(* The chunks of a datastore under garbage collection, what is kept in and    *)
(* read from its files, and the secrets of those who ask for them, in one     *)
(* instance: part is the one whose steps are explored.                         *)
EXTENDS MCDatastoreGC, FixedIndex, IndexReader, Catalog, HttpClient, PxarFuse, TokenSecrets, TLC

MCBases == {<<"a">>, <<"a", "b", "c">>}
MCDigestLen == [a |-> 2, b |-> 1]

MCCatNames == {<<1>>, <<2, 0, 3>>}
MCCatTimes == {-5, 0}
MCExcluded == {<<1>>}

LOCAL Node(kind) == [kind |-> kind, target |-> << >>]
LOCAL Link(path) == [kind |-> "symlink", target |-> path]
(* Directories, an absolute link, and relative ones to a sibling and upwards *)
MCTree ==
    (<< >> :> Node("dir")) @@ (<<"h">> :> Node("file")) @@ (<<"abs">> :> Link(<<"/", "d", "s">>))
    @@ (<<"d">> :> Node("dir")) @@ (<<"d", "f">> :> Node("file"))
    @@ (<<"d", "rel">> :> Link(<<"s">>)) @@ (<<"d", "up">> :> Link(<<"..", "s">>))
    @@ (<<"d", "s">> :> Node("dir")) @@ (<<"d", "s", "g">> :> Node("file"))
MCShellPaths ==
    {<<"d">>, <<"..">>, <<"d", "s">>, <<"/", "d">>, <<"abs", "g">>, <<"..", "d">>, <<"rel", "g">>, <<"up", "g">>,
     <<"d", "f">>, <<".", "h">>, <<"/", "d", "up", "g">>, <<"/", "d", "rel", "g">>, <<"abs", "..", "h">>}
MCPatterns == {{<<"d", "s", "g">>, <<"h">>}, {<<"d">>}, {<<"zz">>}}

(* Two certificates, one of an authority openssl does not know *)
MCServerCerts == [s1 |-> <<"a", "b">>, s2 |-> <<"c">>]
MCSlots == [p |-> {1, 2}, q |-> {1}]
MCChains == [a |-> <<FALSE, TRUE>>, b |-> <<TRUE, TRUE>>, c |-> <<FALSE>>]

(* A directory, a file in it, and a second name of the file *)
MCNameOf ==
    [d |-> [parent |-> "root", inode |-> "d"], f |-> [parent |-> "root", inode |-> "f"], g |-> [parent |-> "d", inode |-> "f"]]

formatVars == <<fixVars, dynVars, catVars, shellVars, trustVars, loginVars, fuseVars>>

(* One part's files and processes start; the others' stay as they are *)
FormatsInit == FixedInit /\ DynInit /\ CatInit /\ ShellInit /\ TrustInit /\ LoginInit /\ FuseInit

-----------------------------------------------------------------------------


VARIABLE part

StoreInit ==
    /\ part \in {"chunks", "fixed", "reader", "catalog", "shell", "trust", "login", "fuse", "tokens"}
    /\ Init /\ FormatsInit /\ TokenInit
    /\ part # "shell" => hasCatalog

Chunks == part = "chunks" /\ Next /\ UNCHANGED <<part, formatVars, tokenVars>>
Formats ==
    /\ \/ part = "fixed" /\ FixedNext /\ UNCHANGED <<dynVars, catVars, shellVars, trustVars, loginVars, fuseVars>>
       \/ part = "reader" /\ DynNext /\ UNCHANGED <<fixVars, catVars, shellVars, trustVars, loginVars, fuseVars>>
       \/ part = "catalog" /\ CatNext /\ UNCHANGED <<fixVars, dynVars, shellVars, trustVars, loginVars, fuseVars>>
       \/ part = "shell" /\ ShellNext /\ UNCHANGED <<fixVars, dynVars, catVars, trustVars, loginVars, fuseVars>>
       \/ part = "trust" /\ TrustNext /\ UNCHANGED <<fixVars, dynVars, catVars, shellVars, loginVars, fuseVars>>
       \/ part = "login" /\ LoginNext /\ UNCHANGED <<fixVars, dynVars, catVars, shellVars, trustVars, fuseVars>>
       \/ part = "fuse" /\ FuseNext /\ UNCHANGED <<fixVars, dynVars, catVars, shellVars, trustVars, loginVars>>
    /\ UNCHANGED <<part, vars, tokenVars>>
Tokens == part = "tokens" /\ TokenNext /\ UNCHANGED <<part, vars, formatVars>>

StoreNext == Chunks \/ Formats \/ Tokens

StoreSpec == StoreInit /\ [][StoreNext]_<<part, vars, formatVars, tokenVars>>

=============================================================================
