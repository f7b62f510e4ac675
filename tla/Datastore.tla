----------------------------- MODULE Datastore -----------------------------
(***************************************************************************)
(* What a datastore promises: a snapshot appears with all its chunks in    *)
(* place, its contents never change, and as long as it is there none of    *)
(* its chunks disappears.  Which chunks that nobody needs are kept is left *)
(* open.  The collection on an object store (ObjectStoreGC) is shown to    *)
(* implement this.                                                         *)
(***************************************************************************)
CONSTANTS
    Snapshot,   \* names of snapshots
    Chunk       \* chunk digests

VARIABLES
    contents,   \* the finished snapshots, with the chunks they refer to
    stored      \* the chunks that can be read

vars == <<contents, stored>>

Needed == UNION {contents[s] : s \in DOMAIN contents}

Init ==
    /\ contents = [s \in {} |-> {}]
    /\ stored \subseteq Chunk

(* A backup is finished. *)
Commit(s, C) ==
    /\ s \notin DOMAIN contents
    /\ C \subseteq stored
    /\ contents' = [t \in DOMAIN contents \cup {s} |-> IF t = s THEN C ELSE contents[t]]
    /\ UNCHANGED stored

(* Snapshots are removed, or leave the protection this is about. *)
Forget(S) ==
    /\ contents' = [t \in DOMAIN contents \ S |-> contents[t]]
    /\ UNCHANGED stored

(* Chunks come and go, but none that a snapshot needs. *)
ChangeStore ==
    /\ UNCHANGED contents
    /\ stored' \in SUBSET Chunk
    /\ Needed \subseteq stored'

Next ==
    \/ \E s \in Snapshot, C \in SUBSET Chunk : Commit(s, C)
    \/ \E S \in SUBSET DOMAIN contents : Forget(S)
    \/ ChangeStore

Spec == Init /\ [][Next]_vars
=============================================================================
