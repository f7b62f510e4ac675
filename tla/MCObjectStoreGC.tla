-------------------------- MODULE MCObjectStoreGC --------------------------
(* Instances of ObjectStoreGC.  The constraint stops the exploration where  *)
(* a session was given a chunk that nothing protects.                       *)
EXTENDS ObjectStoreGC, TLC

Symmetry == Permutations(Snapshot) \cup Permutations(Chunk) \cup Permutations(Impl)

NotExposed == \A s \in Snapshot : exposed[s] = {}
=============================================================================
