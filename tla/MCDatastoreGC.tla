--------------------------- MODULE MCDatastoreGC ---------------------------
(* Instances of DatastoreGC for TLC.  The constraints stop the exploration  *)
(* where the checked property no longer says anything about the one group.  *)
EXTENDS DatastoreGC, TLC

Symmetry == Permutations(Process)

OnlyExposedBy(causes) == \A g \in Group : exposed[g] \subseteq causes

NotExposed == OnlyExposedBy({})
OnlySkipped == OnlyExposedBy({"skipped"})
=============================================================================
