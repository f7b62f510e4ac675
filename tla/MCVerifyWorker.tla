--------------------------- MODULE MCVerifyWorker ---------------------------
(* Two snapshots that share a chunk; the first references it twice. *)
EXTENDS VerifyWorker, TLC

CONSTANTS s1, s2, c1, c2

MCContent == s1 :> (1 :> c1 @@ 2 :> c2 @@ 3 :> c1) @@ s2 :> (1 :> c2 @@ 2 :> c2 @@ 3 :> c1)
=============================================================================
