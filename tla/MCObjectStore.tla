--------------------------- MODULE MCObjectStore ----------------------------
(***************************************************************************)
(* The store backends for TLC: three snapshots, two of which were built in *)
(* the same second with the same content id and share a version key.       *)
(***************************************************************************)
EXTENDS ObjectStore, TLC

CONSTANTS s1, s2, s3, k1, k2

SharedKey == (s1 :> k1) @@ (s2 :> k1) @@ (s3 :> k2)
=============================================================================
