--------------------------- MODULE MCMerkleFlush ---------------------------
(* Three keys with two-digit hashes over {0, 1}: two share a first digit  *)
(* (their inserts meet at a level-1 node), one does not (it meets them at *)
(* the root).  Key spellings are not hex strings.                         *)
EXTENDS MerkleFlush

CONSTANTS K1, K2, K3, V1, V2

MCKeys == {K1, K2, K3}
MCValues == {V1, V2}
MCHashOf == (K1 :> <<"0", "0">>) @@ (K2 :> <<"0", "1">>) @@ (K3 :> <<"1", "0">>)
MCSpelling == (K1 :> <<"k", "1">>) @@ (K2 :> <<"k", "2">>) @@ (K3 :> <<"k", "3">>)

(* A block that updates all three keys, and one that rewrites K1 only. *)
MCWriteSets == {(K1 :> V1) @@ (K2 :> V1) @@ (K3 :> V1), K1 :> V2}
====
