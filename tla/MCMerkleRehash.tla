--------------------------- MODULE MCMerkleRehash ---------------------------
(* Three keys with three-digit hashes over {0, 1}: K1 and K2 meet at the *)
(* level-1 node "0", K3 at the root, so a rehash walks three levels.  A  *)
(* first block writes all three keys, a second rewrites K1.              *)
EXTENDS MerkleRehash

CONSTANTS K1, K2, K3, V1, V2, R1, R2

MCHashOf == (K1 :> <<"0", "0", "0">>) @@ (K2 :> <<"0", "1", "0">>)
              @@ (K3 :> <<"1", "0", "0">>)
MCBlocks == << (K1 :> V1) @@ (K2 :> V1) @@ (K3 :> V1), K1 :> V2 >>
====
