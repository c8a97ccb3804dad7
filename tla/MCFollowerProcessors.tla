------------------------ MODULE MCFollowerProcessors ------------------------
(***************************************************************************)
(* Two workers run a block of four transactions drawn from the eComm and  *)
(* nft commands: client k fills a cart with item i and checks it out, the *)
(* item is refilled, o1 and o2 mint an image and o1 transfers it to o2.   *)
(* One image cannot be read, which fails its transaction.  The state the  *)
(* follower's scheduler is given is its empty temporary state.            *)
(***************************************************************************)
EXTENDS FollowerProcessors

K == <<"k">>
I == <<"i">>
O1 == <<"o1">>
O2 == <<"o2">>
Img == <<"img">>
Gone == <<"gone">>

MCImageHash == (Img :> "h1") @@ (Gone :> Empty)

MCLines ==
    { <<"eComm", "addToCart", K, I, 1>>,
      <<"eComm", "refillItem", I, 2>>,
      <<"eComm", "checkout", K>>,
      <<"nft", "create", O1, Img>>,
      <<"nft", "create", O2, Img>>,
      <<"nft", "create", O1, Gone>>,
      <<"nft", "transfer", O1, Img, O2>>,
      <<"nft", "transfer", O2, Img, O1>> }

(* The same, and a transfer of o1's image to o1. *)
MCSelfLines == MCLines \cup {<<"nft", "transfer", O1, Img, O1>>}

MCState == [k \in {} |-> Empty]

=============================================================================
