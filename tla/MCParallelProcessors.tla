------------------------ MODULE MCParallelProcessors ------------------------
(***************************************************************************)
(* Two workers run a block drawn from wallet and voting commands: a       *)
(* deposit to b, a withdrawal from b, transfers from a to b (one with an  *)
(* amount stoi rejects), the registration of voter v and candidate x, v's *)
(* vote for x and v's transfer of a vote to u.  The state gives a one     *)
(* coin, so b's withdrawal fails until a transfer reaches b.              *)
(***************************************************************************)
EXTENDS ParallelProcessors

K == <<"k">>
A == <<"a">>
B == <<"b">>
V == <<"v">>
U == <<"u">>
X == <<"x">>

MCLines ==
    { <<"wallet", "deposit", B, K, 2>>,
      <<"wallet", "withdraw", B, K, 1>>,
      <<"wallet", "transfer", A, K, B, K, 1>>,
      <<"wallet", "transfer", A, K, B, K, NaN>>,
      <<"voting", "registerVoter", V>>,
      <<"voting", "registerCandidate", X>>,
      <<"voting", "castVote", V, X>>,
      <<"voting", "transferVote", V, U, 1>> }

MCState == <<"wallet">> \o A \o K :> 1

=============================================================================
