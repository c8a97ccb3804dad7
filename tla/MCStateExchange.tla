--------------------------- MODULE MCStateExchange ---------------------------
(* Three members: the leader s0 and followers s1, s2.  Keys and values are *)
(* short byte strings of the kind the processors write ("w1", "5", "c1"); *)
(* s2's workers may also write nothing.                                   *)
EXTENDS StateExchange

K1 == <<119, 49>>   \* "w1"
K2 == <<99, 49>>    \* "c1"
V5 == <<53>>        \* "5"
V0 == <<48>>        \* "0"

MCWriteSets == (1 :> {K1 :> V5}) @@ (2 :> {K2 :> V0, [k \in {} |-> Empty]})

MCInitState == K1 :> V0
=============================================================================
