------------------------ MODULE MCFollowerExecution ------------------------
(***************************************************************************)
(* One follower with two worker threads executing a block of three        *)
(* transactions.  The shapes give chains (a writer of A before a reader   *)
(* or another writer of A), independent transactions (several             *)
(* components, so the follower may own only some),                      *)
(* and an unknown family, whose processor fails.                          *)
(***************************************************************************)
EXTENDS FollowerExecution

CONSTANT A   \* an address

MCShapes ==
    { [inputs |-> {},  outputs |-> {A}, family |-> "wallet", parsed |-> TRUE],
      [inputs |-> {A}, outputs |-> {},  family |-> "wallet", parsed |-> TRUE],
      [inputs |-> {},  outputs |-> {},  family |-> "other",  parsed |-> TRUE] }

\* Only registered families: every processor call can succeed.
MCShapesKnown == {s \in MCShapes : s.family = "wallet"}

=============================================================================
