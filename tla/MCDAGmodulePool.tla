------------------------- MODULE MCDAGmodulePool --------------------------
(***************************************************************************)
(* DAGmodulePool with three transactions, two dependencyMatrix tasks and  *)
(* two callers.  ThreadCount = 2 over N = 3 gives chunk = 1: task 0 builds *)
(* rows 0 and 1, task 1 row 2 (and returns at 3).  The shapes give a      *)
(* writer of A, a writer of B and a reader of both, so a block may have   *)
(* the edges t0 -> t2 and t1 -> t2 without t0 -> t1, and chains t0 -> t1. *)
(***************************************************************************)
EXTENDS DAGmodulePool

CONSTANTS A, B   \* addresses

MCShapes ==
    { [inputs |-> {},     outputs |-> {A}, family |-> "wallet", parsed |-> TRUE],
      [inputs |-> {},     outputs |-> {B}, family |-> "wallet", parsed |-> TRUE],
      [inputs |-> {A, B}, outputs |-> {},  family |-> "wallet", parsed |-> TRUE] }

=============================================================================
