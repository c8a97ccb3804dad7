------------------------ MODULE MCParallelScheduler ------------------------
(***************************************************************************)
(* Model of singleNode-parallel with three transactions and two threads:  *)
(* ThreadCount = 2 over N = 3 gives one builder two rows and the other    *)
(* one, and two workers race for every ready transaction.  The shapes      *)
(* cover a chain t0 -> t1 -> t2 (spec.md Scenario A), output-output        *)
(* conflicts, an independent transaction and an unknown family.            *)
(***************************************************************************)
EXTENDS ParallelScheduler

CONSTANTS A, B   \* addresses

\* A block of three transactions drawn from these shapes.
MCShapes ==
    { [inputs |-> {},  outputs |-> {A}, family |-> "wallet", parsed |-> TRUE],
      [inputs |-> {A}, outputs |-> {B}, family |-> "wallet", parsed |-> TRUE],
      [inputs |-> {B}, outputs |-> {},  family |-> "wallet", parsed |-> TRUE],
      [inputs |-> {},  outputs |-> {},  family |-> "other",  parsed |-> TRUE] }

\* The same, plus a transaction whose header does not parse.
MCShapesMalformed ==
    MCShapes \cup
    { [inputs |-> {A}, outputs |-> {A}, family |-> "wallet", parsed |-> FALSE] }

=============================================================================
