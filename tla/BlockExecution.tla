--------------------------- MODULE BlockExecution ---------------------------
(***************************************************************************)
(* What executing one block promises, whatever the scheduler: each         *)
(* transaction's processor runs at most once, only after every             *)
(* transaction it conflicts with and that precedes it in the block has     *)
(* run, and the block is committed only if every transaction ran and none  *)
(* failed; otherwise it is aborted (spec.md 4.3, 4.4, 7).                  *)
(***************************************************************************)
EXTENDS Integers, ConflictGraph

CONSTANTS Txn,      \* transaction positions in the block
          Shapes    \* the transactions a block may carry

VARIABLES block,    \* the block: Txn -> Shapes, fixed
          runs,     \* how many times each transaction's processor ran
          ok,       \* no processor has failed so far
          outcome   \* "running", "committed" or "aborted"

absVars == <<block, runs, ok, outcome>>

Done == {t \in Txn : runs[t] > 0}

Init ==
    /\ block \in [Txn -> Shapes]
    /\ runs = [t \in Txn |-> 0]
    /\ ok = TRUE
    /\ outcome = "running"

(* A transaction runs once all its conflicting predecessors have run; the  *)
(* processor may fail.                                                     *)
Execute(t) ==
    /\ outcome = "running"
    /\ runs[t] = 0
    /\ Preds(block, Txn, t) \subseteq Done
    /\ runs' = [runs EXCEPT ![t] = 1]
    /\ \E success \in BOOLEAN : ok' = (ok /\ success)
    /\ UNCHANGED <<block, outcome>>

(* The block ends: committed only if everything ran without failure. *)
Finish ==
    /\ outcome = "running"
    /\ ok => Done = Txn
    /\ outcome' = IF ok THEN "committed" ELSE "aborted"
    /\ UNCHANGED <<block, runs, ok>>

Next == (\E t \in Txn : Execute(t)) \/ Finish

Spec == Init /\ [][Next]_absVars

=============================================================================
