------------------------- MODULE ParallelScheduler -------------------------
(***************************************************************************)
(* singleNode-parallel: DAGmodule::create builds the adjacency matrix and  *)
(* the atomic in-degree array with ThreadCount builder threads, then       *)
(* scheduler::schedulTxns runs ThreadCount worker threads that claim ready *)
(* transactions with selectTxn (compare_exchange 0 -> -1), run the         *)
(* family processor, and release successors with complete().  After the   *)
(* join the write-set is flushed only if no processor failed.             *)
(*                                                                         *)
(* Every atomic operation on inDegree, completedTxns and flag is a step of *)
(* its own, so the model explores every interleaving of the workers'      *)
(* claims with each other's completions.                                   *)
(***************************************************************************)
EXTENDS Integers, FiniteSets, ConflictGraph

CONSTANTS N,               \* transactions in the block (totalTxns)
          ThreadCount,     \* thCount: builder threads and worker threads
          Shapes,          \* the transactions a block may carry
          KnownFamilies,   \* families with a registered processor
          ProcessorResults \* what a registered processor may return

ASSUME N \in Nat \ {0} /\ ThreadCount \in Nat \ {0}
ASSUME ProcessorResults \subseteq BOOLEAN /\ ProcessorResults # {}

Txn     == 0..N-1
Threads == 0..ThreadCount-1
NoTxn   == -1

VARIABLES
    txns,           \* CurrentTransactions / transactions: the block
    adjacencyMatrix,
    inDegree,       \* atomic<int>[totalTxns]
    completedTxns,  \* atomic<int>
    flag,           \* atomic<bool>: no processor failed
    phase,          \* "build", "exec", "committed", "aborted"
    bcur,           \* next row of each builder thread
    pc,             \* program point of each worker thread
    idx,            \* loop index of each worker (selectTxn, complete)
    cur,            \* transaction a worker holds
    runs            \* history: processor calls per transaction

vars == <<txns, adjacencyMatrix, inDegree, completedTxns, flag, phase,
          bcur, pc, idx, cur, runs>>

(***************************************************************************)
(* dependencyMatrix(PID): builder PID computes rows [start, end), a        *)
(* balanced split where the first totalTxns % threadCount builders take    *)
(* one extra row.                                                          *)
(***************************************************************************)
chunkStart(PID) ==
    LET chunk == N \div ThreadCount
        rem   == N % ThreadCount
    IN  PID * chunk + (IF PID < rem THEN PID ELSE rem)

\* Mutant: the remainder row of the first builders is forgotten.
chunkEndNoRem(PID) == chunkStart(PID) + N \div ThreadCount

chunkEnd(PID) ==
    chunkStart(PID) + N \div ThreadCount
      + (IF PID < N % ThreadCount THEN 1 ELSE 0)

(* What a registered processor may return; an unknown family fails. *)
ProcessTxn(tx) ==
    IF tx.family \in KnownFamilies THEN ProcessorResults ELSE {FALSE}

(***************************************************************************)
(* DAGmodule::create: the block's transactions are extracted, the matrix   *)
(* and in-degrees are zero, and the builder threads are started.           *)
(***************************************************************************)
Init ==
    /\ txns \in [Txn -> Shapes]
    /\ adjacencyMatrix = [i \in Txn |-> [j \in Txn |-> 0]]
    /\ inDegree = [i \in Txn |-> 0]
    /\ completedTxns = 0
    /\ flag = TRUE
    /\ phase = "build"
    /\ bcur = [p \in Threads |-> chunkStart(p)]
    /\ pc = [w \in Threads |-> "idle"]
    /\ idx = [w \in Threads |-> 0]
    /\ cur = [w \in Threads |-> NoTxn]
    /\ runs = [t \in Txn |-> 0]

(***************************************************************************)
(* One row tx of dependencyMatrix(PID): for every j > tx that conflicts,   *)
(* adjacencyMatrix[tx][j] = 1 and inDegree[j].fetch_add(1).  Rows belong   *)
(* to one builder and the atomic adds commute, so a row is one step.       *)
(***************************************************************************)
dependencyMatrixRow(PID) ==
    LET tx  == bcur[PID]
        hit == {j \in Txn : j > tx /\ Conflict(txns[tx], txns[j])}
    IN  /\ phase = "build"
        /\ tx < chunkEnd(PID)
        /\ adjacencyMatrix' = [adjacencyMatrix EXCEPT ![tx] =
                                 [j \in Txn |-> IF j \in hit THEN 1 ELSE @[j]]]
        /\ inDegree' = [j \in Txn |-> IF j \in hit THEN inDegree[j] + 1
                                                   ELSE inDegree[j]]
        /\ bcur' = [bcur EXCEPT ![PID] = tx + 1]
        /\ UNCHANGED <<txns, completedTxns, flag, phase, pc, idx, cur, runs>>

(***************************************************************************)
(* create() joins the builders; schedulTxns sets flag and completeFlag and *)
(* starts the workers.                                                     *)
(***************************************************************************)
schedulTxns ==
    /\ phase = "build"
    /\ \A p \in Threads : bcur[p] >= chunkEnd(p)
    /\ phase' = "exec"
    /\ flag' = TRUE
    /\ pc' = [w \in Threads |-> "loop"]
    /\ UNCHANGED <<txns, adjacencyMatrix, inDegree, completedTxns, bcur,
                   idx, cur, runs>>

(* executeTxns: while (completedTxns < totalTxns && flag) *)
LoopTest(w) ==
    /\ pc[w] = "loop"
    /\ IF completedTxns < N /\ flag
         THEN pc' = [pc EXCEPT ![w] = "select"] /\ idx' = [idx EXCEPT ![w] = 0]
         ELSE pc' = [pc EXCEPT ![w] = "done"] /\ UNCHANGED idx
    /\ UNCHANGED <<txns, adjacencyMatrix, inDegree, completedTxns, flag,
                   phase, bcur, cur, runs>>

(***************************************************************************)
(* One iteration of selectTxn: inDegree[i].compare_exchange_strong(0, -1). *)
(* On success i is returned; after the last index -1 is returned.          *)
(***************************************************************************)
selectTxn(w) ==
    LET i == idx[w] IN
    /\ pc[w] = "select"
    /\ IF inDegree[i] = 0
         THEN /\ inDegree' = [inDegree EXCEPT ![i] = -1]
              /\ cur' = [cur EXCEPT ![w] = i]
              /\ pc' = [pc EXCEPT ![w] = "parse"]
              /\ UNCHANGED idx
         ELSE /\ UNCHANGED <<inDegree, cur>>
              /\ IF i + 1 < N
                   THEN idx' = [idx EXCEPT ![w] = i + 1] /\ UNCHANGED pc
                   ELSE pc' = [pc EXCEPT ![w] = "loop"] /\ UNCHANGED idx
    /\ UNCHANGED <<txns, adjacencyMatrix, completedTxns, flag, phase, bcur,
                   runs>>

(* header.ParseFromString fails: `continue` without calling complete(). *)
ParseHeader(w) ==
    /\ pc[w] = "parse"
    /\ pc' = [pc EXCEPT ![w] = IF txns[cur[w]].parsed THEN "process" ELSE "loop"]
    /\ UNCHANGED <<txns, adjacencyMatrix, inDegree, completedTxns, flag,
                   phase, bcur, idx, cur, runs>>

(* The family processor runs; on failure flag.store(false). *)
ProcessTxnStep(w) ==
    LET t == cur[w] IN
    /\ pc[w] = "process"
    /\ \E localSuccess \in ProcessTxn(txns[t]) :
           flag' = IF localSuccess THEN flag ELSE FALSE
    /\ runs' = [runs EXCEPT ![t] = @ + 1]
    /\ pc' = [pc EXCEPT ![w] = "complete"]
    /\ UNCHANGED <<txns, adjacencyMatrix, inDegree, completedTxns, phase,
                   bcur, idx, cur>>

(* complete(txnID): inDegree[txnID].fetch_sub(1); completedTxns++ *)
completeSelf(w) ==
    LET t == cur[w] IN
    /\ pc[w] = "complete"
    /\ inDegree' = [inDegree EXCEPT ![t] = @ - 1]
    /\ completedTxns' = completedTxns + 1
    /\ idx' = [idx EXCEPT ![w] = t + 1]
    /\ pc' = [pc EXCEPT ![w] = "release"]
    /\ UNCHANGED <<txns, adjacencyMatrix, flag, phase, bcur, cur, runs>>

\* Mutant: the release loop stops one index short (i < totalTxns - 1).
completeReleaseShort(w) ==
    LET t    == cur[w]
        next == {k \in idx[w]..N-2 : adjacencyMatrix[t][k] = 1}
        k    == CHOOSE x \in next : \A y \in next : x <= y
    IN  /\ pc[w] = "release"
        /\ IF next = {}
             THEN /\ pc' = [pc EXCEPT ![w] = "loop"]
                  /\ UNCHANGED <<inDegree, idx>>
             ELSE /\ inDegree' = [inDegree EXCEPT ![k] = @ - 1]
                  /\ idx' = [idx EXCEPT ![w] = k + 1]
                  /\ UNCHANGED pc
        /\ UNCHANGED <<txns, adjacencyMatrix, completedTxns, flag, phase,
                       bcur, cur, runs>>

\* Mutant: the loop index is not advanced past the edge just released.
completeReleaseStay(w) ==
    LET t    == cur[w]
        next == {k \in idx[w]..N-1 : adjacencyMatrix[t][k] = 1}
        k    == CHOOSE x \in next : \A y \in next : x <= y
    IN  /\ pc[w] = "release"
        /\ IF next = {}
             THEN /\ pc' = [pc EXCEPT ![w] = "loop"]
                  /\ UNCHANGED <<inDegree, idx>>
             ELSE /\ inDegree' = [inDegree EXCEPT ![k] = @ - 1]
                  /\ idx' = [idx EXCEPT ![w] = k]
                  /\ UNCHANGED pc
        /\ UNCHANGED <<txns, adjacencyMatrix, completedTxns, flag, phase,
                       bcur, cur, runs>>

\* Mutant: the adjacencyMatrix test is dropped; every later slot is decremented.
completeReleaseAll(w) ==
    LET t    == cur[w]
        next == idx[w]..N-1
    IN  /\ pc[w] = "release"
        /\ IF next = {}
             THEN /\ pc' = [pc EXCEPT ![w] = "loop"]
                  /\ UNCHANGED <<inDegree, idx>>
             ELSE /\ inDegree' = [inDegree EXCEPT ![idx[w]] = @ - 1]
                  /\ idx' = [idx EXCEPT ![w] = idx[w] + 1]
                  /\ UNCHANGED pc
        /\ UNCHANGED <<txns, adjacencyMatrix, completedTxns, flag, phase,
                       bcur, cur, runs>>

(***************************************************************************)
(* The loop of complete(): for i > txnID with adjacencyMatrix[txnID][i]    *)
(* = 1, inDegree[i].fetch_sub(1), unguarded.  Indices without an edge      *)
(* touch nothing shared, so a step goes to the next edge.                  *)
(***************************************************************************)
completeRelease(w) ==
    LET t    == cur[w]
        next == {k \in idx[w]..N-1 : adjacencyMatrix[t][k] = 1}
        k    == CHOOSE x \in next : \A y \in next : x <= y
    IN  /\ pc[w] = "release"
        /\ IF next = {}
             THEN /\ pc' = [pc EXCEPT ![w] = "loop"]
                  /\ UNCHANGED <<inDegree, idx>>
             ELSE /\ inDegree' = [inDegree EXCEPT ![k] = @ - 1]
                  /\ idx' = [idx EXCEPT ![w] = k + 1]
                  /\ UNCHANGED pc
        /\ UNCHANGED <<txns, adjacencyMatrix, completedTxns, flag, phase,
                       bcur, cur, runs>>

(* The workers are joined; flushMapToState runs only if flag holds. *)
Join ==
    /\ phase = "exec"
    /\ \A w \in Threads : pc[w] = "done"
    /\ phase' = IF flag THEN "committed" ELSE "aborted"
    /\ UNCHANGED <<txns, adjacencyMatrix, inDegree, completedTxns, flag,
                   bcur, pc, idx, cur, runs>>

(* The block is over; schedulTxns has returned. *)
Finished ==
    /\ phase \in {"committed", "aborted"}
    /\ UNCHANGED vars

Worker(w) ==
    \/ LoopTest(w) \/ selectTxn(w) \/ ParseHeader(w) \/ ProcessTxnStep(w)
    \/ completeSelf(w) \/ completeRelease(w)

Next ==
    \/ \E p \in Threads : dependencyMatrixRow(p)
    \/ schedulTxns
    \/ \E w \in Threads : Worker(w)
    \/ Join
    \/ Finished

Spec == Init /\ [][Next]_vars

(***************************************************************************)
(* Threads are OS threads that never block: each builder and worker keeps  *)
(* running while it has a step, and the main thread joins them.            *)
(***************************************************************************)
FairSpec ==
    /\ Spec
    /\ \A p \in Threads : WF_vars(dependencyMatrixRow(p))
    /\ \A w \in Threads : WF_vars(Worker(w))
    /\ WF_vars(schedulTxns)
    /\ WF_vars(Join)

-----------------------------------------------------------------------------
TypeOK ==
    /\ txns \in [Txn -> Shapes]
    /\ adjacencyMatrix \in [Txn -> [Txn -> {0, 1}]]
    /\ inDegree \in [Txn -> -2..N]
    /\ completedTxns \in 0..N
    /\ flag \in BOOLEAN
    /\ phase \in {"build", "exec", "committed", "aborted"}
    /\ pc \in [Threads -> {"idle", "loop", "select", "parse", "process",
                           "complete", "release", "done"}]
    /\ cur \in [Threads -> Txn \cup {NoTxn}]
    /\ runs \in [Txn -> 0..N]

(***************************************************************************)
(* The workers implement the block-execution contract: every processor     *)
(* runs at most once, only after the processors of all conflicting earlier *)
(* transactions ran, and schedulTxns commits only when all ran and none    *)
(* failed.  Broken by a missed conflict edge or in-degree count, a claimed *)
(* slot that becomes claimable again, or a lost failure.                   *)
(***************************************************************************)
Abstract == INSTANCE BlockExecution
    WITH Txn <- Txn, Shapes <- Shapes, block <- txns, runs <- runs,
         ok <- flag,
         outcome <- IF phase \in {"build", "exec"} THEN "running" ELSE phase

Refinement == Abstract!Spec

(* Every block, whatever its processors return, ends: schedulTxns returns. *)
Termination == <>(phase \in {"committed", "aborted"})

(***************************************************************************)
(* complete() decrements its successors without checking them; spec 4.3    *)
(* requires the decrement to touch only a slot still Blocked (> 0).  The   *)
(* unguarded code is safe only if no successor can be Ready or Claimed    *)
(* while a predecessor has yet to release it: every step that lowers a     *)
(* slot, other than a claim and the self fetch_sub, finds it > 0.          *)
(***************************************************************************)
ReleaseOnlyBlocked ==
    [][\A k \in Txn :
         /\ inDegree'[k] < inDegree[k]
         /\ ~\E w \in Threads : pc[w] = "select" /\ cur'[w] = k
         /\ ~\E w \in Threads : pc[w] = "complete" /\ cur[w] = k
         => inDegree[k] > 0]_<<inDegree, pc, cur>>

(***************************************************************************)
(* Spec 8, scenario A: after a committed block the in-degree array is all  *)
(* -1 (Claimed).  complete() fetch_subs the claimed slot itself, leaving   *)
(* -2.                                                                     *)
(***************************************************************************)
FinalInDegreeClaimed ==
    phase = "committed" => \A t \in Txn : inDegree[t] = -1

(***************************************************************************)
(* connectedComponents groups the built DAG into the components a leader  *)
(* could hand to different followers: exactly the weakly connected        *)
(* components of the conflict edges.  A DFS that followed only outgoing   *)
(* edges would split a transaction from a predecessor it was visited     *)
(* after.                                                                 *)
(***************************************************************************)
Rel == INSTANCE Relation

ComponentsExact ==
    LET joined == [p \in Txn \X Txn |->
                     adjacencyMatrix[p[1]][p[2]] = 1 \/ adjacencyMatrix[p[2]][p[1]] = 1]
        reach == Rel!ReflexiveTransitiveClosure(joined, Txn)
    IN  phase # "build" =>
            pConnectedComponents(adjacencyMatrix, N) = {{u \in Txn : reach[t, u]} : t \in Txn}

=============================================================================
