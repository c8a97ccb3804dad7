-------------------------- MODULE DAGmodulePool ---------------------------
(***************************************************************************)
(* The thread-pool DAG module of BlockRAFT-distributed_node               *)
(* (dagModule/DAGmodulePool.h).  create() extracts the block's            *)
(* transactions, zeroes the matrix and the in-degrees, enqueues           *)
(* threadCount dependencyMatrix(PID) tasks on a ThreadPool and returns    *)
(* true without waiting for them.  The pool's threads take the tasks in   *)
(* the order they were enqueued and run them concurrently.  Callers then  *)
(* claim ready transactions with selectTxn and release their successors   *)
(* with complete(); connectedComponents groups the transactions by a      *)
(* depth-first search of the matrix.                                      *)
(*                                                                         *)
(* The callers are the execution engine of the spec (no file under src/  *)
(* includes this header): each loops while fewer than totalTxns           *)
(* transactions are completed, claims one, runs it and completes it.      *)
(* A row of dependencyMatrix belongs to one task and its fetch_adds       *)
(* commute, so a row is one step.  selectTxn is one step: its shared      *)
(* var_zero, and the double claim that follows from it, are               *)
(* FollowerExecution's, whose DAGmodule has the same selectTxn; here the  *)
(* question is what a claim may see of a matrix still being built.       *)
(***************************************************************************)
EXTENDS Integers, Sequences, FiniteSets, ConflictGraph

CONSTANTS N,            \* transactions in the block (totalTxns)
          ThreadCount,  \* threadCount: dependencyMatrix tasks (28 in the code)
          PoolSize,     \* threads of the ThreadPool
          Workers,      \* callers of selectTxn / complete
          Shapes        \* the transactions a block may carry

ASSUME N \in Nat \ {0} /\ ThreadCount \in Nat \ {0} /\ PoolSize \in Nat \ {0}

Txn     == 0..N-1
PIDs    == 0..ThreadCount-1
Pool    == 1..PoolSize
NoTxn   == -1
Idle    == [pid |-> -1, row |-> -1]

VARIABLES
    txns,            \* CurrentTransactions
    adjacencyMatrix,
    inDegree,        \* atomic<int>[totalTxns]
    lastTxn,         \* atomic<int>, 0 at construction
    queue,           \* the ThreadPool's pending tasks (their PIDs)
    task,            \* pool thread -> the task it runs and its row i
    created,         \* create() has returned
    pc, cur,         \* caller: program point, transaction held
    completed,       \* the callers' count of completed transactions
    runs             \* history: how often each transaction was run

vars == <<txns, adjacencyMatrix, inDegree, lastTxn, queue, task, created,
          pc, cur, completed, runs>>

-----------------------------------------------------------------------------
(***************************************************************************)
(* dependencyMatrix(PID): chunk = floor(totalTxns / threadCount),         *)
(* start = PID * (chunk + 1), end = start + chunk, rows start..end        *)
(* inclusive, returning at the first row >= totalTxns.                    *)
(***************************************************************************)
\* Mutant: start = PID * chunk, the extra row of every chunk forgotten.
chunkFirstNoPad(PID, n, t) == PID * (n \div t)

chunkFirst(PID, n, t) == PID * ((n \div t) + 1)

chunkLast(PID, n, t) == chunkFirst(PID, n, t) + n \div t

(* The rows task PID builds for a block of n transactions and t tasks. *)
TaskRows(PID, n, t) == {i \in chunkFirst(PID, n, t)..chunkLast(PID, n, t) : i < n}

\* Mutant: the output-output check is left out.
dependsOnNoWW(a, b) ==
    LET x == extractTransaction(a)
        y == extractTransaction(b)
    IN  \/ x.inputs  \cap y.outputs # {}
        \/ x.outputs \cap y.inputs  # {}

(***************************************************************************)
(* The inner loop of dependencyMatrix for a pair txnAssigned < i: the     *)
(* input-output, output-input and output-output tests, each run only if  *)
(* the ones before found nothing.                                        *)
(***************************************************************************)
dependsOn(a, b) ==
    LET x == extractTransaction(a)
        y == extractTransaction(b)
    IN  \/ x.inputs  \cap y.outputs # {}
        \/ x.outputs \cap y.inputs  # {}
        \/ x.outputs \cap y.outputs # {}

(***************************************************************************)
(* DFSUtil and connectedComponents: every unvisited i in index order      *)
(* starts a component, which DFSUtil grows along adjacencyMatrix[v][i]    *)
(* for every unvisited i.  Returns the components and the visited set.   *)
(***************************************************************************)
RECURSIVE DFSUtil(_, _, _)
DFSUtil(m, v, visited) ==
    LET Grow(acc, i) ==
            IF m[v][i] = 1 /\ i \notin acc THEN DFSUtil(m, i, acc) ELSE acc
        Loop[k \in 0..N] ==
            IF k = 0 THEN visited \cup {v} ELSE Grow(Loop[k - 1], k - 1)
    IN  Loop[N]

connectedComponents(m) ==
    LET Step[k \in 0..N] ==
            IF k = 0 THEN [comps |-> {}, visited |-> {}]
            ELSE LET s == Step[k - 1]
                 IN  IF k - 1 \in s.visited THEN s
                     ELSE LET v2 == DFSUtil(m, k - 1, s.visited)
                          IN  [comps |-> s.comps \cup {v2 \ s.visited},
                               visited |-> v2]
    IN  Step[N].comps

-----------------------------------------------------------------------------
Init ==
    /\ txns \in [Txn -> Shapes]
    /\ adjacencyMatrix = [i \in Txn |-> [j \in Txn |-> 0]]
    /\ inDegree = [i \in Txn |-> 0]
    /\ lastTxn = 0
    /\ queue = <<>>
    /\ task = [p \in Pool |-> Idle]
    /\ created = FALSE
    /\ pc = [w \in Workers |-> "wait"]
    /\ cur = [w \in Workers |-> NoTxn]
    /\ completed = 0
    /\ runs = [t \in Txn |-> 0]

(***************************************************************************)
(* create: the block parsed (the leader serialised it), the matrix and    *)
(* in-degrees zero, one task per PID enqueued, and true returned.         *)
(***************************************************************************)
create ==
    /\ ~created
    /\ queue' = [k \in 1..ThreadCount |-> k - 1]
    /\ created' = TRUE
    /\ pc' = [w \in Workers |-> "loop"]
    /\ UNCHANGED <<txns, adjacencyMatrix, inDegree, lastTxn, task, cur,
                   completed, runs>>

(* An idle pool thread takes the oldest task; it starts at row start. *)
poolTake(p) ==
    /\ task[p] = Idle
    /\ queue # <<>>
    /\ task' = [task EXCEPT ![p] = [pid |-> Head(queue),
                                   row |-> chunkFirst(Head(queue), N, ThreadCount)]]
    /\ queue' = Tail(queue)
    /\ UNCHANGED <<txns, adjacencyMatrix, inDegree, lastTxn, created, pc, cur,
                   completed, runs>>

(***************************************************************************)
(* Row i = txnAssigned of the task: for every later i that depends on it, *)
(* adjacencyMatrix[txnAssigned][i] = 1 and inDegree[i].fetch_add(1),      *)
(* whatever inDegree[i] holds by then.                                    *)
(***************************************************************************)
dependencyMatrixRow(p) ==
    LET r   == task[p].row
        hit == {j \in Txn : j > r /\ dependsOn(txns[r], txns[j])}
    IN  /\ task[p] # Idle
        /\ r <= chunkLast(task[p].pid, N, ThreadCount)
        /\ r < N
        /\ adjacencyMatrix' = [adjacencyMatrix EXCEPT ![r] =
                                 [j \in Txn |-> IF j \in hit THEN 1 ELSE @[j]]]
        /\ inDegree' = [j \in Txn |-> IF j \in hit THEN inDegree[j] + 1
                                                   ELSE inDegree[j]]
        /\ task' = [task EXCEPT ![p].row = r + 1]
        /\ UNCHANGED <<txns, lastTxn, queue, created, pc, cur, completed, runs>>

(* The loop passes end, or meets txnAssigned >= totalTxns and returns. *)
dependencyMatrixReturn(p) ==
    /\ task[p] # Idle
    /\ \/ task[p].row > chunkLast(task[p].pid, N, ThreadCount)
       \/ task[p].row >= N
    /\ task' = [task EXCEPT ![p] = Idle]
    /\ UNCHANGED <<txns, adjacencyMatrix, inDegree, lastTxn, queue, created,
                   pc, cur, completed, runs>>

(* The caller's loop test: while completed < totalTxns. *)
LoopTest(w) ==
    /\ pc[w] = "loop"
    /\ pc' = [pc EXCEPT ![w] = IF completed < N THEN "select" ELSE "done"]
    /\ UNCHANGED <<txns, adjacencyMatrix, inDegree, lastTxn, queue, task,
                   created, cur, completed, runs>>

(***************************************************************************)
(* selectTxn: from lastTxn + 1 to the end, then from 0, the first slot    *)
(* that is 0 is exchanged for -1, lastTxn stores it and it is returned;   *)
(* -1 when none is.                                                       *)
(***************************************************************************)
selectTxn(w) ==
    LET order == [k \in 1..N |-> (lastTxn + k) % N]
        ready == {k \in 1..N : inDegree[order[k]] = 0}
        first == CHOOSE k \in ready : \A l \in ready : k <= l
    IN  /\ pc[w] = "select"
        /\ IF ready = {}
             THEN /\ pc' = [pc EXCEPT ![w] = "loop"]
                  /\ UNCHANGED <<inDegree, lastTxn, cur, runs>>
             ELSE /\ inDegree' = [inDegree EXCEPT ![order[first]] = -1]
                  /\ lastTxn' = order[first]
                  /\ cur' = [cur EXCEPT ![w] = order[first]]
                  /\ runs' = [runs EXCEPT ![order[first]] = @ + 1]
                  /\ pc' = [pc EXCEPT ![w] = "complete"]
        /\ UNCHANGED <<txns, adjacencyMatrix, queue, task, created, completed>>

(***************************************************************************)
(* complete(txnID): every i >= txnID with adjacencyMatrix[txnID][i] = 1   *)
(* and inDegree[i] > 0 is fetch_sub'd; the caller counts the completion.  *)
(***************************************************************************)
complete(w) ==
    LET t   == cur[w]
        rel == {i \in Txn : i >= t /\ adjacencyMatrix[t][i] = 1 /\ inDegree[i] > 0}
    IN  /\ pc[w] = "complete"
        /\ inDegree' = [i \in Txn |-> IF i \in rel THEN inDegree[i] - 1
                                                   ELSE inDegree[i]]
        /\ completed' = completed + 1
        /\ cur' = [cur EXCEPT ![w] = NoTxn]
        /\ pc' = [pc EXCEPT ![w] = "loop"]
        /\ UNCHANGED <<txns, adjacencyMatrix, lastTxn, queue, task, created, runs>>

(* Every caller has left its loop and the pool is drained. *)
Finished ==
    /\ \A w \in Workers : pc[w] = "done"
    /\ queue = <<>> /\ \A p \in Pool : task[p] = Idle
    /\ UNCHANGED vars

Next ==
    \/ create
    \/ \E p \in Pool : poolTake(p) \/ dependencyMatrixRow(p) \/ dependencyMatrixReturn(p)
    \/ \E w \in Workers : LoopTest(w) \/ selectTxn(w) \/ complete(w)
    \/ Finished

Spec == Init /\ [][Next]_vars

-----------------------------------------------------------------------------
TypeOK ==
    /\ inDegree \in [Txn -> -1..N]
    /\ lastTxn \in Txn
    /\ pc \in [Workers -> {"wait", "loop", "select", "complete", "done"}]
    /\ completed \in 0..N + Cardinality(Workers)

(* The pool has run every task to its end. *)
Built == created /\ queue = <<>> /\ \A p \in Pool : task[p] = Idle

(***************************************************************************)
(* Once the pool has run every task, the matrix is the block's conflict   *)
(* relation (ConflictGraph): the chunks of dependencyMatrix cover every   *)
(* row once and each row finds every later conflicting transaction.       *)
(***************************************************************************)
BuiltMatchesConflicts ==
    Built => adjacencyMatrix = DependencyMatrix(txns, Txn)

(***************************************************************************)
(* Spec 4.3 and 8: selectTxn returns each transaction to exactly one      *)
(* caller in a block's lifetime, so it runs at most once.  create returns *)
(* before the tasks that count the in-degrees have run.                  *)
(***************************************************************************)
AtMostOnce == \A t \in Txn : runs[t] <= 1

(***************************************************************************)
(* Spec 4.2: the components connectedComponents returns are what          *)
(* different followers may run at once, so no conflict edge joins two of *)
(* them.  Checked on the built matrix.                                    *)
(***************************************************************************)
ComponentsAreWeak ==
    Built =>
        \A c1, c2 \in connectedComponents(adjacencyMatrix) : c1 # c2 =>
            \A i \in c1, j \in c2 : adjacencyMatrix[i][j] = 0

=============================================================================
