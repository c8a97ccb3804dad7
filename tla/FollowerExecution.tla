------------------------- MODULE FollowerExecution -------------------------
(***************************************************************************)
(* A BlockRAFT follower executing one block (follower::startBlock with the *)
(* scheduler and DAGmodule of the distributed node), against the etcd keys *)
(* the leader writes (leaderProtocol, checkComponents).                     *)
(*                                                                         *)
(* readBlock builds the DAG locally (createfollower: every in-degree -1,   *)
(* completedTxns = totalTxns); getComponents gives the follower's own     *)
(* components their in-degree (ProcessIndegree: the column sum) and       *)
(* counts them as not completed.  scheduleTxns then runs ThreadCount      *)
(* workers (executeTxns) and a monitor thread (monitorFunc).  A worker     *)
(* that sees completedTxns == totalTxns puts the follower's compCount as  *)
(* its status; the leader sums the statuses of all followers, and when    *)
(* the sum is the block's size it sets run = "finish" and then commit =   *)
(* "1".  The monitor turns "finish" into completeFlag, the workers stop,  *)
(* and the follower reads commit: "1" saves, anything else resetTree()s.  *)
(* The other followers are one actor that reports their share.            *)
(*                                                                         *)
(* Every atomic operation of selectTxn (the load and the                   *)
(* compare_exchange are separate), complete, the flag and the counters is *)
(* a step of its own.  A worker's locals (the scan index, var_zero, the    *)
(* transaction held) are reset where the code's go out of scope.          *)
(***************************************************************************)
EXTENDS Integers, FiniteSets, ConflictGraph

Rel == INSTANCE Relation

CONSTANTS N,                \* transactions in the block (totalTxns)
          ThreadCount,      \* thCount: worker threads
          Shapes,           \* the transactions a block may carry
          KnownFamilies,    \* families with a registered processor
          ProcessorResults, \* what a registered processor may return
          PutResults,       \* what an etcd put of the status may return
          Modes,            \* the leader's mode: "validation" or not
          LeaderMayCrash    \* whether the CurrentLeader key may change

ASSUME N \in Nat \ {0} /\ ThreadCount \in Nat \ {0}
ASSUME ProcessorResults \subseteq BOOLEAN /\ PutResults \subseteq BOOLEAN
ASSUME LeaderMayCrash \in BOOLEAN

Txn      == 0..N-1
Threads  == 0..ThreadCount-1
NoTxn    == -1
NoStatus == -1

VARIABLES
    txns, adjacencyMatrix, inDegree,
    completedTxns, lastTxn,      \* DAGmodule atomics
    flag, completeFlag, updateFlag, compCount,  \* scheduler atomics
    assigned,     \* this follower's transactions (its components)
    fphase,       \* where startBlock is
    pc, idx, scan, varZero, cur, \* per worker: program point, selectTxn state
    mon,          \* monitor thread: "poll" or "done"
    table,        \* etcd .../components: the leader's componentsTable
    status,       \* etcd .../components/status/<node>: compCount put
    others,       \* the other followers have put their status
    run, commit,  \* etcd .../run and .../commit
    runs, finished, failed  \* history: processor calls, complete() calls,
                            \* whether a processor returned false

vars == <<txns, adjacencyMatrix, inDegree, completedTxns, lastTxn, flag,
          completeFlag, updateFlag, compCount, assigned, fphase, pc, idx,
          scan, varZero, cur, mon, table, status, others, run, commit, runs,
          finished, failed>>
workerVars == <<pc, idx, scan, varZero, cur>>
etcdVars == <<table, status, others, run, commit>>
histVars == <<runs, finished, failed>>

ProcessTxn(tx) ==
    IF tx.family \in KnownFamilies THEN ProcessorResults ELSE {FALSE}

-----------------------------------------------------------------------------
(***************************************************************************)
(* The leader's DAGmodule::connectedComponents: a disjoint-set forest      *)
(* [parent, rank] over the transactions, every pair i < j joined by an    *)
(* edge either way united in the order of the two loops, and the          *)
(* transactions grouped by the root find gives them.                      *)
(***************************************************************************)
(* find with path compression: the root, and the parent array after.      *)
RECURSIVE find(_, _)
find(parent, x) ==
    IF parent[x] = x THEN [root |-> x, parent |-> parent]
    ELSE LET r == find(parent, parent[x])
         IN  [root |-> r.root, parent |-> [r.parent EXCEPT ![x] = r.root]]

\* Mutant: y's own index is taken for its root.
uniteNoFindY(d, x, y) ==
    LET fx == find(d.parent, x)
        rootX == fx.root
        rootY == y
        p == fx.parent
    IN  CASE rootX = rootY -> [d EXCEPT !.parent = p]
          [] d.rank[rootX] < d.rank[rootY] ->
                [parent |-> [p EXCEPT ![rootX] = rootY], rank |-> d.rank]
          [] d.rank[rootX] > d.rank[rootY] ->
                [parent |-> [p EXCEPT ![rootY] = rootX], rank |-> d.rank]
          [] OTHER ->
                [parent |-> [p EXCEPT ![rootY] = rootX],
                 rank   |-> [d.rank EXCEPT ![rootX] = @ + 1]]

(* unite with union by rank; both finds compress.                         *)
unite(d, x, y) ==
    LET fx == find(d.parent, x)
        fy == find(fx.parent, y)
        rootX == fx.root
        rootY == fy.root
        p == fy.parent
    IN  CASE rootX = rootY -> [d EXCEPT !.parent = p]
          [] d.rank[rootX] < d.rank[rootY] ->
                [parent |-> [p EXCEPT ![rootX] = rootY], rank |-> d.rank]
          [] d.rank[rootX] > d.rank[rootY] ->
                [parent |-> [p EXCEPT ![rootY] = rootX], rank |-> d.rank]
          [] OTHER ->
                [parent |-> [p EXCEPT ![rootY] = rootX],
                 rank   |-> [d.rank EXCEPT ![rootX] = @ + 1]]

(***************************************************************************)
(* The components, as a set: componentsMap is an unordered_map, so the    *)
(* compIDs are the groups in an order the build's hashing decides, and    *)
(* the grouping's finds only compress paths further.                      *)
(***************************************************************************)
(* The two loops: i from 0, j from i + 1, unite on an edge either way.    *)
RECURSIVE unitePairs(_, _, _, _)
unitePairs(d, m, i, j) ==
    CASE i >= N -> d
      [] j >= N -> unitePairs(d, m, i + 1, i + 2)
      [] OTHER  -> unitePairs(IF m[i][j] = 1 \/ m[j][i] = 1 THEN unite(d, i, j)
                              ELSE d, m, i, j + 1)

connectedComponents(m) ==
    LET d == unitePairs([parent |-> [t \in Txn |-> t], rank |-> [t \in Txn |-> 0]],
                        m, 0, 1)
        rootOf(t) == find(d.parent, t).root
    IN  {{t \in Txn : rootOf(t) = r} : r \in {rootOf(t) : t \in Txn}}

(***************************************************************************)
(* assignFollowers gives component i to follower i % activeFollowers;     *)
(* the order of the components is not fixed, and how many followers are  *)
(* active is the leader's, so this follower owns some set of them.       *)
(***************************************************************************)
ComponentUnions(comps) == {UNION S : S \in SUBSET comps}

(* The leader's keys before execution: the components table its DAG      *)
(* thread computed (create with ThreadCount builders, as the follower's)  *)
(* and put, and commit, "1" from the start in validation  *)
(* mode, else "0".                                                        *)
Init ==
    /\ txns \in [Txn -> Shapes]
    /\ adjacencyMatrix = [i \in Txn |-> [j \in Txn |-> 0]]
    /\ inDegree = [i \in Txn |-> 0]
    /\ completedTxns = 0 /\ lastTxn = 0
    /\ flag = TRUE /\ completeFlag = FALSE /\ updateFlag = FALSE
    /\ compCount = 0
    /\ assigned = {}
    /\ fphase = "read"
    /\ pc = [w \in Threads |-> "idle"]
    /\ idx = [w \in Threads |-> 0]
    /\ scan = [w \in Threads |-> 1]
    /\ varZero = [w \in Threads |-> 0]
    /\ cur = [w \in Threads |-> NoTxn]
    /\ mon = "idle"
    /\ table = connectedComponents(dnDependencyMatrix(txns, Txn, ThreadCount))
    /\ status = NoStatus /\ others = FALSE
    /\ run = "start"
    /\ \E mode \in Modes : commit = IF mode = "validation" THEN "1" ELSE "0"
    /\ runs = [t \in Txn |-> 0] /\ finished = {} /\ failed = FALSE

(***************************************************************************)
(* readBlock -> extractBlock -> createfollower: the matrix is built by the *)
(* builder threads, joined before return; every in-degree is -1 and       *)
(* completedTxns = totalTxns.                                              *)
(***************************************************************************)
extractBlock ==
    /\ fphase = "read"
    /\ adjacencyMatrix' = dnDependencyMatrix(txns, Txn, ThreadCount)
    /\ inDegree' = [i \in Txn |-> -1]
    /\ completedTxns' = N
    /\ fphase' = "components"
    /\ UNCHANGED <<txns, lastTxn, flag, completeFlag, updateFlag, compCount,
                   assigned, mon>>
    /\ UNCHANGED <<workerVars, etcdVars, histVars>>

\* Mutant: ProcessIndegree marks its transactions ready, ignoring the column.
ProcessIndegreeReady(A) == [t \in Txn |-> IF t \in A THEN 0 ELSE inDegree[t]]

(* ProcessIndegree for the follower's components: the column sum of each  *)
(* transaction becomes its in-degree.                                     *)
ProcessIndegree(A) ==
    [t \in Txn |-> IF t \in A THEN columnSum(adjacencyMatrix, Txn, t)
                              ELSE inDegree[t]]

(***************************************************************************)
(* getComponents -> ExtractComponents: for every component assigned to    *)
(* this node, ProcessIndegree, and completedTxns-- per transaction; then  *)
(* updateFlag.store(true).                                                 *)
(***************************************************************************)
ExtractComponents ==
    /\ fphase = "components"
    /\ \E A \in ComponentUnions(table) :
         /\ assigned' = A
         /\ inDegree' = ProcessIndegree(A)
         /\ completedTxns' = N - Cardinality(A)
    /\ updateFlag' = TRUE
    /\ fphase' = "schedule"
    /\ UNCHANGED <<txns, adjacencyMatrix, lastTxn, flag, completeFlag,
                   compCount, mon>>
    /\ UNCHANGED <<workerVars, etcdVars, histVars>>

(* scheduleTxns: flag = true, completeFlag = false, workers and monitor.  *)
scheduleTxns ==
    /\ fphase = "schedule"
    /\ flag' = TRUE /\ completeFlag' = FALSE
    /\ pc' = [w \in Threads |-> "loop"]
    /\ mon' = "poll"
    /\ fphase' = "exec"
    /\ UNCHANGED <<txns, adjacencyMatrix, inDegree, completedTxns, lastTxn,
                   updateFlag, compCount, assigned, idx, scan, varZero, cur>>
    /\ UNCHANGED <<etcdVars, histVars>>

(* Where selectTxn starts: pos = lastTxn + 1, first loop, var_zero = 0.   *)
StartSelect(w) ==
    /\ pc' = [pc EXCEPT ![w] = "select"]
    /\ idx' = [idx EXCEPT ![w] = lastTxn + 1]
    /\ scan' = [scan EXCEPT ![w] = 1]
    /\ varZero' = [varZero EXCEPT ![w] = 0]

(***************************************************************************)
(* executeTxns: while (!completeFlag && flag) { if (completedTxns ==      *)
(* totalTxns && updateFlag) report; selectTxn ... }                        *)
(***************************************************************************)
LoopTest(w) ==
    /\ pc[w] = "loop"
    /\ IF ~completeFlag /\ flag
         THEN IF completedTxns = N /\ updateFlag
                THEN pc' = [pc EXCEPT ![w] = "store"] /\ UNCHANGED <<idx, scan, varZero>>
                ELSE StartSelect(w)
         ELSE pc' = [pc EXCEPT ![w] = "done"] /\ UNCHANGED <<idx, scan, varZero>>
    /\ UNCHANGED <<txns, adjacencyMatrix, inDegree, completedTxns, lastTxn,
                   flag, completeFlag, updateFlag, compCount, assigned,
                   fphase, cur, mon, etcdVars, histVars>>

(***************************************************************************)
(* dataStore and the put of compCount as the node's status; on success    *)
(* updateFlag.store(false), on failure it stays set and the next          *)
(* iteration retries.  Then the same iteration goes on to selectTxn.      *)
(***************************************************************************)
dataStore(w) ==
    /\ pc[w] = "store"
    /\ \E ok \in PutResults :
         /\ status' = IF ok THEN compCount ELSE status
         /\ updateFlag' = IF ok THEN FALSE ELSE updateFlag
    /\ StartSelect(w)
    /\ UNCHANGED <<txns, adjacencyMatrix, inDegree, completedTxns, lastTxn,
                   flag, completeFlag, compCount, assigned, fphase, cur, mon,
                   table, others, run, commit, histVars>>

(***************************************************************************)
(* selectTxn, one index: the first loop runs from lastTxn + 1, the second *)
(* from 0; an index whose load is 0 goes on to the compare_exchange.  The *)
(* first loop sets var_zero = 0 before it; the second does not.           *)
(***************************************************************************)
selectTxn(w) ==
    LET i == idx[w] IN
    /\ pc[w] = "select"
    /\ IF i >= N
         THEN IF scan[w] = 1
                THEN /\ scan' = [scan EXCEPT ![w] = 2]
                     /\ idx' = [idx EXCEPT ![w] = 0]
                     /\ UNCHANGED <<pc, varZero>>
                ELSE /\ pc' = [pc EXCEPT ![w] = "loop"]
                     /\ idx' = [idx EXCEPT ![w] = 0]
                     /\ scan' = [scan EXCEPT ![w] = 1]
                     /\ UNCHANGED varZero
         ELSE IF inDegree[i] = 0
                THEN /\ pc' = [pc EXCEPT ![w] = "cas"]
                     /\ varZero' = IF scan[w] = 1 THEN [varZero EXCEPT ![w] = 0]
                                                   ELSE varZero
                     /\ UNCHANGED <<idx, scan>>
                ELSE /\ idx' = [idx EXCEPT ![w] = i + 1]
                     /\ UNCHANGED <<pc, scan, varZero>>
    /\ UNCHANGED <<txns, adjacencyMatrix, inDegree, completedTxns, lastTxn,
                   flag, completeFlag, updateFlag, compCount, assigned,
                   fphase, cur, mon, etcdVars, histVars>>

\* Mutant: lastTxn.store(i + 1), the position after the claimed one.
selectCASNextPos(w) ==
    LET i == idx[w] IN
    /\ pc[w] = "cas"
    /\ IF inDegree[i] = varZero[w]
         THEN /\ inDegree' = [inDegree EXCEPT ![i] = -1]
              /\ lastTxn' = i + 1
              /\ cur' = [cur EXCEPT ![w] = i]
              /\ pc' = [pc EXCEPT ![w] = "parse"]
              /\ idx' = [idx EXCEPT ![w] = 0]
              /\ scan' = [scan EXCEPT ![w] = 1]
              /\ varZero' = [varZero EXCEPT ![w] = 0]
         ELSE /\ varZero' = [varZero EXCEPT ![w] = inDegree[i]]
              /\ idx' = [idx EXCEPT ![w] = i + 1]
              /\ pc' = [pc EXCEPT ![w] = "select"]
              /\ UNCHANGED <<inDegree, lastTxn, cur, scan>>
    /\ UNCHANGED <<txns, adjacencyMatrix, completedTxns, flag, completeFlag,
                   updateFlag, compCount, assigned, fphase, mon,
                   etcdVars, histVars>>

(***************************************************************************)
(* inDegree[i].compare_exchange_strong(var_zero, -1): on success          *)
(* lastTxn.store(i) and i is returned; on failure var_zero receives the    *)
(* value found and the scan goes on.                                       *)
(***************************************************************************)
selectCAS(w) ==
    LET i == idx[w] IN
    /\ pc[w] = "cas"
    /\ IF inDegree[i] = varZero[w]
         THEN /\ inDegree' = [inDegree EXCEPT ![i] = -1]
              /\ lastTxn' = i
              /\ cur' = [cur EXCEPT ![w] = i]
              /\ pc' = [pc EXCEPT ![w] = "parse"]
              /\ idx' = [idx EXCEPT ![w] = 0]
              /\ scan' = [scan EXCEPT ![w] = 1]
              /\ varZero' = [varZero EXCEPT ![w] = 0]
         ELSE /\ varZero' = [varZero EXCEPT ![w] = inDegree[i]]
              /\ idx' = [idx EXCEPT ![w] = i + 1]
              /\ pc' = [pc EXCEPT ![w] = "select"]
              /\ UNCHANGED <<inDegree, lastTxn, cur, scan>>
    /\ UNCHANGED <<txns, adjacencyMatrix, completedTxns, flag, completeFlag,
                   updateFlag, compCount, assigned, fphase, mon,
                   etcdVars, histVars>>

(* header.ParseFromString fails: `continue`, without complete(). *)
ParseHeader(w) ==
    /\ pc[w] = "parse"
    /\ IF txns[cur[w]].parsed
         THEN pc' = [pc EXCEPT ![w] = "process"] /\ UNCHANGED cur
         ELSE pc' = [pc EXCEPT ![w] = "loop"] /\ cur' = [cur EXCEPT ![w] = NoTxn]
    /\ UNCHANGED <<txns, adjacencyMatrix, inDegree, completedTxns, lastTxn,
                   flag, completeFlag, updateFlag, compCount, assigned,
                   fphase, idx, scan, varZero, mon, etcdVars, histVars>>

(* The family processor runs; flag.store(result), whatever flag was. *)
ProcessTxnStep(w) ==
    LET t == cur[w] IN
    /\ pc[w] = "process"
    /\ \E result \in ProcessTxn(txns[t]) :
         /\ flag' = result
         /\ failed' = (failed \/ ~result)
    /\ runs' = [runs EXCEPT ![t] = @ + 1]
    /\ pc' = [pc EXCEPT ![w] = "complete"]
    /\ UNCHANGED <<txns, adjacencyMatrix, inDegree, completedTxns, lastTxn,
                   completeFlag, updateFlag, compCount, assigned, fphase,
                   idx, scan, varZero, cur, mon, etcdVars, finished>>

(* complete(txnID): inDegree[txnID].fetch_sub(1); completedTxns++ *)
completeSelf(w) ==
    LET t == cur[w] IN
    /\ pc[w] = "complete"
    /\ inDegree' = [inDegree EXCEPT ![t] = @ - 1]
    /\ completedTxns' = completedTxns + 1
    /\ finished' = finished \cup {t}
    /\ idx' = [idx EXCEPT ![w] = t + 1]
    /\ pc' = [pc EXCEPT ![w] = "release"]
    /\ UNCHANGED <<txns, adjacencyMatrix, lastTxn, flag, completeFlag,
                   updateFlag, compCount, assigned, fphase, scan, varZero,
                   cur, mon, etcdVars, runs, failed>>

\* Mutant: every later slot is decremented, edge or not.
completeReleaseAll(w) ==
    LET t    == cur[w]
        next == idx[w]..N-1
        k    == idx[w]
    IN  /\ pc[w] = "release"
        /\ IF next = {}
             THEN /\ pc' = [pc EXCEPT ![w] = "count"]
                  /\ UNCHANGED <<inDegree, idx>>
             ELSE /\ inDegree' = [inDegree EXCEPT ![k] = @ - 1]
                  /\ idx' = [idx EXCEPT ![w] = k + 1]
                  /\ UNCHANGED pc
        /\ UNCHANGED <<txns, adjacencyMatrix, completedTxns, lastTxn, flag,
                       completeFlag, updateFlag, compCount, assigned, fphase,
                       scan, varZero, cur, mon, etcdVars, histVars>>

(* The loop of complete(): inDegree[i].fetch_sub(1) for each i > txnID    *)
(* with an edge, one edge per step.                                       *)
completeRelease(w) ==
    LET t    == cur[w]
        next == {k \in idx[w]..N-1 : adjacencyMatrix[t][k] = 1}
        k    == CHOOSE x \in next : \A y \in next : x <= y
    IN  /\ pc[w] = "release"
        /\ IF next = {}
             THEN /\ pc' = [pc EXCEPT ![w] = "count"]
                  /\ UNCHANGED <<inDegree, idx>>
             ELSE /\ inDegree' = [inDegree EXCEPT ![k] = @ - 1]
                  /\ idx' = [idx EXCEPT ![w] = k + 1]
                  /\ UNCHANGED pc
        /\ UNCHANGED <<txns, adjacencyMatrix, completedTxns, lastTxn, flag,
                       completeFlag, updateFlag, compCount, assigned, fphase,
                       scan, varZero, cur, mon, etcdVars, histVars>>

(* compCount.fetch_add(1) after complete() returns. *)
countTxn(w) ==
    /\ pc[w] = "count"
    /\ compCount' = compCount + 1
    /\ pc' = [pc EXCEPT ![w] = "loop"]
    /\ idx' = [idx EXCEPT ![w] = 0]
    /\ cur' = [cur EXCEPT ![w] = NoTxn]
    /\ UNCHANGED <<txns, adjacencyMatrix, inDegree, completedTxns, lastTxn,
                   flag, completeFlag, updateFlag, assigned, fphase,
                   scan, varZero, mon, etcdVars, histVars>>

(***************************************************************************)
(* monitorFunc: while (flag) poll run; on "finish" completeFlag = true and *)
(* return.  When flag is false the loop ends.                              *)
(***************************************************************************)
monitorFunc ==
    /\ mon = "poll"
    /\ \/ flag /\ run = "finish" /\ completeFlag' = TRUE
       \/ ~flag /\ UNCHANGED completeFlag
    /\ mon' = "done"
    /\ UNCHANGED <<txns, adjacencyMatrix, inDegree, completedTxns, lastTxn,
                   flag, updateFlag, compCount, assigned, fphase, workerVars,
                   etcdVars, histVars>>

(* watchLeaderCrash: CurrentLeader deleted or changed: flag.store(false). *)
watchLeaderCrash ==
    /\ LeaderMayCrash
    /\ fphase \in {"schedule", "exec"}
    /\ flag
    /\ flag' = FALSE
    /\ UNCHANGED <<txns, adjacencyMatrix, inDegree, completedTxns, lastTxn,
                   completeFlag, updateFlag, compCount, assigned, fphase, mon,
                   workerVars, etcdVars, histVars>>

(* scheduleTxns joins the monitor and the workers and returns flag. *)
Join ==
    /\ fphase = "exec"
    /\ mon = "done" /\ \A w \in Threads : pc[w] = "done"
    /\ fphase' = IF flag THEN "succeeded" ELSE "failed"
    /\ UNCHANGED <<txns, adjacencyMatrix, inDegree, completedTxns, lastTxn,
                   flag, completeFlag, updateFlag, compCount, assigned, mon,
                   workerVars, etcdVars, histVars>>

(* startBlock reads commit: "1" -> saveData, otherwise state.resetTree(). *)
ReadCommit ==
    /\ fphase = "succeeded"
    /\ fphase' = IF commit = "1" THEN "saved" ELSE "reset"
    /\ UNCHANGED <<txns, adjacencyMatrix, inDegree, completedTxns, lastTxn,
                   flag, completeFlag, updateFlag, compCount, assigned, mon,
                   workerVars, etcdVars, histVars>>

(* The other followers put their status: the size of their share. *)
OthersReport ==
    /\ fphase \notin {"read", "components"}
    /\ ~others
    /\ others' = TRUE
    /\ UNCHANGED <<txns, adjacencyMatrix, inDegree, completedTxns, lastTxn,
                   flag, completeFlag, updateFlag, compCount, assigned,
                   fphase, mon, workerVars, table, status, run, commit, histVars>>

(* The status counts checkComponents adds up. *)
Reported ==
    (IF status = NoStatus THEN 0 ELSE status)
      + (IF others THEN N - Cardinality(assigned) ELSE 0)

(***************************************************************************)
(* checkComponents returns when the statuses add up to txnCount; the       *)
(* leader then sets run = "finish", and in a separate put commit = "1".    *)
(***************************************************************************)
checkComponents ==
    /\ run = "start"
    /\ Reported = N
    /\ run' = "finish"
    /\ UNCHANGED <<txns, adjacencyMatrix, inDegree, completedTxns, lastTxn,
                   flag, completeFlag, updateFlag, compCount, assigned,
                   fphase, mon, workerVars, table, status, others, commit, histVars>>

SetCommit ==
    /\ run = "finish" /\ commit = "0"
    /\ commit' = "1"
    /\ UNCHANGED <<txns, adjacencyMatrix, inDegree, completedTxns, lastTxn,
                   flag, completeFlag, updateFlag, compCount, assigned,
                   fphase, mon, workerVars, table, status, others, run, histVars>>

(* startBlock has returned and the leader has nothing left to do. *)
Finished ==
    /\ fphase \in {"saved", "reset", "failed"}
    /\ UNCHANGED vars

Worker(w) ==
    \/ LoopTest(w) \/ dataStore(w) \/ selectTxn(w) \/ selectCAS(w)
    \/ ParseHeader(w) \/ ProcessTxnStep(w) \/ completeSelf(w)
    \/ completeRelease(w) \/ countTxn(w)

Leader == OthersReport \/ checkComponents \/ SetCommit

Next ==
    \/ extractBlock \/ ExtractComponents \/ scheduleTxns
    \/ \E w \in Threads : Worker(w)
    \/ monitorFunc \/ watchLeaderCrash \/ Join \/ ReadCommit
    \/ Leader
    \/ Finished

Spec == Init /\ [][Next]_vars

(***************************************************************************)
(* Workers and the monitor are OS threads that busy-poll; startBlock's     *)
(* steps run on the main thread; the other followers and the leader are   *)
(* processes of their own.  The leader's crash is not forced.              *)
(***************************************************************************)
FairSpec ==
    /\ Spec
    /\ \A w \in Threads : WF_vars(Worker(w))
    /\ WF_vars(monitorFunc)
    /\ WF_vars(extractBlock) /\ WF_vars(ExtractComponents)
    /\ WF_vars(scheduleTxns) /\ WF_vars(Join) /\ WF_vars(ReadCommit)
    /\ WF_vars(OthersReport) /\ WF_vars(checkComponents) /\ WF_vars(SetCommit)

-----------------------------------------------------------------------------
TypeOK ==
    /\ txns \in [Txn -> Shapes]
    /\ adjacencyMatrix \in [Txn -> [Txn -> {0, 1}]]
    /\ inDegree \in [Txn -> -N-2..N]
    /\ completedTxns \in 0..2*N /\ lastTxn \in Txn
    /\ {flag, completeFlag, updateFlag, others, failed} \subseteq BOOLEAN
    /\ compCount \in 0..2*N
    /\ assigned \subseteq Txn
    /\ fphase \in {"read", "components", "schedule", "exec", "succeeded",
                   "failed", "saved", "reset"}
    /\ pc \in [Threads -> {"idle", "loop", "store", "select", "cas", "parse",
                           "process", "complete", "release", "count", "done"}]
    /\ scan \in [Threads -> {1, 2}]
    /\ cur \in [Threads -> Txn \cup {NoTxn}]
    /\ mon \in {"idle", "poll", "done"}
    /\ table \subseteq SUBSET Txn
    /\ status \in {NoStatus} \cup 0..2*N
    /\ run \in {"start", "finish"} /\ commit \in {"0", "1"}
    /\ runs \in [Txn -> 0..N] /\ finished \subseteq Txn

(***************************************************************************)
(* The components the leader's union-find hands out are the weakly        *)
(* connected components of the block's DAG: every pair of transactions    *)
(* joined by a conflict edge either way lands in one component, and no    *)
(* two unconnected groups are merged.  Path compression inside unite and  *)
(* union by rank must keep every root right.                              *)
(***************************************************************************)
ComponentsAreWeak ==
    LET joined == [p \in Txn \X Txn |->
                     adjacencyMatrix[p[1]][p[2]] = 1 \/ adjacencyMatrix[p[2]][p[1]] = 1]
        reach == Rel!ReflexiveTransitiveClosure(joined, Txn)
    IN  fphase = "components" =>
            table =
                {{u \in Txn : reach[t, u]} : t \in Txn}

(***************************************************************************)
(* A transaction's processor runs only after complete() of every          *)
(* conflicting earlier transaction: ProcessIndegree's column sums, the    *)
(* releases of complete() and the claims of selectTxn keep the order.     *)
(***************************************************************************)
ConflictOrder ==
    \A t \in Txn : runs[t] > 0 => Preds(txns, Txn, t) \subseteq finished

(***************************************************************************)
(* Spec 4.3: a Ready transaction is claimed by exactly one worker, so its  *)
(* processor runs at most once.  selectTxn's second loop reuses var_zero  *)
(* after a failed compare_exchange.                                       *)
(***************************************************************************)
AtMostOnce == \A t \in Txn : runs[t] <= 1

(***************************************************************************)
(* Spec 4.4: any processor failure aborts the block; scheduleTxns returns  *)
(* true only if no processor returned false.  Each worker stores its own  *)
(* result into flag.                                                       *)
(***************************************************************************)
FailureAborts ==
    fphase \in {"succeeded", "saved", "reset"} => ~failed

(***************************************************************************)
(* A follower whose execution succeeded keeps the block the leader         *)
(* commits: it resets its state only if commit is not "1".  The leader    *)
(* writes run = "finish" and commit = "1" in two puts, and the follower   *)
(* reads commit once, after its workers stop.                             *)
(***************************************************************************)
ResetOnlyUncommitted == fphase = "reset" => commit # "1"

(***************************************************************************)
(* With every processor succeeding and the leader alive, the follower's    *)
(* status brings the leader to "finish": compCount is put once, when a    *)
(* worker sees completedTxns == totalTxns.                                 *)
(***************************************************************************)
BlockFinishes == <>(run = "finish")

=============================================================================
