--------------------------- MODULE ConflictGraph ---------------------------
(***************************************************************************)
(* The conflict graph of a block (DAGmodule): which transactions of a      *)
(* block must run in order. How DAGmodule::dependencyMatrix splits the    *)
(* rows between builder threads differs per variant and is modelled in    *)
(* each variant's module.                                                  *)
(*                                                                         *)
(* A transaction is abstracted to the sets of addresses its header         *)
(* declares (the code searches vectors with std::find, so only membership *)
(* matters), its family tag, and whether its header parses at all.         *)
(***************************************************************************)
EXTENDS Integers, FiniteSets

(* A transaction as the block carries it. *)
TxnShapes(Addr, Families) ==
    [inputs: SUBSET Addr, outputs: SUBSET Addr, family: Families, parsed: BOOLEAN]

(***************************************************************************)
(* DAGmodule::extractTransaction: a header that does not parse gives a     *)
(* TransactionStruct with empty input and output vectors.                  *)
(***************************************************************************)
extractTransaction(tx) ==
    IF tx.parsed THEN [inputs |-> tx.inputs, outputs |-> tx.outputs]
                 ELSE [inputs |-> {}, outputs |-> {}]

(***************************************************************************)
(* The three conflict classes tested, in this order and short-circuiting,  *)
(* for a pair i < j by the inner loop of DAGmodule::dependencyMatrix:      *)
(* input-output, output-input, output-output.                              *)
(***************************************************************************)
Conflict(ti, tj) ==
    LET a == extractTransaction(ti)
        b == extractTransaction(tj)
    IN  \/ a.inputs  \cap b.outputs # {}
        \/ a.outputs \cap b.inputs  # {}
        \/ a.outputs \cap b.outputs # {}

(* The adjacency matrix the block must produce: upper-triangular.          *)
DependencyMatrix(txns, Txn) ==
    [i \in Txn |-> [j \in Txn |-> IF i < j /\ Conflict(txns[i], txns[j])
                                   THEN 1 ELSE 0]]

(***************************************************************************)
(* DAGmodule::dependencyMatrix of the distributed node splits the rows    *)
(* evenly: the first totalTxns % threadCount builders take one row more.  *)
(* A builder's rows run from balancedStart to balancedEnd, inclusive.     *)
(***************************************************************************)
balancedStart(PID, n, t) == PID * (n \div t) + (IF PID < n % t THEN PID ELSE n % t)

balancedEnd(PID, n, t) ==
    balancedStart(PID, n, t) + n \div t - 1 + (IF PID < n % t THEN 1 ELSE 0)

(* The rows the t builder threads fill, create joining them all. *)
builderRows(n, t) ==
    UNION {{i \in balancedStart(p, n, t)..balancedEnd(p, n, t) : i < n} : p \in 0..t-1}

(* DAGmodule::create / createfollower: the matrix the joined builders leave. *)
dnDependencyMatrix(txns, Txn, t) ==
    [i \in Txn |-> [j \in Txn |->
        IF i \in builderRows(Cardinality(Txn), t) /\ i < j /\ Conflict(txns[i], txns[j])
        THEN 1 ELSE 0]]

(* Conflicting predecessors of j in the block. *)
Preds(txns, Txn, j) == {i \in Txn : i < j /\ Conflict(txns[i], txns[j])}

(* scheduler::columnSum: the in-degree of column col of matrix m. *)
RECURSIVE SumCol(_, _, _)
SumCol(m, rows, col) ==
    IF rows = {} THEN 0
    ELSE LET r == CHOOSE x \in rows : TRUE
         IN  m[r][col] + SumCol(m, rows \ {r}, col)
columnSum(m, Txn, col) == SumCol(m, Txn, col)

(***************************************************************************)
(* DFSUtil and connectedComponents of the single-node DAGmodule: every    *)
(* unvisited i in index order starts a component, which DFSUtil grows     *)
(* along an edge in either direction, adjacencyMatrix[v][i] or [i][v], to *)
(* every unvisited i.  n is the matrix size; DFSUtil returns the visited  *)
(* set.                                                                   *)
(***************************************************************************)
\* Mutant: DFSUtil follows only the edges leaving v.
RECURSIVE pDFSUtilForward(_, _, _, _)
pDFSUtilForward(m, n, v, visited) ==
    LET Grow(acc, i) ==
            IF m[v][i] = 1 /\ i \notin acc THEN pDFSUtilForward(m, n, i, acc) ELSE acc
        Loop[k \in 0..n] ==
            IF k = 0 THEN visited \cup {v} ELSE Grow(Loop[k - 1], k - 1)
    IN  Loop[n]

RECURSIVE pDFSUtil(_, _, _, _)
pDFSUtil(m, n, v, visited) ==
    LET Grow(acc, i) ==
            IF (m[v][i] = 1 \/ m[i][v] = 1) /\ i \notin acc
              THEN pDFSUtil(m, n, i, acc) ELSE acc
        Loop[k \in 0..n] ==
            IF k = 0 THEN visited \cup {v} ELSE Grow(Loop[k - 1], k - 1)
    IN  Loop[n]

pConnectedComponents(m, n) ==
    LET Step[k \in 0..n] ==
            IF k = 0 THEN [comps |-> {}, visited |-> {}]
            ELSE LET s == Step[k - 1]
                 IN  IF k - 1 \in s.visited THEN s
                     ELSE LET v2 == pDFSUtil(m, n, k - 1, s.visited)
                          IN  [comps |-> s.comps \cup {v2 \ s.visited},
                               visited |-> v2]
    IN  Step[n].comps

=============================================================================
