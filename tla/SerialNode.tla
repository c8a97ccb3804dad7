---------------------------- MODULE SerialNode ----------------------------
(***************************************************************************)
(* The singleNode-serial node (node/node.cpp with scheduler/scheduler.h   *)
(* and dagModule/DAGmodule.h): one thread takes blocksCount blocks from    *)
(* the block producer (Clients: setup.txt on even turns, testFile.txt on  *)
(* odd ones, each block numbered from blocksDB's LatestBlock), builds     *)
(* each block's DAG, runs its transactions one at a time through the      *)
(* family processors into the write-set myMap, flushes myMap into the     *)
(* GlobalState tmp if every transaction succeeded, and stores the block   *)
(* in blocksDB; a failed block ends the loop.                             *)
(*                                                                         *)
(* The scheduler object, and with it myMap, lives for the whole run: the  *)
(* write-set is never cleared between blocks.  The state is tmp's         *)
(* key/value contents; how flushMapToState rebuilds the trie is the       *)
(* subject of MerkleFlush.  Headers are the ones the clients serialise,   *)
(* so they always parse.                                                  *)
(***************************************************************************)
EXTENDS Integers, Sequences, SequencesExt, FiniteSets, ConflictGraph, Contracts, Clients

CONSTANTS SetupFiles,   \* the contents ../testFile/setup.txt may have
          TestFiles,    \* the contents ../testFile/testFile.txt may have
          BlockSize,    \* txnCount: most transactions in a block
          BlocksCount,  \* blocksCount of config.json
          InitStates    \* contents of the persistent state duplicateState copies

ASSUME BlockSize \in Nat \ {0} /\ BlocksCount \in Nat

VARIABLES
    state,            \* tmp: the GlobalState the node executes against
    myMap,            \* the scheduler's write-set
    count,            \* node.cpp's loop counter
    block,            \* newBlock: the transactions of the current block
    adjacencyMatrix,  \* dag.adjacencyMatrix
    inDegree,         \* dag.inDegree
    completedTxns,    \* dag.completedTxns
    flag,             \* scheduler.flag
    pc,               \* "produce", "exec", "stopped" (after break) or "done"
    blockNum,         \* header.block_num of the current block
    blocksDB,         \* [latest |-> number of LatestBlock, store |-> number -> block]
    blocks,           \* history: the blocks handed to storeBlock, in order
    state0,           \* the persistent state the run started from (never changes)
    setupFile,        \* the contents of the two command files (never change)
    testFile

vars == <<state, myMap, count, block, adjacencyMatrix, inDegree,
          completedTxns, flag, pc, blockNum, blocksDB, blocks, state0,
          setupFile, testFile>>

(* Transaction ids of the current block: its 0-based positions. *)
Txn == 0..Len(block) - 1
TxnOf(b, i) == b[i + 1]
totalTxns == Len(block)

(* The transactions of a block, indexed by id. *)
BlockTxns(b) == [i \in 0..Len(b) - 1 |-> TxnOf(b, i)]

NoDag == [i \in {} |-> 0]

(* A blocksDB opened on no database: getLatestBlockNum's "error getting  *)
(* block Num" does not start with 'B', so the producer's lastNum is 0.   *)
EmptyDB == [latest |-> 0, store |-> [n \in {} |-> <<>>]]

Init ==
    /\ state0 \in InitStates
    /\ state = state0
    /\ myMap = [k \in {} |-> Empty]
    /\ count = 0
    /\ block = <<>>
    /\ adjacencyMatrix = NoDag
    /\ inDegree = NoDag
    /\ completedTxns = 0
    /\ flag = TRUE
    /\ pc = "produce"
    /\ blockNum = 0
    /\ blocksDB = EmptyDB
    /\ blocks = <<>>
    /\ setupFile \in SetupFiles
    /\ testFile \in TestFiles

(* DAGmodule::dependencyMatrix over the block's extracted transactions. *)
dependencyMatrix(b) == DependencyMatrix(BlockTxns(b), 0..Len(b) - 1)

(* DAGmodule::create: the matrix, and each in-degree the number of edges  *)
(* into the transaction.                                                  *)
createDag(b) ==
    [adj      |-> dependencyMatrix(b),
     inDegree |-> [i \in 0..Len(b) - 1 |->
                     columnSum(dependencyMatrix(b), 0..Len(b) - 1, i)]]

(***************************************************************************)
(* scheduler::extractBlock calls dag.create a second time on a DAG main    *)
(* has just built: the transactions are appended again after the ones the *)
(* matrix is read from, resize keeps the matrix, and the in-degrees are    *)
(* zeroed and recounted, so the DAG is the one create built.              *)
(***************************************************************************)
extractBlock(b) == createDag(b)

(***************************************************************************)
(* The block number the producer writes into the header: LatestBlock      *)
(* "B<n>" gives n + 1.  An empty block is returned as Block{} with no     *)
(* header, and node.cpp's ParseFromString("") reads block_num 0.          *)
(***************************************************************************)
headerBlockNum(db, b) == IF b = <<>> THEN 0 ELSE db.latest + 1

(***************************************************************************)
(* One turn of node.cpp's loop up to the execution: produce from          *)
(* setup.txt on even turns and from testFile.txt on odd ones, dag.create, *)
(* extractBlock, and the start of schedulTxns, which sets flag.  An empty *)
(* block makes an empty DAG and runs through as well.                     *)
(***************************************************************************)
newBlock ==
    /\ pc = "produce"
    /\ count < BlocksCount
    /\ LET b == produce(IF count % 2 = 0 THEN setupFile ELSE testFile,
                        BlockSize, state0)
       IN  /\ block' = b
           /\ blockNum' = headerBlockNum(blocksDB, b)
           /\ adjacencyMatrix' = extractBlock(b).adj
           /\ inDegree' = extractBlock(b).inDegree
    /\ completedTxns' = 0
    /\ flag' = TRUE
    /\ pc' = "exec"
    /\ UNCHANGED <<state, myMap, count, blocksDB, blocks, state0, setupFile, testFile>>

(* DAGmodule::selectTxn: both scans start at 0, so the first ready id.   *)
selectTxn ==
    IF \E i \in Txn : inDegree[i] = 0 THEN Min({i \in Txn : inDegree[i] = 0})
    ELSE -1

(* The family dispatch of executeTxns; an unknown tag fails. *)
ProcessTxn(m, st, tx) ==
    CASE tx.family = "wallet" -> walletProcessTxn(m, st, tx)
      [] tx.family = "eComm"  -> eCommProcessTxn(m, st, tx)
      [] tx.family = "nft"    -> nftProcessTxn(m, st, tx)
      [] tx.family = "voting" -> votingProcessTxn(m, st, tx)
      [] OTHER                -> Result(FALSE, m)

\* Mutant: complete releases every later transaction, not its successors.
completeAll(i) ==
    [j \in Txn |-> IF j = i \/ j > i THEN inDegree[j] - 1 ELSE inDegree[j]]

(***************************************************************************)
(* DAGmodule::complete after the claim: the CAS 0 -> -1 of selectTxn and  *)
(* the fetch_sub make the transaction -2; each successor loses one.       *)
(***************************************************************************)
complete(i) ==
    [j \in Txn |-> CASE j = i                                -> -2
                     [] j > i /\ adjacencyMatrix[i][j] = 1   -> inDegree[j] - 1
                     [] OTHER                                -> inDegree[j]]

(***************************************************************************)
(* One iteration of executeTxns' loop: select, dispatch, flag.store of    *)
(* the processor's result, complete.  With one thread a ready             *)
(* transaction always exists while the loop runs.                         *)
(***************************************************************************)
executeTxns ==
    /\ pc = "exec"
    /\ completedTxns < totalTxns /\ flag
    /\ selectTxn # -1
    /\ LET i == selectTxn
           r == ProcessTxn(myMap, state, TxnOf(block, i))
       IN  /\ flag' = r.ok
           /\ myMap' = r.map
           /\ inDegree' = complete(i)
    /\ completedTxns' = completedTxns + 1
    /\ UNCHANGED <<state, count, block, adjacencyMatrix, pc, blockNum, blocksDB,
                   blocks, state0, setupFile, testFile>>

(* flushMapToState: every entry of myMap is inserted into tmp. *)
flushMapToState == myMap @@ state

(* DAGmodule::dagClean. *)
dagClean ==
    /\ adjacencyMatrix' = NoDag /\ inDegree' = NoDag /\ completedTxns' = 0

(* blocksDB::storeBlock("B" + block_num): LatestBlock, then the block   *)
(* under its id, over whatever that id held.                            *)
storeBlock(db, n, b) == [latest |-> n, store |-> (n :> b) @@ db.store]

(***************************************************************************)
(* The loop has ended with flag set: schedulTxns flushes and returns true; *)
(* node.cpp calls dagClean and storeBlock.                                *)
(***************************************************************************)
schedulTxnsCommit ==
    /\ pc = "exec"
    /\ ~(completedTxns < totalTxns /\ flag)
    /\ flag
    /\ state' = flushMapToState
    /\ dagClean
    /\ blocksDB' = storeBlock(blocksDB, blockNum, block)
    /\ blocks' = Append(blocks, block)
    /\ count' = count + 1
    /\ block' = <<>>
    /\ pc' = "produce"
    /\ UNCHANGED <<myMap, flag, blockNum, state0, setupFile, testFile>>

(* The loop has ended with flag cleared: no flush; node.cpp breaks out of *)
(* its loop before storeBlock.                                             *)
schedulTxnsAbort ==
    /\ pc = "exec"
    /\ ~flag
    /\ pc' = "stopped"
    /\ UNCHANGED <<state, myMap, count, block, adjacencyMatrix, inDegree,
                   completedTxns, flag, blockNum, blocksDB, blocks, state0,
                   setupFile, testFile>>

(* After the loop: db.destroyDB() deletes the blocks database. *)
destroyDB ==
    /\ \/ pc = "produce" /\ count = BlocksCount
       \/ pc = "stopped"
    /\ blocksDB' = EmptyDB
    /\ pc' = "done"
    /\ UNCHANGED <<state, myMap, count, block, adjacencyMatrix, inDegree,
                   completedTxns, flag, blockNum, blocks, state0, setupFile, testFile>>

(* main has returned. *)
Finished ==
    /\ pc = "done"
    /\ UNCHANGED vars

Next ==
    \/ newBlock
    \/ executeTxns
    \/ schedulTxnsCommit
    \/ schedulTxnsAbort
    \/ destroyDB
    \/ Finished

Spec == Init /\ [][Next]_vars

-----------------------------------------------------------------------------
(***************************************************************************)
(* The reference: a write-set stands for pending changes to the state     *)
(* (spec 2 and 9), so running a transaction through it must do what       *)
(* running it with the state itself as its write-set does.  A block      *)
(* applied directly stops at its first failing transaction, in block     *)
(* order, and leaves nothing (spec 5, WholeBlockFailure).                 *)
(***************************************************************************)
ApplyDirect(st, tx) ==
    LET r == ProcessTxn(st, st, tx) IN [ok |-> r.ok, state |-> r.map]

DirectBlock(st, b) ==
    FoldLeft(LAMBDA acc, tx : IF acc.ok THEN ApplyDirect(acc.state, tx) ELSE acc,
             [ok |-> TRUE, state |-> st], b)

DirectChain(st, bs) ==
    FoldLeft(LAMBDA acc, b : IF acc.ok THEN DirectBlock(acc.state, b) ELSE acc,
             [ok |-> TRUE, state |-> st], bs)

TypeOK ==
    /\ pc \in {"produce", "exec", "stopped", "done"}
    /\ count \in 0..BlocksCount
    /\ Len(block) <= BlockSize /\ Len(blocks) <= BlocksCount
    /\ blockNum \in 0..BlocksCount /\ blocksDB.latest \in 0..BlocksCount
    /\ completedTxns \in 0..totalTxns
    /\ flag \in BOOLEAN
    /\ pc = "exec" => inDegree \in [Txn -> {-2} \cup 0..BlockSize]

(***************************************************************************)
(* Between blocks, and after the node stopped on a failed block, tmp is   *)
(* exactly the stored blocks applied one transaction at a time to the     *)
(* state the node started from, each transaction reading and writing the  *)
(* state itself; and the block that stopped the node would fail applied   *)
(* that way.  Execution in DAG order through myMap, which persists across *)
(* blocks, the flush only after a clean run and the break before          *)
(* storeBlock must together make it so.                                   *)
(***************************************************************************)
CommitMatchesDirect ==
    pc \in {"produce", "stopped"} =>
        /\ DirectChain(state0, blocks) = [ok |-> TRUE, state |-> state]
        /\ pc = "stopped" => ~DirectBlock(state, block).ok

(* The two orders of running ti and tj through the write-set m over st   *)
(* give each the same result and leave the same write-set.               *)
Commute(m, st, ti, tj) ==
    LET a1 == ProcessTxn(m, st, ti)
        a2 == ProcessTxn(a1.map, st, tj)
        b1 == ProcessTxn(m, st, tj)
        b2 == ProcessTxn(b1.map, st, ti)
    IN  a1.ok = b2.ok /\ a2.ok = b1.ok /\ a2.map = b2.map

(***************************************************************************)
(* Spec 2: the DAG orders exactly the transactions whose order matters.   *)
(* Any two transactions of the block not yet run, with no edge between    *)
(* them, commute from the current write-set and state: the addresses     *)
(* their clients declared in the headers, and the three conflict tests   *)
(* of dependencyMatrix, must cover every key the processors read and     *)
(* write.  A scheduler that runs them in either order, or at once, can    *)
(* then only reach what the serial node reaches.                          *)
(***************************************************************************)
IndependentCommute ==
    pc = "exec" =>
        \A i, j \in Txn :
            /\ i < j /\ inDegree[i] >= 0 /\ inDegree[j] >= 0
            /\ adjacencyMatrix[i][j] = 0
            => Commute(myMap, state, TxnOf(block, i), TxnOf(block, j))

(***************************************************************************)
(* The producer numbers a block from LatestBlock ("Determine new block    *)
(* number") and node.cpp stores it under "B" + that number: the k-th      *)
(* non-empty block the node stored is in blocksDB under B<k>, so no       *)
(* stored block is lost to a later one under the same id.                 *)
(***************************************************************************)
BlocksKept ==
    LET ne == SelectSeq(blocks, LAMBDA b : b # <<>>)
    IN  pc \in {"produce", "stopped"} =>
            \A k \in 1..Len(ne) : k \in DOMAIN blocksDB.store /\ blocksDB.store[k] = ne[k]

=============================================================================
