---------------------------- MODULE MerkleRehash ----------------------------
(***************************************************************************)
(* How BlockRAFT nodes bring a GlobalState's hashes up to date after a     *)
(* block's writes, and whether nodes that applied the same writes agree.  *)
(*                                                                         *)
(* Each node (Replicas) applies every block of Blocks: it inserts the      *)
(* block's entries one insert call at a time, in an order of its own (the *)
(* follower's fetchAndParseKeys and the leader's run one thread per       *)
(* cluster member, so the order differs between nodes), collecting the    *)
(* keys in allUpdatedKeys, and then rehashes with either                  *)
(* updateTree(allUpdatedKeys) (leader and follower saveData) or           *)
(* updateAllNonLeafHashes (the GlobalState tests and experiments).  The   *)
(* nodeCache of GlobalState lives as long as the object, and no object    *)
(* outlives a block: the leader's saveData builds a local GlobalState and *)
(* node.cpp builds a new follower, with a new tmp, for every block.       *)
(***************************************************************************)
EXTENDS Naturals, Sequences, SequencesExt, TLC, MerkleState

CONSTANTS Replicas,      \* the nodes applying the blocks
          HashOf,        \* key -> digit string: computeHash(key)
          Blocks,        \* sequence of blocks, each a function key -> value
          RehashOps      \* subset of {"updateTree", "updateAllNonLeafHashes"}

VARIABLES
    db,        \* replica -> its RocksDB contents
    blk,       \* replica -> index of the block it is applying
    todo,      \* replica -> keys of the block not yet inserted
    updated,   \* replica -> allUpdatedKeys: key hashes in insertion order
    lastOp     \* replica -> the last call made: "insert" or a rehash

vars == <<db, blk, todo, updated, lastOp>>

Init ==
    /\ db = [r \in Replicas |-> FreshDB]
    /\ blk = [r \in Replicas |-> 1]
    /\ todo = [r \in Replicas |-> DOMAIN Blocks[1]]
    /\ updated = [r \in Replicas |-> <<>>]
    /\ lastOp = [r \in Replicas |-> "none"]

\* Mutant: the entry is not taken off the work list.
InsertKeep(r) ==
    \E k \in todo[r] :
        /\ db' = [db EXCEPT ![r] = insert(@, HashOf[k], Blocks[blk[r]][k])]
        /\ updated' = [updated EXCEPT ![r] = Append(@, HashOf[k])]
        /\ lastOp' = [lastOp EXCEPT ![r] = "insert"]
        /\ UNCHANGED <<blk, todo>>

(* tmp.insert(key, value) for one entry of the block, in any order. *)
Insert(r) ==
    \E k \in todo[r] :
        /\ db' = [db EXCEPT ![r] = insert(@, HashOf[k], Blocks[blk[r]][k])]
        /\ todo' = [todo EXCEPT ![r] = @ \ {k}]
        /\ updated' = [updated EXCEPT ![r] = Append(@, HashOf[k])]
        /\ lastOp' = [lastOp EXCEPT ![r] = "insert"]
        /\ UNCHANGED blk

(* The block's writes are in; the next block's start. *)
NextBlock(r) ==
    /\ blk' = [blk EXCEPT ![r] = @ + 1]
    /\ todo' = [todo EXCEPT ![r] = IF blk[r] < Len(Blocks)
                                      THEN DOMAIN Blocks[blk[r] + 1] ELSE {}]
    /\ updated' = [updated EXCEPT ![r] = <<>>]

(* saveData: updateTree(allUpdatedKeys) on an object whose cache is empty. *)
SaveUpdateTree(r) ==
    /\ "updateTree" \in RehashOps
    /\ blk[r] <= Len(Blocks) /\ todo[r] = {}
    /\ db' = [db EXCEPT ![r] = updateTree(@, <<>>, updated[r]).db]
    /\ lastOp' = [lastOp EXCEPT ![r] = "updateTree"]
    /\ NextBlock(r)

(* The block's writes followed by updateAllNonLeafHashes(). *)
SaveUpdateAll(r) ==
    /\ "updateAllNonLeafHashes" \in RehashOps
    /\ blk[r] <= Len(Blocks) /\ todo[r] = {}
    /\ db' = [db EXCEPT ![r] = updateAllNonLeafHashes(@)]
    /\ lastOp' = [lastOp EXCEPT ![r] = "updateAllNonLeafHashes"]
    /\ NextBlock(r)

(* Every node has applied every block. *)
Finished ==
    /\ \A r \in Replicas : blk[r] > Len(Blocks)
    /\ UNCHANGED vars

Next ==
    \/ \E r \in Replicas : Insert(r) \/ SaveUpdateTree(r) \/ SaveUpdateAll(r)
    \/ Finished

Spec == Init /\ [][Next]_vars

-----------------------------------------------------------------------------
TypeOK ==
    /\ \A r \in Replicas : blk[r] \in 1..Len(Blocks) + 1
    /\ \A r \in Replicas : todo[r] \subseteq DOMAIN HashOf
    /\ \A r \in Replicas : Len(updated[r]) <= Cardinality(DOMAIN HashOf)
    /\ lastOp \in [Replicas -> {"none", "insert", "updateTree",
                                "updateAllNonLeafHashes"}]

(* After a rehash, the value a node just wrote is what its root commits to. *)
Consistent(r) == db[r][Root].hash = MerkleHash(db[r], Root)

(***************************************************************************)
(* updateAllNonLeafHashes leaves every hash on the way to the root the     *)
(* Merkle hash of the node's subtree, however the trie was built and      *)
(* whatever hashes earlier passes left.                                   *)
(***************************************************************************)
FullRehashConsistent ==
    \A r \in Replicas : lastOp[r] = "updateAllNonLeafHashes" => Consistent(r)

(***************************************************************************)
(* updateTree(allUpdatedKeys), given every key the block touched, leaves   *)
(* the root the Merkle hash of the trie (spec 4.5).  Its nodeCache and its *)
(* visited set decide which child hashes it combines.                     *)
(***************************************************************************)
IncrementalRehashConsistent ==
    \A r \in Replicas : lastOp[r] = "updateTree" => Consistent(r)

(***************************************************************************)
(* Nodes that applied the same blocks and rehashed publish the same root   *)
(* hash (spec 4.5: the root is a pure function of the contents; spec 6:   *)
(* the root is used for cross-node agreement).  Each node inserts in its  *)
(* own order.                                                              *)
(***************************************************************************)
RootAgreement ==
    \A r1, r2 \in Replicas :
        /\ blk[r1] = blk[r2] /\ blk[r1] > 1
        /\ lastOp[r1] # "insert" /\ lastOp[r2] # "insert"
        => db[r1][Root].hash = db[r2][Root].hash

=============================================================================
