------------------------- MODULE FollowerProcessors -------------------------
(***************************************************************************)
(* The family processors of the BlockRAFT follower's scheduler            *)
(* (scheduler::executeTxns dispatching to eCommProcessor and             *)
(* NFTProcessor of the distributed node) running on several worker       *)
(* threads over the one write-set myMap, a tbb::concurrent_hash_map.      *)
(* An accessor on a key is that key's exclusive lock from the find or     *)
(* insert that takes it to the end of its scope; a thread that asks for  *)
(* a key held by an accessor, its own included, waits.                   *)
(*                                                                         *)
(* The block is made by the producer clients (Clients).  Which            *)
(* transactions may run at once is the DAG's: a transaction is claimed   *)
(* once every earlier one it conflicts with has completed (ConflictGraph  *)
(* on the header addresses).  How selectTxn and complete bring that       *)
(* about, and the status put, completeFlag and the monitor, are           *)
(* FollowerExecution's.  The processors read St, the GlobalState the      *)
(* scheduler was given.                                                   *)
(*                                                                         *)
(* A critical section (an accessor's scope) is one step.  eComm's         *)
(* getOrLoadValue and updateValue are two sections with the value        *)
(* computed between them; transferNFT holds the old owner's accessor      *)
(* while it takes the new owner's.                                        *)
(***************************************************************************)
EXTENDS Integers, Sequences, FiniteSets, Clients, ConflictGraph

CONSTANTS N,        \* transactions in the block
          Workers,  \* the scheduler's worker threads
          Lines,    \* the commands the producer's clients may be given
          St        \* the GlobalState the processors read

Txn == 0..N-1

VARIABLES
    txns,     \* the block's transactions
    myMap,    \* the scheduler's write-set
    held,     \* worker -> the keys its live accessors hold
    pc,       \* worker -> where it is in executeTxns and the processor
    cur,      \* worker -> the transaction it runs
    loaded,   \* worker -> the value getOrLoadValue returned
    status,   \* transaction -> "ready", "claimed" or "done"
    flag      \* the scheduler's atomic flag

vars == <<txns, myMap, held, pc, cur, loaded, status, flag>>

(* The transaction a producer client makes of a command line. *)
LineTxn(l) == IF l[1] = "nft" THEN nftClient(Tail(l)) ELSE eCommClient(Tail(l), {})

(* Keys held by accessors of workers other than w. *)
HeldByOthers(w) == UNION {held[v] : v \in Workers \ {w}}

(* The key an accessor is taken on: nothing held, not even by the asker. *)
Free(k) == \A v \in Workers : k \notin held[v]

-----------------------------------------------------------------------------
(***************************************************************************)
(* NFTProcessor::transferNFT of the distributed node: the old owner's     *)
(* list comes from getOrLoadOwnerNFTList, so from the state when myMap    *)
(* lacks it; the new owner's list is loaded while the old owner's         *)
(* accessor is held.  As a function of the write-set, for the serial     *)
(* order.                                                                 *)
(***************************************************************************)
dnTransferNFT(m, st, path, oldOwner, newOwner) ==
    LET h  == ImageHash[path]
        g1 == getOrLoadOwnerNFTList(m, st, oldOwner)
    IN  IF h = Empty THEN Result(FALSE, m)
        ELSE IF ~Contains(g1.val, h) THEN Result(FALSE, g1.map)
        ELSE LET m1 == [g1.map EXCEPT ![oldOwner] = [nfts |-> RemoveFirst(g1.val, h)]]
                 g2 == getOrLoadOwnerNFTList(m1, st, newOwner)
             IN  Result(TRUE, [g2.map EXCEPT ![newOwner] = [nfts |-> Append(g2.val, h)]])

(* executeTxns' dispatch on the family, as one call. *)
dnProcessTxn(m, st, tx) ==
    CASE tx.family = "eComm" -> eCommProcessTxn(m, st, tx)
      [] tx.family = "nft" /\ tx.verb = "nft_transfer" ->
            dnTransferNFT(m, st, tx.value, tx.name, tx.name2)
      [] tx.family = "nft" -> nftProcessTxn(m, st, tx)
      [] OTHER -> Result(FALSE, m)

(* updateValue is called unless checkout finds the cart empty or the verb *)
(* failed.                                                                *)
eCommWrites(tx, v, r) == r.ok /\ ~(tx.verb = "checkout" /\ v = Empty)

-----------------------------------------------------------------------------
Init ==
    /\ txns \in [Txn -> {LineTxn(l) : l \in Lines}]
    /\ myMap = [k \in {} |-> Empty]
    /\ held = [w \in Workers |-> {}]
    /\ pc = [w \in Workers |-> "loop"]
    /\ cur = [w \in Workers |-> -1]
    /\ loaded = [w \in Workers |-> Empty]
    /\ status = [t \in Txn |-> "ready"]
    /\ flag = TRUE

(* Finishing a transaction: flag.store(result), dag.complete(txnId). *)
Done(w, ok) ==
    /\ flag' = ok
    /\ status' = [status EXCEPT ![cur[w]] = "done"]
    /\ pc' = [pc EXCEPT ![w] = "loop"]
    /\ cur' = [cur EXCEPT ![w] = -1]

(* The transactions selectTxn may hand out. *)
Claimable == {t \in Txn : status[t] = "ready" /\ \A i \in Preds(txns, Txn, t) : status[i] = "done"}

(***************************************************************************)
(* executeTxns: while flag holds, a worker claims a transaction the DAG   *)
(* has released and dispatches on its family and verb; when selectTxn    *)
(* returns -1 it goes round the loop again.                              *)
(***************************************************************************)
executeTxns(w) ==
    /\ pc[w] = "loop"
    /\ IF ~flag
         THEN /\ pc' = [pc EXCEPT ![w] = "exit"]
              /\ UNCHANGED <<cur, status>>
         ELSE IF Claimable = {}
         THEN UNCHANGED <<pc, cur, status>>
         ELSE \E t \in Claimable :
                /\ status' = [status EXCEPT ![t] = "claimed"]
                /\ cur' = [cur EXCEPT ![w] = t]
                /\ pc' = [pc EXCEPT ![w] =
                            CASE txns[t].family = "eComm"        -> "load"
                              [] txns[t].verb = "nft_transfer"   -> "old"
                              [] OTHER                           -> "create"]
    /\ UNCHANGED <<txns, myMap, held, loaded, flag>>

(***************************************************************************)
(* createNFT: an unreadable image fails before any accessor; otherwise   *)
(* the owner's accessor is taken, the list loaded, the hash appended      *)
(* unless present, and the accessor released on return.                   *)
(***************************************************************************)
createNFT_(w) ==
    LET tx == txns[cur[w]]
        r  == nftProcessTxn(myMap, St, tx)
    IN  /\ pc[w] = "create"
        /\ ImageHash[tx.value] # Empty => Free(tx.name)
        /\ myMap' = r.map
        /\ Done(w, r.ok)
        /\ UNCHANGED <<txns, held, loaded>>

(***************************************************************************)
(* transferNFT, first section: oldAcc taken and the old owner's list      *)
(* loaded; a hash it lacks returns false.  Otherwise the hash is erased   *)
(* and written back with oldAcc still held.                               *)
(***************************************************************************)
transferOld(w) ==
    LET tx == txns[cur[w]]
        h  == ImageHash[tx.value]
        g1 == getOrLoadOwnerNFTList(myMap, St, tx.name)
    IN  /\ pc[w] = "old"
        /\ IF h = Empty
             THEN /\ Done(w, FALSE)
                  /\ UNCHANGED <<myMap, held>>
             ELSE /\ Free(tx.name)
                  /\ IF Contains(g1.val, h)
                       THEN /\ myMap' = [g1.map EXCEPT ![tx.name] =
                                           [nfts |-> RemoveFirst(g1.val, h)]]
                            /\ held' = [held EXCEPT ![w] = {tx.name}]
                            /\ pc' = [pc EXCEPT ![w] = "new"]
                            /\ UNCHANGED <<flag, status, cur>>
                       ELSE /\ myMap' = g1.map
                            /\ Done(w, FALSE)
                            /\ UNCHANGED held
        /\ UNCHANGED <<txns, loaded>>

\* Mutant: the old owner's accessor outlives transferNFT.
transferNewKeep(w) ==
    LET tx == txns[cur[w]]
        g2 == getOrLoadOwnerNFTList(myMap, St, tx.name2)
    IN  /\ pc[w] = "new"
        /\ Free(tx.name2)
        /\ myMap' = [g2.map EXCEPT ![tx.name2] =
                       [nfts |-> Append(g2.val, ImageHash[tx.value])]]
        /\ UNCHANGED held
        /\ Done(w, TRUE)
        /\ UNCHANGED <<txns, loaded>>

(***************************************************************************)
(* transferNFT, second section: newAcc on the new owner, the hash         *)
(* appended, and both accessors released on return.                       *)
(***************************************************************************)
transferNew(w) ==
    LET tx == txns[cur[w]]
        g2 == getOrLoadOwnerNFTList(myMap, St, tx.name2)
    IN  /\ pc[w] = "new"
        /\ Free(tx.name2)
        /\ myMap' = [g2.map EXCEPT ![tx.name2] =
                       [nfts |-> Append(g2.val, ImageHash[tx.value])]]
        /\ held' = [held EXCEPT ![w] = {}]
        /\ Done(w, TRUE)
        /\ UNCHANGED <<txns, loaded>>

(* eCommProcessor::getOrLoadValue: find, or the state's value inserted. *)
getOrLoadValue_(w) ==
    LET tx == txns[cur[w]]
        g  == getOrLoadValue(myMap, St, tx.name)
    IN  /\ pc[w] = "load"
        /\ Free(tx.name)
        /\ myMap' = g.map
        /\ loaded' = [loaded EXCEPT ![w] = g.val]
        /\ pc' = [pc EXCEPT ![w] = "update"]
        /\ UNCHANGED <<txns, held, cur, status, flag>>

(***************************************************************************)
(* The verb computes the new value from the one loaded, and updateValue   *)
(* writes it under a fresh accessor: what another worker wrote to the     *)
(* key in between is overwritten.                                         *)
(***************************************************************************)
updateValue(w) ==
    LET tx == txns[cur[w]]
        r  == eCommProcessTxn(tx.name :> loaded[w], St, tx)
    IN  /\ pc[w] = "update"
        /\ IF eCommWrites(tx, loaded[w], r)
             THEN /\ Free(tx.name)
                  /\ myMap' = [myMap EXCEPT ![tx.name] = r.map[tx.name]]
             ELSE UNCHANGED myMap
        /\ Done(w, r.ok)
        /\ UNCHANGED <<txns, held, loaded>>

(* Every transaction has completed, or every worker has left its loop. *)
Finished ==
    /\ \/ \A t \in Txn : status[t] = "done"
       \/ \A w \in Workers : pc[w] = "exit"
    /\ \A w \in Workers : pc[w] \in {"loop", "exit"}
    /\ UNCHANGED vars

Next ==
    \/ \E w \in Workers :
          \/ executeTxns(w) \/ createNFT_(w) \/ transferOld(w) \/ transferNew(w)
          \/ getOrLoadValue_(w) \/ updateValue(w)
    \/ Finished

Spec == Init /\ [][Next]_vars

FairSpec == Spec /\ \A w \in Workers : WF_vars(executeTxns(w) \/ createNFT_(w)
                        \/ transferOld(w) \/ transferNew(w)
                        \/ getOrLoadValue_(w) \/ updateValue(w))

-----------------------------------------------------------------------------
TypeOK ==
    /\ pc \in [Workers -> {"loop", "create", "old", "new", "load", "update", "exit"}]
    /\ status \in [Txn -> {"ready", "claimed", "done"}]
    /\ flag \in BOOLEAN

(* The serial result: the block's transactions one after another. *)
SerialMap == FoldLeft(LAMBDA m, t : dnProcessTxn(m, St, txns[t]).map,
                      [k \in {} |-> Empty], [i \in 1..N |-> i - 1])

(***************************************************************************)
(* Spec 5: the write-set a block leaves is what running its transactions *)
(* one after another would leave.  Transactions the DAG lets run at once  *)
(* must touch disjoint keys; eComm's load and write are two critical      *)
(* sections with another worker's writes possible between them.         *)
(***************************************************************************)
BlockSerializable ==
    (\A t \in Txn : status[t] = "done") => myMap = SerialMap

(***************************************************************************)
(* A worker never waits for an accessor another worker holds: the         *)
(* headers make any two transactions that touch one key conflict, so the  *)
(* DAG never runs them at once.                                           *)
(***************************************************************************)
NoCrossWorkerWait ==
    \A w \in Workers :
        LET tx == txns[cur[w]]
        IN  /\ pc[w] \in {"create", "old", "load", "update"} => tx.name \notin HeldByOthers(w)
            /\ pc[w] = "new" => tx.name2 \notin HeldByOthers(w)

(***************************************************************************)
(* Every transaction of the block completes or the block is abandoned on  *)
(* a failure: no worker waits forever inside a processor.                 *)
(***************************************************************************)
BlockCompletes ==
    <>(\/ \A t \in Txn : status[t] = "done"
       \/ \A w \in Workers : pc[w] = "exit")

=============================================================================
