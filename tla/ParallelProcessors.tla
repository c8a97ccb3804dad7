------------------------- MODULE ParallelProcessors -------------------------
(***************************************************************************)
(* The wallet and voting processors of singleNode-parallel run by the     *)
(* scheduler's worker threads (scheduler::executeTxns) over the one       *)
(* write-set myMap, a tbb::concurrent_hash_map.  ParallelScheduler        *)
(* abstracts a processor call to its result; here it is the sequence of  *)
(* accessor scopes it really is.  A scope (find or insert to the end of   *)
(* the block) is one step.  getOrLoadBalance and getOrLoadVoteCount are   *)
(* two scopes when the key is missing: the find, then the insert of the  *)
(* state's value, which keeps what another thread inserted in between    *)
(* and still returns the state's value.  The new values are computed     *)
(* from the loaded ones and written back under fresh accessors.           *)
(*                                                                         *)
(* The parallel tree has processors for these two families only (its     *)
(* scheduler's eComm and nft includes name files it lacks).  Its voting  *)
(* transactions come from testBp/votingClient.h; it has no wallet client, *)
(* so wallet lines are made by the serial tree's client (Clients).        *)
(* Which transactions may run at once is the DAG's: one is claimed once  *)
(* every earlier one it conflicts with has completed (ConflictGraph).     *)
(***************************************************************************)
EXTENDS Integers, Sequences, FiniteSets, Clients, ConflictGraph

CONSTANTS N,        \* transactions in the block
          Workers,  \* the scheduler's worker threads
          Lines,    \* the commands the clients may be given
          St        \* the GlobalState the processors read

Txn == 0..N-1

VARIABLES
    txns,     \* the block's transactions
    myMap,    \* the scheduler's write-set
    pc,       \* worker -> where it is in executeTxns and the processor
    cur,      \* worker -> the transaction it runs
    got,      \* worker -> the values its getOrLoad calls returned so far
    pend,     \* worker -> the state's value a missing key is inserted with
    wr,       \* worker -> the <<key, value>> writes still to make
    status,   \* transaction -> "ready", "claimed" or "done"
    flag      \* the scheduler's atomic flag

vars == <<txns, myMap, pc, cur, got, pend, wr, status, flag>>

(***************************************************************************)
(* votingClient::processCommand of singleNode-parallel/testBp: as the     *)
(* distributed producer's, except that an unknown verb gets the payload   *)
(* {"Verb": "empty"}.                                                      *)
(***************************************************************************)
pVotingClient(c) ==
    IF c[1] \in {"registerVoter", "registerCandidate", "transferVote", "castVote"}
      THEN votingClient(c) ELSE NotFound("voting", "empty")

(* The transaction a client makes of a command line. *)
LineTxn(l) == IF l[1] = "wallet" THEN walletClient(Tail(l)) ELSE pVotingClient(Tail(l))

-----------------------------------------------------------------------------
(***************************************************************************)
(* How ProcessTxn starts: a registration is one insert scope; a verb      *)
(* nobody knows, or a transfer whose amount std::stoi rejects (it is      *)
(* parsed before any balance is loaded), returns false at once; the rest  *)
(* load their keys first.                                                 *)
(***************************************************************************)
Shape(tx) ==
    CASE tx.verb \in {"registerVoter", "registerCandidate"} -> "register"
      [] tx.verb \in {"transfer", "transferVote"} /\ tx.value = NaN -> "fail"
      [] tx.verb \in {"deposit", "withdraw", "transfer", "transferVote", "castVote"} -> "loads"
      [] OTHER -> "fail"

(* The keys a verb loads, in order. *)
Loads(tx) == IF tx.verb \in {"deposit", "withdraw"} THEN <<tx.name>> ELSE <<tx.name, tx.name2>>

(* The value a registration inserts. *)
RegisterValue(tx) == IF tx.verb = "registerVoter" THEN 1 ELSE 0

Outcome(ok, writes) == [ok |-> ok, writes |-> writes]

(***************************************************************************)
(* What a verb makes of the loaded values g: whether it succeeds and the  *)
(* writes it makes.  deposit and withdraw parse the amount after the      *)
(* load; the two-key verbs write the first key and then the second from   *)
(* the values loaded, so with one key twice the second write wins.        *)
(***************************************************************************)
Decide(tx, g) ==
    CASE tx.verb = "deposit" ->
            IF tx.value = NaN THEN Outcome(FALSE, <<>>)
            ELSE Outcome(TRUE, <<<<tx.name, g[1] + tx.value>>>>)
      [] tx.verb = "withdraw" ->
            IF tx.value # NaN /\ g[1] >= tx.value
              THEN Outcome(TRUE, <<<<tx.name, g[1] - tx.value>>>>)
              ELSE Outcome(FALSE, <<>>)
      [] tx.verb \in {"transfer", "transferVote"} ->
            IF g[1] >= tx.value
              THEN Outcome(TRUE, <<<<tx.name, g[1] - tx.value>>, <<tx.name2, g[2] + tx.value>>>>)
              ELSE Outcome(FALSE, <<>>)
      [] tx.verb = "castVote" ->
            IF g[1] >= 1
              THEN Outcome(TRUE, <<<<tx.name, g[1] - 1>>, <<tx.name2, g[2] + 1>>>>)
              ELSE Outcome(FALSE, <<>>)

-----------------------------------------------------------------------------
Init ==
    /\ txns \in [Txn -> {LineTxn(l) : l \in Lines}]
    /\ myMap = [k \in {} |-> 0]
    /\ pc = [w \in Workers |-> "loop"]
    /\ cur = [w \in Workers |-> -1]
    /\ got = [w \in Workers |-> <<>>]
    /\ pend = [w \in Workers |-> 0]
    /\ wr = [w \in Workers |-> <<>>]
    /\ status = [t \in Txn |-> "ready"]
    /\ flag = TRUE

(* if (!localSuccess) flag.store(false); dag.complete(txnId). *)
Done(w, ok) ==
    /\ flag' = (flag /\ ok)
    /\ status' = [status EXCEPT ![cur[w]] = "done"]
    /\ pc' = [pc EXCEPT ![w] = "loop"]
    /\ cur' = [cur EXCEPT ![w] = -1]

(* The transactions selectTxn may hand out. *)
Claimable == {t \in Txn : status[t] = "ready" /\ \A i \in Preds(txns, Txn, t) : status[i] = "done"}

(***************************************************************************)
(* executeTxns: while completedTxns < totalTxns and flag holds, a worker  *)
(* claims a transaction the DAG has released; selectTxn's -1 sends it     *)
(* round the loop again.                                                  *)
(***************************************************************************)
executeTxns(w) ==
    /\ pc[w] = "loop"
    /\ IF ~flag \/ \A t \in Txn : status[t] = "done"
         THEN /\ pc' = [pc EXCEPT ![w] = "exit"]
              /\ UNCHANGED <<cur, status>>
         ELSE IF Claimable = {}
         THEN UNCHANGED <<pc, cur, status>>
         ELSE \E t \in Claimable :
                /\ status' = [status EXCEPT ![t] = "claimed"]
                /\ cur' = [cur EXCEPT ![w] = t]
                /\ pc' = [pc EXCEPT ![w] = "start"]
    /\ UNCHANGED <<txns, myMap, got, pend, wr, flag>>

(* An unknown verb or an unparsable transfer amount: false, no accessor. *)
failFast(w) ==
    /\ pc[w] = "start"
    /\ Shape(txns[cur[w]]) = "fail"
    /\ Done(w, FALSE)
    /\ UNCHANGED <<txns, myMap, got, pend, wr>>

(***************************************************************************)
(* registerVoter and registerCandidate: myMap.insert; true and the        *)
(* initial value if the key was new, false if myMap had it.               *)
(***************************************************************************)
register(w) ==
    LET tx == txns[cur[w]]
    IN  /\ pc[w] = "start"
        /\ Shape(tx) = "register"
        /\ IF tx.name \in DOMAIN myMap
             THEN /\ Done(w, FALSE)
                  /\ UNCHANGED myMap
             ELSE /\ myMap' = (tx.name :> RegisterValue(tx)) @@ myMap
                  /\ Done(w, TRUE)
        /\ UNCHANGED <<txns, got, pend, wr>>

startLoads(w) ==
    /\ pc[w] = "start"
    /\ Shape(txns[cur[w]]) = "loads"
    /\ pc' = [pc EXCEPT ![w] = "find"]
    /\ got' = [got EXCEPT ![w] = <<>>]
    /\ UNCHANGED <<txns, myMap, cur, pend, wr, status, flag>>

(* Where a worker goes once it holds the loaded values g. *)
AfterLoad(w, g) == IF Len(g) < Len(Loads(txns[cur[w]])) THEN "find" ELSE "decide"

(***************************************************************************)
(* getOrLoad, the find scope: a key in myMap gives its value; a missing   *)
(* one sends the worker to insert the state's value.                      *)
(***************************************************************************)
find(w) ==
    LET k == Loads(txns[cur[w]])[Len(got[w]) + 1]
    IN  /\ pc[w] = "find"
        /\ IF k \in DOMAIN myMap
             THEN /\ got' = [got EXCEPT ![w] = Append(@, myMap[k])]
                  /\ pc' = [pc EXCEPT ![w] = AfterLoad(w, got'[w])]
                  /\ UNCHANGED pend
             ELSE /\ pend' = [pend EXCEPT ![w] = NumOrZero(getValue(St, k))]
                  /\ pc' = [pc EXCEPT ![w] = "insert"]
                  /\ UNCHANGED got
        /\ UNCHANGED <<txns, myMap, cur, wr, status, flag>>

(* getOrLoad, the insert scope: the state's value goes in unless the key *)
(* is there by now, and is what the call returns either way.             *)
insert(w) ==
    LET k == Loads(txns[cur[w]])[Len(got[w]) + 1]
    IN  /\ pc[w] = "insert"
        /\ myMap' = IF k \in DOMAIN myMap THEN myMap ELSE (k :> pend[w]) @@ myMap
        /\ got' = [got EXCEPT ![w] = Append(@, pend[w])]
        /\ pc' = [pc EXCEPT ![w] = AfterLoad(w, got'[w])]
        /\ UNCHANGED <<txns, cur, pend, wr, status, flag>>

(* The verb's test on the loaded values; a failing one returns false. *)
decide(w) ==
    LET o == Decide(txns[cur[w]], got[w])
    IN  /\ pc[w] = "decide"
        /\ IF o.ok
             THEN /\ wr' = [wr EXCEPT ![w] = o.writes]
                  /\ pc' = [pc EXCEPT ![w] = "write"]
                  /\ UNCHANGED <<cur, status, flag>>
             ELSE /\ Done(w, FALSE)
                  /\ UNCHANGED wr
        /\ UNCHANGED <<txns, myMap, got, pend>>

(***************************************************************************)
(* One write scope: insert-or-find (wallet) or find (voting; the key was  *)
(* inserted by the load and nothing erases), and the computed value       *)
(* stored whatever the key holds now.  The last write returns true.       *)
(***************************************************************************)
write(w) ==
    LET kv == Head(wr[w])
    IN  /\ pc[w] = "write"
        /\ myMap' = (kv[1] :> kv[2]) @@ myMap
        /\ wr' = [wr EXCEPT ![w] = Tail(@)]
        /\ IF Len(wr[w]) = 1
             THEN Done(w, TRUE)
             ELSE UNCHANGED <<pc, cur, status, flag>>
        /\ UNCHANGED <<txns, got, pend>>

(* Every worker has left its loop: schedulTxns joins them. *)
Finished ==
    /\ \A w \in Workers : pc[w] = "exit"
    /\ UNCHANGED vars

Step(w) ==
    \/ executeTxns(w) \/ failFast(w) \/ register(w) \/ startLoads(w)
    \/ find(w) \/ insert(w) \/ decide(w) \/ write(w)

Next == (\E w \in Workers : Step(w)) \/ Finished

Spec == Init /\ [][Next]_vars

-----------------------------------------------------------------------------
TypeOK ==
    /\ pc \in [Workers -> {"loop", "start", "find", "insert", "decide", "write", "exit"}]
    /\ status \in [Txn -> {"ready", "claimed", "done"}]
    /\ flag \in BOOLEAN

(* getOrLoad on every key of ks in turn, as one call: [map, vals]. *)
RECURSIVE LoadAll(_, _)
LoadAll(m, ks) ==
    IF ks = <<>> THEN [map |-> m, vals |-> <<>>]
    ELSE LET k    == Head(ks)
             v    == IF k \in DOMAIN m THEN m[k] ELSE NumOrZero(getValue(St, k))
             rest == LoadAll((k :> v) @@ m, Tail(ks))
         IN  [map |-> rest.map, vals |-> <<v>> \o rest.vals]

(* A transaction's processor call with nothing running beside it. *)
SerialStep(m, tx) ==
    CASE Shape(tx) = "register" ->
            IF tx.name \in DOMAIN m THEN m ELSE (tx.name :> RegisterValue(tx)) @@ m
      [] Shape(tx) = "loads" ->
            LET l == LoadAll(m, Loads(tx))
                o == Decide(tx, l.vals)
            IN  FoldLeft(LAMBDA acc, kv : (kv[1] :> kv[2]) @@ acc, l.map, o.writes)
      [] OTHER -> m

(* The serial result: the block's transactions in block order. *)
SerialMap == FoldLeft(LAMBDA m, t : SerialStep(m, txns[t]),
                      [k \in {} |-> 0], [i \in 1..N |-> i - 1])

(***************************************************************************)
(* A block that succeeds leaves the write-set that running its            *)
(* transactions one after another leaves.  A transfer, transferVote or    *)
(* castVote loads two balances in separate accessor scopes and writes     *)
(* them in two more, and deposit loads and writes in two: only the DAG    *)
(* keeps another worker off those keys in between, and it does so only   *)
(* for the keys the client's header names.                                *)
(***************************************************************************)
BlockSerializable ==
    (flag /\ \A t \in Txn : status[t] = "done") => myMap = SerialMap


=============================================================================
