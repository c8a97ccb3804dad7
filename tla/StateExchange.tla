--------------------------- MODULE StateExchange ---------------------------
(***************************************************************************)
(* How a committed block's writes reach the GlobalState of every node of   *)
(* the BlockRAFT cluster.  A follower that has run its components puts its *)
(* write-set myMap into etcd under <block>/data/<node_id>                 *)
(* (scheduler::dataStore, a serialised AddressValueList); after commit =  *)
(* "1" the leader (leader::saveData) and each follower (follower::saveData) *)
(* fetch <block>/data/s<i> for every member i, split each value into       *)
(* "key=value" pairs at ';' and insert them.                               *)
(*                                                                         *)
(* A string is a sequence of bytes (0..255).  The AddressValueList is     *)
(* written in the protobuf wire format: each pair a length-delimited field *)
(* 1 holding address (field 1) and value (field 2), a field equal to "" left *)
(* out.  A process may hold a RocksDB path open once: a second open of the  *)
(* same path in one process fails, and GlobalState's constructor then      *)
(* throws.  GlobalState contents are key/value functions; how insert and   *)
(* updateTree rebuild the trie is the subject of MerkleFlush and           *)
(* MerkleRehash.                                                          *)
(***************************************************************************)
EXTENDS Integers, Sequences, SequencesExt

CONSTANTS Members,     \* cluster size: the members are s0 .. s(Members-1)
          WriteSets,   \* follower -> the write-sets its workers may leave
          InitState    \* the contents of every node's "globalState"

Node == 0..Members - 1
Leader == 0
Followers == Node \ {Leader}

ASSUME Members \in Nat \ {0}

VARIABLES
    myMap,    \* follower -> its scheduler's write-set after execution
    data,     \* etcd: member -> the value of <block>/data/s<member>
    commit,   \* etcd: <block>/commit
    st,       \* node -> contents of its "globalState"
    tmp,      \* follower -> contents of its "globalState_tmp"
    opened,   \* node -> the RocksDB paths its process holds open
    pc        \* node -> where it is in the block

vars == <<myMap, data, commit, st, tmp, opened, pc>>

Empty == <<>>
SEMI == 59   \* ';'
EQ == 61     \* '='

-----------------------------------------------------------------------------
(* Protobuf base-128 varint of a length. *)
RECURSIVE Varint(_)
Varint(n) == IF n < 128 THEN <<n>> ELSE <<(n % 128) + 128>> \o Varint(n \div 128)

(* A length-delimited field with tag byte t; "" is not written. *)
LenField(t, s) == IF s = Empty THEN <<>> ELSE <<t>> \o Varint(Len(s)) \o s

(***************************************************************************)
(* dataStore: one AddressValue per entry of myMap, in the order the       *)
(* concurrent_hash_map iterates, serialised with SerializeToString.        *)
(***************************************************************************)
SerializeAddressValueList(pairs) ==
    FlattenSeq([i \in 1..Len(pairs) |->
        LET e == LenField(10, pairs[i][1]) \o LenField(18, pairs[i][2])
        IN  <<10>> \o Varint(Len(e)) \o e])

(* The orders in which a write-set may be iterated. *)
Orders(m) == {[i \in 1..Len(o) |-> <<o[i], m[o[i]]>>] : o \in SetToSeqs(DOMAIN m)}

(***************************************************************************)
(* std::getline(ss, pair, ';') until the stream is exhausted: a trailing  *)
(* ';' ends the last piece, and an empty stream gives none.               *)
(***************************************************************************)
RECURSIVE getlinePieces(_, _)
getlinePieces(s, d) ==
    IF s = <<>> THEN <<>>
    ELSE LET i == SelectInSeq(s, LAMBDA b : b = d)
         IN  IF i = 0 THEN <<s>>
             ELSE <<SubSeq(s, 1, i - 1)>> \o getlinePieces(SubSeq(s, i + 1, Len(s)), d)

(***************************************************************************)
(* fetchAndParseKeys: a missing key reads as ""; every piece with an '='  *)
(* is key (before the first '=') and value (after it); the others are      *)
(* skipped.                                                               *)
(***************************************************************************)
fetchAndParseKeys(i) ==
    LET value  == IF i \in DOMAIN data THEN data[i] ELSE Empty
        pieces == SelectSeq(getlinePieces(value, SEMI), LAMBDA p : \E j \in 1..Len(p) : p[j] = EQ)
        at(p)  == SelectInSeq(p, LAMBDA b : b = EQ)
    IN  [j \in 1..Len(pieces) |->
            <<SubSeq(pieces[j], 1, at(pieces[j]) - 1),
              SubSeq(pieces[j], at(pieces[j]) + 1, Len(pieces[j]))>>]

(* state.insert(key, value) for each parsed pair, in order. *)
insertAll(s, pairs) ==
    FoldLeft(LAMBDA acc, p : (p[1] :> p[2]) @@ acc, s, pairs)

(* The fetch threads of saveData, one per member, joined before the tree  *)
(* is rehashed; their inserts land in the one GlobalState.               *)
SavedPairs == FlattenSeq([i \in 1..Members |-> fetchAndParseKeys(i - 1)])

-----------------------------------------------------------------------------
Init ==
    /\ myMap \in [Followers -> UNION {WriteSets[f] : f \in Followers}]
    /\ \A f \in Followers : myMap[f] \in WriteSets[f]
    /\ data = [i \in {} |-> Empty]
    /\ commit = "0"
    /\ st = [n \in Node |-> InitState]
    /\ tmp = [f \in Followers |-> InitState]
    /\ opened = [n \in Node |-> {}]
    /\ pc = [n \in Node |-> IF n = Leader THEN "wait" ELSE "init"]

(***************************************************************************)
(* follower::follower: the members state ("globalState") and tmp          *)
(* ("globalState_tmp") are opened first, then duplicateState opens        *)
(* "globalState_tmp" a second time, fails and copies nothing: tmp keeps  *)
(* what the path held (nothing, after the last saveData removed it).      *)
(***************************************************************************)
follower(f) ==
    /\ pc[f] = "init"
    /\ opened' = [opened EXCEPT ![f] = {"globalState", "globalState_tmp"}]
    /\ tmp' = [tmp EXCEPT ![f] = IF "globalState_tmp" \in opened'[f]
                                   THEN [k \in {} |-> Empty] ELSE st[f]]
    /\ pc' = [pc EXCEPT ![f] = "exec"]
    /\ UNCHANGED <<myMap, data, commit, st>>

(* The worker that sees every own transaction completed puts myMap. *)
dataStore(f) ==
    /\ pc[f] = "exec"
    /\ \E o \in Orders(myMap[f]) :
         data' = (f :> SerializeAddressValueList(o)) @@ data
    /\ pc' = [pc EXCEPT ![f] = "stored"]
    /\ UNCHANGED <<myMap, commit, st, tmp, opened>>

(* checkComponents has seen every status, run = "finish", commit = "1". *)
leaderCommit ==
    /\ pc[Leader] = "wait"
    /\ \A f \in Followers : pc[f] \in {"stored", "done"}
    /\ commit' = "1"
    /\ pc' = [pc EXCEPT ![Leader] = "commit"]
    /\ UNCHANGED <<myMap, data, st, tmp, opened>>

(* leader::saveData: a local GlobalState on "globalState", which the      *)
(* leader's process does not otherwise hold open.                         *)
leaderSaveData ==
    /\ pc[Leader] = "commit"
    /\ "globalState" \notin opened[Leader]
    /\ st' = [st EXCEPT ![Leader] = insertAll(@, SavedPairs)]
    /\ pc' = [pc EXCEPT ![Leader] = "done"]
    /\ UNCHANGED <<myMap, data, commit, tmp, opened>>

(***************************************************************************)
(* startBlock reads commit after its workers stop; "1" calls saveData,    *)
(* whose local GlobalState opens "globalState" while the member state     *)
(* holds it: the constructor throws and startBlock's catch returns.       *)
(* Otherwise the pairs go into the local state, tmp is rehashed and       *)
(* state.replaceWith("globalState_tmp") makes tmp's contents the state.   *)
(***************************************************************************)
followerSaveData(f) ==
    /\ pc[f] = "stored"
    /\ commit = "1"
    /\ IF "globalState" \in opened[f]
         THEN UNCHANGED st
         ELSE st' = [st EXCEPT ![f] = tmp[f]]
    /\ opened' = [opened EXCEPT ![f] = {}]
    /\ pc' = [pc EXCEPT ![f] = "done"]
    /\ UNCHANGED <<myMap, data, commit, tmp>>

Finished ==
    /\ \A n \in Node : pc[n] = "done"
    /\ UNCHANGED vars

Next ==
    \/ \E f \in Followers : follower(f) \/ dataStore(f) \/ followerSaveData(f)
    \/ leaderCommit
    \/ leaderSaveData
    \/ Finished

Spec == Init /\ [][Next]_vars

-----------------------------------------------------------------------------
TypeOK ==
    /\ commit \in {"0", "1"}
    /\ DOMAIN data \subseteq Followers
    /\ pc \in [Node -> {"init", "exec", "stored", "wait", "commit", "done"}]

(***************************************************************************)
(* A block the leader commits is in every node's state once the node has  *)
(* finished with it: every pair a follower's workers wrote, and dataStore *)
(* put into etcd, is in the GlobalState of each node whose saveData has   *)
(* returned.  Spec 4.5: the state swaps in the block's writes on commit.  *)
(***************************************************************************)
CommittedWritesSaved ==
    \A n \in Node : pc[n] = "done" =>
        \A f \in Followers : \A k \in DOMAIN myMap[f] :
            k \in DOMAIN st[n] /\ st[n][k] = myMap[f][k]

=============================================================================
