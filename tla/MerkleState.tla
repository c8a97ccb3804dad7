---------------------------- MODULE MerkleState ----------------------------
(***************************************************************************)
(* GlobalState (singleNode-serial/merkleTree/globalState.h): a hex-prefix  *)
(* trie stored in RocksDB.  A key's leaf lives under computeHash(key); the *)
(* trie node for every prefix of that hash lists the next-longer prefix   *)
(* among its children; the root lives under "rootNode".                   *)
(*                                                                         *)
(* Strings are sequences: a key hash is a sequence of digits, a value is  *)
(* <<v>>, the empty string is <<>>, and concatenation is \o.  sha256 of a *)
(* string s is the one-character string <<[sha256 |-> s]>>: injective,   *)
(* and it never equals "" (a node created but never hashed).  The root's  *)
(* RocksDB key "rootNode" is written as the empty prefix <<>>, a key the  *)
(* code never addresses otherwise (every loop stops at an empty key).     *)
(* serializeNode/deserializeNode round-trip exactly on comma-free fields, *)
(* and every value the processors store is a decimal number.              *)
(*                                                                         *)
(* The database is a function from the keys present to nodes.  These are *)
(* the operations as the code performs them, one call at a time; the      *)
(* modules that drive them say which calls may interleave.                *)
(***************************************************************************)
EXTENDS Naturals, Sequences, SequencesExt, TLC

Root == <<>>

(* A node read from a key that is absent: {"", "", {}}. *)
EmptyNode == [value |-> <<>>, hash |-> <<>>, children |-> <<>>]

(* computeHash: sha256 rendered as a hex string. *)
computeHash(s) == <<[sha256 |-> s]>>

(* getNode: a missing key reads as the empty node. *)
getNode(db, k) == IF k \in DOMAIN db THEN db[k] ELSE EmptyNode

(* db->Put(key, serializeNode(node)). *)
Put(db, k, n) == (k :> n) @@ db

(* The constructor on a fresh path: the root {"", computeHash(""), {}}. *)
FreshDB == Root :> [value |-> <<>>, hash |-> computeHash(<<>>), children |-> <<>>]

(* The leaf insert writes first: {value, computeHash(value), {}}. *)
LeafNode(v) == [value |-> <<v>>, hash |-> computeHash(<<v>>), children |-> <<>>]

(* Prefix of length i of a key hash; length 0 is the root. *)
Pre(kh, i) == SubSeq(kh, 1, i)

(***************************************************************************)
(* One level of insert: read the parent, and if the child prefix is not in *)
(* its children, append it and write the parent back.  The read and the    *)
(* write are separate RocksDB calls.                                       *)
(***************************************************************************)
AddChild(parent, child) ==
    IF Contains(parent.children, child) THEN parent
    ELSE [parent EXCEPT !.children = Append(@, child)]

InsertLevel(db, kh, i) ==
    LET p == getNode(db, Pre(kh, i))
    IN  IF Contains(p.children, Pre(kh, i + 1)) THEN db
        ELSE Put(db, Pre(kh, i), AddChild(p, Pre(kh, i + 1)))

(* insert(key, value) as one uninterrupted call. *)
insert(db, kh, v) ==
    FoldLeft(LAMBDA d, i : InsertLevel(d, kh, i),
             Put(db, kh, LeafNode(v)),
             [j \in 1..Len(kh) |-> j - 1])

(* The concatenated hashes of a node's children, in child-list order. *)
ChildHashes(db, n) ==
    FlattenSeq([j \in 1..Len(n.children) |-> getNode(db, n.children[j]).hash])

(* One iteration of updateParentHashes' loop over a non-root key. *)
Rehash(db, k) ==
    LET n == getNode(db, k)
    IN  Put(db, k, [n EXCEPT !.hash = computeHash(ChildHashes(db, n) \o n.value)])

(* The closing root update of updateParentHashes and updateTree: the root *)
(* hash covers its children only.                                         *)
RehashRoot(db) ==
    LET n == getNode(db, Root)
    IN  Put(db, Root, [n EXCEPT !.hash = computeHash(ChildHashes(db, n))])

(***************************************************************************)
(* updateParentHashes(keyHash): pop the last character, then rehash every  *)
(* shorter prefix down to length 1, then the root.  The argument is used   *)
(* as given: whatever string the caller passes is walked.                 *)
(***************************************************************************)
updateParentHashes(db, s) ==
    RehashRoot(FoldLeft(LAMBDA d, i : Rehash(d, Pre(s, i)), db,
                        [j \in 1..Len(s) - 1 |-> Len(s) - j]))

(***************************************************************************)
(* getCachedNode: the member nodeCache answers a key it has seen, with the *)
(* node as it was when first read; a miss reads the database and caches.  *)
(* Nothing ever refreshes or clears the cache.                             *)
(***************************************************************************)
getCachedNode(db, cache, k) ==
    IF k \in DOMAIN cache THEN [node |-> cache[k], cache |-> cache]
    ELSE [node |-> getNode(db, k), cache |-> (k :> getNode(db, k)) @@ cache]

(***************************************************************************)
(* The inner loop of updateTree for one key: from the full key hash up to *)
(* length 1, stopping at a prefix already visited in this call.  Each      *)
(* node and each of its children is read through the cache; the node is   *)
(* written only if its hash changed, and the cache keeps the old copy.    *)
(***************************************************************************)
RECURSIVE updateTreeWalk(_, _)
updateTreeWalk(st, cur) ==
    IF cur = <<>> \/ cur \in st.visited THEN st
    ELSE LET me  == getCachedNode(st.db, st.cache, cur)
             acc == FoldLeft(
                      LAMBDA a, c :
                        LET g == getCachedNode(st.db, a.cache, c)
                        IN  [cache |-> g.cache, comb |-> a.comb \o g.node.hash],
                      [cache |-> me.cache, comb |-> <<>>], me.node.children)
             h   == computeHash(acc.comb \o me.node.value)
             db1 == IF me.node.hash # h
                      THEN Put(st.db, cur, [me.node EXCEPT !.hash = h])
                      ELSE st.db
         IN  updateTreeWalk([db |-> db1, cache |-> acc.cache,
                             visited |-> st.visited \cup {cur}], Front(cur))

(* updateTree(keys): the walk for every key hash in order, then the root  *)
(* from fresh reads.  Returns the database and the cache.                 *)
updateTree(db, cache, khs) ==
    LET st == FoldLeft(LAMBDA s, kh : updateTreeWalk(s, kh),
                       [db |-> db, cache |-> cache, visited |-> {}], khs)
    IN  [db |-> RehashRoot(st.db), cache |-> st.cache]

(***************************************************************************)
(* updateAllNonLeafHashes: a post-order DFS from the root.  A node is read *)
(* before its children are visited and written after, with the hash of   *)
(* its children's new hashes and its value.  A visited node answers with  *)
(* its stored hash.  The preliminary iterator pass builds maps nothing    *)
(* reads and changes no state.                                            *)
(***************************************************************************)
RECURSIVE dfs(_, _)

\* Mutant: a node's hash leaves out its value, as the root's does.
dfsNoValue(st, k) ==
    IF k \in st.visited THEN [st EXCEPT !.hash = getNode(st.db, k).hash]
    ELSE LET n   == getNode(st.db, k)
             acc == FoldLeft(
                      LAMBDA a, c :
                        LET r == dfs([db |-> a.db, visited |-> a.visited,
                                      hash |-> <<>>], c)
                        IN  [db |-> r.db, visited |-> r.visited,
                             comb |-> a.comb \o r.hash],
                      [db |-> st.db, visited |-> st.visited \cup {k},
                       comb |-> <<>>], n.children)
             h   == computeHash(acc.comb)
         IN  [db |-> Put(acc.db, k, [n EXCEPT !.hash = h]),
              visited |-> acc.visited, hash |-> h]

dfs(st, k) ==
    IF k \in st.visited THEN [st EXCEPT !.hash = getNode(st.db, k).hash]
    ELSE LET n   == getNode(st.db, k)
             acc == FoldLeft(
                      LAMBDA a, c :
                        LET r == dfs([db |-> a.db, visited |-> a.visited,
                                      hash |-> <<>>], c)
                        IN  [db |-> r.db, visited |-> r.visited,
                             comb |-> a.comb \o r.hash],
                      [db |-> st.db, visited |-> st.visited \cup {k},
                       comb |-> <<>>], n.children)
             h   == computeHash(acc.comb \o n.value)
         IN  [db |-> Put(acc.db, k, [n EXCEPT !.hash = h]),
              visited |-> acc.visited, hash |-> h]

updateAllNonLeafHashes(db) ==
    dfs([db |-> db, visited |-> {}, hash |-> <<>>], Root).db

-----------------------------------------------------------------------------
(* Reference definitions the properties compare the code with. *)

(* The Merkle hash a node must carry: spec 3, bottom-up over the trie. *)
RECURSIVE MerkleHash(_, _)
MerkleHash(db, k) ==
    LET n == getNode(db, k)
    IN  computeHash(FlattenSeq([j \in 1..Len(n.children) |->
                                  MerkleHash(db, n.children[j])]) \o n.value)

(* The keys reachable from the root along child lists. *)
RECURSIVE ReachableFrom(_, _)
ReachableFrom(db, k) ==
    {k} \cup UNION {ReachableFrom(db, getNode(db, k).children[j]) :
                        j \in 1..Len(getNode(db, k).children)}

=============================================================================
