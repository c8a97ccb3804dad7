---------------------------- MODULE MerkleFlush ----------------------------
(***************************************************************************)
(* scheduler::flushMapToState of singleNode-parallel (and, with one        *)
(* thread, of singleNode-serial): after a block committed, the write-set's *)
(* entries are split into chunks of ceil(n / thCount); each thread calls   *)
(* GlobalState::insert on its chunk while the others run; after the join   *)
(* the main thread calls updateParentHashes(key) for every entry.          *)
(*                                                                         *)
(* insert is a sequence of RocksDB calls: Put the leaf, then per level a   *)
(* getNode of the parent and, when the child is new, a Put of the parent   *)
(* with the child appended.  Each getNode and each Put is a step.  The    *)
(* leaf Put is folded into the first read: no other thread reads or       *)
(* writes that leaf, so it commutes with their steps.                     *)
(***************************************************************************)
EXTENDS Naturals, Sequences, SequencesExt, TLC, MerkleState

CONSTANTS Keys,         \* write-set keys (account names)
          Values,       \* their values
          HashOf,       \* Keys -> digit strings of one length: computeHash(key)
          Spelling,     \* Keys -> character strings: the key itself
          WriteSets,    \* the write-sets a committed block may leave
          ThreadCount,  \* thCount
          MaxBlocks     \* blocks flushed in one behaviour

ASSUME ThreadCount \in Nat \ {0} /\ MaxBlocks \in Nat

Threads == 0..ThreadCount-1

VARIABLES
    db,        \* the RocksDB contents of the GlobalState
    entries,   \* the write-set as iterated: a sequence of [key, value]
    phase,     \* "idle" (between blocks) or "insert"
    pos,       \* entry index (0-based) each insert thread is at
    lvl,       \* trie level each insert thread is at
    step,      \* "rd", "wr" or "done"
    local,     \* the parent node each thread read
    stored,    \* history: key -> value of every entry flushed so far
    blocks     \* blocks flushed

vars == <<db, entries, phase, pos, lvl, step, local, stored, blocks>>

(* The orders in which a write-set's entries may be iterated. *)
Orders(ws) ==
    {s \in [1..Cardinality(DOMAIN ws) -> DOMAIN ws] :
        \A i, j \in DOMAIN s : i # j => s[i] # s[j]}

(* chunkSize = (entries.size() + thCount - 1) / thCount; [start, end). *)
chunkSize(n) == (n + ThreadCount - 1) \div ThreadCount
chunkStart(t) == t * chunkSize(Len(entries))
chunkEnd(t) ==
    LET e == chunkStart(t) + chunkSize(Len(entries))
    IN  IF e < Len(entries) THEN e ELSE Len(entries)

KeyAt(t) == entries[pos[t] + 1].key
HashAt(t) == HashOf[KeyAt(t)]

Init ==
    /\ db = FreshDB
    /\ entries = <<>>
    /\ phase = "idle"
    /\ pos = [t \in Threads |-> 0]
    /\ lvl = [t \in Threads |-> 0]
    /\ step = [t \in Threads |-> "done"]
    /\ local = [t \in Threads |-> EmptyNode]
    /\ stored = <<>>
    /\ blocks = 0

(***************************************************************************)
(* flushMapToState starts: the entries are copied out of myMap and the     *)
(* threads are launched on their chunks.                                   *)
(***************************************************************************)
flushMapToState ==
    /\ phase = "idle"
    /\ blocks < MaxBlocks
    /\ \E ws \in WriteSets : \E o \in Orders(ws) :
         LET es == [i \in DOMAIN o |-> [key |-> o[i], value |-> ws[o[i]]]]
             cs == chunkSize(Len(es))
             st(t) == t * cs
             en(t) == IF st(t) + cs < Len(es) THEN st(t) + cs ELSE Len(es)
         IN  /\ entries' = es
             /\ pos' = [t \in Threads |-> st(t)]
             /\ lvl' = [t \in Threads |-> 0]
             /\ step' = [t \in Threads |-> IF st(t) < en(t) THEN "rd" ELSE "done"]
    /\ phase' = "insert"
    /\ UNCHANGED <<db, local, stored, blocks>>

(* insert, level lvl: the leaf Put (at level 0) and getNode(parent). *)
insertRead(t) ==
    LET kh == HashAt(t)
        d  == IF lvl[t] = 0 THEN Put(db, kh, LeafNode(entries[pos[t] + 1].value))
                            ELSE db
    IN  /\ step[t] = "rd"
        /\ db' = d
        /\ local' = [local EXCEPT ![t] = getNode(d, Pre(kh, lvl[t]))]
        /\ step' = [step EXCEPT ![t] = "wr"]
        /\ UNCHANGED <<entries, phase, pos, lvl, stored, blocks>>

\* Mutant: the chunk's end is not tested; the thread runs off its chunk.
AdvanceNoEnd(t) ==
    IF lvl[t] + 1 < Len(HashAt(t))
      THEN /\ lvl' = [lvl EXCEPT ![t] = @ + 1]
           /\ step' = [step EXCEPT ![t] = "rd"]
           /\ UNCHANGED pos
      ELSE /\ lvl' = [lvl EXCEPT ![t] = 0]
           /\ pos' = [pos EXCEPT ![t] = @ + 1]
           /\ step' = [step EXCEPT ![t] = "rd"]

(* Where a thread goes after the last Put of a level: the next level, the *)
(* next entry of its chunk, or the end.                                   *)
Advance(t) ==
    IF lvl[t] + 1 < Len(HashAt(t))
      THEN /\ lvl' = [lvl EXCEPT ![t] = @ + 1]
           /\ step' = [step EXCEPT ![t] = "rd"]
           /\ UNCHANGED pos
      ELSE /\ lvl' = [lvl EXCEPT ![t] = 0]
           /\ pos' = [pos EXCEPT ![t] = @ + 1]
           /\ step' = [step EXCEPT ![t] = IF pos[t] + 1 < chunkEnd(t)
                                               THEN "rd" ELSE "done"]

\* Mutant: the parent is written back under the child's key.
insertWriteChildKey(t) ==
    LET kh == HashAt(t)
        child == Pre(kh, lvl[t] + 1)
    IN  /\ step[t] = "wr"
        /\ db' = IF Contains(local[t].children, child) THEN db
                 ELSE Put(db, child, AddChild(local[t], child))
        /\ Advance(t)
        /\ UNCHANGED <<entries, phase, local, stored, blocks>>

(* insert, level lvl: if the child prefix is new, Put the parent read      *)
(* earlier with the child appended.                                        *)
insertWrite(t) ==
    LET kh == HashAt(t)
        child == Pre(kh, lvl[t] + 1)
    IN  /\ step[t] = "wr"
        /\ db' = IF Contains(local[t].children, child) THEN db
                 ELSE Put(db, Pre(kh, lvl[t]), AddChild(local[t], child))
        /\ Advance(t)
        /\ UNCHANGED <<entries, phase, local, stored, blocks>>

(***************************************************************************)
(* The threads are joined and the main thread runs                         *)
(* state.updateParentHashes(key) for every entry, with the entry's key.   *)
(***************************************************************************)
updateParentsAll ==
    /\ phase = "insert"
    /\ \A t \in Threads : step[t] = "done"
    /\ db' = FoldLeft(LAMBDA d, e : updateParentHashes(d, Spelling[e.key]),
                      db, entries)
    /\ stored' = [k \in DOMAIN stored \cup {entries[i].key : i \in DOMAIN entries} |->
                    IF \E i \in DOMAIN entries : entries[i].key = k
                      THEN (CHOOSE e \in Range(entries) : e.key = k).value
                      ELSE stored[k]]
    /\ blocks' = blocks + 1
    /\ phase' = "idle"
    /\ UNCHANGED <<entries, pos, lvl, step, local>>

(* node.cpp has run its configured number of blocks. *)
Finished ==
    /\ phase = "idle"
    /\ blocks = MaxBlocks
    /\ UNCHANGED vars

Next ==
    \/ flushMapToState
    \/ \E t \in Threads : insertRead(t) \/ insertWrite(t)
    \/ updateParentsAll
    \/ Finished

Spec == Init /\ [][Next]_vars

-----------------------------------------------------------------------------
TypeOK ==
    /\ phase \in {"idle", "insert"}
    /\ step \in [Threads -> {"rd", "wr", "done"}]
    /\ \A t \in Threads : step[t] # "done" => pos[t] \in 0..Len(entries) - 1
    /\ blocks \in 0..MaxBlocks
    /\ DOMAIN stored \subseteq Keys
    /\ \A k \in DOMAIN stored : stored[k] \in Values

(***************************************************************************)
(* Every key a flush has stored is reachable from the root along child     *)
(* lists, so the root hash covers it.  insert's read-modify-write of a    *)
(* parent's child list is what could lose a child.                        *)
(***************************************************************************)
StoredReachable ==
    phase = "idle" =>
        \A k \in DOMAIN stored : HashOf[k] \in ReachableFrom(db, Root)

(***************************************************************************)
(* After a flush the root hash is the Merkle hash of the trie: spec 4.5    *)
(* and 8 (scenarios C and D rely on it).  The parent-hash pass after the  *)
(* inserts is what must make it so.                                       *)
(***************************************************************************)
RootCommitsToState ==
    phase = "idle" => db[Root].hash = MerkleHash(db, Root)

=============================================================================
