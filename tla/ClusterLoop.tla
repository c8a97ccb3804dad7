---------------------------- MODULE ClusterLoop ----------------------------
(***************************************************************************)
(* Every member of a BlockRAFT cluster runs node.cpp's main loop.  Each    *)
(* turn it asks etcd whether it is the raft leader (findLeader).  The      *)
(* leader runs leader::leaderProtocol for one block: the round's keys go   *)
(* under <node_id>/<raftTerm>/<block_num>, the components go to the other  *)
(* members, run = start, checkComponents waits for the statuses, then run  *)
(* = finish, commit = 1, storeBlock, count++.  The leader's leaderTTL      *)
(* thread keeps CurrentLeader = <node_id> on a 20 s lease while it is      *)
(* leader.  Any other member takes the follower branch.  It reads          *)
(* CurrentLeader and watches it for a change.  It finds the largest block  *)
(* under <leader>/<term>.  When that block's run is "start" it runs        *)
(* follower::startBlock; in validation mode it then stores the block       *)
(* unless the watcher saw the leader change.                               *)
(*                                                                         *)
(* A round is <<leader, term, block number>> with the etcd keys the code   *)
(* writes for it.  Which transactions a component holds and how a follower *)
(* runs them is FollowerExecution; how the monitor reassigns components of *)
(* a failed member is LeaderProtocol.  Here no member crashes, etcd stays  *)
(* healthy, and the raft leader may change (etcd's own election, up to     *)
(* MaxChanges times).  A block's transactions fail deterministically: a    *)
(* follower whose components hold a failing transaction fails every time   *)
(* it runs them.                                                           *)
(***************************************************************************)
EXTENDS Integers, FiniteSets, FiniteSetsExt, TLC

CONSTANTS Node,        \* the cluster's members
          Comps,       \* components of every block
          Blocks,      \* config "blocks"
          Modes,       \* "validation" or "execution"
          MaxChanges,  \* raft leader changes
          MaxFails,    \* blocks with a failing transaction
          None

ASSUME Comps \in Nat \ {0} /\ Blocks \in Nat

Terms == 1..MaxChanges + 1

VARIABLES
    etcdLeader,  \* the member etcd endpoint status reports IS LEADER
    term,        \* the raft term that status reports
    changes, fails,
    cur,         \* the CurrentLeader key: a member or None (no key)
    ttl,         \* member -> its leaderTTL thread runs (LLease)
    rounds,      \* round -> its etcd keys (run, assigned, reported, failing)
    mode,        \* config "mode"
    pc,          \* member -> where its main loop is
    count,       \* member -> node.cpp's count
    latest,      \* member -> the number in its blocksDB's LatestBlock
    store,       \* member -> number -> the round whose block it stored
    lr,          \* member -> the round it leads
    fr,          \* member -> the round its follower object runs
    fl, ft,      \* member -> the leader id and term its follower read
    flag,        \* member -> Scheduler.flag
    lcrash,      \* member -> leaderCrashed
    watch,       \* member -> initial_leader of its live watcher, or None
    ev,          \* member -> a CurrentLeader event awaits its watcher
    wcb          \* member -> its watcher callback stored flag, not yet leaderCrashed

vars == <<etcdLeader, term, changes, fails, cur, ttl, rounds, mode, pc, count,
          latest, store, lr, fr, fl, ft, flag, lcrash, watch, ev, wcb>>

Round(r) == r \in DOMAIN rounds

Init ==
    /\ etcdLeader \in Node /\ term = 1 /\ changes = 0 /\ fails = 0
    /\ cur = None
    /\ ttl = [n \in Node |-> FALSE]
    /\ rounds = [r \in {} |-> 0]
    /\ mode \in Modes
    /\ pc = [n \in Node |-> "top"]
    /\ count = [n \in Node |-> 0]
    /\ latest = [n \in Node |-> 0]
    /\ store = [n \in Node |-> [k \in {} |-> 0]]
    /\ lr = [n \in Node |-> None] /\ fr = [n \in Node |-> None]
    /\ fl = [n \in Node |-> None] /\ ft = [n \in Node |-> 0]
    /\ flag = [n \in Node |-> FALSE]
    /\ lcrash = [n \in Node |-> FALSE]
    /\ watch = [n \in Node |-> None]
    /\ ev = [n \in Node |-> FALSE]
    /\ wcb = [n \in Node |-> FALSE]

-----------------------------------------------------------------------------
(* etcd elects another leader in a new term. *)
leaderChange ==
    /\ changes < MaxChanges
    /\ \E m \in Node \ {etcdLeader} : etcdLeader' = m
    /\ term' = term + 1
    /\ changes' = changes + 1
    /\ UNCHANGED <<wcb, fails, cur, ttl, rounds, mode, pc, count, latest, store, lr, fr,
                   fl, ft, flag, lcrash, watch, ev>>

(* A put to CurrentLeader, or its deletion, is an event for every live   *)
(* watcher whose initial leader the new value is not.                    *)
Notify(v) == [n \in Node |-> ev[n] \/ (watch[n] # None /\ watch[n] # v)]

\* Mutant: the lease loop without its findLeader() test.
leaderTTLNoCheck(n) ==
    /\ ttl[n]
    /\ cur' = n /\ ev' = Notify(n)
    /\ UNCHANGED <<wcb, etcdLeader, term, changes, fails, ttl, rounds, mode, pc, count, latest,
                   store, lr, fr, fl, ft, flag, lcrash, watch>>

(***************************************************************************)
(* One pass of leaderTTL's loop: while findLeader() holds, a put of       *)
(* CurrentLeader = node_id on a fresh lease; when it fails the thread     *)
(* ends and clears LLease.                                                *)
(***************************************************************************)
leaderTTL(n) ==
    /\ ttl[n]
    /\ IF etcdLeader = n
         THEN /\ cur' = n /\ ev' = Notify(n) /\ UNCHANGED ttl
         ELSE /\ ttl' = [ttl EXCEPT ![n] = FALSE] /\ UNCHANGED <<cur, ev>>
    /\ UNCHANGED <<wcb, etcdLeader, term, changes, fails, rounds, mode, pc, count, latest,
                   store, lr, fr, fl, ft, flag, lcrash, watch>>

(* The lease of a CurrentLeader no thread refreshes runs out. *)
leaseExpire ==
    /\ cur # None /\ ~ttl[cur]
    /\ cur' = None
    /\ ev' = Notify(None)
    /\ UNCHANGED <<wcb, etcdLeader, term, changes, fails, ttl, rounds, mode, pc, count,
                   latest, store, lr, fr, fl, ft, flag, lcrash, watch>>

(***************************************************************************)
(* watchLeaderCrash's callback on a delete, or on a leader other than the *)
(* one read: Scheduler.flag.store(false), then leaderCrashed.store(true),  *)
(* two stores of the watcher's thread.  The second lands on the global     *)
(* even when the follower object's iteration has ended meanwhile.          *)
(***************************************************************************)
leaderWatch(n) ==
    /\ ev[n] /\ watch[n] # None /\ ~wcb[n]
    /\ flag' = [flag EXCEPT ![n] = FALSE]
    /\ ev' = [ev EXCEPT ![n] = FALSE]
    /\ wcb' = [wcb EXCEPT ![n] = TRUE]
    /\ UNCHANGED <<etcdLeader, term, changes, fails, cur, ttl, rounds, mode, pc, count,
                   latest, store, lr, fr, fl, ft, lcrash, watch>>

leaderWatchCrash(n) ==
    /\ wcb[n]
    /\ lcrash' = [lcrash EXCEPT ![n] = TRUE]
    /\ wcb' = [wcb EXCEPT ![n] = FALSE]
    /\ UNCHANGED <<etcdLeader, term, changes, fails, cur, ttl, rounds, mode, pc, count,
                   latest, store, lr, fr, fl, ft, flag, watch, ev>>

-----------------------------------------------------------------------------
(* node.cpp's loop ends after the leader's last block: db.destroyDB(). *)
loopExit(n) ==
    /\ pc[n] = "top" /\ count[n] = Blocks
    /\ pc' = [pc EXCEPT ![n] = "done"]
    /\ store' = [store EXCEPT ![n] = [k \in {} |-> 0]]
    /\ latest' = [latest EXCEPT ![n] = 0]
    /\ UNCHANGED <<wcb, etcdLeader, term, changes, fails, cur, ttl, rounds, mode, count,
                   lr, fr, fl, ft, flag, lcrash, watch, ev>>

(***************************************************************************)
(* assignFollowers: components round-robin over the healthy members in   *)
(* memberList order, the leader's own endpoint skipped; which members get *)
(* one when there are fewer components than followers depends on that    *)
(* order.                                                                 *)
(***************************************************************************)
Assign(n) == kSubset(Min({Comps, Cardinality(Node) - 1}), Node \ {n})

(* The components of a block that hold a failing transaction. *)
Failing(a) == {{}} \cup IF fails < MaxFails THEN {{f} : f \in a} ELSE {}

(***************************************************************************)
(* findLeader true: leaderTTL starts unless it runs, then leaderProtocol  *)
(* up to run = start.  produce numbers the block LatestBlock + 1; t1 puts *)
(* block, run = wait and commit (1 in validation mode), t2 builds the     *)
(* components; assignFollowers puts the table; run = start.               *)
(***************************************************************************)
leaderProtocol(n) ==
    /\ pc[n] = "top" /\ count[n] < Blocks /\ etcdLeader = n
    /\ ttl' = [ttl EXCEPT ![n] = TRUE]
    /\ LET r == <<n, term, latest[n] + 1>>
       IN  /\ lr' = [lr EXCEPT ![n] = r]
           /\ \E a \in Assign(n) : \E f \in Failing(a) :
                /\ rounds' = (r :> [run |-> "start", assigned |-> a, reported |-> {},
                                    failing |-> f]) @@ rounds
                /\ fails' = IF f = {} THEN fails ELSE fails + 1
    /\ pc' = [pc EXCEPT ![n] = "check"]
    /\ UNCHANGED <<wcb, etcdLeader, term, changes, cur, mode, count, latest, store, fr,
                   fl, ft, flag, lcrash, watch, ev>>

(***************************************************************************)
(* checkComponents: the statuses add up to txnCount once every member     *)
(* given a component has put its own; then stopMonitor and run = finish.  *)
(***************************************************************************)
checkComponents(n) ==
    /\ pc[n] = "check"
    /\ rounds[lr[n]].assigned \subseteq rounds[lr[n]].reported
    /\ rounds' = [rounds EXCEPT ![lr[n]].run = "finish"]
    /\ pc' = [pc EXCEPT ![n] = "commit"]
    /\ UNCHANGED <<wcb, etcdLeader, term, changes, fails, cur, ttl, mode, count, latest, store,
                   lr, fr, fl, ft, flag, lcrash, watch, ev>>

storeBlock(n, r) ==
    /\ store' = [store EXCEPT ![n] = (r[3] :> r) @@ store[n]]
    /\ latest' = [latest EXCEPT ![n] = r[3]]

(* commit = 1, saveData, storeBlock("B" + block_num), the joins; count++. *)
commitBlock(n) ==
    /\ pc[n] = "commit"
    /\ storeBlock(n, lr[n])
    /\ count' = [count EXCEPT ![n] = count[n] + 1]
    /\ pc' = [pc EXCEPT ![n] = "top"]
    /\ lr' = [lr EXCEPT ![n] = None]
    /\ UNCHANGED <<wcb, etcdLeader, term, changes, fails, cur, ttl, rounds, mode, fr,
                   fl, ft, flag, lcrash, watch, ev>>

-----------------------------------------------------------------------------
(***************************************************************************)
(* findLeader false: a new follower object, getLeaderID; an empty        *)
(* CurrentLeader continues the loop.  Otherwise term_no = raftTerm,       *)
(* leaderCrashed = false and watchLeaderCrash with the leader read.       *)
(***************************************************************************)
getLeaderID(n) ==
    /\ pc[n] = "top" /\ count[n] < Blocks /\ etcdLeader # n
    /\ cur # None
    /\ fl' = [fl EXCEPT ![n] = cur]
    /\ ft' = [ft EXCEPT ![n] = term]
    /\ lcrash' = [lcrash EXCEPT ![n] = FALSE]
    /\ watch' = [watch EXCEPT ![n] = cur]
    /\ ev' = [ev EXCEPT ![n] = FALSE]
    /\ pc' = [pc EXCEPT ![n] = "blocks"]
    /\ UNCHANGED <<wcb, etcdLeader, term, changes, fails, cur, ttl, rounds, mode, count,
                   latest, store, lr, fr, flag>>

\* Mutant: the smallest block number instead of the largest.
getSmallestBlockNumber(l, t) ==
    LET ks == {r[3] : r \in {q \in DOMAIN rounds : q[1] = l /\ q[2] = t}}
    IN  IF ks = {} THEN -1 ELSE Min(ks)

(* getNamespaces and getLargestBlockNumber: the largest block number    *)
(* with a key under <leader>/<term>/, or -1.                            *)
getLargestBlockNumber(l, t) ==
    LET ks == {r[3] : r \in {q \in DOMAIN rounds : q[1] = l /\ q[2] = t}}
    IN  IF ks = {} THEN -1 ELSE Max(ks)

(***************************************************************************)
(* The iteration ends and the follower object goes: its Scheduler, its    *)
(* Leader and its watchers (a detached watcher that outlives it uses a     *)
(* destroyed object; that is left out, see the README).                    *)
(***************************************************************************)
EndFollower(n) ==
    /\ pc' = [pc EXCEPT ![n] = "top"]
    /\ fr' = [fr EXCEPT ![n] = None] /\ flag' = [flag EXCEPT ![n] = FALSE]
    /\ fl' = [fl EXCEPT ![n] = None] /\ ft' = [ft EXCEPT ![n] = 0]
    /\ watch' = [watch EXCEPT ![n] = None] /\ ev' = [ev EXCEPT ![n] = FALSE]

(***************************************************************************)
(* The block's run key.  Anything but "start" ends the turn.  Otherwise   *)
(* startBlock: readBlock finds the leader's block (its DAG is never       *)
(* empty), getComponents reads the table, and scheduleTxns stores flag =  *)
(* true and starts the workers and the run monitor.                       *)
(***************************************************************************)
startBlock(n) ==
    /\ pc[n] = "blocks"
    /\ LET k == getLargestBlockNumber(fl[n], ft[n])
           r == <<fl[n], ft[n], k>>
       IN  IF k >= 0 /\ rounds[r].run = "start"
             THEN /\ fr' = [fr EXCEPT ![n] = r]
                  /\ flag' = [flag EXCEPT ![n] = TRUE]
                  /\ pc' = [pc EXCEPT ![n] = "exec"]
                  /\ UNCHANGED <<fl, ft, watch, ev>>
             ELSE EndFollower(n)
    /\ UNCHANGED <<wcb, etcdLeader, term, changes, fails, cur, ttl, rounds, mode, count,
                   latest, store, lr, lcrash>>

(***************************************************************************)
(* executeTxns: while flag holds and completeFlag does not, the workers   *)
(* run the member's components; a failing processor stores flag = false  *)
(* and the status is never put.  Otherwise the status put follows.       *)
(***************************************************************************)
executeTxns(n) ==
    /\ pc[n] = "exec" /\ flag[n]
    /\ rounds[fr[n]].run # "finish"
    /\ IF n \in rounds[fr[n]].failing
         THEN /\ flag' = [flag EXCEPT ![n] = FALSE]
              /\ UNCHANGED rounds
         ELSE /\ rounds' = [rounds EXCEPT ![fr[n]].reported = @ \cup {n}]
              /\ UNCHANGED flag
    /\ pc' = [pc EXCEPT ![n] = "wait"]
    /\ UNCHANGED <<wcb, etcdLeader, term, changes, fails, cur, ttl, mode, count, latest, store,
                   lr, fr, fl, ft, lcrash, watch, ev>>

(* The workers leave their loop without a status: flag was cleared, or   *)
(* the monitor saw run = finish first.                                   *)
workersStop(n) ==
    /\ pc[n] = "exec"
    /\ ~flag[n] \/ rounds[fr[n]].run = "finish"
    /\ pc' = [pc EXCEPT ![n] = "wait"]
    /\ UNCHANGED <<wcb, etcdLeader, term, changes, fails, cur, ttl, rounds, mode, count,
                   latest, store, lr, fr, fl, ft, flag, lcrash, watch, ev>>

(***************************************************************************)
(* monitorFunc returns on run = finish or once flag is false, and        *)
(* scheduleTxns returns flag.  startBlock: a false flag returns the block *)
(* at once (the watcher is not stopped); otherwise commit is read,        *)
(* saveData or resetTree, stopWatcher.  node.cpp: leaderCrashed restarts  *)
(* the loop; in validation mode storeBlock("B" + block_num).             *)
(***************************************************************************)
scheduleTxnsReturn(n) ==
    /\ pc[n] = "wait"
    /\ rounds[fr[n]].run = "finish" \/ ~flag[n]
    /\ IF ~lcrash[n] /\ mode = "validation"
         THEN storeBlock(n, fr[n])
         ELSE UNCHANGED <<store, latest>>
    /\ EndFollower(n)
    /\ UNCHANGED <<wcb, etcdLeader, term, changes, fails, cur, ttl, rounds, mode, count,
                   lr, lcrash>>

(***************************************************************************)
(* The busy loops that change nothing: checkComponents re-reading the     *)
(* statuses, the workers and monitorFunc polling, and node.cpp's loop      *)
(* while CurrentLeader is empty.                                           *)
(***************************************************************************)
spin(n) ==
    /\ \/ pc[n] \in {"check", "exec", "wait"}
       \/ pc[n] = "top" /\ count[n] < Blocks /\ etcdLeader # n /\ cur = None
    /\ UNCHANGED vars

-----------------------------------------------------------------------------
Member(n) ==
    \/ loopExit(n) \/ leaderProtocol(n) \/ checkComponents(n) \/ commitBlock(n)
    \/ getLeaderID(n) \/ startBlock(n) \/ executeTxns(n) \/ workersStop(n)
    \/ scheduleTxnsReturn(n)

Next ==
    \/ leaderChange
    \/ leaseExpire
    \/ \E n \in Node : \/ Member(n) \/ leaderTTL(n) \/ spin(n)
                       \/ leaderWatch(n) \/ leaderWatchCrash(n)

Spec == Init /\ [][Next]_vars

(***************************************************************************)
(* Every thread of every member is scheduled, and etcd expires a lease    *)
(* nobody refreshes; etcd's elections are not forced.                     *)
(***************************************************************************)
FairSpec ==
    /\ Spec
    /\ WF_vars(leaseExpire)
    /\ \A n \in Node : /\ WF_vars(Member(n)) /\ WF_vars(leaderTTL(n))
                      /\ WF_vars(leaderWatch(n)) /\ WF_vars(leaderWatchCrash(n))

-----------------------------------------------------------------------------
TypeOK ==
    /\ etcdLeader \in Node /\ term \in Terms /\ cur \in Node \cup {None}
    /\ pc \in [Node -> {"top", "check", "commit", "blocks", "exec", "wait", "done"}]
    /\ \A n \in Node : pc[n] \in {"check", "commit"} => Round(lr[n])
    /\ \A n \in Node : pc[n] \in {"exec", "wait"} => Round(fr[n])

BlocksCommitted ==
    [](fails = 0 /\ changes = 0) => <>(\E n \in Node : count[n] = Blocks)

(***************************************************************************)
(* Every round a leader starts ends: checkComponents returns.  Nothing    *)
(* else ends its loop, so a round whose statuses never add up stops the   *)
(* leader, and the members it gives components to in its next term.      *)
(***************************************************************************)
LeaderRoundsEnd ==
    \A n \in Node : pc[n] = "check" ~> pc[n] = "commit"


(***************************************************************************)
(* A member's blocksDB holds only blocks whose round its leader finished, *)
(* or that failed in the member's own components.  node.cpp stores a      *)
(* follower's block after startBlock returns unless leaderCrashed is set;  *)
(* a block abandoned because the leader changed must not be stored.       *)
(***************************************************************************)
StoredBlocksFinished ==
    \A n \in Node : \A k \in DOMAIN store[n] :
        rounds[store[n][k]].run = "finish" \/ n \in rounds[store[n][k]].failing

(***************************************************************************)
(* The cluster never finishes two different rounds under one block        *)
(* number: the chain has one block at each height.                        *)
(***************************************************************************)
OneBlockPerNumber ==
    \A r1, r2 \in DOMAIN rounds :
        rounds[r1].run = "finish" /\ rounds[r2].run = "finish" /\ r1[3] = r2[3]
            => r1 = r2


(***************************************************************************)
(* CurrentLeader stops naming a deposed leader: its leaderTTL thread sees  *)
(* findLeader fail and ends, and the 20 s lease runs out.                  *)
(***************************************************************************)
LeaseHandover ==
    \A n \in Node : (cur = n /\ etcdLeader # n) ~> cur # n

(***************************************************************************)
(* A member etcd elects announces itself in CurrentLeader while it stays  *)
(* leader.  It may be inside the follower branch when elected; the        *)
(* watcher must get it out of startBlock so that node.cpp's loop reaches   *)
(* leaderProtocol and starts leaderTTL.                                    *)
(***************************************************************************)
LeaderAnnounced ==
    \A n \in Node : etcdLeader = n ~> (cur = n \/ etcdLeader # n)

=============================================================================
