--------------------------- MODULE LeaderProtocol ---------------------------
(***************************************************************************)
(* The BlockRAFT leader's round (leader::leaderProtocol) with its          *)
(* componentsMonitor thread (leader::monitorComponents) and the followers  *)
(* that take components from etcd, over the blocks of node.cpp's loop.     *)
(*                                                                         *)
(* Members are s0 .. s(N-1); the leader is s0, whose own endpoint          *)
(* getActiveFollowers skips.  memberList holds the members in the order    *)
(* etcd's list_member returns them (order), each marked healthy once the  *)
(* endpoint health output names it "healthy:".  A component is a set of   *)
(* transactions of a given size; which transactions, and how a follower   *)
(* runs them, is FollowerExecution.  A follower that has read its         *)
(* components from <block>/components reports the number it ran as its    *)
(* status; the leader commits when the statuses add up to txnCount.       *)
(* Follower crashes are permanent: a crashed member's endpoint reports     *)
(* unhealthy and it puts nothing more.  The empty-block path (return      *)
(* false before any thread) is SerialNode's; DAGmodule::create of the      *)
(* distributed node always returns true.                                  *)
(***************************************************************************)
EXTENDS Integers, Sequences, FiniteSets, FiniteSetsExt

CONSTANTS N,           \* cluster size (memberList.size())
          CompSize,    \* component index -> its number of transactions
          Blocks,      \* config "blocks": rounds node.cpp runs
          MaxCrashes   \* follower crashes the etcd monitor tolerates

Node == 0..N - 1
LeaderId == 0
Followers == Node \ {LeaderId}
Comps == DOMAIN CompSize
txnCount == MapThenSumSet(LAMBDA c : CompSize[c], Comps)
NoTable == [c \in {} |-> 0]   \* a key not yet put

ASSUME N \in Nat \ {0} /\ Comps = 0..Cardinality(Comps) - 1

VARIABLES
    order,        \* memberList position -> member id (list_member order)
    up,           \* member -> its process is running
    crashes,      \* followers crashed so far
    count,        \* node.cpp's block count
    lpc,          \* where the leader is in leaderProtocol
    marked,       \* ids whose memberList entry is healthy
    healthyMemberIds,
    activeFollowers,
    table,        \* the leader's componentsTable: component -> follower
    etcdTable,    \* <block>/components in etcd
    run,          \* <block>/run in etcd
    mpc,          \* the componentsMonitor thread
    flag,         \* monitorComponents' local flag
    stopMonitor,
    fpc,          \* follower -> its progress on the block
    snap,         \* follower -> the components it read as its own
    etcdHealth,   \* node.cpp's etcdHealth
    emon          \* the etcdMonitor thread

vars == <<order, up, crashes, count, lpc, marked, healthyMemberIds,
          activeFollowers, table, etcdTable, run, mpc, flag, stopMonitor,
          fpc, snap, etcdHealth, emon>>

(* The number a follower reports: the transactions of the components it *)
(* read as its own, all of which it ran.                                 *)
Status(f) == MapThenSumSet(LAMBDA c : CompSize[c], snap[f])

\* Mutant: the status loop stops one member short of memberList.size().
StatusSumShort == MapThenSumSet(LAMBDA f : Status(f),
                                {f \in Followers : fpc[f] = "reported" /\ f < N - 1})

(***************************************************************************)
(* checkComponents: the statuses <block>/components/status/s<i> for      *)
(* every member i of memberList; a missing key adds nothing.             *)
(***************************************************************************)
StatusSum == MapThenSumSet(LAMBDA f : Status(f),
                           {f \in Followers : fpc[f] = "reported"})

\* Mutant: the own-endpoint test never matches and the leader counts itself.
HealthyWithSelf == {m \in Node : up[m]}

(* getActiveFollowers: the other members whose endpoint reports healthy. *)
Healthy == {f \in Followers : up[f]}

-----------------------------------------------------------------------------
Init ==
    /\ order \in {o \in [Node -> Node] : \A i, j \in Node : i # j => o[i] # o[j]}
    /\ up = [m \in Node |-> TRUE]
    /\ crashes = 0
    /\ count = 0
    /\ lpc = "produce"
    /\ marked = {}
    /\ healthyMemberIds = <<>>
    /\ activeFollowers = 0
    /\ table = [c \in {} |-> 0]
    /\ etcdTable = NoTable
    /\ run = "none"
    /\ mpc = "none"
    /\ flag = FALSE
    /\ stopMonitor = FALSE
    /\ fpc = [f \in Followers |-> "idle"]
    /\ snap = [f \in Followers |-> {}]
    /\ etcdHealth = TRUE
    /\ emon = "run"

(***************************************************************************)
(* etcdMonitorFunc, every ten seconds: the endpoints of the whole cluster *)
(* (the leader's too) that report "is healthy"; more than floor(N / 3)   *)
(* failed clears etcdHealth and ends the thread.                          *)
(***************************************************************************)
etcdMonitorFunc ==
    /\ emon = "run"
    /\ N - Cardinality({m \in Node : up[m]}) > N \div 3
    /\ etcdHealth' = FALSE
    /\ emon' = "done"
    /\ UNCHANGED <<order, up, crashes, count, lpc, marked, healthyMemberIds,
                   activeFollowers, table, etcdTable, run, mpc, flag, stopMonitor,
                   fpc, snap>>

(* node.cpp's loop test: etcdHealth, redpandaHealth and count < blocks. *)
loopTest ==
    /\ lpc = "produce"
    /\ etcdHealth
    /\ count < Blocks
    /\ lpc' = "leader"
    /\ UNCHANGED <<order, up, crashes, count, marked, healthyMemberIds,
                   activeFollowers, table, etcdTable, run, mpc, flag, stopMonitor,
                   fpc, snap, etcdHealth, emon>>

(***************************************************************************)
(* findLeader, which stores etcdHealth = TRUE on every call, then       *)
(* leaderProtocol up to the joins: t1 lists the members, marks the        *)
(* healthy ones and puts block, run = wait and commit; t2 builds the DAG  *)
(* and its components, each assigned follower 0.  Then the               *)
(* componentsMonitor thread starts, its flag uninitialised.              *)
(***************************************************************************)
prepare ==
    /\ lpc = "leader"
    /\ etcdHealth' = TRUE
    /\ marked' = Healthy
    /\ table' = [c \in Comps |-> 0]
    /\ run' = "wait"
    /\ etcdTable' = NoTable
    /\ fpc' = [f \in Followers |-> "idle"]
    /\ snap' = [f \in Followers |-> {}]
    /\ mpc' = "run"
    /\ flag' \in BOOLEAN
    /\ lpc' = "assign"
    /\ UNCHANGED <<order, emon, up, crashes, count, healthyMemberIds,
                   activeFollowers, stopMonitor>>

(***************************************************************************)
(* assignFollowers: the ids of the healthy entries in memberList order,   *)
(* then component i to healthyMemberIds[i % activeFollowers], and the     *)
(* table put.  With no healthy follower it returns false; leaderProtocol  *)
(* returns with componentsMonitor still joinable, and its destructor      *)
(* calls std::terminate.                                                  *)
(***************************************************************************)
assignFollowers ==
    /\ lpc = "assign"
    /\ LET ids == SelectSeq([p \in 1..N |-> order[p - 1]], LAMBDA m : m \in marked)
           hm  == healthyMemberIds \o ids
       IN  /\ healthyMemberIds' = hm
           /\ activeFollowers' = Len(hm)
           /\ IF Len(hm) = 0
                THEN /\ lpc' = "terminated"
                     /\ UNCHANGED <<table, etcdTable>>
                ELSE /\ table' = [c \in Comps |-> hm[(c % Len(hm)) + 1]]
                     /\ etcdTable' = table'
                     /\ lpc' = "start"
    /\ UNCHANGED <<order, etcdHealth, emon, up, crashes, count, marked, run, mpc, flag,
                   stopMonitor, fpc, snap>>

runStart ==
    /\ lpc = "start"
    /\ run' = "start"
    /\ lpc' = "check"
    /\ UNCHANGED <<order, etcdHealth, emon, up, crashes, count, marked, healthyMemberIds,
                   activeFollowers, table, etcdTable, mpc, flag, stopMonitor,
                   fpc, snap>>

checkComponents ==
    /\ lpc = "check"
    /\ StatusSum = txnCount
    /\ stopMonitor' = TRUE
    /\ lpc' = "finish"
    /\ UNCHANGED <<order, etcdHealth, emon, up, crashes, count, marked, healthyMemberIds,
                   activeFollowers, table, etcdTable, run, mpc, flag, fpc, snap>>

(* run = finish, commit = 1, saveData and storeBlock (StateExchange). *)
finishBlock ==
    /\ lpc = "finish"
    /\ run' = "finish"
    /\ lpc' = "join"
    /\ UNCHANGED <<order, etcdHealth, emon, up, crashes, count, marked, healthyMemberIds,
                   activeFollowers, table, etcdTable, mpc, flag, stopMonitor,
                   fpc, snap>>

(***************************************************************************)
(* componentsMonitor.join(), then the round's cleanup: table, healthy ids *)
(* and memberList cleared; activeFollowers is kept.  node.cpp counts the  *)
(* block and clears stopMonitor before the next round.                    *)
(***************************************************************************)
endRound ==
    /\ lpc = "join"
    /\ mpc = "done"
    /\ table' = [c \in {} |-> 0]
    /\ healthyMemberIds' = <<>>
    /\ marked' = {}
    /\ count' = count + 1
    /\ stopMonitor' = FALSE
    /\ mpc' = "none"
    /\ lpc' = "produce"
    /\ UNCHANGED <<order, etcdHealth, emon, up, crashes, activeFollowers, etcdTable, run, flag,
                   fpc, snap>>

(***************************************************************************)
(* One pass of monitorComponents' loop.  getActiveFollowers marks every   *)
(* healthy endpoint again (a mark is never taken back) and counts them.   *)
(* When fewer are healthy than activeFollowers, a component whose         *)
(* follower's entry, memberList[follower], is not marked goes to          *)
(* healthyMemberIds[i % activeFollowers]; memberList is indexed by the   *)
(* follower's id though it is in list_member order.  Before               *)
(* assignFollowers has filled healthyMemberIds the read is past its end:  *)
(* cleared storage, any member id.  The table is put when flag is set.    *)
(***************************************************************************)
monitorComponents ==
    /\ mpc = "run"
    /\ ~stopMonitor
    /\ LET cnt    == Cardinality(Healthy)
           mk     == marked \cup Healthy
           moved  == {c \in DOMAIN table : order[table[c]] \notin mk}
           pick(c) == IF c % cnt < Len(healthyMemberIds)
                        THEN {healthyMemberIds[(c % cnt) + 1]} ELSE Node
       IN  /\ marked' = mk
           /\ IF cnt < activeFollowers /\ cnt > 0
                THEN /\ activeFollowers' = cnt
                     /\ \E to \in [moved -> Node] :
                          /\ \A c \in moved : to[c] \in pick(c)
                          /\ table' = [c \in DOMAIN table |->
                                         IF c \in moved THEN to[c] ELSE table[c]]
                     /\ flag' = (flag \/ moved # {})
                     /\ etcdTable' = IF flag' THEN table' ELSE etcdTable
                ELSE UNCHANGED <<activeFollowers, table, flag, etcdTable>>
    /\ UNCHANGED <<order, etcdHealth, emon, up, crashes, count, lpc, healthyMemberIds, run, mpc,
                   stopMonitor, fpc, snap>>

monitorExit ==
    /\ mpc = "run"
    /\ stopMonitor
    /\ mpc' = "done"
    /\ UNCHANGED <<order, etcdHealth, emon, up, crashes, count, lpc, marked, healthyMemberIds,
                   activeFollowers, table, etcdTable, run, flag, stopMonitor,
                   fpc, snap>>

(***************************************************************************)
(* A follower that reads run = start runs startBlock: getComponents reads *)
(* <block>/components once and keeps the components assigned to its      *)
(* number (the watch for later changes is destroyed on return).           *)
(***************************************************************************)
getComponents(f) ==
    /\ up[f]
    /\ fpc[f] = "idle"
    /\ run = "start"
    /\ snap' = [snap EXCEPT ![f] = {c \in DOMAIN etcdTable : etcdTable[c] = f}]
    /\ fpc' = [fpc EXCEPT ![f] = "exec"]
    /\ UNCHANGED <<order, etcdHealth, emon, up, crashes, count, lpc, marked, healthyMemberIds,
                   activeFollowers, table, etcdTable, run, mpc, flag, stopMonitor>>

(* executeTxns: once its components are done the status put. *)
putStatus(f) ==
    /\ up[f]
    /\ fpc[f] = "exec"
    /\ fpc' = [fpc EXCEPT ![f] = "reported"]
    /\ UNCHANGED <<order, etcdHealth, emon, up, crashes, count, lpc, marked, healthyMemberIds,
                   activeFollowers, table, etcdTable, run, mpc, flag, stopMonitor,
                   snap>>

crash(f) ==
    /\ up[f]
    /\ crashes < MaxCrashes
    /\ up' = [up EXCEPT ![f] = FALSE]
    /\ crashes' = crashes + 1
    /\ UNCHANGED <<order, etcdHealth, emon, count, lpc, marked, healthyMemberIds, activeFollowers,
                   table, etcdTable, run, mpc, flag, stopMonitor, fpc, snap>>

(* node.cpp leaves its loop after the last block; a terminated leader *)
(* process stops too.                                                  *)
Finished ==
    /\ \/ lpc = "produce" /\ (count = Blocks \/ ~etcdHealth)
       \/ lpc = "terminated"
    /\ UNCHANGED vars

Leader == loopTest \/ prepare \/ assignFollowers \/ runStart \/ checkComponents
            \/ finishBlock \/ endRound

Monitor == monitorComponents \/ monitorExit

Next ==
    \/ Leader
    \/ Monitor
    \/ etcdMonitorFunc
    \/ \E f \in Followers : getComponents(f) \/ putStatus(f) \/ crash(f)
    \/ Finished

Spec == Init /\ [][Next]_vars

(* Every thread of a live process is scheduled; a crash is not forced. *)
FairSpec ==
    /\ Spec
    /\ WF_vars(Leader)
    /\ WF_vars(Monitor)
    /\ WF_vars(etcdMonitorFunc)
    /\ \A f \in Followers : WF_vars(getComponents(f) \/ putStatus(f))

-----------------------------------------------------------------------------
TypeOK ==
    /\ up \in [Node -> BOOLEAN]
    /\ count \in 0..Blocks
    /\ lpc \in {"produce", "leader", "assign", "start", "check", "finish", "join", "terminated"}
    /\ mpc \in {"none", "run", "done"}
    /\ fpc \in [Followers -> {"idle", "exec", "reported"}]
    /\ marked \subseteq Followers
    /\ DOMAIN table \subseteq Comps

(***************************************************************************)
(* The leader commits a block only when every component of it was run,   *)
(* and run once: when checkComponents finds the statuses add up to        *)
(* txnCount, each component is among the components of exactly one      *)
(* follower that reported.  A monitor reassignment races with the         *)
(* followers' single read of the table.                                   *)
(***************************************************************************)
CommitOnlyExecuted ==
    lpc \in {"finish", "join"} =>
        \A c \in Comps :
            Cardinality({f \in Followers : fpc[f] = "reported" /\ c \in snap[f]}) = 1

(***************************************************************************)
(* While no follower crashes, every block the leader starts is committed: *)
(* checkComponents' loop ends and node.cpp goes on to the next block.     *)
(***************************************************************************)
NoCrashCommits ==
    [](crashes = 0) => (lpc = "check" ~> lpc = "finish")

(***************************************************************************)
(* A block the leader starts is committed even when a follower crashes:   *)
(* the monitor moves the crashed follower's components to another.        *)
(***************************************************************************)
BlockCommits == lpc = "check" ~> lpc = "finish"

=============================================================================
