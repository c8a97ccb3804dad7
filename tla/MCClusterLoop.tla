--------------------------- MODULE MCClusterLoop ---------------------------
(* Three or four members; with fewer components than followers some    *)
(* follower gets nothing and is not waited for.  The members are         *)
(* interchangeable, so the behaviours from one first etcd leader are, up  *)
(* to renaming, those from any; fixing it keeps liveness checking exact,  *)
(* which TLC's SYMMETRY would not.                                        *)
EXTENDS ClusterLoop

CONSTANTS s0, s1, s2, s3

MCNode == {s0, s1, s2}

MCNode4 == {s0, s1, s2, s3}

MCInit == Init /\ etcdLeader = s0

MCFairSpec ==
    /\ MCInit /\ [][Next]_vars
    /\ WF_vars(leaseExpire)
    /\ \A n \in Node : /\ WF_vars(Member(n)) /\ WF_vars(leaderTTL(n))
                      /\ WF_vars(leaderWatch(n)) /\ WF_vars(leaderWatchCrash(n))
=============================================================================
