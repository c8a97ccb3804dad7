-------------------------- MODULE MCLeaderProtocol --------------------------
(* Four components of one transaction each: with three followers,         *)
(* component 3 is the first that round-robin gives a follower a second    *)
(* time, so a reassignment can move it.  MCLeaderProtocol.cfg: the leader *)
(* and two followers over two blocks, either or both followers failing    *)
(* (both down makes assignFollowers fail).  MCLeaderProtocol_commit.cfg:  *)
(* four members, one follower failing, the etcd monitor's floor(4/3).     *)
EXTENDS LeaderProtocol

MCCompSize == [c \in 0..3 |-> 1]
=============================================================================
