--------------------------- MODULE MCDhcpdDaemon ---------------------------
(* Two callers and two task ids: a new task may start before the last post *)
(* of the old one.                                                         *)
EXTENDS DhcpdDaemon

CONSTANTS c1, c2, t1, t2

(* Once a caller has gone on without the lock only LockBalance claims        *)
(* anything, and no task touches the lock: from there on states are followed *)
(* that have at most one task, and that one created by dhcpd_start           *)
Followed ==
    Barged => ~Direct /\ Cardinality({t \in Task : place[t] # "none"}) <= 1
=============================================================================
