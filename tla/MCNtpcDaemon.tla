---------------------------- MODULE MCNtpcDaemon ----------------------------
(* NtpcDaemon for TLC: the values of its constants are in the .cfg files.    *)
EXTENDS NtpcDaemon, TLC

CONSTANTS c1, c2, t1, t2

(* Callers are alike, and so are task ids *)
Symmetry == Permutations(Caller) \cup Permutations(Task)

(* Once someone has gone on without the lock only LockBalance claims         *)
(* anything, until it is no longer counted: from there on states are         *)
(* followed that have at most one task                                       *)
Followed ==
    Forced => /\ forced < MaxForced
              /\ Cardinality({t \in Task : place[t] # "none"}) <= 1

(* The properties of runs with this constraint claim nothing from there on *)
LockIntact == ~Forced
=============================================================================
