----------------------------- MODULE MCNxPlayer -----------------------------
(* NxPlayer for TLC *)
EXTENDS NxPlayer

All == [sched : {"priority", "any"}, faults : {"none", "some"}]
=============================================================================
