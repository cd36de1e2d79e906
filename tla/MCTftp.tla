------------------------------- MODULE MCTftp -------------------------------
(* Tftp for TLC *)
EXTENDS Tftp

(* A network that answers in time and one on which anything may happen *)
Both == {[prompt |-> TRUE,  io |-> FALSE, max |-> 1, faults |-> 0],
         [prompt |-> FALSE, io |-> TRUE,  max |-> 1, faults |-> 0]}
=============================================================================
