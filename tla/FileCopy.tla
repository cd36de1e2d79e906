------------------------------ MODULE FileCopy ------------------------------
(***************************************************************************)
(* What a TFTP transfer promises: the destination grows by the blocks of   *)
(* the file, one at a time and in order, and success is reported only for  *)
(* a whole file.                                                           *)
(***************************************************************************)
EXTENDS Naturals, Sequences

CONSTANT Blocks         \* the file is blocks 1 to Blocks, the last one short

VARIABLES dest,         \* the blocks written at the destination
          result        \* what the client returned, "none" before it does

Init == dest = <<>> /\ result = "none"

Copy ==
    /\ Len(dest) < Blocks
    /\ dest' = Append(dest, Len(dest) + 1)
    /\ UNCHANGED result

Succeed ==
    /\ result = "none"
    /\ Len(dest) = Blocks
    /\ result' = "OK"
    /\ UNCHANGED dest

Fail ==
    /\ result = "none"
    /\ result' \in {"ERROR", "crash"}
    /\ UNCHANGED dest

Next == Copy \/ Succeed \/ Fail

Spec == Init /\ [][Next]_<<dest, result>>
=============================================================================
