------------------------------ MODULE MCDhcpd ------------------------------
(***************************************************************************)
(* Dhcpd on a pool of three addresses that straddles a .255/.0 boundary, so *)
(* two of them are skipped by the allocator and can only be asked for. *)
(***************************************************************************)
EXTENDS Dhcpd, TLC

MCReqIP    == {0, 254, 255, 257}
MCServerId == {0, 9, 8}
MCReqTime  == {0, 1, 9}
MCXid      == {0}
MCSymmetry == Permutations(Mac)
=============================================================================
