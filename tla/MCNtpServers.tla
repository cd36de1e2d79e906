---------------------------- MODULE MCNtpServers ----------------------------
(* NtpServers for TLC: two host names, three servers, lists of two.          *)
EXTENDS NtpServers

CONSTANTS a, b, c

(* The answers of DNS: nothing, or one or two of the servers; the second     *)
(* host has one server less                                                  *)
MCHosts == <<"h1", "h2">>
MCAnswer(h) == {<<>>, <<a>>, <<c>>} \cup (IF h = "h1" THEN {<<b, a>>, <<c, b, a>>} ELSE {})
=============================================================================
