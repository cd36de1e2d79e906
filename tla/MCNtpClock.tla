----------------------------- MODULE MCNtpClock -----------------------------
(* NtpClock for TLC: a second of three units, and of four fractions.        *)
EXTENDS NtpClock

MCSkews == {-7, -1, 0, 2, 6}
MCErrors == {-24, -10, 0, 9}
MCAlterations == {-5, -2, 1, 3}
=============================================================================
