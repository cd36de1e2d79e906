------------------------------ MODULE NtpTime ------------------------------
(***************************************************************************)
(* The arithmetic of the NTP client (netutils/ntpclient/ntpclient.c).      *)
(* An NTP timestamp is a fixed-point number of 64 bits: seconds modulo     *)
(* SecMod and fractions of 1/Frac second, both 2^32 in the code.  A        *)
(* timespec has NSec units to the second, 10^9 in the code, and seconds    *)
(* modulo TimeMod, which is the width of time_t.  It counts from 1970, a   *)
(* timestamp from 1900: Translation is NTP2UNIX_TRANSLATION.               *)
(***************************************************************************)
EXTENDS Integers, Sequences

CONSTANTS SecMod, Frac, TimeMod, NSec, Translation

ASSUME TimeConfig ==
    /\ SecMod \in Nat \ {0} /\ Frac \in Nat \ {0}
    /\ TimeMod \in Nat /\ SecMod <= TimeMod
    /\ NSec \in Nat \ {0} /\ NSec < Frac
    /\ Translation \in 0 .. SecMod - 1

Mod == SecMod * Frac

(* Conversion of an integer to uint64_t and on to int64_t *)
Unsigned(x) == x % Mod
Signed(x) == IF Unsigned(x) >= Mod \div 2 THEN Unsigned(x) - Mod ELSE Unsigned(x)

(* A time is a number of units of 1/NSec second; timespec2ntp of it *)
timespec2ntp(time) ==
    Unsigned(((time % NSec) * Frac) \div NSec + (time \div NSec) * Frac)

(* The timestamp of a local time; time_t may wrap around *)
ntp_localtime(time) == timespec2ntp((time + Translation * NSec) % (TimeMod * NSec))

ntp_secpart(stamp) == Unsigned(stamp) \div Frac
ntp_nsecpart(stamp) == ((Unsigned(stamp) % Frac) * NSec) \div Frac

ntpc_calculate_offset(xmit, recv, remote_recv, remote_xmit) ==
    Signed((remote_recv \div 2 - xmit \div 2) + (remote_xmit \div 2 - recv \div 2))

(* Division of C: towards zero *)
Quotient(x, n) == IF x < 0 THEN -((-x) \div n) ELSE x \div n

(* The average of the two middle offsets.  For one sign the sum is taken as  *)
(* unsigned; a sum of two signs fits int64_t.                                *)
Average(offset1, offset2) ==
    IF offset1 > 0 /\ offset2 > 0 THEN Unsigned(offset1 + offset2) \div 2
    ELSE IF offset1 < 0 /\ offset2 < 0 THEN -(Unsigned(-offset1 - offset2) \div 2)
    ELSE Quotient(offset1 + offset2, 2)

(* The offset a round applies, of its sorted samples *)
MedianOffset(sorted) ==
    LET n == Len(sorted)
    IN  IF n % 2 = 1 THEN sorted[n \div 2 + 1]
        ELSE Average(sorted[n \div 2 + 1], sorted[n \div 2])

(* The clock ntpc_settime sets, from the current time and an offset *)
Adjusted(time, offset) ==
    LET sec  == (time \div NSec + ntp_secpart(offset)) % TimeMod
        nsec == (time % NSec) + ntp_nsecpart(offset)
    IN  ((sec + nsec \div NSec) % TimeMod) * NSec + (nsec % NSec)
=============================================================================
