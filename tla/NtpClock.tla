------------------------------ MODULE NtpClock ------------------------------
(***************************************************************************)
(* One round of the NTP client daemon and the clock it sets                *)
(* (netutils/ntpclient/ntpclient.c): samples are taken from servers, some  *)
(* of which are misconfigured, over paths that delay the two directions    *)
(* differently, while another task may set the clock as well.              *)
(* Times are numbers of units of 1/NSec second since 1970.                 *)
(***************************************************************************)
EXTENDS NtpTime, FiniteSetsExt, SequencesExt

CONSTANTS Epoch,        \* the true time at monotonic time 0
          Skews,        \* how wrong the local clock may be at first
          Errors,       \* how wrong the clock of a server may be
          Delays,       \* how long a datagram may take
          Timeout,      \* SO_RCVTIMEO
          Build,        \* ntpc_get_compile_timestamp(), in seconds since 1970
          Alterations,  \* by how much another task may move the clock
          NumSamples,   \* CONFIG_NETUTILS_NTPCLIENT_NUM_SAMPLES
          MaxRounds     \* bound on the rounds

ASSUME ClockConfig ==
    /\ 0 \in Errors
    /\ {Epoch, MaxRounds, NumSamples, Timeout, Build} \cup Delays \subseteq Nat
    /\ Skews \cup Errors \cup Alterations \subseteq Int

VARIABLES mono, real,   \* CLOCK_MONOTONIC and CLOCK_REALTIME
          start,        \* both, at the start of the round
          at,           \* idle, send, recv or settime
          xmit_time, i, samples,
          late,         \* an answer that was given up and is still on its way
          altered,      \* has another task set the clock in this round?
          rounds        \* how many rounds were started

vars == <<mono, real, start, at, xmit_time, i, samples, late, altered,
          rounds>>

Truth == Epoch + mono
Abs(x) == IF x < 0 THEN -x ELSE x

Init ==
    /\ mono = 0
    /\ real \in {Epoch + s : s \in Skews}
    /\ start = [real |-> real, mono |-> mono]
    /\ at = "idle"
    /\ xmit_time = 0
    /\ i = 0
    /\ samples = <<>>
    /\ late = {}
    /\ altered = FALSE
    /\ rounds = 0

StartRound ==
    /\ at = "idle"
    /\ rounds < MaxRounds
    /\ rounds' = rounds + 1
    /\ start' = [real |-> real, mono |-> mono]
    /\ samples' = <<>>
    /\ i' = 0
    /\ at' = "send"
    /\ altered' = FALSE
    /\ UNCHANGED <<mono, real, xmit_time, late>>

(* Another task sets the clock, at most once in a round *)
Alter(d) ==
    /\ at # "idle"
    /\ ~altered
    /\ altered' = TRUE
    /\ real' = real + d
    /\ UNCHANGED <<mono, start, at, xmit_time, i, samples, late, rounds>>

Send ==
    /\ at = "send"
    /\ xmit_time' = ntp_localtime(real)
    /\ at' = "recv"
    /\ UNCHANGED <<mono, real, start, i, samples, late, altered, rounds>>

NextSample ==
    /\ i' = i + 1
    /\ at' = IF i + 1 < NumSamples THEN "send" ELSE "settime"
    /\ xmit_time' = 0

(* An answer: the timestamp of the request it repeats and the two of the     *)
(* server, which are one here.  Its other fields are as they should be.      *)
Answer(e, delay) ==
    [orig   |-> xmit_time,
     remote |-> timespec2ntp(Truth + delay + e + Translation * NSec),
     good   |-> e = 0]

(* The second that is compared with the build time: the translation is not   *)
(* taken off a timestamp that is smaller                                     *)
Seconds(stamp) == IF ntp_secpart(stamp) > Translation
                  THEN ntp_secpart(stamp) - Translation ELSE ntp_secpart(stamp)

(* Mutant: the answer is not matched with the request *)
ntpc_verify_recvd_ntp_datagram_AnyOrig(a) ==
    ntp_secpart(a.remote) # 0 /\ Seconds(a.remote) >= Build

ntpc_verify_recvd_ntp_datagram(a) ==
    a.orig = xmit_time /\ ntp_secpart(a.remote) # 0 /\ Seconds(a.remote) >= Build

(* One datagram is read, elapsed after the request, and makes a sample or none *)
Read(a, elapsed) ==
    /\ at = "recv"
    /\ mono' = mono + elapsed
    /\ real' = real + elapsed
    /\ samples' = IF ntpc_verify_recvd_ntp_datagram(a)
                  THEN Append(samples,
                         [offset |-> ntpc_calculate_offset(xmit_time,
                                       ntp_localtime(real'), a.remote, a.remote),
                          good   |-> a.good])
                  ELSE samples
    /\ NextSample
    /\ UNCHANGED <<start, altered, rounds>>

(* The answer of a server that is wrong by e, d1 on the way there and d2 back *)
Receive(e, d1, d2) ==
    /\ Read(Answer(e, d1), d1 + d2)
    /\ UNCHANGED late

(* An answer to an earlier request, where the port of its socket, which is    *)
(* closed, was given to the next one                                         *)
ReceiveLate ==
    \E a \in late : Read(a, 0) /\ late' = late \ {a}

(* No answer in time; of those given up the last one is kept *)
TimedOut(e) ==
    /\ at = "recv"
    /\ mono' = mono + Timeout
    /\ real' = real + Timeout
    /\ late' = {Answer(e, 0)}
    /\ NextSample
    /\ UNCHANGED <<start, samples, altered, rounds>>

-----------------------------------------------------------------------------
sample_cmp(a, b) == a.offset < b.offset

Offsets == LET sorted == SortSeq(samples, sample_cmp)
           IN  [k \in 1 .. Len(sorted) |-> sorted[k].offset]

(* The time between two readings of a clock.  Seconds are subtracted as       *)
(* time_t, which is unsigned: with 32 bits the difference, assigned to an     *)
(* int64_t, is never negative.                                               *)
Passed(now, then) ==
    LET sec == now \div NSec - then \div NSec
    IN  (IF TimeMod = SecMod THEN sec % TimeMod ELSE sec) * NSec
          + (now % NSec) - (then % NSec)

(* "System time altered by other task": the clocks differ by a second *)
AlteredByOther == Abs(Passed(real, start.real) - Passed(mono, start.mono)) >= NSec

(* ntpc_settime, if there are samples *)
Applies == samples # <<>> /\ ~AlteredByOther

ntpc_settime ==
    /\ at = "settime"
    /\ real' = IF Applies THEN Adjusted(real, MedianOffset(Offsets)) ELSE real
    /\ at' = "idle"
    /\ samples' = <<>>
    /\ i' = 0
    /\ altered' = FALSE
    /\ UNCHANGED <<mono, start, xmit_time, late, rounds>>

Next ==
    \/ StartRound \/ Send \/ ReceiveLate \/ ntpc_settime
    \/ \E d \in Alterations : Alter(d)
    \/ \E e \in Errors : TimedOut(e) \/ \E d1, d2 \in Delays : Receive(e, d1, d2)

Spec == Init /\ [][Next]_vars

-----------------------------------------------------------------------------
Good == {k \in 1 .. Len(samples) : samples[k].good}
Majority == 2 * Cardinality(Good) > Len(samples)

(* Half the difference of the delays, the rounding of two conversions, and   *)
(* what another task may have moved the clock by without being noticed        *)
Tolerance == (Max(Delays) - Min(Delays) + 1) \div 2 + 1
               + (IF altered THEN NSec - 1 ELSE 0)

(* "This is to filter out misconfigured server giving wrong timestamps": as   *)
(* long as most of the samples of a round come from servers with the right   *)
(* time, the clock that is set is right, up to the tolerance.                *)
SetTimeIsTrue ==
    [][ntpc_settime /\ Applies /\ Majority
         => Abs(real' - Truth) <= Tolerance]_vars
=============================================================================
