----------------------------- MODULE NtpcProofs -----------------------------
(***************************************************************************)
(* Proofs about the NTP client: its daemon, for any number of callers,     *)
(* tasks, samples and retries (NtpcDaemon); the choice of a server, for    *)
(* any number of samples, hosts, servers and answers of DNS (NtpServers);  *)
(* and what it computes from the offsets of a round (NtpTime).             *)
(***************************************************************************)
EXTENDS NtpcDaemon, NtpServers, NtpTime, TLAPS

(***************************************************************************)
(* The daemon.  What makes it correct (Safe) holds for as long as neither  *)
(* it nor a caller has gone on without the lock, which they do only where  *)
(* a signal interrupts their sem_wait().  What is left of the lock         *)
(* afterwards is proved at the end of the module.                          *)
(***************************************************************************)

(* A daemon before it says that it runs, and one that has said so *)
Early(t)  == place[t] \in {"entry", "running"}
Works(t)  == place[t] \in {"post", "loop", "sample", "save", "poll", "retry"}
Ending(t) == place[t] \in {"stopped", "lastpost", "exiting"}

Starting(c) == op[c] = "start" /\ at[c] \in {"wait", "again"}
Stopping(c) == op[c] = "stop" /\ at[c] \in {"kill", "wait", "again"}

(* The operation of a caller fits its place *)
CallShape ==
    \A c \in Caller : /\ at[c] # "idle" => op[c] \in Ops
                      /\ at[c] \in {"act", "wait", "again"} => op[c] # "status"
                      /\ at[c] = "copy" => op[c] = "status"
                      /\ at[c] = "kill" => op[c] = "stop"

(* A round has a sample to go; the retries are used up only at the end *)
RoundInv ==
    \A t \in Task : /\ round[t].left > 0
                    /\ ~Ending(t) => retries[t] <= Retries

LockInv ==
    /\ \A c, d \in Inside : c = d
    /\ lock \in {0, 1}
    /\ lock = 1 => Inside = {}

StatusInv == \A c \in Caller : at[c] = "copy" => seen[c] = g_last_samples

TaskInv ==
    /\ \A t, u \in Active : t = u
    /\ \A t \in Active : /\ state \notin {"NOT_RUNNING", "STOPPED"}
                         /\ \A c \in Caller : ~At(c, "start", "act")

PlaceInv ==
    \A t \in Task :
      /\ Early(t) => state = "STARTED"
      /\ Early(t) \/ Works(t) => pid = t
      /\ Works(t) => state \in {"RUNNING", "STOP_REQUESTED"}

CallInv ==
    /\ state = "STARTED" => \E c \in Caller : Starting(c)
    /\ state = "STOP_REQUESTED" /\ (\E t \in Task : Works(t))
         => \E c \in Caller : Stopping(c)
    /\ \A c \in Caller : Stopping(c) => state \in {"STOP_REQUESTED", "STOPPED"}
    /\ \A c \in Caller : At(c, "stop", "unlock") =>
         \A t \in Task : ~Early(t) /\ ~Works(t)

Safe == LockInv /\ StatusInv /\ TaskInv /\ PlaceInv /\ CallInv

NtpcInv == NtpcTypeOK /\ CallShape /\ RoundInv /\ (Forced \/ Safe)

(* The initial state: nobody calls and no daemon runs *)
LEMMA InitNtpcInv == NtpcInit => NtpcInv
  BY NtpcConfig
  DEF NtpcInit, NtpcInv, NtpcTypeOK, CallShape, RoundInv, LockInv, Safe, Inside,
      StatusInv, TaskInv, Active,
      PlaceInv, CallInv, Early, Works, Ending, Starting, Stopping, At, State,
      Place, Round, FullRound

(* Every step of a caller or a task keeps the shape of the state *)
LEMMA NextShape ==
    NtpcInv /\ [NtpcNext]_ntpc => (NtpcTypeOK /\ CallShape /\ RoundInv)'
<1> DEFINE Shape == NtpcTypeOK /\ CallShape /\ RoundInv
<1> SUFFICES ASSUME NtpcInv, [NtpcNext]_ntpc PROVE Shape'
  OBVIOUS
<1> USE NtpcConfig DEF NtpcInv, NtpcTypeOK, State, Place, Round, FullRound, CallShape,
        RoundInv, Ending, shared, caller, signals, locals, At
<1>1. ASSUME NEW c \in Caller, NEW o \in Ops, Call(c, o) PROVE Shape' BY <1>1, SMTT(30) DEF Call
<1>2. ASSUME NEW c \in Caller, CallerStep(c) PROVE Shape'
  <2>1. CASE Lock(c) BY <2>1 DEF Lock, Go
  <2>2. CASE Look(c) BY <2>2 DEF Look, Go
  <2>3. CASE Copied(c) BY <2>3 DEF Copied, Go
  <2>4. CASE StartTask(c) BY <2>4 DEF StartTask, Go, Move
  <2>5. CASE StartFails(c) BY <2>5 DEF StartFails, Go
  <2>6. CASE RequestStop(c) BY <2>6 DEF RequestStop, Go
  <2>7. CASE Kill(c) BY <2>7 DEF Kill, Go
  <2>8. CASE Wait(c) BY <2>8 DEF Wait, Go
  <2>9. CASE Again(c) BY <2>9, Zenon DEF Again, Go
  <2>10. CASE Unlock(c) BY <2>10 DEF Unlock, Post
  <2> QED BY <1>2, <2>1, <2>2, <2>3, <2>4, <2>5, <2>6, <2>7, <2>8, <2>9, <2>10, Zenon
          DEF CallerStep
<1>3. ASSUME NEW c \in Caller, Interrupted(c) PROVE Shape'
  <2>1. forced' \in 0 .. MaxForced BY <1>3 DEF Interrupted, CountForced
  <2>2. /\ at' \in [Caller -> {"idle", "lock", "look", "copy", "act", "kill", "wait",
                               "again", "unlock"}]
        /\ UNCHANGED <<shared, op, seen, place, intr, locals>>
    BY <1>3 DEF Interrupted, Go
  <2>3. NtpcTypeOK' BY <2>1, <2>2, Zenon
  <2>4. CallShape' BY <1>3 DEF Interrupted, Go
  <2>5. RoundInv' BY <2>2, Zenon
  <2> QED BY <2>3, <2>4, <2>5
<1>4. ASSUME NEW t \in Task, AllocFailed(t) PROVE Shape' BY <1>4 DEF AllocFailed, Move
<1>5. ASSUME NEW t \in Task, TaskStep(t) PROVE Shape'
  <2>1. CASE Alloc(t) BY <2>1 DEF Alloc, Move
  <2>2. CASE SetState(t) BY <2>2, SMTT(30) DEF SetState, Move
  <2>3. CASE PostSync(t)
    <3>1. sync' \in 0 .. MaxSem BY <2>3 DEF PostSync, Post
    <3> QED BY <2>3, <3>1 DEF PostSync, Move
  <2>4. CASE Exit(t) BY <2>4 DEF Exit, Move
  <2>5. CASE EnterLoop(t) BY <2>5 DEF EnterLoop, Move, Top
  <2>6. CASE Sample(t)
    <3>1. PICK r \in Sampled(t) : MoreSamples(t, r) \/ RoundSaved(t, r)
                                  \/ RoundBlocked(t, r) \/ RoundFailed(t, r)
      BY <2>6 DEF Sample
    <3>2. r \in Round
      <4>1. PICK a \in Answers \cup {"EINTR"} :
              r = [left   |-> round[t].left - 1,
                   got    |-> round[t].got \/ a = "sample",
                   errval |-> IF a = "sample" THEN round[t].errval ELSE a]
        BY DEF Sampled
      <4>2. round[t] \in Round /\ round[t].left > 0
        OBVIOUS
      <4> QED BY <4>1, <4>2
    <3>3. /\ place[t] = "sample"
          /\ UNCHANGED <<state, pid, sync, op, at, seen, forced>>
          /\ intr' = [intr EXCEPT ![t] = FALSE]
      BY <2>6, <3>1 DEF Sample, MoreSamples, RoundSaved, RoundBlocked,
                        RoundFailed, Save
    <3>4. CASE MoreSamples(t, r)
      BY <3>2, <3>3, <3>4 DEF MoreSamples
    <3>5. CASE RoundSaved(t, r)
      BY <3>2, <3>3, <3>5 DEF RoundSaved, Save, Saved, Top, Move
    <3>6. CASE RoundBlocked(t, r)
      BY <3>2, <3>3, <3>6 DEF RoundBlocked, Move
    <3>7. CASE RoundFailed(t, r)
      BY <3>2, <3>3, <3>7, SMTT(30) DEF RoundFailed, Top, Move
    <3> QED BY <3>1, <3>4, <3>5, <3>6, <3>7
  <2>7. CASE SaveLocked(t) BY <2>7 DEF SaveLocked, Save, Saved, Top, Move
  <2>8. CASE SaveInterrupted(t)
    <3>1. lock' \in 0 .. MaxSem BY <2>8 DEF SaveInterrupted, Save, Post
    <3>2. forced' \in 0 .. MaxForced BY <2>8 DEF SaveInterrupted, CountForced
    <3> QED BY <2>8, <3>1, <3>2 DEF SaveInterrupted, Save, Saved, Top, Move
  <2>9. CASE WakeUp(t) BY <2>9 DEF WakeUp, Move, Top
  <2> QED BY <1>5, <2>1, <2>2, <2>3, <2>4, <2>5, <2>6, <2>7, <2>8, <2>9, Zenon
          DEF TaskStep
<1>6. CASE UNCHANGED ntpc BY <1>6 DEF ntpc, shared, caller, signals, locals
<1> QED BY <1>1, <1>2, <1>3, <1>4, <1>5, <1>6 DEF NtpcNext

(* What a step does to the history: nothing, or it counts who goes on        *)
(* without the lock                                                          *)
LEMMA NextForce == [NtpcNext]_ntpc => CountForced \/ UNCHANGED forced
  BY Zenon DEF NtpcNext, ntpc, signals, Call, CallerStep, Lock, Look, Copied, StartTask,
         StartFails, RequestStop, Kill, Wait, Again, Unlock, Interrupted, AllocFailed,
         TaskStep, Alloc, SetState, PostSync, Exit, EnterLoop, Sample,
         SaveLocked, SaveInterrupted, WakeUp

(* Nothing takes back that someone has gone on without the lock, and in a    *)
(* step after which nobody has, nobody does                                  *)
LEMMA NextForced ==
    ASSUME NtpcTypeOK, [NtpcNext]_ntpc, ~Forced'
    PROVE  ~Forced /\ ~CountForced
<1>1. forced \in Nat /\ MaxForced \in Nat \ {0}
  BY NtpcConfig DEF NtpcTypeOK
<1>2. ~CountForced
  BY <1>1 DEF CountForced, Forced
<1> QED BY <1>2, NextForce DEF Forced

(* Every step in which nobody goes on without the lock keeps what makes the  *)
(* daemon correct                                                            *)
LEMMA NextSafe == NtpcInv /\ [NtpcNext]_ntpc => (Forced \/ Safe)'
<1> SUFFICES ASSUME NtpcInv, [NtpcNext]_ntpc, Safe, ~CountForced PROVE Safe'
  BY NextForced, Zenon DEF NtpcInv
<1> DEFINE Places == {"idle", "lock", "look", "copy", "act", "kill", "wait",
                     "again", "unlock"}
<1>0. /\ op \in [Caller -> Ops \cup {"none"}]
      /\ at \in [Caller -> Places]
      /\ seen \in [Caller -> {0, 1}]
      /\ place \in [Task -> Place]
      /\ pid \in Task \cup {NoPid}
      /\ lock \in Nat
      /\ CallShape
  BY NtpcConfig DEF NtpcInv, NtpcTypeOK
<1> HIDE DEF Places
<1> USE <1>0, NtpcConfig
    DEF CallShape, Safe, LockInv, Inside, StatusInv,
        TaskInv, Active, PlaceInv, CallInv, Early, Works, Starting, Stopping, At,
        shared, caller, signals, locals
<1>1. ASSUME NEW c \in Caller, NEW o \in Ops, Call(c, o) PROVE Safe' BY <1>1, SMTT(30) DEF Call
<1>2. ASSUME NEW c \in Caller, CallerStep(c) PROVE Safe'
  <2>1. CASE Lock(c) BY <2>1 DEF Lock, Go
  <2>2. CASE Look(c) BY <2>2 DEF Look, Go
  <2>3. CASE Copied(c) BY <2>3 DEF Copied, Go
  <2>4. CASE StartTask(c) BY <2>4 DEF StartTask, Go, Move
  <2>5. CASE StartFails(c) BY <2>5 DEF StartFails, Go
  <2>6. CASE RequestStop(c) BY <2>6 DEF RequestStop, Go
  <2>7. CASE Kill(c) BY <2>7 DEF Kill, Go
  <2>8. CASE Wait(c) BY <2>8 DEF Wait, Go
  <2>9. CASE Again(c) BY <2>9 DEF Again, Go
  <2>10. CASE Unlock(c) BY <2>10 DEF Unlock, Post
  <2> QED BY <1>2, <2>1, <2>2, <2>3, <2>4, <2>5, <2>6, <2>7, <2>8, <2>9, <2>10, Zenon
          DEF CallerStep
<1>3. ASSUME NEW c \in Caller, Interrupted(c) PROVE Safe'
  <2>1. /\ at[c] = "wait" /\ at' = [at EXCEPT ![c] = "again"]
        /\ UNCHANGED <<shared, op, seen, place>>
    BY <1>3, Zenon DEF Interrupted, Go
  <2> QED BY <2>1
<1>4. ASSUME NEW t \in Task, AllocFailed(t) PROVE Safe' BY <1>4, SMTT(30) DEF AllocFailed, Move
<1>5. ASSUME NEW t \in Task, TaskStep(t) PROVE Safe'
  <2>1. CASE Alloc(t) BY <2>1 DEF Alloc, Move
  <2>2. CASE SetState(t) BY <2>2 DEF SetState, Move
  <2>3. CASE PostSync(t) BY <2>3 DEF PostSync, Move, Post
  <2>4. CASE Exit(t) BY <2>4 DEF Exit, Move
  <2>5. CASE EnterLoop(t) BY <2>5, SMTT(30) DEF EnterLoop, Move, Top
  <2>6. CASE Sample(t)
    <3>1. /\ place[t] = "sample"
          /\ UNCHANGED <<state, pid, lock, op, at, seen>>
          /\ \/ UNCHANGED <<place, g_last_samples>>
             \/ \E p \in {"sample", "save", "poll", "retry", "stopped"} :
                  /\ place' = [place EXCEPT ![t] = p]
                  /\ g_last_samples' # g_last_samples => lock > 0
      BY <2>6 DEF Sample, MoreSamples, RoundSaved, RoundBlocked, RoundFailed,
                  Save, Saved, Top, Move
    <3>2. LockInv' BY <3>1
    <3>3. StatusInv' BY <3>1
    <3>4. TaskInv' BY <3>1
    <3>5. PlaceInv' BY <3>1
    <3>6. CallInv' BY <3>1, SMTT(30)
    <3> QED BY <3>2, <3>3, <3>4, <3>5, <3>6
  <2>7. CASE SaveLocked(t)
    <3>1. /\ place[t] = "save"
          /\ UNCHANGED <<state, pid, lock, op, at, seen>>
          /\ lock > 0
          /\ \E p \in {"sample", "poll", "stopped"} :
               place' = [place EXCEPT ![t] = p]
      BY <2>7, Zenon DEF SaveLocked, Save, Saved, Top, Move
    <3>2. LockInv' BY <3>1
    <3>3. StatusInv' BY <3>1
    <3>4. TaskInv' BY <3>1
    <3>5. PlaceInv' BY <3>1
    <3>6. CallInv' BY <3>1
    <3> QED BY <3>2, <3>3, <3>4, <3>5, <3>6, SMTT(30)
  <2>8. ~SaveInterrupted(t) BY Zenon DEF SaveInterrupted
  <2>9. CASE WakeUp(t)
    <3>1. LockInv' BY <2>9 DEF WakeUp, Move, Top
    <3>2. StatusInv' BY <2>9 DEF WakeUp, Move, Top
    <3>3. TaskInv' BY <2>9 DEF WakeUp, Move, Top
    <3>4. PlaceInv' BY <2>9 DEF WakeUp, Move, Top
    <3>5. CallInv' BY <2>9, SMTT(30) DEF WakeUp, Move, Top
    <3> QED BY <3>1, <3>2, <3>3, <3>4, <3>5
  <2> QED BY <1>5, <2>1, <2>2, <2>3, <2>4, <2>5, <2>6, <2>7, <2>8, <2>9, Zenon
          DEF TaskStep
<1>6. CASE UNCHANGED ntpc
  <2>1. LockInv' BY <1>6 DEF ntpc
  <2>2. StatusInv' BY <1>6 DEF ntpc
  <2>3. TaskInv' BY <1>6 DEF ntpc
  <2>4. PlaceInv' BY <1>6 DEF ntpc
  <2>5. CallInv' BY <1>6 DEF ntpc
  <2> QED BY <2>1, <2>2, <2>3, <2>4, <2>5
<1> QED BY <1>1, <1>2, <1>3, <1>4, <1>5, <1>6, Zenon DEF NtpcNext

(* The invariant holds in every behaviour *)
LEMMA AlwaysNtpcInv == NtpcSpec => []NtpcInv
<1>1. NtpcInv /\ [NtpcNext]_ntpc => NtpcInv'
  BY NextShape, NextSafe DEF NtpcInv
<1> QED BY InitNtpcInv, <1>1, PTL DEF NtpcSpec

(* Shape of the state: in particular the retries of the daemon are bounded   *)
(* by CONFIG_NETUTILS_NTPCLIENT_RETRIES plus one                             *)
THEOREM NtpcTypeCorrect == NtpcSpec => []NtpcTypeOK
<1>1. NtpcInv => NtpcTypeOK BY DEF NtpcInv
<1> QED BY AlwaysNtpcInv, <1>1, PTL

(* Until someone goes on without the lock, ntpc_start never creates a daemon *)
(* beside another                                                            *)
THEOREM DaemonIsAlone == NtpcSpec => []OneDaemon
<1>1. NtpcInv => OneDaemon BY DEF NtpcInv, Safe, TaskInv, OneDaemon
<1> QED BY AlwaysNtpcInv, <1>1, PTL

(* Until then ntpc_status returns the samples of one round: the daemon       *)
(* replaces them only where the lock is free, and then no caller is inside   *)
THEOREM StatusIsWhole == NtpcSpec => []StatusOfOneRound
<1>1. NtpcInv => StatusOfOneRound BY DEF NtpcInv, Safe, StatusInv, StatusOfOneRound
<1> QED BY AlwaysNtpcInv, <1>1, PTL

(* Until then no daemon works any more when ntpc_stop returns *)
THEOREM StopsEffectively == NtpcSpec => []StopEffective
<1>1. NtpcInv => StopEffective
  BY DEF NtpcInv, Safe, CallInv, Works, StopEffective, Working, Active
<1> QED BY AlwaysNtpcInv, <1>1, PTL

-----------------------------------------------------------------------------
(***************************************************************************)
(* The servers.  None is asked that has sent a Kiss-o'-Death, and none     *)
(* twice in a round before four selections in a row have found no other.   *)
(***************************************************************************)

Addr == V4 \cup V6

(* Addresses of one length, which is what a network has that is not both   *)
(* IPv4 and IPv6                                                           *)
OneLength == V4 = {} \/ V6 = {}

(* The slots of the last answer hold addresses, and so does what is asked  *)
Filled ==
    /\ \A k \in 1 .. num : list[k].head \in Addr
    /\ phase = "ask" => server.head \in Addr
    /\ phase # "round" => i < NumSamples

(* The bytes of an address that was copied to a cleared slot *)
Pure(b) == b.tail = IF b.head \in V6 THEN b.head ELSE Zero

(* Bytes that are compared are those of addresses *)
AllPure ==
    /\ \A k \in 1 .. num : Pure(list[k])
    /\ \A k \in 1 .. Len(kod_list) : Pure(kod_list[k])
    /\ \A k \in 1 .. Len(samples) : Pure(samples[k])
    /\ phase = "ask" => Pure(server)

(* The list has the servers that were denied, each once, and a server that *)
(* is asked is neither on it nor, before the last retry, in the samples    *)
Excluded ==
    /\ denied = {kod_list[k].head : k \in 1 .. Len(kod_list)}
    /\ IsInjective(kod_list)
    /\ phase = "ask" => ~ntp_address_in_kod_list(server)
    /\ phase = "ask" /\ retry < MAX_SERVER_SELECTION_RETRIES => ~AlreadySampled(server)

TInv == TypeOK /\ Filled
IInv == TInv /\ AllPure /\ Excluded

-----------------------------------------------------------------------------
(* Operators *)

(* A host has a name, and so has the next one unless the names start over *)
LEMMA HostNamed ==
    ASSUME TypeOK
    PROVE  Host \in 1 .. Len(Hosts) /\ NextHost \in 0 .. Len(Hosts)
BY ServersConfig DEF TypeOK, Host, NextHost

(* memcpy puts an address in a slot *)
LEMMA memcpyBytes ==
    ASSUME NEW slot \in Bytes, NEW addr \in Addr
    PROVE  memcpy(slot, addr) \in Bytes /\ memcpy(slot, addr).head = addr
<1>1. slot.tail \in V6 \cup {Zero}
    BY DEF Bytes
<1>2. (IF addr \in V6 THEN addr ELSE slot.tail) \in V6 \cup {Zero}
    BY <1>1
<1> QED
    BY <1>2 DEF memcpy, Bytes, Addr

(* Where all addresses have one length, no bytes of an earlier one remain *)
LEMMA memcpyPure ==
    ASSUME OneLength, NEW slot \in Bytes, NEW addr \in Addr
    PROVE  Pure(memcpy(slot, addr))
<1>1. memcpy(slot, addr).head = addr
    BY DEF memcpy
<1>2. memcpy(slot, addr).tail = IF addr \in V6 THEN addr ELSE slot.tail
    BY DEF memcpy
<1>3. addr \notin V6 => slot.tail = Zero
    BY DEF OneLength, Addr, Bytes
<1> QED
    BY <1>1, <1>2, <1>3 DEF Pure

(* The bytes of an address determine it and are determined by it *)
LEMMA PureEqual ==
    ASSUME NEW x \in Bytes, NEW y \in Bytes, Pure(x), Pure(y), x.head = y.head
    PROVE  x = y
BY DEF Bytes, Pure

(* What ntp_get_next_hostip returns is one of the slots that an answer of   *)
(* DNS has filled, and the list stays within its size                       *)
LEMMA NextHostIp ==
    ASSUME TInv, NEW r \in ntp_get_next_hostip
    PROVE  /\ r.list \in [1 .. NumSamples -> Bytes]
           /\ r.num \in 0 .. NumSamples /\ r.pos \in 0 .. NumSamples
           /\ r.hostnext \in 0 .. Len(Hosts)
           /\ \A k \in 1 .. r.num : r.list[k].head \in Addr
           /\ r.addr \in Bytes /\ r.addr.head \in Addr
           /\ OneLength /\ AllPure => Pure(r.addr) /\ \A k \in 1 .. r.num : Pure(r.list[k])
<1>0. /\ list \in [1 .. NumSamples -> Bytes] /\ num \in 0 .. NumSamples
      /\ pos \in 0 .. NumSamples /\ hostnext \in 0 .. Len(Hosts)
      /\ \A k \in 1 .. num : list[k].head \in Addr
    BY DEF TInv, TypeOK, Filled
<1>1. CASE pos < num
  <2>1. r = [list |-> list, num |-> num, pos |-> pos + 1, hostnext |-> hostnext,
             addr |-> list[pos + 1]]
    BY <1>1 DEF ntp_get_next_hostip
  <2>2. /\ r.list = list /\ r.num = num /\ r.pos = pos + 1
        /\ r.hostnext = hostnext /\ r.addr = list[pos + 1]
    BY <2>1
  <2>3. pos + 1 \in 1 .. num /\ pos + 1 \in 1 .. NumSamples /\ pos + 1 \in 0 .. NumSamples
    BY <1>0, <1>1, ServersConfig
  <2> QED
    BY <1>0, <2>2, <2>3 DEF AllPure
<1>2. CASE ~(pos < num)
  <2>1. PICK answer \in Answer(Hosts[Host]) \ {<<>>} :
          r = [list |-> Resolved(answer),
               num |-> IF Len(answer) < NumSamples THEN Len(answer) ELSE NumSamples,
               pos |-> 1, hostnext |-> NextHost, addr |-> Resolved(answer)[1]]
    BY <1>2 DEF ntp_get_next_hostip
  <2>2. /\ r.list = Resolved(answer)
        /\ r.num = IF Len(answer) < NumSamples THEN Len(answer) ELSE NumSamples
        /\ r.pos = 1 /\ r.hostnext = NextHost /\ r.addr = Resolved(answer)[1]
    BY <2>1
  <2>3. Host \in 1 .. Len(Hosts) /\ NextHost \in 0 .. Len(Hosts)
    BY HostNamed DEF TInv
  <2>4. answer \in Seq(Addr) /\ answer # <<>>
    BY <2>1, <2>3, ServersConfig DEF Addr
  <2>5. Len(answer) \in Nat \ {0} /\ \A k \in 1 .. Len(answer) : answer[k] \in Addr
    BY <2>4
  <2>6. r.num \in 1 .. NumSamples /\ r.num <= Len(answer)
    BY <2>2, <2>5, ServersConfig
  <2>7. \A k \in 1 .. NumSamples :
          Resolved(answer)[k] = IF k <= Len(answer) THEN memcpy(list[k], answer[k]) ELSE list[k]
    BY DEF Resolved
  <2>8. \A k \in 1 .. r.num :
          /\ k \in 1 .. NumSamples /\ answer[k] \in Addr
          /\ Resolved(answer)[k] = memcpy(list[k], answer[k])
    <3> SUFFICES ASSUME NEW k \in 1 .. r.num
                 PROVE  /\ k \in 1 .. NumSamples /\ answer[k] \in Addr
                        /\ Resolved(answer)[k] = memcpy(list[k], answer[k])
      OBVIOUS
    <3>1. k \in 1 .. NumSamples /\ k \in 1 .. Len(answer) /\ k <= Len(answer)
      BY <2>5, <2>6, ServersConfig
    <3> QED
      BY <2>5, <2>7, <3>1
  <2>9. \A k \in 1 .. r.num : Resolved(answer)[k] \in Bytes /\ Resolved(answer)[k].head \in Addr
    <3> SUFFICES ASSUME NEW k \in 1 .. r.num
                 PROVE  Resolved(answer)[k] \in Bytes /\ Resolved(answer)[k].head \in Addr
      OBVIOUS
    <3>1. list[k] \in Bytes /\ answer[k] \in Addr
      BY <1>0, <2>8
    <3>2. memcpy(list[k], answer[k]) \in Bytes /\ memcpy(list[k], answer[k]).head = answer[k]
      BY <3>1, memcpyBytes
    <3> QED
      BY <2>8, <3>1, <3>2
  <2>10. \A k \in 1 .. NumSamples : Resolved(answer)[k] \in Bytes
    <3> SUFFICES ASSUME NEW k \in 1 .. NumSamples PROVE Resolved(answer)[k] \in Bytes
      OBVIOUS
    <3>1. CASE k <= Len(answer)
      <4>1. k \in 1 .. Len(answer)
        BY <2>5, <3>1, ServersConfig
      <4>2. list[k] \in Bytes /\ answer[k] \in Addr
        BY <1>0, <2>5, <4>1
      <4>3. memcpy(list[k], answer[k]) \in Bytes
        BY <4>2, memcpyBytes
      <4> QED
        BY <2>7, <3>1, <4>3
    <3>2. CASE ~(k <= Len(answer))
      BY <1>0, <2>7, <3>2
    <3> QED
      BY <3>1, <3>2
  <2>11. Resolved(answer) \in [1 .. NumSamples -> Bytes]
    BY <2>10 DEF Resolved
  <2>12. OneLength => \A k \in 1 .. r.num : Pure(Resolved(answer)[k])
    <3> SUFFICES ASSUME OneLength, NEW k \in 1 .. r.num
                 PROVE  Pure(Resolved(answer)[k])
      OBVIOUS
    <3>1. list[k] \in Bytes /\ answer[k] \in Addr
      BY <1>0, <2>8
    <3>2. Pure(memcpy(list[k], answer[k]))
      BY <3>1, memcpyPure
    <3> QED
      BY <2>8, <3>2
  <2>13. 1 \in 1 .. r.num /\ 1 \in 0 .. NumSamples
    BY <2>6, ServersConfig
  <2>14. r.num \in 0 .. NumSamples /\ r.pos \in 0 .. NumSamples
    BY <2>2, <2>6, <2>13
  <2>15. r.addr = r.list[1] /\ r.addr \in Bytes /\ r.addr.head \in Addr
    BY <2>2, <2>9, <2>13
  <2>16. OneLength => Pure(r.addr) /\ \A k \in 1 .. r.num : Pure(r.list[k])
    BY <2>2, <2>12, <2>13, Zenon
  <2> QED
    BY <2>2, <2>3, <2>9, <2>11, <2>14, <2>15, <2>16, Zenon
<1> QED
    BY <1>1, <1>2

-----------------------------------------------------------------------------
(* Before the first round *)
LEMMA InitTInv == Init => TInv
BY ServersConfig DEF Init, TInv, TypeOK, Filled, Bytes, Cleared, Addr,
                     MAX_SERVER_SELECTION_RETRIES

(* The sample is done with *)
LEMMA DoneShape ==
    ASSUME TInv, phase # "round", Done
    PROVE  /\ i \in 0 .. NumSamples - 1 /\ i' = i + 1 /\ i' \in 0 .. NumSamples
           /\ phase' \in {"round", "select"} /\ (phase' # "round" => i' < NumSamples)
           /\ retry' \in 0 .. MAX_SERVER_SELECTION_RETRIES
           /\ server' \in Bytes
BY ServersConfig DEF TInv, TypeOK, Filled, Done, Bytes, Cleared, MAX_SERVER_SELECTION_RETRIES

(* A turn of the selection that does not end it *)
LEMMA TryNextShape ==
    ASSUME TInv, TryNext
    PROVE  /\ UNCHANGED i /\ UNCHANGED phase /\ UNCHANGED server
           /\ retry' \in 0 .. MAX_SERVER_SELECTION_RETRIES
BY DEF TInv, TypeOK, TryNext, MAX_SERVER_SELECTION_RETRIES

(* The types, the filled slots and the count of the samples are kept *)
LEMMA NextTInv == TInv /\ [Next]_vars => TInv'
<1> SUFFICES ASSUME TInv, [Next]_vars PROVE TInv'
    OBVIOUS
<1> USE DEF TInv
<1>0. Len(samples) \in Nat /\ i \in 0 .. NumSamples
    BY DEF TypeOK
<1>1. CASE NewRound
    BY <1>1, ServersConfig DEF NewRound, TypeOK, Filled, Bytes, Cleared, Addr,
       MAX_SERVER_SELECTION_RETRIES
<1>2. CASE LookupFails \/ StrdupFails
  <2>1. /\ phase = "select" /\ Done
        /\ num' = 0 /\ pos' = 0 /\ hostnext' \in {hostnext, NextHost}
        /\ UNCHANGED <<kod_list, list, samples, denied>>
    BY <1>2 DEF LookupFails, StrdupFails
  <2>2. hostnext' \in 0 .. Len(Hosts)
    BY <2>1, HostNamed DEF TypeOK
  <2>3. TypeOK'
    BY <1>0, <2>1, <2>2, DoneShape, ServersConfig DEF TypeOK
  <2>4. phase' # "ask" /\ (phase' # "round" => i' < NumSamples)
    BY <2>1, DoneShape
  <2>5. \A k \in 1 .. num' : FALSE
    BY <2>1
  <2> QED
    BY <2>3, <2>4, <2>5, Zenon DEF Filled
<1>3. CASE Select
  <2>1. PICK r \in ntp_get_next_hostip :
          /\ list' = r.list /\ num' = r.num /\ pos' = r.pos
          /\ hostnext' = r.hostnext
          /\ \/ Done
             \/ TryNext
             \/ server' = r.addr /\ phase' = "ask" /\ UNCHANGED <<i, retry>>
    BY <1>3 DEF Select
  <2>2. phase = "select" /\ UNCHANGED <<kod_list, samples, denied>>
    BY <1>3 DEF Select
  <2>3. /\ i' \in 0 .. NumSamples /\ Len(samples') <= i'
        /\ phase' \in {"round", "select", "ask"} /\ (phase' # "round" => i' < NumSamples)
        /\ retry' \in 0 .. MAX_SERVER_SELECTION_RETRIES
        /\ server' \in Bytes
        /\ phase' = "ask" => server'.head \in Addr
    <3>1. CASE Done
      BY <1>0, <2>2, <3>1, DoneShape, ServersConfig DEF TypeOK
    <3>2. CASE TryNext
      BY <1>0, <2>2, <3>2, TryNextShape, SMTT(30) DEF TypeOK, Filled
    <3>3. CASE server' = r.addr /\ phase' = "ask" /\ UNCHANGED <<i, retry>>
      BY <1>0, <2>2, <3>3, NextHostIp, SMTT(30) DEF TypeOK, Filled
    <3> QED
      BY <2>1, <3>1, <3>2, <3>3
  <2>4. TypeOK'
    BY <2>1, <2>2, <2>3, NextHostIp, SMTT(30) DEF TypeOK
  <2>5. Filled'
    BY <2>1, <2>3, NextHostIp DEF Filled
  <2> QED
    BY <2>4, <2>5
<1>4. CASE SampleTaken \/ SampleFails \/ ntp_is_kiss_of_death
  <2>1. /\ phase = "ask" /\ Done /\ UNCHANGED <<list, num, pos, hostnext>>
        /\ samples' \in {samples, Append(samples, server)}
        /\ kod_list' \in {kod_list, Append(kod_list, server)}
        /\ denied' \in {denied, denied \cup {server.head}}
    BY <1>4 DEF SampleTaken, SampleFails, ntp_is_kiss_of_death, srvs
  <2>2. server \in Bytes /\ server.head \in Addr
    BY <2>1 DEF TypeOK, Filled
  <2>3. /\ samples' \in Seq(Bytes) /\ Len(samples') <= i'
        /\ kod_list' \in Seq(Bytes)
        /\ denied' \subseteq Addr
    <3>1. i' = i + 1
      BY <2>1, DoneShape
    <3>2. samples \in Seq(Bytes) /\ kod_list \in Seq(Bytes) /\ denied \subseteq Addr
            /\ Len(samples) <= i
      BY DEF TypeOK, Addr
    <3>3. /\ Append(samples, server) \in Seq(Bytes) /\ Append(kod_list, server) \in Seq(Bytes)
          /\ Len(Append(samples, server)) = Len(samples) + 1
      BY <2>2, <3>2
    <3>4. denied' \subseteq Addr /\ samples' \in Seq(Bytes) /\ kod_list' \in Seq(Bytes)
      BY <2>1, <2>2, <3>2, <3>3, Zenon
    <3>5. Len(samples') \in {Len(samples), Len(samples) + 1}
      BY <2>1, <3>3
    <3>6. Len(samples') <= i'
      BY <1>0, <3>1, <3>2, <3>5, ServersConfig
    <3> QED
      BY <3>4, <3>6
  <2>4. TypeOK'
    BY <2>1, <2>3, DoneShape, SMTT(30) DEF TypeOK, Addr
  <2>5. Filled'
    BY <2>1, DoneShape, Zenon DEF Filled
  <2> QED
    BY <2>4, <2>5
<1>5. CASE UNCHANGED vars
    BY <1>5 DEF vars, srvs, TypeOK, Filled
<1> QED
    BY <1>1, <1>2, <1>3, <1>4, <1>5 DEF Next

(* The list of servers and its two indices stay within the list, the names   *)
(* within the names of the configuration, and only addresses that DNS gave   *)
(* are asked and denied, whatever DNS answers and however long it is.        *)
THEOREM ServersTypeCorrect == Spec => []TypeOK
<1>1. Init => TInv
    BY InitTInv
<1>2. TInv /\ [Next]_vars => TInv'
    BY NextTInv
<1>3. TInv => TypeOK
    BY DEF TInv
<1> QED
    BY <1>1, <1>2, <1>3, PTL DEF Spec

-----------------------------------------------------------------------------
(* Before the first round nothing is excluded *)
LEMMA InitExcluded == Init => AllPure /\ Excluded
<1> SUFFICES ASSUME Init PROVE AllPure /\ Excluded
    OBVIOUS
<1>1. kod_list = <<>> /\ samples = <<>> /\ num = 0 /\ phase = "round" /\ denied = {}
    BY DEF Init
<1> QED
    BY <1>1 DEF AllPure, Excluded, IsInjective

(* A list that neither grows nor is asked from *)
LEMMA NothingAsked ==
    ASSUME Excluded, AllPure, UNCHANGED <<kod_list, denied>>, phase' # "ask",
           samples' = samples \/ samples' = <<>>,
           \A k \in 1 .. num' : Pure(list'[k])
    PROVE  AllPure' /\ Excluded'
<1>1. \A k \in 1 .. Len(samples') : Pure(samples'[k])
    BY SMTT(30) DEF AllPure
<1>2. AllPure'
    BY <1>1, SMTT(30) DEF AllPure, Pure
<1>3. Excluded'
    BY DEF Excluded, IsInjective
<1> QED
    BY <1>2, <1>3

(* The exclusion list and the samples are compared with what they hold *)
LEMMA NextExcluded ==
    ASSUME OneLength, IInv, [Next]_vars
    PROVE  AllPure' /\ Excluded'
<1> USE DEF IInv
<1>1. CASE NewRound
    BY <1>1, NothingAsked DEF NewRound
<1>2. CASE LookupFails \/ StrdupFails
    BY <1>2, NothingAsked DEF LookupFails, StrdupFails, Done
<1>3. CASE Select
  <2>1. PICK r \in ntp_get_next_hostip :
          /\ list' = r.list /\ num' = r.num
          /\ \/ Done
             \/ TryNext
             \/ /\ ~ntp_address_in_kod_list(r.addr)
                /\ AlreadySampled(r.addr) => retry >= MAX_SERVER_SELECTION_RETRIES
                /\ server' = r.addr /\ phase' = "ask" /\ UNCHANGED retry
    BY <1>3 DEF Select
  <2>2. phase = "select" /\ UNCHANGED <<kod_list, samples, denied>>
    BY <1>3, SMTT(30) DEF Select
  <2>3. Pure(r.addr) /\ \A k \in 1 .. num' : Pure(list'[k])
    BY <2>1, NextHostIp, SMTT(30)
  <2>4. CASE phase' # "ask"
    BY <2>2, <2>3, <2>4, NothingAsked
  <2>5. CASE phase' = "ask"
    <3>1. /\ ~ntp_address_in_kod_list(r.addr)
          /\ AlreadySampled(r.addr) => retry >= MAX_SERVER_SELECTION_RETRIES
          /\ server' = r.addr /\ UNCHANGED retry
      BY <2>1, <2>2, <2>5 DEF Done, TryNext
    <3>2. retry \in 0 .. 3
      BY SMTT(30) DEF TInv, TypeOK, MAX_SERVER_SELECTION_RETRIES
    <3>3. AllPure'
      BY <2>2, <2>3, <3>1 DEF AllPure, Pure
    <3>4. ~ntp_address_in_kod_list(server)'
      BY <2>2, <3>1 DEF ntp_address_in_kod_list
    <3>5. retry' < MAX_SERVER_SELECTION_RETRIES => ~AlreadySampled(server)'
      BY <2>2, <3>1, <3>2, SMTT(30) DEF AlreadySampled, MAX_SERVER_SELECTION_RETRIES
    <3>6. Excluded'
      BY <2>2, <3>4, <3>5, Zenon DEF Excluded, IsInjective
    <3> QED
      BY <3>3, <3>6
  <2> QED
    BY <2>4, <2>5
<1>4. CASE SampleFails
    BY <1>4, NothingAsked DEF SampleFails, Done, srvs, AllPure
<1>5. CASE SampleTaken
  <2>1. /\ phase = "ask" /\ samples' = Append(samples, server) /\ phase' # "ask"
        /\ UNCHANGED <<kod_list, list, num, denied>>
    BY <1>5 DEF SampleTaken, Done, srvs
  <2>2. samples \in Seq(Bytes) /\ server \in Bytes
    BY DEF TInv, TypeOK
  <2>3. /\ Len(samples') = Len(samples) + 1 /\ Len(samples) \in Nat
        /\ \A k \in 1 .. Len(samples) : samples'[k] = samples[k]
        /\ samples'[Len(samples) + 1] = server
    BY <2>1, <2>2
  <2>4. \A k \in 1 .. Len(samples') : Pure(samples'[k])
    <3> SUFFICES ASSUME NEW k \in 1 .. Len(samples') PROVE Pure(samples'[k])
      OBVIOUS
    <3>1. k \in 1 .. Len(samples) \/ k = Len(samples) + 1
      BY <2>3, SMTT(30)
    <3> QED
      BY <2>1, <2>3, <3>1 DEF AllPure
  <2>5. AllPure'
    BY <2>1, <2>4 DEF AllPure, Pure
  <2>6. Excluded'
    BY <2>1 DEF Excluded, IsInjective
  <2> QED
    BY <2>5, <2>6
<1>6. CASE ntp_is_kiss_of_death
  <2>1. /\ phase = "ask" /\ kod_list' = Append(kod_list, server) /\ phase' # "ask"
        /\ denied' = denied \cup {server.head}
        /\ UNCHANGED <<samples, list, num>>
    BY <1>6 DEF ntp_is_kiss_of_death, Done, srvs
  <2>2. kod_list \in Seq(Bytes) /\ server \in Bytes
    BY DEF TInv, TypeOK
  <2>3. /\ Len(kod_list') = Len(kod_list) + 1 /\ Len(kod_list) \in Nat
        /\ \A k \in 1 .. Len(kod_list) : kod_list'[k] = kod_list[k]
        /\ kod_list'[Len(kod_list) + 1] = server
        /\ DOMAIN kod_list' = 1 .. Len(kod_list) + 1
        /\ DOMAIN kod_list = 1 .. Len(kod_list)
    BY <2>1, <2>2, SMTT(30)
  <2>4. 1 .. Len(kod_list') = 1 .. Len(kod_list) \cup {Len(kod_list) + 1}
    BY <2>3
  <2>5. \A k \in 1 .. Len(kod_list') : Pure(kod_list'[k])
    BY <2>1, <2>3, <2>4, SMTT(30) DEF AllPure
  <2>6. AllPure'
    BY <2>1, <2>5 DEF AllPure, Pure
  <2>7. \A k \in 1 .. Len(kod_list) : kod_list[k] # server
    BY <2>1, SMTT(30) DEF Excluded, ntp_address_in_kod_list
  <2>8. IsInjective(kod_list')
    BY <2>3, <2>4, <2>7 DEF Excluded, IsInjective
  <2>9. denied' = {kod_list'[k].head : k \in 1 .. Len(kod_list')}
    BY <2>1, <2>3, <2>4, SMTT(30) DEF Excluded
  <2>10. Excluded'
    BY <2>1, <2>8, <2>9, SMTT(30) DEF Excluded
  <2> QED
    BY <2>6, <2>10
<1>7. CASE UNCHANGED vars
    BY <1>7, Zenon DEF vars, srvs, AllPure, Pure, Excluded, IsInjective, ntp_address_in_kod_list,
       AlreadySampled
<1> QED
    BY <1>1, <1>2, <1>3, <1>4, <1>5, <1>6, <1>7 DEF Next

(* The lists compare bytes, and in them equal bytes are equal addresses *)
LEMMA InvariantExcludes == IInv => DeniedIsNotAsked /\ FreshServer
<1> SUFFICES ASSUME IInv PROVE DeniedIsNotAsked /\ FreshServer
    OBVIOUS
<1>1. IsInjective(kod_list)
    BY DEF IInv, Excluded
<1> SUFFICES ASSUME phase = "ask"
             PROVE  /\ server.head \notin denied \cup {Zero}
                    /\ retry < MAX_SERVER_SELECTION_RETRIES
                         => server.head \notin {samples[k].head : k \in 1 .. Len(samples)}
    BY <1>1 DEF DeniedIsNotAsked, FreshServer
<1>2. /\ server \in Bytes /\ kod_list \in Seq(Bytes) /\ samples \in Seq(Bytes)
      /\ server.head \in Addr /\ Pure(server)
    BY DEF IInv, TInv, TypeOK, Filled, AllPure
<1>3. ASSUME NEW k \in 1 .. Len(kod_list), kod_list[k].head = server.head PROVE FALSE
  <2>1. kod_list[k] \in Bytes /\ Pure(kod_list[k])
    BY <1>2 DEF IInv, AllPure
  <2>2. kod_list[k] = server
    BY <1>2, <1>3, <2>1, PureEqual
  <2> QED
    BY <2>2 DEF IInv, Excluded, ntp_address_in_kod_list
<1>4. ASSUME NEW k \in 1 .. Len(samples), samples[k].head = server.head,
             retry < MAX_SERVER_SELECTION_RETRIES
      PROVE  FALSE
  <2>1. samples[k] \in Bytes /\ Pure(samples[k])
    BY <1>2 DEF IInv, AllPure
  <2>2. samples[k] = server
    BY <1>2, <1>4, <2>1, PureEqual
  <2> QED
    BY <1>4, <2>2 DEF IInv, Excluded, AlreadySampled
<1>5. server.head # Zero
    BY <1>2, ServersConfig, SMTT(30) DEF Addr
<1>6. server.head \notin denied
    BY <1>3 DEF IInv, Excluded
<1> QED
    BY <1>4, <1>5, <1>6

(* The invariant holds in every state *)
LEMMA InvariantHolds ==
    ASSUME OneLength
    PROVE  Spec => []IInv
<1>1. Init => IInv
    BY InitTInv, InitExcluded DEF IInv
<1>2. IInv /\ [Next]_vars => IInv'
    BY NextTInv, NextExcluded DEF IInv
<1> QED
    BY <1>1, <1>2, PTL DEF Spec

(* Where all addresses have one length, a server that has sent a             *)
(* Kiss-o'-Death is never asked again, in this round or a later one, the     *)
(* exclusion list has it once, and only slots that DNS has filled are asked. *)
THEOREM ServersDenied ==
    ASSUME OneLength
    PROVE  Spec => []DeniedIsNotAsked
<1>1. IInv => DeniedIsNotAsked
    BY InvariantExcludes
<1> QED
    BY <1>1, InvariantHolds, PTL

(* Where all addresses have one length, a round asks a server that it has a  *)
(* sample of only after four selections in a row found no other.             *)
THEOREM ServersFresh ==
    ASSUME OneLength
    PROVE  Spec => []FreshServer
<1>1. IInv => FreshServer
    BY InvariantExcludes
<1> QED
    BY <1>1, InvariantHolds, PTL

-----------------------------------------------------------------------------
(***************************************************************************)
(* The result of a round, for 64-bit offsets of any size: the sums do not  *)
(* overflow and the result lies between the middle samples.                *)
(***************************************************************************)

(* The offsets that have a negation in int64_t *)
Offset == {x \in Int : -Mod < 2 * x /\ 2 * x < Mod}

(* A value that fits is not changed by the conversion to uint64_t *)
LEMMA FitsUnsigned ==
  ASSUME NEW x \in Nat, x < Mod
  PROVE  Unsigned(x) = x
<1>1. Mod \in Nat \ {0}
  BY TimeConfig DEF Mod
<1> QED BY <1>1 DEF Unsigned

(* The average of two offsets lies between them, whatever their signs *)
THEOREM AverageBetween ==
  ASSUME NEW a \in Offset, NEW b \in Offset, a <= b
  PROVE  Average(b, a) \in Int /\ a <= Average(b, a) /\ Average(b, a) <= b
<1> USE DEF Offset
<1>0. Mod \in Nat
  BY TimeConfig DEF Mod
<1>1. CASE a > 0 /\ b > 0
  <2>1. Unsigned(b + a) = b + a BY <1>0, <1>1, FitsUnsigned
  <2> QED BY <1>1, <2>1 DEF Average
<1>2. CASE a < 0 /\ b < 0
  <2>1. Unsigned(-b - a) = -b - a BY <1>0, <1>2, FitsUnsigned
  <2> QED BY <1>2, <2>1 DEF Average
<1>3. CASE ~(a > 0 /\ b > 0) /\ ~(a < 0 /\ b < 0)
  BY <1>3 DEF Average, Quotient
<1> QED BY <1>1, <1>2, <1>3

(* The offset a round applies lies between its lower and its upper middle    *)
(* sample, so that fewer wrong samples than half of them cannot move it      *)
(* beyond the right ones                                                     *)
THEOREM MedianIsMiddle ==
  ASSUME NEW s \in Seq(Offset), Len(s) > 0,
         \A j, k \in 1 .. Len(s) : j <= k => s[j] <= s[k]
  PROVE  /\ s[(Len(s) + 1) \div 2] <= MedianOffset(s)
         /\ MedianOffset(s) <= s[Len(s) \div 2 + 1]
<1> DEFINE n == Len(s)
<1>1. n \in Nat /\ \A k \in 1 .. n : s[k] \in Offset
  OBVIOUS
<1>2. CASE n % 2 = 1
  <2>1. (n + 1) \div 2 = n \div 2 + 1 BY <1>1, <1>2
  <2>2. n \div 2 + 1 \in 1 .. n BY <1>1, <1>2
  <2> QED BY <1>1, <1>2, <2>1, <2>2 DEF MedianOffset, Offset
<1>3. CASE n % 2 # 1
  <2>1. (n + 1) \div 2 = n \div 2 BY <1>1, <1>3
  <2>2. n \div 2 \in 1 .. n /\ n \div 2 + 1 \in 1 .. n BY <1>1, <1>3
  <2>3. s[n \div 2] <= s[n \div 2 + 1] BY <2>2
  <2> QED BY <1>1, <1>3, <2>1, <2>2, <2>3, AverageBetween DEF MedianOffset
<1> QED BY <1>2, <1>3
-----------------------------------------------------------------------------
(* The lock of the daemon: how many callers it admits *)

(* What a step does to the lock, to the count of those that went on without *)
(* it and to the callers inside                                             *)
LEMMA LockEffect ==
    ASSUME NtpcTypeOK, [NtpcNext]_ntpc
    PROVE  \/ UNCHANGED <<lock, forced, Inside>>
           \/ \E c \in Caller \ Inside :
                /\ Inside' = Inside \cup {c}
                /\ \/ lock > 0 /\ lock' = lock - 1 /\ forced' = forced
                   \/ lock' = lock /\ CountForced
           \/ \E c \in Inside : /\ Inside' = Inside \ {c}
                               /\ lock' = Post(lock) /\ forced' = forced
           \/ lock' = Post(lock) /\ CountForced /\ Inside' = Inside
<1> DEFINE Places == {"idle", "lock", "look", "copy", "act", "kill", "wait", "again",
                     "unlock"}
<1>0. at \in [Caller -> Places]
  BY DEF NtpcTypeOK
<1> HIDE DEF Places
<1> USE DEF shared, caller, signals
<1>1. ASSUME NEW c \in Caller, at[c] \in {"idle", "lock"}, NEW p \in {"idle", "lock"},
             at' = [at EXCEPT ![c] = p]
      PROVE  Inside' = Inside
  BY <1>0, <1>1 DEF Inside
<1>2. ASSUME NEW c \in Inside, NEW p, p \notin {"idle", "lock"}, at' = [at EXCEPT ![c] = p]
      PROVE  Inside' = Inside
  BY <1>0, <1>2 DEF Inside
<1>3. ASSUME NEW c \in Caller, at[c] = "lock", at' = [at EXCEPT ![c] = "look"]
      PROVE  c \notin Inside /\ Inside' = Inside \cup {c}
  BY <1>0, <1>3 DEF Inside
<1>4. ASSUME NEW c \in Caller, at[c] = "unlock", at' = [at EXCEPT ![c] = "idle"]
      PROVE  c \in Inside /\ Inside' = Inside \ {c}
  BY <1>0, <1>4 DEF Inside
<1>5. ASSUME UNCHANGED at PROVE Inside' = Inside
  BY <1>5, Zenon DEF Inside
<1>6. ASSUME NEW c \in Caller, NEW o \in Ops, Call(c, o)
      PROVE  UNCHANGED <<lock, forced, Inside>>
  <2>1. at[c] \in {"idle", "lock"} /\ at' = [at EXCEPT ![c] = "lock"]
    BY <1>6 DEF Call
  <2>2. Inside' = Inside BY <1>1, <2>1, Zenon
  <2> QED BY <1>6, <2>2 DEF Call
<1>7. ASSUME NEW c \in Caller,
             Look(c) \/ Copied(c) \/ StartTask(c) \/ StartFails(c) \/ RequestStop(c)
               \/ Kill(c) \/ Wait(c) \/ Again(c)
      PROVE  UNCHANGED <<lock, forced, Inside>>
  <2>1. PICK p \in {"act", "unlock", "wait", "kill", "again", "copy"} :
          at' = [at EXCEPT ![c] = p]
    BY <1>7, Zenon DEF Look, Copied, StartTask, StartFails, RequestStop, Kill, Wait, Again, Go
  <2>2. c \in Inside
    BY <1>7, Zenon DEF Look, Copied, StartTask, StartFails, RequestStop, Kill, Wait, Again, At,
                Inside
  <2>3. Inside' = Inside BY <1>2, <2>1, <2>2, Zenon
  <2>4. UNCHANGED <<lock, forced>>
    BY <1>7, Zenon DEF Look, Copied, StartTask, StartFails, RequestStop, Kill, Wait, Again
  <2> QED BY <2>3, <2>4
<1>8. ASSUME NEW c \in Caller, Lock(c)
      PROVE  /\ c \in Caller \ Inside /\ Inside' = Inside \cup {c}
             /\ lock > 0 /\ lock' = lock - 1 /\ forced' = forced
  <2>1. at[c] = "lock" /\ at' = [at EXCEPT ![c] = "look"] BY <1>8 DEF Lock, Go
  <2> QED BY <1>3, <1>8, <2>1, Zenon DEF Lock
<1>9. ASSUME NEW c \in Caller, Unlock(c)
      PROVE  /\ c \in Inside /\ Inside' = Inside \ {c}
             /\ lock' = Post(lock) /\ forced' = forced
  <2>1. at[c] = "unlock" /\ at' = [at EXCEPT ![c] = "idle"] BY <1>9 DEF Unlock
  <2> QED BY <1>4, <1>9, <2>1, Zenon DEF Unlock
<1>10. ASSUME NEW c \in Caller, Interrupted(c)
       PROVE  \/ UNCHANGED <<lock, forced, Inside>>
              \/ /\ c \in Caller \ Inside /\ Inside' = Inside \cup {c}
                 /\ lock' = lock /\ CountForced
  <2>1. CASE at[c] = "lock"
    <3>1. /\ at' = [at EXCEPT ![c] = "look"]
          /\ lock' = lock /\ CountForced
      BY <1>10, <2>1, Zenon DEF Interrupted, Go
    <3> QED BY <1>3, <2>1, <3>1, Zenon
  <2>2. CASE at[c] # "lock"
    <3>1. c \in Inside /\ at' = [at EXCEPT ![c] = "again"]
      BY <1>10, <2>2 DEF Interrupted, Go, Inside
    <3>2. Inside' = Inside BY <1>2, <3>1, Zenon
    <3> QED BY <1>10, <2>2, <3>2 DEF Interrupted
  <2> QED BY <2>1, <2>2
<1>11. ASSUME NEW t \in Task, Sample(t) \/ SaveLocked(t)
       PROVE  UNCHANGED <<at, lock, forced>>
  <2>1. CASE SaveLocked(t) BY <2>1, Zenon DEF SaveLocked, Save
  <2>2. CASE Sample(t)
    BY <2>2, Zenon DEF Sample, MoreSamples, RoundSaved, RoundBlocked, RoundFailed, Save
  <2> QED BY <1>11, <2>1, <2>2
<1>12. ASSUME NEW t \in Task, AllocFailed(t) \/ Alloc(t) \/ SetState(t) \/ PostSync(t)
                \/ Exit(t) \/ EnterLoop(t) \/ WakeUp(t)
       PROVE  UNCHANGED <<at, lock, forced>>
  BY <1>12, Zenon DEF AllocFailed, Alloc, SetState, PostSync, Exit, EnterLoop, WakeUp
<1>13. ASSUME NEW t \in Task, SaveInterrupted(t)
       PROVE  lock' = Post(lock) /\ CountForced /\ UNCHANGED at
  BY <1>13, Zenon DEF SaveInterrupted, Save
<1>14. CASE \E t \in Task : AllocFailed(t) \/ TaskStep(t)
  <2>1. PICK t \in Task : AllocFailed(t) \/ TaskStep(t) BY <1>14
  <2>2. CASE SaveInterrupted(t) BY <1>5, <1>13, <2>2
  <2>3. CASE ~SaveInterrupted(t)
    <3>1. UNCHANGED <<at, lock, forced>> BY <1>11, <1>12, <2>1, <2>3, Zenon DEF TaskStep
    <3> QED BY <1>5, <3>1
  <2> QED BY <2>2, <2>3
<1>15. CASE UNCHANGED ntpc
  BY <1>5, <1>15, Zenon DEF ntpc
<1>16. CASE \E c \in Caller : CallerStep(c)
  BY <1>7, <1>8, <1>9, <1>16, Zenon DEF CallerStep
<1> QED BY <1>6, <1>10, <1>14, <1>15, <1>16, Zenon DEF NtpcNext

(* The theorems about finite sets come in only here *)
Finite == INSTANCE FiniteSetTheorems

(* The library speaks of the same finite sets *)
LEMMA SameFinite == ASSUME NEW S PROVE Finite!IsFiniteSet(S) <=> IsFiniteSet(S)
  BY Zenon DEF Finite!IsFiniteSet, IsFiniteSet

(* and of the same sizes *)
LEMMA SameSize == ASSUME NEW S PROVE Finite!Cardinality(S) = Cardinality(S)
  BY Zenon DEF Finite!Cardinality, Cardinality

(* Nothing has no members *)
LEMMA SizeOfNothing == Cardinality({}) = 0
  BY Finite!FS_EmptySet, SameSize, Zenon

(* A part of a finite set is finite *)
LEMMA SizeOfPart ==
    ASSUME NEW S, IsFiniteSet(S), NEW T \in SUBSET S
    PROVE  IsFiniteSet(T) /\ Cardinality(T) \in Nat
  BY Finite!FS_Subset, Finite!FS_CardinalityType, SameFinite, SameSize, Zenon

(* One member more *)
LEMMA SizeWith ==
    ASSUME NEW S, IsFiniteSet(S), NEW x, x \notin S
    PROVE  Cardinality(S \cup {x}) = Cardinality(S) + 1
  BY Finite!FS_AddElement, SameFinite, SameSize, Zenon

(* One member less *)
LEMMA SizeWithout ==
    ASSUME NEW S, IsFiniteSet(S), NEW x \in S
    PROVE  Cardinality(S \ {x}) = Cardinality(S) - 1 /\ Cardinality(S) # 0
<1>1. Cardinality(S \ {x}) = Cardinality(S) - 1
  BY Finite!FS_RemoveElement, SameFinite, SameSize, Zenon
<1>2. Cardinality(S) = 0 => S = {}
  BY Finite!FS_EmptySet, SameFinite, SameSize, Zenon
<1> QED BY <1>1, <1>2

(* Whoever enters with the lock has decremented it, whoever enters or saves  *)
(* without it is counted, and whoever leaves posts it                        *)
LEMMA NextBalance == NtpcTypeOK /\ LockBalance /\ [NtpcNext]_ntpc => LockBalance'
<1> SUFFICES ASSUME NtpcTypeOK, LockBalance, [NtpcNext]_ntpc, forced' < MaxForced
             PROVE  lock' + Cardinality(Inside') = 1 + forced'
  BY DEF LockBalance
<1>1. /\ lock \in Nat /\ forced \in Nat /\ MaxForced \in Nat /\ MaxSem \in Nat
      /\ MaxForced <= MaxSem
  BY NtpcConfig DEF NtpcTypeOK
<1>2. IsFiniteSet(Inside) /\ Cardinality(Inside) \in Nat
  <2>1. Inside \in SUBSET Caller BY DEF Inside
  <2> QED BY <2>1, NtpcConfig, SizeOfPart
<1>3. CASE UNCHANGED <<lock, forced, Inside>>
  BY <1>3 DEF LockBalance
<1>4. ASSUME NEW c \in Caller \ Inside, Inside' = Inside \cup {c},
             \/ lock > 0 /\ lock' = lock - 1 /\ forced' = forced
             \/ lock' = lock /\ CountForced
      PROVE  lock' + Cardinality(Inside') = 1 + forced'
  <2>1. Cardinality(Inside') = Cardinality(Inside) + 1
    BY <1>2, <1>4, SizeWith
  <2>2. forced < MaxForced
    BY <1>1, <1>4 DEF CountForced
  <2>3. lock + Cardinality(Inside) = 1 + forced
    BY <2>2 DEF LockBalance
  <2> QED BY <1>1, <1>2, <1>4, <2>1, <2>2, <2>3 DEF CountForced
<1>5. ASSUME NEW c \in Inside, Inside' = Inside \ {c}, lock' = Post(lock),
             forced' = forced
      PROVE  lock' + Cardinality(Inside') = 1 + forced'
  <2>1. Cardinality(Inside') = Cardinality(Inside) - 1
    BY <1>2, <1>5, SizeWithout
  <2>2. lock + Cardinality(Inside) = 1 + forced
    BY <1>5 DEF LockBalance
  <2>3. Cardinality(Inside) # 0
    BY <1>2, <1>5, SizeWithout
  <2>4. lock < MaxSem
    BY <1>1, <1>2, <1>5, <2>2, <2>3
  <2>5. lock' = lock + 1
    BY <1>5, <2>4 DEF Post
  <2> QED BY <1>1, <1>2, <1>5, <2>1, <2>2, <2>5
<1>6. ASSUME lock' = Post(lock), CountForced, Inside' = Inside
      PROVE  lock' + Cardinality(Inside') = 1 + forced'
  <2>1. forced' = forced + 1 /\ forced + 1 < MaxForced
    BY <1>1, <1>6 DEF CountForced
  <2>2. lock + Cardinality(Inside) = 1 + forced
    BY <1>1, <2>1 DEF LockBalance
  <2>3. lock' = lock + 1
    BY <1>1, <1>2, <1>6, <2>1, <2>2 DEF Post
  <2> QED BY <1>1, <1>2, <1>6, <2>1, <2>2, <2>3
<1> QED BY <1>3, <1>4, <1>5, <1>6, LockEffect, Zenon

(* Mutual exclusion of ntpc_start, ntpc_stop and ntpc_status through the     *)
(* lock, which every interrupted wait weakens by one caller                  *)
THEOREM CallersExclude == NtpcSpec => []LockBalance
<1>1. NtpcInit => LockBalance
  <2>1. NtpcInit => Inside = {} BY DEF NtpcInit, Inside
  <2> QED BY <2>1, SizeOfNothing DEF NtpcInit, LockBalance
<1>2. NtpcTypeOK /\ LockBalance /\ [NtpcNext]_ntpc => LockBalance'
  BY NextBalance
<1> QED BY NtpcTypeCorrect, <1>1, <1>2, PTL DEF NtpcSpec
=============================================================================
