----------------------------- MODULE NtpcDaemon -----------------------------
(***************************************************************************)
(* The NTP client daemon (netutils/ntpclient/ntpclient.c): callers run     *)
(* ntpc_start, ntpc_stop and ntpc_status against the task in ntpc_daemon.  *)
(* Here, unlike in DhcpdDaemon, the task takes the lock as well, to save   *)
(* its samples, and runs its loop with the scheduler locked: what it does  *)
(* between two calls that block is one step.  Nobody looks at the result   *)
(* of sem_wait(): who is interrupted goes on as if the wait had succeeded. *)
(*                                                                         *)
(* A caller's place is one of DhcpdDaemon's, or copy (ntpc_status).  The    *)
(* task's place: none, entry, running, post, loop (before sched_lock),     *)
(* sample (in a call of ntpc_get_ntp_sample that blocks), save (in         *)
(* sem_wait), poll and retry (in sleep), stopped (after sched_unlock),     *)
(* lastpost, exiting.                                                      *)
(***************************************************************************)
EXTENDS Integers, FiniteSets

CONSTANTS Caller,       \* tasks that call the functions of the API
          Task,         \* task ids the daemon may run under
          NoPid,        \* -1
          Ops,          \* the functions they call
          Answers,      \* how an exchange with a server may end
          StayOn,       \* CONFIG_NETUTILS_NTPCLIENT_STAY_ON
          RoundSamples, \* CONFIG_NETUTILS_NTPCLIENT_NUM_SAMPLES
          Retries,      \* CONFIG_NETUTILS_NTPCLIENT_RETRIES
          CreateFails,  \* may task_create() fail?
          AllocFails,   \* may the allocations of the daemon fail?
          MaxSem,       \* SEM_VALUE_MAX, where sem_post() fails
          MaxForced     \* how far interrupted waits for the lock are counted

ASSUME NtpcConfig ==
    /\ NoPid \notin Task
    /\ Ops \subseteq {"start", "stop", "status"}
    /\ Answers \subseteq {"sample", "error"}
    /\ RoundSamples \in Nat \ {0}
    /\ Retries \in Nat
    /\ IsFiniteSet(Caller)
    /\ MaxSem \in Nat \ {0}
    /\ MaxForced \in 1 .. MaxSem
    /\ {StayOn, CreateFails, AllocFails} \subseteq BOOLEAN

VARIABLES state, pid, lock, sync,   \* g_ntpc_daemon
          g_last_samples,           \* parity of the round that was saved last
          op, at, seen,             \* callers; the samples ntpc_status began with
          place, intr,              \* tasks; was the blocking call interrupted?
          forced,                   \* history: who went on without the lock
          round, retries            \* their locals

shared == <<state, pid, lock, sync, g_last_samples>>
caller == <<op, at, seen>>
signals == <<intr, forced>>
locals == <<round, retries>>
ntpc   == <<shared, caller, place, signals, locals>>

State == {"NOT_RUNNING", "STARTED", "RUNNING", "STOP_REQUESTED", "STOPPED"}
Place == {"none", "entry", "running", "post", "loop", "sample", "save", "poll",
          "retry", "stopped", "lastpost", "exiting"}

(* A round of samples: how many are left, is there a good one, and errval *)
Round == [left : 0 .. RoundSamples, got : BOOLEAN, errval : {"none", "error", "EINTR"}]
FullRound == [left |-> RoundSamples, got |-> FALSE, errval |-> "none"]

NtpcInit ==
    /\ state = "NOT_RUNNING"
    /\ pid = NoPid
    /\ lock = 1
    /\ sync = 0
    /\ g_last_samples = 0
    /\ op = [c \in Caller |-> "none"]
    /\ at = [c \in Caller |-> "idle"]
    /\ seen = [c \in Caller |-> 0]
    /\ place = [t \in Task |-> "none"]
    /\ intr = [t \in Task |-> FALSE]
    /\ forced = 0
    /\ round = [t \in Task |-> FullRound]
    /\ retries = [t \in Task |-> 0]

(* sem_post() *)
Post(sem) == IF sem < MaxSem THEN sem + 1 ELSE sem

(* Someone goes on without the lock *)
CountForced == forced' = IF forced < MaxForced THEN forced + 1 ELSE forced

-----------------------------------------------------------------------------
(* Callers *)
At(c, o, p) == op[c] = o /\ at[c] = p
Go(c, p) == at' = [at EXCEPT ![c] = p] /\ UNCHANGED <<op, seen>>
Move(t, p) == place' = [place EXCEPT ![t] = p]

Call(c, o) ==
    /\ at[c] = "idle"
    /\ op' = [op EXCEPT ![c] = o]
    /\ at' = [at EXCEPT ![c] = "lock"]
    /\ UNCHANGED <<shared, seen, place, signals, locals>>

Lock(c) ==
    /\ at[c] = "lock"
    /\ lock > 0
    /\ lock' = lock - 1
    /\ Go(c, "look")
    /\ UNCHANGED <<state, pid, sync, g_last_samples, place, signals, locals>>

(* Mutant: ntpc_start takes a daemon that is asked to stop, or one that is    *)
(* running, for stopped                                                       *)
Look_OnlyStarted(c) ==
    /\ at[c] = "look"
    /\ \/ /\ op[c] # "status"
          /\ Go(c, IF op[c] = "start" \/ state \in {"STARTED", "RUNNING"}
                   THEN "act" ELSE "unlock")
       \/ /\ op[c] = "status"
          /\ at' = [at EXCEPT ![c] = "copy"]
          /\ seen' = [seen EXCEPT ![c] = g_last_samples]
          /\ UNCHANGED op
    /\ UNCHANGED <<shared, place, signals, locals>>

Look(c) ==
    /\ at[c] = "look"
    /\ \/ /\ op[c] # "status"
          /\ Go(c, IF state \in (IF op[c] = "start" THEN {"NOT_RUNNING", "STOPPED"}
                                 ELSE {"STARTED", "RUNNING"})
                   THEN "act" ELSE "unlock")
       \/ /\ op[c] = "status"
          /\ at' = [at EXCEPT ![c] = "copy"]
          /\ seen' = [seen EXCEPT ![c] = g_last_samples]
          /\ UNCHANGED op
    /\ UNCHANGED <<shared, place, signals, locals>>

(* ntpc_status has copied the samples one by one *)
Copied(c) ==
    /\ At(c, "status", "copy")
    /\ Go(c, "unlock")
    /\ UNCHANGED <<shared, place, signals, locals>>

StartTask(c) ==
    /\ At(c, "start", "act")
    /\ \E t \in Task :
         /\ place[t] = "none"
         /\ state' = "STARTED"
         /\ pid' = t
         /\ Move(t, "entry")
    /\ Go(c, "wait")
    /\ UNCHANGED <<lock, sync, g_last_samples, signals, locals>>

(* Mutant: the error path releases the lock and falls through *)
StartFails_Unlocks(c) ==
    /\ At(c, "start", "act")
    /\ CreateFails
    /\ pid' = NoPid
    /\ state' = "STOPPED"
    /\ lock' = Post(lock)
    /\ Go(c, "unlock")
    /\ UNCHANGED <<sync, g_last_samples, place, signals, locals>>

StartFails(c) ==
    /\ At(c, "start", "act")
    /\ CreateFails
    /\ pid' = NoPid
    /\ state' = "STOPPED"
    /\ Go(c, "unlock")
    /\ UNCHANGED <<lock, sync, g_last_samples, place, signals, locals>>

RequestStop(c) ==
    /\ At(c, "stop", "act")
    /\ state' = "STOP_REQUESTED"
    /\ Go(c, "kill")
    /\ UNCHANGED <<pid, lock, sync, g_last_samples, place, signals, locals>>

(* The signal interrupts the call the task is blocked in and is lost where   *)
(* it is in none; a sleep ends by itself as well.  Without a task ntpc_stop   *)
(* gives up.                                                                 *)
Kill(c) ==
    /\ At(c, "stop", "kill")
    /\ Go(c, IF pid \in Task /\ place[pid] # "none" THEN "wait" ELSE "unlock")
    /\ intr' = [t \in Task |-> \/ intr[t]
                               \/ t = pid /\ place[t] \in {"sample", "save"}]
    /\ UNCHANGED <<shared, place, forced, locals>>

Wait(c) ==
    /\ at[c] = "wait"
    /\ sync > 0
    /\ sync' = sync - 1
    /\ Go(c, "again")
    /\ UNCHANGED <<state, pid, lock, g_last_samples, place, signals, locals>>

(* A signal to the caller ends its sem_wait(), on lock or on sync *)
Interrupted(c) ==
    /\ \/ at[c] = "lock" /\ lock = 0 /\ Go(c, "look") /\ CountForced
       \/ at[c] = "wait" /\ sync = 0 /\ Go(c, "again") /\ UNCHANGED forced
    /\ UNCHANGED <<shared, place, intr, locals>>

(* Mutant: ntpc_start polls the state until the daemon is done *)
Again_Polls(c) ==
    /\ at[c] = "again"
    /\ Go(c, IF op[c] = "start" /\ state \in {"STARTED", "RUNNING"} THEN "again"
             ELSE IF op[c] = "stop" /\ state = "STOP_REQUESTED" THEN "kill"
             ELSE "unlock")
    /\ UNCHANGED <<shared, place, signals, locals>>

(* Mutant: one post of sync is enough for ntpc_stop *)
Again_StopOnce(c) ==
    /\ at[c] = "again"
    /\ Go(c, IF op[c] = "start" /\ state = "STARTED" THEN "wait" ELSE "unlock")
    /\ UNCHANGED <<shared, place, signals, locals>>

Again(c) ==
    /\ at[c] = "again"
    /\ Go(c, IF op[c] = "start"
             THEN IF state = "STARTED" THEN "wait" ELSE "unlock"
             ELSE IF state = "STOP_REQUESTED" THEN "kill" ELSE "unlock")
    /\ UNCHANGED <<shared, place, signals, locals>>

Unlock(c) ==
    /\ at[c] = "unlock"
    /\ lock' = Post(lock)
    /\ op' = [op EXCEPT ![c] = "none"]
    /\ at' = [at EXCEPT ![c] = "idle"]
    /\ seen' = [seen EXCEPT ![c] = 0]
    /\ UNCHANGED <<state, pid, sync, g_last_samples, place, signals, locals>>

CallerStep(c) == Lock(c) \/ Look(c) \/ Copied(c) \/ StartTask(c)
                   \/ StartFails(c) \/ RequestStop(c) \/ Kill(c) \/ Wait(c)
                   \/ Again(c) \/ Unlock(c)

-----------------------------------------------------------------------------
(* ntpc_daemon, up to its loop *)
Alloc(t) ==
    /\ place[t] = "entry"
    /\ Move(t, "running")
    /\ UNCHANGED <<shared, caller, signals, locals>>

(* The daemon returns without a word *)
AllocFailed(t) ==
    /\ AllocFails
    /\ place[t] = "entry"
    /\ Move(t, "none")
    /\ UNCHANGED <<shared, caller, signals, locals>>

SetState(t) ==
    /\ \/ place[t] = "running" /\ state' = "RUNNING" /\ Move(t, "post")
       \/ place[t] = "stopped" /\ state' = "STOPPED" /\ Move(t, "lastpost")
    /\ UNCHANGED <<pid, lock, sync, g_last_samples, caller, signals, locals>>

PostSync(t) ==
    /\ \/ place[t] = "post" /\ Move(t, "loop")
       \/ place[t] = "lastpost" /\ Move(t, "exiting")
    /\ sync' = Post(sync)
    /\ UNCHANGED <<state, pid, lock, g_last_samples, caller, signals, locals>>

Exit(t) ==
    /\ place[t] = "exiting"
    /\ Move(t, "none")
    /\ round' = [round EXCEPT ![t] = FullRound]
    /\ retries' = [retries EXCEPT ![t] = 0]
    /\ UNCHANGED <<shared, caller, signals>>

(* The test of the loop, on the way to the next round *)
Top == IF state = "STOP_REQUESTED" THEN "stopped" ELSE "sample"

EnterLoop(t) ==
    /\ place[t] = "loop"
    /\ Move(t, Top)
    /\ UNCHANGED <<shared, caller, signals, locals>>

-----------------------------------------------------------------------------
(* What a round may be after its next sample: an interrupted call fails *)
Sampled(t) ==
    {[left   |-> round[t].left - 1,
      got    |-> round[t].got \/ a = "sample",
      errval |-> IF a = "sample" THEN round[t].errval ELSE a] :
        a \in IF intr[t] THEN {"EINTR"} ELSE Answers}

(* Mutant: the daemon polls also where it is configured to exit *)
Saved_Polls == IF state = "RUNNING" THEN "poll" ELSE Top

(* Where the daemon goes once the samples are saved *)
Saved == IF ~StayOn THEN "stopped" ELSE IF state = "RUNNING" THEN "poll" ELSE Top

(* The samples are saved with the lock held, or after a sem_wait() that was  *)
(* interrupted, without it; lock is what the semaphore is afterwards          *)
Save(t, sem) ==
    /\ g_last_samples' = 1 - g_last_samples
    /\ lock' = sem
    /\ Move(t, Saved)
    /\ UNCHANGED <<state, pid, sync, retries>>

MoreSamples(t, r) ==
    /\ r.left > 0
    /\ round' = [round EXCEPT ![t] = r]
    /\ UNCHANGED <<shared, place, retries>>

(* Mutant: the lock is not waited for *)
RoundSaved_NoLock(t, r) ==
    /\ r.left = 0 /\ r.got
    /\ Save(t, lock)
    /\ round' = [round EXCEPT ![t] = FullRound]

(* The last sample of a round: set the time and save the samples ... *)
RoundSaved(t, r) ==
    /\ r.left = 0 /\ r.got /\ lock > 0
    /\ Save(t, lock)
    /\ round' = [round EXCEPT ![t] = FullRound]

RoundBlocked(t, r) ==
    /\ r.left = 0 /\ r.got /\ lock = 0
    /\ Move(t, "save")
    /\ round' = [round EXCEPT ![t] = FullRound]
    /\ UNCHANGED <<shared, retries>>

(* Mutant: one retry too many *)
RoundFailed_OneMore(t, r) ==
    /\ r.left = 0 /\ ~r.got
    /\ Move(t, IF retries[t] > Retries THEN "stopped"
               ELSE IF r.errval = "EINTR" THEN Top ELSE "retry")
    /\ retries' = [retries EXCEPT ![t] = @ + 1]
    /\ round' = [round EXCEPT ![t] = FullRound]
    /\ UNCHANGED shared

(* ... or, without any, give up or try again *)
RoundFailed(t, r) ==
    /\ r.left = 0 /\ ~r.got
    /\ Move(t, IF retries[t] >= Retries THEN "stopped"
               ELSE IF r.errval = "EINTR" THEN Top ELSE "retry")
    /\ retries' = [retries EXCEPT ![t] = @ + 1]
    /\ round' = [round EXCEPT ![t] = FullRound]
    /\ UNCHANGED shared

Sample(t) ==
    /\ place[t] = "sample"
    /\ intr' = [intr EXCEPT ![t] = FALSE]
    /\ UNCHANGED <<caller, forced>>
    /\ \E r \in Sampled(t) : \/ MoreSamples(t, r)
                             \/ RoundSaved(t, r)
                             \/ RoundBlocked(t, r)
                             \/ RoundFailed(t, r)

SaveLocked(t) ==
    /\ place[t] = "save"
    /\ ~intr[t]
    /\ lock > 0
    /\ Save(t, lock)
    /\ UNCHANGED <<caller, signals, round>>

SaveInterrupted(t) ==
    /\ place[t] = "save"
    /\ intr[t]
    /\ Save(t, Post(lock))
    /\ intr' = [intr EXCEPT ![t] = FALSE]
    /\ CountForced
    /\ UNCHANGED <<caller, round>>

WakeUp(t) ==
    /\ \/ place[t] = "poll" /\ retries' = [retries EXCEPT ![t] = 0]
       \/ place[t] = "retry" /\ UNCHANGED retries
    /\ Move(t, Top)
    /\ UNCHANGED <<shared, caller, signals, round>>

TaskStep(t) == Alloc(t) \/ SetState(t) \/ PostSync(t) \/ Exit(t) \/ EnterLoop(t)
                 \/ Sample(t) \/ SaveLocked(t) \/ SaveInterrupted(t) \/ WakeUp(t)

NtpcNext ==
    \/ \E c \in Caller : (\E o \in Ops : Call(c, o)) \/ CallerStep(c)
                           \/ Interrupted(c)
    \/ \E t \in Task : AllocFailed(t) \/ TaskStep(t)

NtpcSpec == NtpcInit /\ [][NtpcNext]_ntpc

(* Tasks that can run do; the calls of ntpc_get_ntp_sample time out, sleeps   *)
(* end, and who waits for the lock has its turn.  Nothing says that a signal *)
(* interrupts a caller.                                                      *)
Fairness ==
    /\ \A c \in Caller : SF_ntpc(Lock(c)) /\ WF_ntpc(CallerStep(c))
    /\ \A t \in Task : SF_ntpc(SaveLocked(t)) /\ WF_ntpc(TaskStep(t))

NtpcFairSpec == NtpcSpec /\ Fairness

-----------------------------------------------------------------------------
(* Daemons between their creation and their last assignment to the state,    *)
(* and those at work in the loop                                             *)
Active  == {t \in Task : place[t] \notin {"none", "lastpost", "exiting"}}
Working == {t \in Active : place[t] \in {"loop", "sample", "save", "poll", "retry"}}
Inside  == {c \in Caller : at[c] \notin {"idle", "lock"}}

(* A caller or the daemon has once gone on without the lock *)
Forced == forced > 0

(* Shape of the state *)
NtpcTypeOK ==
    /\ state \in State
    /\ pid \in Task \cup {NoPid}
    /\ lock \in 0 .. MaxSem
    /\ sync \in 0 .. MaxSem
    /\ g_last_samples \in {0, 1}
    /\ op \in [Caller -> Ops \cup {"none"}]
    /\ at \in [Caller -> {"idle", "lock", "look", "copy", "act", "kill", "wait",
                         "again", "unlock"}]
    /\ seen \in [Caller -> {0, 1}]
    /\ place \in [Task -> Place]
    /\ intr \in [Task -> BOOLEAN]
    /\ forced \in 0 .. MaxForced
    /\ round \in [Task -> Round]
    /\ retries \in [Task -> 0 .. Retries + 1]

(* "Used to protect the whole structure": the lock admits one caller at a    *)
(* time, and for good one more for every wait of a caller or of the daemon   *)
(* that was interrupted: whoever went on without the lock posts it all the   *)
(* same.  (The waits are counted up to MaxForced.)                           *)
LockBalance ==
    forced < MaxForced => lock + Cardinality(Inside) = 1 + forced

(* "Only one instance of the NTP daemon is permitted": ntpc_start creates     *)
(* none beside another, as long as nobody has gone on without the lock.      *)
OneDaemon == \A t, u \in Active : t = u \/ Forced

(* What ntpc_status returns was saved by one round: while it copies the      *)
(* samples the daemon does not replace them, with the same reservation.      *)
StatusOfOneRound ==
    \A c \in Caller : at[c] = "copy" => seen[c] = g_last_samples \/ Forced

(* When ntpc_stop is about to return no daemon works any more, with the same *)
(* reservation.                                                              *)
StopEffective ==
    \A c \in Caller : At(c, "stop", "unlock") => Working = {} \/ Forced

(* The functions of the API return, with the same reservation *)
CallsReturn ==
    \A c \in Caller : (at[c] # "idle") ~> (at[c] = "idle" \/ Forced)

(* "Configured to exit at success": a daemon that was started comes to an    *)
(* end, with a sample or with its retries used up, with the same reservation.*)
DaemonEnds == (state = "STARTED") ~> (state = "STOPPED" \/ Forced)
=============================================================================
