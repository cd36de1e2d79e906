---------------------------- MODULE DhcpdDaemon ----------------------------
(***************************************************************************)
(* The life of the DHCP server task (netutils/dhcpd/dhcpd.c): callers run  *)
(* dhcpd_start() and dhcpd_stop() against the task in dhcpd_run(), through *)
(* g_dhcpd_daemon: a state, a pid and two semaphores.  The lock is held by *)
(* callers only: the task changes the state without it.  Nobody looks at   *)
(* the result of sem_wait(): a caller that a signal interrupts goes on as  *)
(* if its wait had succeeded.                                              *)
(*                                                                         *)
(* A caller's place:  idle, lock (in sem_wait), look (at the state), act   *)
(* (on what it saw), kill (stop only), wait (for ds_sync), again (the test *)
(* of the loop), unlock.  A task's place in dhcpd_run: none, entry, pid,   *)
(* running, post, loop (its test), open, ready (on its way to recv), recv, *)
(* nopid, stopped, lastpost.                                               *)
(***************************************************************************)
EXTENDS Integers, FiniteSets

CONSTANTS Caller,       \* tasks that call dhcpd_start and dhcpd_stop
          Task,         \* task ids the server may run under
          NoPid,        \* -1
          Foreground,   \* is dhcpd_run also called directly?
          SocketFails,  \* may recv() and the opening of the socket fail?
          CreateFails,  \* may task_create() fail?
          MaxSem,       \* SEM_VALUE_MAX, where sem_post() fails
          MaxBarged     \* how far interrupted waits for ds_lock are counted

ASSUME DaemonConfig ==
    /\ NoPid \notin Task
    /\ IsFiniteSet(Caller)
    /\ MaxSem \in Nat \ {0}
    /\ MaxBarged \in 1 .. MaxSem
    /\ {Foreground, SocketFails, CreateFails} \subseteq BOOLEAN

VARIABLES ds_state, ds_pid, ds_lock, ds_sync,
          op, at,       \* what each caller calls, and where it is
          place, open,  \* where each task is, and whether its socket is open
          origin,       \* history: were all tasks "created" by dhcpd_start?
          barged,       \* history: callers that went on without ds_lock
          signal        \* history: was dhcpd_stop's last signal "missed"?

history == <<origin, barged, signal>>
daemon  == <<ds_state, ds_pid, ds_lock, ds_sync, op, at, place, open, history>>

State == {"NOT_RUNNING", "STARTED", "RUNNING", "STOP_REQUESTED", "STOPPED"}
Place == {"none", "entry", "pid", "running", "post", "loop", "open", "ready",
          "recv", "nopid", "stopped", "lastpost"}

DaemonInit ==
    /\ ds_state = "NOT_RUNNING"
    /\ ds_pid = NoPid
    /\ ds_lock = 1
    /\ ds_sync = 0
    /\ op = [c \in Caller |-> "none"]
    /\ at = [c \in Caller |-> "idle"]
    /\ place = [t \in Task |-> "none"]
    /\ open = [t \in Task |-> FALSE]
    /\ origin = "created"
    /\ barged = 0
    /\ signal = "taken"

(* sem_post() *)
Post(sem) == IF sem < MaxSem THEN sem + 1 ELSE sem

-----------------------------------------------------------------------------
(* Callers *)
At(c, o, p) == op[c] = o /\ at[c] = p
Go(c, p) == at' = [at EXCEPT ![c] = p] /\ UNCHANGED op
Move(t, p) == place' = [place EXCEPT ![t] = p]

Call(c, o) ==
    /\ at[c] = "idle"
    /\ op' = [op EXCEPT ![c] = o]
    /\ at' = [at EXCEPT ![c] = "lock"]
    /\ UNCHANGED <<ds_state, ds_pid, ds_lock, ds_sync, place, open, history>>

Lock(c) ==
    /\ at[c] = "lock"
    /\ ds_lock > 0
    /\ ds_lock' = ds_lock - 1
    /\ Go(c, "look")
    /\ UNCHANGED <<ds_state, ds_pid, ds_sync, place, open, history>>

(* Mutant: dhcpd_start takes a daemon that is asked to stop for stopped *)
Look_StopIsStopped(c) ==
    /\ at[c] = "look"
    /\ Go(c, IF ds_state \in (IF op[c] = "start"
                              THEN {"NOT_RUNNING", "STOPPED", "STOP_REQUESTED"}
                              ELSE {"STARTED", "RUNNING"})
             THEN "act" ELSE "unlock")
    /\ UNCHANGED <<ds_state, ds_pid, ds_lock, ds_sync, place, open, history>>

Look(c) ==
    /\ at[c] = "look"
    /\ Go(c, IF ds_state \in (IF op[c] = "start"
                              THEN {"NOT_RUNNING", "STOPPED"}
                              ELSE {"STARTED", "RUNNING"})
             THEN "act" ELSE "unlock")
    /\ UNCHANGED <<ds_state, ds_pid, ds_lock, ds_sync, place, open, history>>

(* dhcpd_start creates the task, or puts the state back if it cannot *)
StartTask(c) ==
    /\ At(c, "start", "act")
    /\ \E t \in Task :
         /\ place[t] = "none"
         /\ ds_state' = "STARTED"
         /\ Move(t, "entry")
    /\ Go(c, "wait")
    /\ UNCHANGED <<ds_pid, ds_lock, ds_sync, open, history>>

(* Mutant: the error path releases the lock and falls through *)
StartFails_Unlocks(c) ==
    /\ At(c, "start", "act")
    /\ CreateFails
    /\ ds_state' = "STOPPED"
    /\ ds_lock' = Post(ds_lock)
    /\ Go(c, "unlock")
    /\ UNCHANGED <<ds_pid, ds_sync, place, open, history>>

StartFails(c) ==
    /\ At(c, "start", "act")
    /\ CreateFails
    /\ ds_state' = "STOPPED"
    /\ Go(c, "unlock")
    /\ UNCHANGED <<ds_pid, ds_lock, ds_sync, place, open, history>>

RequestStop(c) ==
    /\ At(c, "stop", "act")
    /\ ds_state' = "STOP_REQUESTED"
    /\ Go(c, "kill")
    /\ UNCHANGED <<ds_pid, ds_lock, ds_sync, place, open, history>>

(* The signal ends a recv() with EINTR and is lost on a task that is not in  *)
(* one: missed, if the task is past the test of its loop.  Without a task to *)
(* signal, dhcpd_stop gives up.                                              *)
Kill(c) ==
    /\ At(c, "stop", "kill")
    /\ Go(c, IF ds_pid = NoPid THEN "unlock" ELSE "wait")
    /\ place' = [t \in Task |-> IF t = ds_pid /\ place[t] = "recv" THEN "loop"
                                ELSE place[t]]
    /\ signal' = IF \E t \in Task : t = ds_pid /\ place[t] \in {"open", "ready"}
                 THEN "missed" ELSE "taken"
    /\ UNCHANGED <<ds_state, ds_pid, ds_lock, ds_sync, open, origin, barged>>

Wait(c) ==
    /\ at[c] = "wait"
    /\ ds_sync > 0
    /\ ds_sync' = ds_sync - 1
    /\ Go(c, "again")
    /\ UNCHANGED <<ds_state, ds_pid, ds_lock, place, open, history>>

(* Mutant: the semaphore is decremented also where the wait is interrupted *)
Interrupted_Takes(c) ==
    /\ \/ at[c] = "lock" /\ ds_lock = 0 /\ Go(c, "look")
          /\ ds_lock' = ds_lock - 1 /\ UNCHANGED ds_sync
       \/ at[c] = "wait" /\ ds_sync = 0 /\ Go(c, "again")
          /\ ds_sync' = ds_sync - 1 /\ UNCHANGED ds_lock
    /\ UNCHANGED <<ds_state, ds_pid, place, open, history>>

(* A signal to the caller ends its sem_wait(), on ds_lock or on ds_sync *)
Interrupted(c) ==
    /\ \/ /\ at[c] = "lock" /\ ds_lock = 0
          /\ Go(c, "look")
          /\ barged' = IF barged < MaxBarged THEN barged + 1 ELSE barged
       \/ /\ at[c] = "wait" /\ ds_sync = 0
          /\ Go(c, "again")
          /\ UNCHANGED barged
    /\ UNCHANGED <<ds_state, ds_pid, ds_lock, ds_sync, place, open, origin, signal>>

(* Mutants: one post of ds_sync is enough for dhcpd_start, for dhcpd_stop *)
Again_StartOnce(c) ==
    /\ at[c] = "again"
    /\ Go(c, IF op[c] = "stop" /\ ds_state = "STOP_REQUESTED" THEN "kill"
             ELSE "unlock")
    /\ UNCHANGED <<ds_state, ds_pid, ds_lock, ds_sync, place, open, history>>

Again_StopOnce(c) ==
    /\ at[c] = "again"
    /\ Go(c, IF op[c] = "start" /\ ds_state = "STARTED" THEN "wait"
             ELSE "unlock")
    /\ UNCHANGED <<ds_state, ds_pid, ds_lock, ds_sync, place, open, history>>

Again(c) ==
    /\ at[c] = "again"
    /\ Go(c, IF op[c] = "start"
             THEN IF ds_state = "STARTED" THEN "wait" ELSE "unlock"
             ELSE IF ds_state = "STOP_REQUESTED" THEN "kill" ELSE "unlock")
    /\ UNCHANGED <<ds_state, ds_pid, ds_lock, ds_sync, place, open, history>>

Unlock(c) ==
    /\ at[c] = "unlock"
    /\ ds_lock' = Post(ds_lock)
    /\ op' = [op EXCEPT ![c] = "none"]
    /\ at' = [at EXCEPT ![c] = "idle"]
    /\ signal' = "taken"
    /\ UNCHANGED <<ds_state, ds_pid, ds_sync, place, open, origin, barged>>

CallerStep(c) == Lock(c) \/ Look(c) \/ StartTask(c) \/ StartFails(c)
                   \/ RequestStop(c) \/ Kill(c) \/ Wait(c) \/ Again(c)
                   \/ Unlock(c)

-----------------------------------------------------------------------------
(* dhcpd_run called from a task of its own: it returns if the server runs *)
RunDirectly(t) ==
    /\ Foreground
    /\ place[t] = "none"
    /\ ds_state # "RUNNING"
    /\ Move(t, "pid")
    /\ origin' = "direct"
    /\ UNCHANGED <<ds_state, ds_pid, ds_lock, ds_sync, op, at, open, barged,
                   signal>>

Enter(t) ==
    /\ place[t] = "entry"
    /\ Move(t, IF ds_state = "RUNNING" THEN "none" ELSE "pid")
    /\ UNCHANGED <<ds_state, ds_pid, ds_lock, ds_sync, op, at, open, history>>

SetPid(t) ==
    /\ \/ place[t] = "pid" /\ ds_pid' = t /\ Move(t, "running")
       \/ place[t] = "nopid" /\ ds_pid' = NoPid /\ Move(t, "stopped")
    /\ UNCHANGED <<ds_state, ds_lock, ds_sync, op, at, open, history>>

SetState(t) ==
    /\ \/ place[t] = "running" /\ ds_state' = "RUNNING" /\ Move(t, "post")
       \/ place[t] = "stopped" /\ ds_state' = "STOPPED" /\ Move(t, "lastpost")
    /\ UNCHANGED <<ds_pid, ds_lock, ds_sync, op, at, open, history>>

PostSync(t) ==
    /\ \/ place[t] = "post" /\ Move(t, "loop") /\ UNCHANGED open
       \/ /\ place[t] = "lastpost"
          /\ Move(t, "none") /\ open' = [open EXCEPT ![t] = FALSE]
    /\ ds_sync' = Post(ds_sync)
    /\ UNCHANGED <<ds_state, ds_pid, ds_lock, op, at, history>>

(* Mutant: the stop request is not looked at *)
Loop_Forever(t) ==
    /\ place[t] = "loop"
    /\ Move(t, IF open[t] THEN "ready" ELSE "open")
    /\ UNCHANGED <<ds_state, ds_pid, ds_lock, ds_sync, op, at, open, history>>

Loop(t) ==
    /\ place[t] = "loop"
    /\ Move(t, IF ds_state = "STOP_REQUESTED" THEN "nopid"
               ELSE IF open[t] THEN "ready" ELSE "open")
    /\ UNCHANGED <<ds_state, ds_pid, ds_lock, ds_sync, op, at, open, history>>

dhcpd_openlistener(t) ==
    /\ place[t] = "open"
    /\ Move(t, "ready")
    /\ open' = [open EXCEPT ![t] = TRUE]
    /\ UNCHANGED <<ds_state, ds_pid, ds_lock, ds_sync, op, at, history>>

OpenFails(t) ==
    /\ SocketFails
    /\ place[t] = "open"
    /\ Move(t, "nopid")
    /\ UNCHANGED <<ds_state, ds_pid, ds_lock, ds_sync, op, at, open, history>>

CallRecv(t) ==
    /\ place[t] = "ready"
    /\ Move(t, "recv")
    /\ UNCHANGED <<ds_state, ds_pid, ds_lock, ds_sync, op, at, open, history>>

(* A datagram arrives and is handled (see Dhcpd) *)
Receive(t) ==
    /\ place[t] = "recv"
    /\ Move(t, "loop")
    /\ UNCHANGED <<ds_state, ds_pid, ds_lock, ds_sync, op, at, open, history>>

(* recv() fails for good: the socket is closed and opened again *)
RecvFails(t) ==
    /\ SocketFails
    /\ place[t] = "recv"
    /\ Move(t, "loop")
    /\ open' = [open EXCEPT ![t] = FALSE]
    /\ UNCHANGED <<ds_state, ds_pid, ds_lock, ds_sync, op, at, history>>

TaskStep(t) == Enter(t) \/ SetPid(t) \/ SetState(t) \/ PostSync(t) \/ Loop(t)
                 \/ dhcpd_openlistener(t) \/ CallRecv(t)

DaemonNext ==
    \/ \E c \in Caller : \/ \E o \in {"start", "stop"} : Call(c, o)
                         \/ CallerStep(c) \/ Interrupted(c)
    \/ \E t \in Task : RunDirectly(t) \/ TaskStep(t) \/ OpenFails(t)
                         \/ Receive(t) \/ RecvFails(t)

DaemonSpec == DaemonInit /\ [][DaemonNext]_daemon

(* Tasks and callers that can run do, and who waits for ds_lock has its     *)
(* turn.  Nothing says that a datagram arrives or that a signal interrupts  *)
(* a caller: recv() has no timeout.                                         *)
Fairness ==
    /\ \A c \in Caller : SF_daemon(Lock(c)) /\ WF_daemon(CallerStep(c))
    /\ \A t \in Task : WF_daemon(TaskStep(t))

FairSpec == DaemonSpec /\ Fairness

-----------------------------------------------------------------------------
Serving == {t \in Task : place[t] \in {"loop", "open", "ready", "recv"}}
Inside  == {c \in Caller : at[c] \notin {"idle", "lock"}}

(* dhcpd_run has once been called directly, past dhcpd_start *)
Direct == origin = "direct"

(* A caller has once gone on without ds_lock *)
Barged == barged > 0

(* dhcpd_stop waits for a task that waits in recv() and was on its way there *)
(* when the signal came                                                      *)
SignalLost ==
    /\ signal = "missed" /\ ds_state = "STOP_REQUESTED" /\ ds_sync = 0
    /\ \E c \in Caller : At(c, "stop", "wait")
    /\ \E t \in Task : ds_pid = t /\ place[t] = "recv"

(* Shape of the state *)
DaemonTypeOK ==
    /\ ds_state \in State
    /\ ds_pid \in Task \cup {NoPid}
    /\ ds_lock \in 0 .. MaxSem
    /\ ds_sync \in 0 .. MaxSem
    /\ op \in [Caller -> {"none", "start", "stop"}]
    /\ at \in [Caller -> {"idle", "lock", "look", "act", "kill", "wait",
                         "again", "unlock"}]
    /\ place \in [Task -> Place]
    /\ open \in [Task -> BOOLEAN]
    /\ origin \in {"created", "direct"}
    /\ barged \in 0 .. MaxBarged
    /\ signal \in {"taken", "missed"}

(* ds_lock admits one caller of dhcpd_start or dhcpd_stop at a time, and for *)
(* good one more for every wait that was interrupted: whoever went on        *)
(* without the lock posts it all the same.  (The waits are counted up to     *)
(* MaxBarged.)                                                               *)
LockBalance ==
    barged < MaxBarged => ds_lock + Cardinality(Inside) = 1 + barged

(* "Exit if the dhcpd is already executed": two tasks never serve at once,   *)
(* which would share g_state and its lease table, as long as all of them     *)
(* were created by dhcpd_start and no caller went on without the lock.       *)
OneServer ==
    Direct \/ Barged \/ \A t, u \in Serving : t = u

(* When dhcpd_stop is about to return no task serves any more, even where    *)
(* it gave up because the task had withdrawn its pid, with the same          *)
(* reservation.                                                              *)
StopEffective ==
    \A c \in Caller :
      At(c, "stop", "unlock") => Serving = {} \/ Direct \/ Barged

(* When dhcpd_start is about to return the task it created, if it did, has   *)
(* been seen to run: the state is not the one dhcpd_start itself wrote, as   *)
(* long as no caller went on without the lock.                               *)
StartEffective ==
    \A c \in Caller : At(c, "start", "unlock") => ds_state # "STARTED" \/ Barged

(* dhcpd_start and dhcpd_stop return, without any traffic, unless the signal *)
(* of dhcpd_stop is lost: with the same reservations nothing else keeps a    *)
(* caller waiting for ever.                                                  *)
CallsReturn ==
    \A c \in Caller :
      (at[c] # "idle") ~> (at[c] = "idle" \/ SignalLost \/ Direct \/ Barged)
=============================================================================
