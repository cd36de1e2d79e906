------------------------------ MODULE NxPlayer ------------------------------
(***************************************************************************)
(* The audio player (system/nxplayer): an application that plays, stops,   *)
(* pauses, resumes and quits, the play thread that feeds the file to the   *)
(* audio device, and the device, which is external and follows the         *)
(* protocol nxplayer_playthread is written for.                            *)
(*                                                                         *)
(* Every section that holds pplayer->mutex is one step: none of them       *)
(* waits.  What is done without the mutex is split where another thread    *)
(* can come between.  Descriptors are the number of the nxplayer_playfile  *)
(* call that opened them, and so are threads; 0 stands for -1 and for no   *)
(* thread.  Data is counted in audio buffers.                              *)
(***************************************************************************)
EXTENDS Integers, Sequences, FiniteSets

CONSTANTS Plays,        \* calls of nxplayer_playfile that get past its first test
          NBuffers,     \* buf_info.nbuffers
          Lengths,      \* of files: buffers until the final one
          Envs          \* how threads are scheduled and what may fail

None == 0
Play == 1 .. Plays

ASSUME NxPlayerConfig ==
    /\ Plays \in Nat
    /\ NBuffers \in Nat \ {0}
    /\ Lengths \subseteq Nat \ {0}
    /\ Envs \subseteq [sched : {"priority", "any"}, faults : {"none", "some"}]

VARIABLES env,                  \* member of Envs
          state,                \* pplayer->state
          fd, dev_fd, mq,       \* its descriptors; mq: is the queue open?
          play_id, crefs,       \* its thread and its references, 0 when freed
          left,                 \* buffers to read from each file
          app,                  \* the application: place, call, thread to join,
                                \* calls of nxplayer_playfile, last call returned
          at, th,               \* the play threads: where they are, their locals
          queue,                \* messages in the queue
          drv                   \* the audio device

player == <<state, fd, dev_fd, mq, play_id, crefs>>
vars == <<env, player, left, app, at, th, queue, drv>>

Idle == [running |-> TRUE, streaming |-> TRUE, failed |-> FALSE,
         priming |-> TRUE, x |-> 0, file |-> None, last |-> FALSE, outstanding |-> 0]
Quiet == [reserved |-> None, started |-> FALSE, paused |-> FALSE, ending |-> FALSE,
          final |-> FALSE, held |-> 0, completed |-> FALSE]

Init ==
    /\ env \in Envs
    /\ state = "IDLE" /\ fd = None /\ dev_fd = None /\ mq = "closed"
    /\ play_id = None /\ crefs = 1
    /\ left \in [Play -> Lengths]
    /\ app = [pc |-> "idle", op |-> "none", id |-> None, n |-> 0, last |-> "none"]
    /\ at = [t \in Play |-> "none"]
    /\ th = [t \in Play |-> Idle]
    /\ queue = <<>>
    /\ drv = Quiet

Faulty == env.faults = "some"
Alive(t) == at[t] \notin {"none", "gone"}

(* The play thread has the higher priority.  Under "priority" its reads and   *)
(* ioctls do not block either, and the application runs only while it waits  *)
(* for a message.                                                            *)
AppRuns ==
    \/ env.sched = "any"
    \/ \A t \in Play : Alive(t) => at[t] = "loop" /\ queue = <<>>

-----------------------------------------------------------------------------
(* The application *)
Goto(pc) == app' = [app EXCEPT !.pc = pc]
Return == app' = [app EXCEPT !.pc = "idle", !.op = "none", !.last = app.op]

Begin(op, pc) ==
    /\ AppRuns
    /\ app.pc = "idle"
    /\ app' = [app EXCEPT !.op = op, !.pc = pc]
    /\ UNCHANGED <<env, player, left, at, th, queue, drv>>

At(pc) == AppRuns /\ app.pc = pc

(* nxplayer_playinternal: EBUSY unless the player is idle *)
PlayTest ==
    /\ At("play")
    /\ IF state = "IDLE" THEN Goto("open") ELSE Return
    /\ UNCHANGED <<env, player, left, at, th, queue, drv>>

(* The file is opened and its format is known *)
PlayOpen ==
    /\ At("open")
    /\ \/ /\ app' = [app EXCEPT !.pc = "device", !.n = @ + 1]
          /\ fd' = app.n + 1
       \/ /\ Faulty
          /\ Return
          /\ fd' = None
    /\ UNCHANGED <<env, state, dev_fd, mq, play_id, crefs, left, at, th, queue, drv>>

(* nxplayer_opendevice; a search that finds no device leaves -1 in dev_fd *)
PlayDevice ==
    /\ At("device")
    /\ \/ /\ Goto("reserve")
          /\ dev_fd' = app.n
          /\ UNCHANGED fd
       \/ /\ Faulty
          /\ Return
          /\ fd' = None
          /\ dev_fd' \in {dev_fd, None}
    /\ UNCHANGED <<env, state, mq, play_id, crefs, left, at, th, queue, drv>>

(* File and device are closed; a closed device is no longer reserved *)
Close ==
    /\ fd' = None /\ dev_fd' = None
    /\ drv' = IF drv.reserved = dev_fd THEN [drv EXCEPT !.reserved = None] ELSE drv

(* The decoder is found and the device is reserved *)
PlayReserve ==
    /\ At("reserve")
    /\ \/ /\ dev_fd # None /\ drv.reserved = None
          /\ Goto("queue")
          /\ drv' = [Quiet EXCEPT !.reserved = dev_fd]
          /\ UNCHANGED <<fd, dev_fd>>
       \/ /\ dev_fd = None \/ drv.reserved # None \/ Faulty
          /\ Return
          /\ Close
    /\ UNCHANGED <<env, state, mq, play_id, crefs, left, at, th, queue>>

(* The message queue is opened and registered *)
PlayQueue ==
    /\ At("queue")
    /\ \/ /\ Goto("join")
          /\ queue' = IF mq = "open" THEN queue ELSE <<>>
          /\ mq' = "open"
          /\ UNCHANGED <<fd, dev_fd, drv>>
       \/ /\ Faulty
          /\ Return
          /\ Close
          /\ mq' = "closed"
          /\ queue' = <<>>
    /\ UNCHANGED <<env, state, play_id, crefs, left, at, th>>

(* Mutant: the thread is started without a reference *)
PlayCreate_NoReference ==
    /\ At("create")
    /\ \/ /\ play_id' = app.n
          /\ at' = [at EXCEPT ![app.n] = "start"]
          /\ UNCHANGED <<fd, dev_fd, drv>>
       \/ /\ Faulty
          /\ Close
          /\ UNCHANGED <<play_id, at>>
    /\ Return
    /\ UNCHANGED <<env, state, mq, crefs, left, th, queue>>

(* A reference for the thread, and the thread; an error keeps the reference *)
PlayCreate ==
    /\ At("create")
    /\ crefs' = crefs + 1
    /\ \/ /\ play_id' = app.n
          /\ at' = [at EXCEPT ![app.n] = "start"]
          /\ UNCHANGED <<fd, dev_fd, drv>>
       \/ /\ Faulty
          /\ Close
          /\ UNCHANGED <<play_id, at>>
    /\ Return
    /\ UNCHANGED <<env, state, mq, left, th, queue>>

(* nxplayer_jointhread *)
JoinTake ==
    /\ At("join")
    /\ app' = [app EXCEPT !.pc = "joining", !.id = play_id]
    /\ play_id' = None
    /\ UNCHANGED <<env, state, fd, dev_fd, mq, crefs, left, at, th, queue, drv>>

(* nxplayer_stop returns; nxplayer_cmd_quit goes on with nxplayer_release *)
Stopped ==
    IF app.op = "quit" THEN app' = [app EXCEPT !.op = "release", !.pc = "join"]
    ELSE Return

Joined ==
    /\ At("joining")
    /\ app.id # None => at[app.id] = "gone"
    /\ \/ app.op = "play" /\ Goto("create")
       \/ app.op \in {"stop", "quit"} /\ Stopped
       \/ app.op = "release" /\ Goto("unref")
    /\ UNCHANGED <<env, player, left, at, th, queue, drv>>

StopTest ==
    /\ At("stop")
    /\ IF state = "IDLE" THEN Stopped ELSE Goto("send")
    /\ UNCHANGED <<env, player, left, at, th, queue, drv>>

(* Mutant: the thread is not joined *)
StopSend_NoJoin ==
    /\ At("send")
    /\ Stopped
    /\ queue' = IF mq = "open" THEN Append(queue, "STOP") ELSE queue
    /\ UNCHANGED <<env, player, left, at, th, drv>>

(* mq_send fails if the play thread has closed the queue in the meantime *)
StopSend ==
    /\ At("send")
    /\ Goto("join")
    /\ queue' = IF mq = "open" THEN Append(queue, "STOP") ELSE queue
    /\ UNCHANGED <<env, player, left, at, th, drv>>

(* nxplayer_release by the application, which is gone then *)
AppRelease ==
    /\ At("unref")
    /\ crefs' = crefs - 1
    /\ Goto("gone")
    /\ UNCHANGED <<env, state, fd, dev_fd, mq, play_id, left, at, th, queue, drv>>

(* nxplayer_pause and nxplayer_resume: test, ioctl, assignment *)
SwitchTest ==
    /\ At("switch")
    /\ IF state = IF app.op = "pause" THEN "PLAYING" ELSE "PAUSED"
       THEN Goto("ioctl")
       ELSE Return
    /\ UNCHANGED <<env, player, left, at, th, queue, drv>>

SwitchIoctl ==
    /\ At("ioctl")
    /\ \/ /\ dev_fd # None
          /\ drv' = [drv EXCEPT !.paused = (app.op = "pause")]
          /\ Goto("assign")
       \/ /\ dev_fd = None \/ Faulty
          /\ Return
          /\ UNCHANGED drv
    /\ UNCHANGED <<env, player, left, at, th, queue>>

SwitchAssign ==
    /\ At("assign")
    /\ state' = IF app.op = "pause" THEN "PAUSED" ELSE "PLAYING"
    /\ Return
    /\ UNCHANGED <<env, fd, dev_fd, mq, play_id, crefs, left, at, th, queue, drv>>

Command ==
    \/ app.n < Plays /\ Begin("play", "play")
    \/ Begin("stop", "stop")
    \/ Begin("quit", "stop")
    \/ \E op \in {"pause", "resume"} : Begin(op, "switch")

(* The application inside a call *)
Call ==
    \/ PlayTest \/ PlayOpen \/ PlayDevice \/ PlayReserve \/ PlayQueue \/ PlayCreate
    \/ JoinTake \/ Joined \/ StopTest \/ StopSend \/ AppRelease
    \/ SwitchTest \/ SwitchIoctl \/ SwitchAssign

-----------------------------------------------------------------------------
(* nxplayer_playthread *)
Becomes(t, place, r) ==
    /\ at' = [at EXCEPT ![t] = place]
    /\ th' = [th EXCEPT ![t] = r]

(* The buffers are allocated, all or none *)
Start(t) ==
    /\ at[t] = "start"
    /\ \/ dev_fd # None /\ Becomes(t, "fill", th[t])
       \/ (dev_fd = None \/ Faulty) /\ Becomes(t, "free", th[t])
    /\ UNCHANGED <<env, player, left, app, queue, drv>>

(* The next turn of the loop that fills the pipeline, or of the main loop *)
NextTurn(t, r) ==
    IF ~r.priming THEN Becomes(t, "loop", r)
    ELSE Becomes(t, IF r.x + 1 = NBuffers THEN "go" ELSE "fill", [r EXCEPT !.x = @ + 1])

(* nxplayer_readbuffer *)
Fill(t) ==
    /\ at[t] = "fill"
    /\ IF fd = None
       THEN NextTurn(t, [th[t] EXCEPT !.streaming = FALSE,
                                      !.running = @ /\ ~(th[t].priming /\ th[t].x = 0)])
       ELSE Becomes(t, "reading", [th[t] EXCEPT !.file = fd])
    /\ UNCHANGED <<env, player, left, app, queue, drv>>

Read(t) ==
    /\ at[t] = "reading"
    /\ LET f == th[t].file
           n == IF left[f] = 0 THEN 0 ELSE left[f] - 1
       IN  /\ left' = [left EXCEPT ![f] = n]
           /\ fd' = IF n = 0 THEN None ELSE fd
           /\ Becomes(t, "enqueue", [th[t] EXCEPT !.file = None, !.last = (n = 0)])
    /\ UNCHANGED <<env, state, dev_fd, mq, play_id, crefs, app, queue, drv>>

(* nxplayer_enqueuebuffer.  A device that refuses a buffer returns the       *)
(* others and ends the playback; while it does it takes no more.             *)
Enqueue(t) ==
    /\ at[t] = "enqueue"
    /\ \/ /\ dev_fd # None /\ ~drv.ending
          /\ drv' = [drv EXCEPT !.held = @ + 1, !.final = @ \/ th[t].last]
          /\ NextTurn(t, [th[t] EXCEPT !.outstanding = @ + 1])
          /\ UNCHANGED fd
       \/ /\ dev_fd = None \/ drv.ending \/ Faulty
          /\ drv' = [drv EXCEPT !.ending = @ \/ dev_fd # None]
          /\ Becomes(t, IF th[t].priming THEN "go" ELSE "loop",
                     [th[t] EXCEPT !.streaming = FALSE, !.failed = TRUE])
          /\ fd' = None
    /\ UNCHANGED <<env, state, dev_fd, mq, play_id, crefs, left, app, queue>>

(* AUDIOIOC_START, and the first wait for a message *)
Go(t) ==
    /\ at[t] = "go"
    /\ LET place == IF th[t].running THEN "loop" ELSE "free"
           r == [th[t] EXCEPT !.priming = FALSE]
       IN  \/ /\ ~r.running \/ r.failed
              /\ Becomes(t, place, r)
              /\ UNCHANGED <<state, drv>>
           \/ /\ r.running /\ ~r.failed /\ dev_fd # None
              /\ Becomes(t, place, r)
              /\ drv' = [drv EXCEPT !.started = TRUE]
              /\ state' = "PLAYING"
           \/ /\ r.running /\ ~r.failed /\ (dev_fd = None \/ Faulty)
              /\ Becomes(t, place, [r EXCEPT !.failed = TRUE])
              /\ drv' = [drv EXCEPT !.ending = @ \/ dev_fd # None]
              /\ UNCHANGED state
    /\ UNCHANGED <<env, fd, dev_fd, mq, play_id, crefs, left, app, queue>>

(* A message *)
OnDequeue(t) ==
    /\ Head(queue) = "DEQUEUE"
    /\ Becomes(t, IF th[t].streaming THEN "fill" ELSE "loop",
               [th[t] EXCEPT !.outstanding = @ - 1])
    /\ UNCHANGED drv

(* Mutant: the thread ends without its buffers *)
OnStop_Ends(t) ==
    /\ Head(queue) = "STOP"
    /\ Becomes(t, "free", [th[t] EXCEPT !.running = FALSE])
    /\ drv' = [drv EXCEPT !.ending = @ \/ dev_fd # None]

(* Mutant: the device is not stopped *)
OnStop_NoIoctl(t) ==
    /\ Head(queue) = "STOP"
    /\ Becomes(t, "loop", [th[t] EXCEPT !.streaming = FALSE])
    /\ UNCHANGED drv

OnStop(t) ==
    /\ Head(queue) = "STOP"
    /\ Becomes(t, "loop", [th[t] EXCEPT !.streaming = FALSE])
    /\ drv' = [drv EXCEPT !.ending = @ \/ dev_fd # None]

OnComplete(t) ==
    /\ Head(queue) = "COMPLETE"
    /\ Becomes(t, "free", [th[t] EXCEPT !.running = FALSE])
    /\ UNCHANGED drv

Receive(t) ==
    /\ at[t] = "loop" /\ queue # <<>>
    /\ queue' = Tail(queue)
    /\ OnDequeue(t) \/ OnStop(t) \/ OnComplete(t)
    /\ UNCHANGED <<env, player, left, app>>

(* The buffers are freed, the device is released *)
Free(t) ==
    /\ at[t] = "free"
    /\ Becomes(t, "clean", th[t])
    /\ drv' = IF dev_fd = None THEN drv ELSE [drv EXCEPT !.reserved = None]
    /\ UNCHANGED <<env, player, left, app, queue>>

(* Everything is closed, whoever has opened it *)
Clean(t) ==
    /\ at[t] = "clean"
    /\ Becomes(t, "release", th[t])
    /\ Close
    /\ mq' = "closed" /\ state' = "IDLE"
    /\ queue' = <<>>
    /\ UNCHANGED <<env, play_id, crefs, left, app>>

(* nxplayer_release by the thread; it never waits for itself *)
ThreadRelease(t) ==
    /\ at[t] = "release"
    /\ play_id \notin {None, t} => at[play_id] = "gone"
    /\ play_id' = IF play_id = t THEN t ELSE None
    /\ crefs' = crefs - 1
    /\ Becomes(t, "gone", Idle)
    /\ UNCHANGED <<env, state, fd, dev_fd, mq, left, app, queue, drv>>

Thread(t) ==
    \/ Start(t) \/ Fill(t) \/ Read(t) \/ Enqueue(t) \/ Go(t)
    \/ Receive(t) \/ Free(t) \/ Clean(t) \/ ThreadRelease(t)

-----------------------------------------------------------------------------
(* The device *)
Posts(m) == mq = "open" /\ queue' = Append(queue, m)

(* A buffer has been played, or is returned because the playback ends *)
Returns ==
    /\ drv.held > 0
    /\ drv.ending \/ (drv.started /\ ~drv.paused)
    /\ Posts("DEQUEUE")
    /\ drv' = [drv EXCEPT !.held = @ - 1]
    /\ UNCHANGED <<env, player, left, app, at, th>>

Completes ==
    /\ drv.held = 0 /\ ~drv.completed
    /\ drv.ending \/ (drv.started /\ drv.final)
    /\ Posts("COMPLETE")
    /\ drv' = [drv EXCEPT !.completed = TRUE]
    /\ UNCHANGED <<env, player, left, app, at, th>>

Device == Returns \/ Completes

Next == Command \/ Call \/ Device \/ \E t \in Play : Thread(t)

Spec == Init /\ [][Next]_vars

(* Threads that can run do, and the device plays what it has *)
FairSpec ==
    /\ Spec
    /\ WF_vars(Call)
    /\ WF_vars(Device)
    /\ \A t \in Play : WF_vars(Thread(t))

-----------------------------------------------------------------------------
(* The context is freed by the last of its users: at most one play thread    *)
(* runs, it has a reference of its own as long as it does, and so has the    *)
(* application; unless pthread_create fails no reference is left over.       *)
Users == (IF \E t \in Play : Alive(t) THEN 1 ELSE 0) + (IF app.pc = "gone" THEN 0 ELSE 1)
ContextAlive ==
    /\ \A s, t \in Play : Alive(s) /\ Alive(t) => s = t
    /\ crefs >= Users
    /\ env.faults = "none" => crefs = Users

(* "The audio driver must return all queued buffers": where the play thread  *)
(* is not overtaken by the application, it knows at any time how many        *)
(* buffers the device has, and none is freed that the device still has; the  *)
(* queue of nbuffers + 8 messages has room for all that is sent.             *)
Dequeued == Cardinality({i \in DOMAIN queue : queue[i] = "DEQUEUE"})
BuffersBack ==
    env.sched = "priority" =>
      /\ \A t \in Play :
           /\ Alive(t) => th[t].outstanding = drv.held + Dequeued
           /\ at[t] \in {"free", "clean"} => th[t].outstanding = 0
           /\ th[t].outstanding \in 0 .. NBuffers
      /\ Len(queue) <= NBuffers + 8

(* nxplayer_stop "stops the current playback and closes the file and the     *)
(* associated device": it does, where nothing fails and the play thread is   *)
(* not overtaken.                                                            *)
StopStops ==
    env = [sched |-> "priority", faults |-> "none"] /\ app.pc = "idle" /\ app.last = "stop"
      => fd = None /\ dev_fd = None /\ \A t \in Play : ~Alive(t)

(* Every call returns, whatever fails, where the play thread is not          *)
(* overtaken.                                                                *)
CallsReturn == env.sched = "priority" ~> app.pc \in {"idle", "gone"}
=============================================================================
