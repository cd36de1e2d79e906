------------------------- MODULE NxPlayerStopProofs -------------------------
(***************************************************************************)
(* Proofs about the buffers and the end of a play, for any number of       *)
(* calls, of buffers and of files.  Where the play thread is not overtaken *)
(* by the application it loses no buffer and its queue never overflows;    *)
(* and where nothing fails either, nxplayer_stop stops.                    *)
(***************************************************************************)
EXTENDS NxPlayerProofs

(* Pause and resume *)
LEMMA SwitchPriority ==
    ASSUME Priority, IInv, Typed, PInv, SwitchIoctl \/ SwitchAssign
    PROVE  PInv'
<1>1. /\ AppRuns /\ UNCHANGED mq /\ UNCHANGED th /\ UNCHANGED at
      /\ UNCHANGED fd /\ UNCHANGED dev_fd /\ UNCHANGED queue
      /\ \/ /\ app.pc = "ioctl" /\ UNCHANGED state
            /\ \/ drv' = [drv EXCEPT !.paused = (app.op = "pause")] /\ Goto("assign")
               \/ UNCHANGED drv /\ Return
         \/ /\ app.pc = "assign" /\ UNCHANGED drv /\ Return
            /\ state' = IF app.op = "pause" THEN "PAUSED" ELSE "PLAYING"
    BY Zenon DEF SwitchIoctl, SwitchAssign, At, player
<1>2. app \in App /\ drv \in Driver
    BY DEF IInv, Shape, Typed
<1>3. app'.n = app.n /\ app'.pc \in {"idle", "assign"}
    BY <1>1, <1>2, ReturnFields, GotoApp DEF Place
<1>4. /\ drv'.started = drv.started /\ drv'.ending = drv.ending
      /\ drv'.final = drv.final /\ drv'.held = drv.held
      /\ drv'.completed = drv.completed /\ drv'.reserved = drv.reserved
    BY <1>1, <1>2 DEF Driver
<1>5. app.pc \in {"ioctl", "assign"} /\ (state' = state \/ state' # "IDLE")
    BY <1>1
<1>6. ~InPlay' /\ ~Ready'
    BY <1>3 DEF InPlay, Ready
<1>7. Rest' = Rest
    BY <1>1, SameThreads
<1>8. AtRest'
    BY <1>1, <1>4, <1>5, <1>7 DEF PInv, AtRest
<1>9. Playing'
    BY <1>3, <1>6 DEF Playing
<1>10. Ordered'
    BY <1>1, <1>4 DEF PInv, Ordered
<1>11. ASSUME NEW t \in Play, Active(t) PROVE Owner(t)' /\ Looping(t)' /\ LastRead(t)'
  <2>1. at[t] = "loop" /\ ~th[t].priming /\ Owner(t) /\ Looping(t) /\ LastRead(t)
    BY <1>1, <1>11, FoundWaiting
  <2>2. Owner(t)'
    BY <1>1, <1>3, <1>4, <1>6, <2>1 DEF Owner
  <2>3. Looping(t)'
    BY <1>1, <1>4, <1>5, <2>1 DEF Looping
  <2>4. LastRead(t)'
    BY <1>1, <1>4, <2>1 DEF LastRead
  <2> QED
    BY <2>2, <2>3, <2>4
<1> QED
    BY <1>1, <1>8, <1>9, <1>10, <1>11, AppStep

-----------------------------------------------------------------------------
(* A device that sends serves a thread *)
LEMMA SendsPriority ==
    ASSUME Typed, PInv, NEW m \in Message, Sends(m), drv.ending \/ drv.started,
           Ordered',
           \A t \in Play : Active(t) => Owner(t)'
    PROVE  PInv'
<1>1. ~Rest
    BY DEF Sends, PInv, AtRest
<1>2. Rest' = Rest /\ \A t \in Play : Active(t)' = Active(t) /\ Runs(t)' = Runs(t)
    BY SameThreads DEF Sends, Runs, Active
<1>3. AtRest'
    BY <1>1, <1>2 DEF AtRest
<1>4. ~Ready
    BY <1>1 DEF PInv, Playing
<1>5. Playing'
    BY <1>4 DEF PInv, Playing, Sends, InPlay, Ready
<1>6. ASSUME NEW t \in Play PROVE Served(t)'
  <2>1. at[t] # "release"
    BY Zenon DEF Sends, PInv, Served
  <2>2. Served(t) /\ Alive(t)' = Alive(t)
    BY DEF Sends, PInv, Alive
  <2>3. Priming(t) => Priming(t)'
    BY DEF Sends, Priming
  <2>4. Looping(t) => Looping(t)'
    BY DEF Sends, Looping
  <2>5. LastRead(t) => LastRead(t)'
    BY DEF Sends, LastRead
  <2> QED
    BY <1>2, <2>1, <2>2, <2>3, <2>4, <2>5 DEF Sends, Served
<1> QED
    BY <1>3, <1>5, <1>6, Ordered' DEF PInv

(* A buffer comes back before the playback is over *)
LEMMA ReturnsPriority == ASSUME Counting, Typed, PInv, Returns PROVE PInv'
<1>1. /\ Sends("DEQUEUE")
      /\ drv.ending \/ drv.started
      /\ drv.held > 0 /\ drv'.held = drv.held - 1 /\ drv'.completed = drv.completed
    BY ReturnsStep
<1>2. /\ "DEQUEUE" \in Message /\ queue \in Seq(Message)
      /\ drv.held \in Nat /\ queue' = Append(queue, "DEQUEUE")
    BY <1>1 DEF Message, Typed, Driver, Sends
<1>3. Deq(queue') = Deq(queue) + 1 /\ Deq(queue) \in Nat
    BY <1>2, DeqAppend, DeqNat
<1>4. ~Rest
    BY <1>1 DEF Sends, PInv, AtRest
<1>5. ~drv.completed
    BY <1>1, <1>2, <1>4 DEF Rest, PInv, Served, Owner
<1>6. Ordered'
  <2>1. /\ DOMAIN queue' = 1 .. Len(queue) + 1 /\ DOMAIN queue = 1 .. Len(queue)
        /\ Len(queue) \in Nat /\ queue'[Len(queue) + 1] = "DEQUEUE"
        /\ \A k \in 1 .. Len(queue) : queue'[k] = queue[k]
    BY <1>2
  <2> QED
    BY <1>5, <2>1 DEF PInv, Ordered
<1>7. ASSUME NEW t \in Play, Active(t) PROVE Owner(t)'
  <2>1. Owner(t) /\ th[t].outstanding \in Int
    BY <1>7 DEF PInv, Served, Typed, Locals
  <2>2. th[t].outstanding = drv.held + Deq(queue)
    BY <2>1 DEF Owner
  <2>3. drv.held + Deq(queue) = drv'.held + Deq(queue')
    <3>1. drv.held \in Nat /\ drv'.held = drv.held - 1
      BY <1>1, <1>2, Zenon
    <3> QED
      BY <1>3, <3>1
  <2>4. th'[t].outstanding = drv'.held + Deq(queue')
    BY <1>1, <2>2, <2>3, Zenon DEF Sends
  <2> QED
    BY <1>1, <1>5, <2>1, <2>4, Zenon DEF Owner, Sends, InPlay, Active
<1> QED
    BY <1>1, <1>2, <1>6, <1>7, SendsPriority

(* The playback is over when all buffers are back *)
LEMMA CompletesPriority == ASSUME Counting, Typed, PInv, Completes PROVE PInv'
<1>1. /\ Sends("COMPLETE")
      /\ drv.ending \/ (drv.started /\ drv.final)
      /\ drv.held = 0 /\ drv'.held = 0 /\ ~drv.completed /\ drv'.completed
    BY CompletesStep
<1>2. /\ "COMPLETE" \in Message /\ queue \in Seq(Message)
      /\ queue' = Append(queue, "COMPLETE")
    BY <1>1 DEF Message, Typed, Sends
<1>3. Deq(queue') = Deq(queue)
    BY <1>2, DeqAppend
<1>4. Ordered'
  <2>1. /\ DOMAIN queue' = 1 .. Len(queue) + 1 /\ DOMAIN queue = 1 .. Len(queue)
        /\ Len(queue) \in Nat /\ queue'[Len(queue) + 1] = "COMPLETE"
        /\ Len(queue') = Len(queue) + 1
        /\ \A k \in 1 .. Len(queue) : queue'[k] = queue[k]
    BY <1>2
  <2> QED
    BY <1>1, <2>1 DEF PInv, Ordered
<1>5. ASSUME NEW t \in Play, Active(t) PROVE Owner(t)'
  <2>1. Owner(t)
    BY <1>5 DEF PInv, Served
  <2> QED
    BY <1>1, <1>3, <2>1 DEF Owner, Sends, InPlay
<1> QED
    BY <1>1, <1>2, <1>4, <1>5, SendsPriority

-----------------------------------------------------------------------------
(* The thread that moves is the only one *)
LEMMA OneServed ==
    ASSUME IInv, PInv, NEW t \in Play, Alive(t), Others(t)
    PROVE  \A s \in Play \ {t} : Served(s)' /\ ~Active(s) /\ ~Active(s)'
<1> SUFFICES ASSUME NEW s \in Play \ {t} PROVE Served(s)' /\ ~Active(s) /\ ~Active(s)'
    OBVIOUS
<1>1. ~Alive(s) /\ at'[s] = at[s] /\ th'[s] = th[s]
    BY OneThread DEF Others
<1> QED
    BY <1>1, Zenon DEF PInv, Served, Alive, Active, Runs

(* A thread goes on *)
LEMMA ThreadStep ==
    ASSUME IInv, PInv, NEW t \in Play, Active(t), at'[t] \notin {"none", "release", "gone"},
           Others(t), UNCHANGED app, UNCHANGED dev_fd,
           UNCHANGED state \/ app.pc = "idle",
           Ordered', Served(t)'
    PROVE  PInv'
<1>1. Alive(t) /\ ~Rest /\ ~Rest'
    BY DEF Active, Alive, Rest
<1>2. \A s \in Play : Served(s)'
    BY <1>1, OneServed
<1>3. AtRest'
    BY <1>1 DEF AtRest
<1>4. ~Ready
    BY <1>1 DEF PInv, Playing
<1>5. Playing'
    BY <1>4 DEF PInv, Playing, InPlay, Ready
<1> QED
    BY <1>2, <1>3, <1>5, Ordered' DEF PInv

(* The queue and the device stay as they are *)
LEMMA OrderedStays ==
    ASSUME PInv, UNCHANGED queue, drv'.completed = drv.completed
    PROVE  Ordered'
BY DEF PInv, Ordered

(* A thread that fills the pipeline or waits, as the invariant knows it *)
LEMMA ServedRuns ==
    ASSUME Counting, Typed, PInv, NEW t \in Play,
           at[t] \notin {"none", "release", "gone", "free", "clean"}
    PROVE  /\ Active(t) /\ Owner(t) /\ LastRead(t)
           /\ at[t] \in {"start", "go"} => th[t].priming
           /\ at[t] = "loop" => ~th[t].priming
           /\ at[t] = "reading" => th[t].file = fd
           /\ th[t].priming => Priming(t)
           /\ ~th[t].priming => Looping(t)
           /\ th[t].x \in Nat /\ th[t].outstanding \in Nat /\ drv.held \in Nat
           /\ Deq(queue) \in Nat /\ t # None
<1>1. Active(t) /\ Runs(t)
    BY DEF Active, Runs
<1>2. th[t].x \in Nat /\ drv.held \in Nat /\ Deq(queue) \in Nat
    BY DeqNat DEF Typed, Locals, Driver
<1>3. Owner(t)
    BY <1>1, Zenon DEF PInv, Served
<1>4. th[t].outstanding \in Nat
    BY <1>2, <1>3 DEF Owner
<1>5. t # None
    BY DEF Play, None
<1> QED
    BY <1>1, <1>2, <1>3, <1>4, <1>5, Zenon DEF PInv, Served

(* The thread has its buffers, or frees none *)
LEMMA StartPriority == ASSUME Counting, IInv, Typed, PInv, NEW t \in Play, Start(t) PROVE PInv'
<1>1. /\ Others(t) /\ Inside /\ UNCHANGED fd /\ UNCHANGED drv
      /\ at[t] = "start" /\ th'[t] = th[t] /\ at'[t] \in {"fill", "free"}
    BY StartStep
<1>2. /\ Active(t) /\ Owner(t) /\ LastRead(t) /\ th[t].priming /\ Priming(t)
      /\ th[t] = Idle
  <2>1. Active(t) /\ Owner(t) /\ LastRead(t) /\ th[t].priming /\ Priming(t)
    BY <1>1, ServedRuns
  <2> QED
    BY <1>1, <2>1, Zenon DEF Priming
<1>3. th[t].outstanding = 0
    BY <1>2 DEF Idle
<1>4. Owner(t)'
    BY <1>1, <1>2, <1>3, Zenon DEF Owner, Inside, InPlay
<1>5. at'[t] = "fill" => Priming(t)' /\ LastRead(t)'
    BY <1>1, <1>2 DEF Priming, LastRead, Inside
<1>6. Served(t)'
    BY <1>1, <1>2, <1>4, <1>5, Zenon DEF Served, Alive, Active, Runs
<1>7. Ordered'
    BY <1>1, OrderedStays DEF Inside
<1> QED
    BY <1>1, <1>2, <1>6, <1>7, ThreadStep DEF Inside

(* A buffer is read, or there is no file *)
LEMMA FillPriority == ASSUME Counting, IInv, Typed, PInv, NEW t \in Play, Fill(t) PROVE PInv'
<1>1. /\ Others(t) /\ Inside /\ UNCHANGED fd /\ UNCHANGED drv
      /\ at[t] = "fill"
      /\ th'[t].priming = th[t].priming /\ th'[t].failed = th[t].failed
      /\ th'[t].outstanding = th[t].outstanding
      /\ \/ /\ fd = None /\ at'[t] = TurnsTo(th[t])
            /\ th'[t].x = IF th[t].priming THEN th[t].x + 1 ELSE th[t].x
            /\ th'[t].running <=> th[t].running /\ ~(th[t].priming /\ th[t].x = 0)
         \/ /\ fd # None /\ at'[t] = "reading"
            /\ th'[t].x = th[t].x /\ th'[t].file = fd
            /\ th'[t].running = th[t].running
    BY FillStep, Zenon
<1>2. /\ Active(t) /\ Owner(t) /\ LastRead(t)
      /\ th[t].priming => Priming(t)
      /\ ~th[t].priming => Looping(t)
      /\ th[t].x \in Nat /\ th[t].outstanding \in Nat
    BY <1>1, ServedRuns, Zenon
<1>3. at'[t] \in {"loop", "go", "fill", "reading"}
    BY <1>1 DEF TurnsTo
<1>4. Owner(t)'
    BY <1>1, <1>2, <1>3, Zenon DEF Owner, Inside, InPlay
<1>5. NBuffers \in Nat
    BY NxPlayerConfig
<1>6. at'[t] = "reading" => th'[t].file = fd
    BY <1>1, Zenon DEF TurnsTo
<1>7. LastRead(t)'
  <2>1. /\ fd' = fd /\ drv' = drv /\ at[t] = "fill" /\ at'[t] # "enqueue"
        /\ th'[t].priming = th[t].priming
        /\ at'[t] = "reading" => fd # None
    BY <1>1, <1>3, Zenon DEF TurnsTo
  <2> QED
    BY <1>2, <2>1 DEF LastRead
<1>8. th[t].priming => Priming(t)' /\ at'[t] # "loop"
  <2> SUFFICES ASSUME th[t].priming PROVE Priming(t)' /\ at'[t] # "loop"
    OBVIOUS
  <2> QED
    BY <1>1, <1>2, <1>5 DEF Priming, Inside, TurnsTo
<1>9. ~th[t].priming => Looping(t)' /\ at'[t] # "go"
  <2> SUFFICES ASSUME ~th[t].priming PROVE Looping(t)' /\ at'[t] # "go"
    OBVIOUS
  <2>1. Looping(t) /\ th'[t].running /\ at'[t] # "go"
    BY <1>1, <1>2, Zenon DEF Looping, TurnsTo
  <2>2. th'[t].outstanding < NBuffers /\ th'[t].outstanding <= NBuffers
    BY <1>1, <1>2, <1>5, <2>1 DEF Looping
  <2> QED
    BY <1>1, <2>1, <2>2, Zenon DEF Looping, Inside
<1>10. Served(t)'
  <2>1. fd' = fd /\ th'[t].priming = th[t].priming
    BY <1>1
  <2> QED
    BY <1>3, <1>4, <1>6, <1>7, <1>8, <1>9, <2>1, Zenon DEF Served, Alive, Active, Runs
<1> QED
    BY <1>1, <1>2, <1>3, <1>10, OrderedStays, ThreadStep, Zenon DEF Inside

(* A buffer is read *)
LEMMA ReadPriority == ASSUME Counting, IInv, Typed, PInv, NEW t \in Play, Read(t) PROVE PInv'
<1>1. /\ Others(t) /\ Inside /\ UNCHANGED drv
      /\ at[t] = "reading" /\ at'[t] = "enqueue"
      /\ th'[t].priming = th[t].priming /\ th'[t].failed = th[t].failed
      /\ th'[t].outstanding = th[t].outstanding
      /\ th'[t].x = th[t].x /\ th'[t].running = th[t].running
      /\ fd' = IF th'[t].last THEN None ELSE fd
    BY ReadStep
<1>2. /\ Active(t) /\ Owner(t) /\ LastRead(t)
      /\ th[t].priming => Priming(t)
      /\ ~th[t].priming => Looping(t)
    BY <1>1, ServedRuns
<1>3. Owner(t)'
    BY <1>1, <1>2 DEF Owner, Inside, InPlay
<1>4. th[t].priming => Priming(t)'
    BY <1>1, <1>2 DEF Priming, Inside
<1>5. ~th[t].priming => Looping(t)'
    BY <1>1, <1>2, Zenon DEF Looping, Inside
<1>6. LastRead(t)'
    BY <1>1, <1>2 DEF LastRead
<1>7. Served(t)'
    BY <1>1, <1>3, <1>4, <1>5, <1>6, Zenon DEF Served, Alive, Active, Runs
<1> QED
    BY <1>1, <1>2, <1>7, OrderedStays, ThreadStep, Zenon DEF Inside

(* The device takes a buffer only before the playback is over *)
LEMMA EnqueuePriority ==
    ASSUME Counting, IInv, Typed, PInv, NEW t \in Play, Enqueue(t) PROVE PInv'
<1>1. /\ Others(t) /\ Inside /\ DriverRest
      /\ at[t] = "enqueue" /\ th'[t].priming = th[t].priming
      /\ th'[t].running = th[t].running
      /\ \/ /\ dev_fd # None /\ ~drv.ending /\ UNCHANGED fd
            /\ drv'.held = drv.held + 1 /\ ~drv'.ending
            /\ drv'.final <=> drv.final \/ th[t].last
            /\ at'[t] = TurnsTo(th[t])
            /\ th'[t].x = IF th[t].priming THEN th[t].x + 1 ELSE th[t].x
            /\ th'[t].outstanding = th[t].outstanding + 1
            /\ th'[t].failed = th[t].failed
         \/ /\ fd' = None
            /\ drv'.held = drv.held /\ drv'.final = drv.final
            /\ drv'.ending <=> drv.ending \/ dev_fd # None
            /\ at'[t] = IF th[t].priming THEN "go" ELSE "loop"
            /\ th'[t].x = th[t].x /\ th'[t].outstanding = th[t].outstanding
            /\ th'[t].failed
    BY EnqueueStep, Zenon
<1>2. /\ Active(t) /\ Owner(t) /\ LastRead(t)
      /\ th[t].priming => Priming(t)
      /\ ~th[t].priming => Looping(t)
      /\ th[t].x \in Nat /\ th[t].outstanding \in Nat /\ drv.held \in Nat
      /\ Deq(queue) \in Nat /\ t # None /\ NBuffers \in Nat
    BY <1>1, ServedRuns, NxPlayerConfig, Zenon
<1>3. at'[t] \in {"loop", "go", "fill"} /\ UNCHANGED queue /\ UNCHANGED app
    BY <1>1, Zenon DEF TurnsTo, Inside
<1>4. ~drv.ending => th[t].priming \/ drv.started
    BY <1>2 DEF Looping
<1>5. th'[t].outstanding = drv'.held + Deq(queue')
  <2>1. th[t].outstanding = drv.held + Deq(queue)
    BY <1>2, Zenon DEF Owner
  <2> QED
    BY <1>1, <1>2, <1>3, <2>1
<1>6. /\ drv'.completed = drv.completed /\ drv'.started = drv.started
      /\ drv'.reserved = drv.reserved /\ mq' = mq /\ state' = state /\ dev_fd' = dev_fd
    BY <1>1 DEF DriverRest, Inside
<1>7. drv'.completed => drv'.held = 0 /\ (drv'.ending \/ (drv'.started /\ drv'.final))
  <2> SUFFICES ASSUME drv.completed
               PROVE  drv'.held = 0 /\ (drv'.ending \/ (drv'.started /\ drv'.final))
    BY <1>6
  <2>1. drv.held = 0 /\ (drv.ending \/ (drv.started /\ drv.final))
    BY <1>2 DEF Owner
  <2>2. drv.ending
    BY <1>1, <1>2, <2>1, Zenon DEF LastRead
  <2> QED
    BY <1>1, <2>1, <2>2, Zenon
<1>8. Owner(t)'
  <2>1. at[t] = "enqueue"
    BY <1>1, Zenon
  <2> QED
    BY <1>2, <1>3, <1>5, <1>6, <1>7, <2>1 DEF Owner, InPlay
<1>9. LastRead(t)'
  <2>1. th'[t].priming = th[t].priming /\ at[t] = "enqueue"
    BY <1>1
  <2>2. th[t].priming \/ drv.started => ~drv.final /\ (th[t].last => fd = None)
    BY <1>2, <2>1, Zenon DEF LastRead
  <2>3. fd' = None \/ (fd' = fd /\ (drv'.final <=> drv.final \/ th[t].last))
    BY <1>1, Zenon
  <2>4. th'[t].priming \/ drv'.started => (drv'.final => fd' = None)
    BY <1>6, <2>1, <2>2, <2>3
  <2> QED
    BY <1>3, <2>4 DEF LastRead
<1>10. th[t].priming => Priming(t)' /\ at'[t] # "loop"
  <2> SUFFICES ASSUME th[t].priming PROVE Priming(t)' /\ at'[t] # "loop"
    OBVIOUS
  <2>1. Priming(t)
    BY <1>2
  <2>2. th'[t].running
    BY <1>1, <2>1 DEF Priming
  <2>3. app'.pc = "idle" /\ dev_fd' = t /\ state' = "IDLE" /\ ~drv'.started
    BY <1>3, <1>6, <2>1 DEF Priming
  <2>5. (th'[t].failed <=> drv'.ending) /\ (at'[t] # "go" => ~drv'.ending)
    BY <1>1, <1>2, <2>1, Zenon DEF Priming
  <2>6. /\ th'[t].outstanding <= th'[t].x
        /\ at'[t] # "go" => th'[t].x < NBuffers
        /\ at'[t] = "go" => th'[t].x <= NBuffers
    BY <1>1, <1>2, <2>1 DEF Priming, TurnsTo
  <2>7. at'[t] \notin {"start", "loop"}
    BY <1>1, Zenon DEF TurnsTo
  <2> QED
    BY <2>2, <2>3, <2>5, <2>6, <2>7 DEF Priming
<1>11. ~th[t].priming => Looping(t)' /\ at'[t] = "loop"
  <2> SUFFICES ASSUME ~th[t].priming PROVE Looping(t)' /\ at'[t] = "loop"
    OBVIOUS
  <2>1. Looping(t) /\ th'[t].running /\ at'[t] = "loop"
    BY <1>1, <1>2, Zenon DEF Looping, TurnsTo
  <2>2. th'[t].outstanding <= NBuffers
    BY <1>1, <1>2, <2>1 DEF Looping
  <2>3. ~drv'.started => drv'.ending
    BY <1>1, <1>6, <2>1, Zenon DEF Looping
  <2> QED
    BY <1>3, <1>6, <2>1, <2>2, <2>3, Zenon DEF Looping
<1>12. Served(t)'
  <2>1. th'[t].priming = th[t].priming
    BY <1>1, Zenon
  <2> QED
    BY <1>3, <1>8, <1>9, <1>10, <1>11, <2>1 DEF Served, Alive, Active, Runs
<1> QED
    BY <1>1, <1>2, <1>3, <1>6, <1>12, OrderedStays, ThreadStep, Zenon

(* A thread waits for messages whether the playback has started or failed *)
LEMMA GoPriority == ASSUME Counting, IInv, Typed, PInv, NEW t \in Play, Go(t) PROVE PInv'
<1>1. /\ Others(t) /\ UNCHANGED fd /\ UNCHANGED dev_fd
      /\ UNCHANGED mq /\ UNCHANGED app /\ UNCHANGED queue
      /\ at[t] = "go" /\ at'[t] = IF th[t].running THEN "loop" ELSE "free"
      /\ ~th'[t].priming
      /\ th'[t].running = th[t].running /\ th'[t].outstanding = th[t].outstanding
      /\ drv'.held = drv.held /\ drv'.final = drv.final
      /\ drv'.completed = drv.completed /\ drv'.reserved = drv.reserved
      /\ \/ ~th[t].running /\ UNCHANGED state /\ UNCHANGED drv
         \/ th[t].failed /\ UNCHANGED state /\ UNCHANGED drv
         \/ /\ th[t].running /\ ~th[t].failed /\ dev_fd # None
            /\ state' = "PLAYING" /\ drv'.started /\ drv'.ending = drv.ending
         \/ /\ th[t].running /\ ~th[t].failed
            /\ UNCHANGED state /\ drv'.started = drv.started
            /\ drv'.ending <=> drv.ending \/ dev_fd # None
    BY GoStep, Zenon
<1>2. /\ Active(t) /\ Owner(t) /\ LastRead(t) /\ th[t].priming /\ Priming(t)
      /\ th[t].x \in Nat /\ th[t].outstanding \in Nat /\ t # None /\ NBuffers \in Nat
    BY <1>1, ServedRuns, NxPlayerConfig, Zenon
<1>3. Owner(t)'
  <2>1. drv.completed => drv.held = 0 /\ drv.ending
    BY <1>2, Zenon DEF Owner, Priming
  <2>2. drv.ending => drv'.ending
    BY <1>1, Zenon
  <2>3. at'[t] = "free" => th'[t].outstanding = 0
    BY <1>1, <1>2, Zenon DEF Priming
  <2>4. at'[t] # "clean"
    BY <1>1
  <2> QED
    BY <1>1, <1>2, <2>1, <2>2, <2>3, <2>4, Zenon DEF Owner, InPlay
<1>4. at'[t] = "loop" => Looping(t)' /\ LastRead(t)'
  <2> SUFFICES ASSUME at'[t] = "loop" PROVE Looping(t)' /\ LastRead(t)'
    OBVIOUS
  <2>1. th[t].running /\ th'[t].running
    BY <1>1
  <2>2. th'[t].outstanding <= NBuffers
    BY <1>1, <1>2 DEF Priming
  <2>3. (drv'.started <=> state' # "IDLE") /\ (~drv'.started => drv'.ending)
    BY <1>1, <1>2, <2>1, Zenon DEF Priming
  <2>4. Looping(t)'
    BY <1>1, <1>2, <2>1, <2>2, <2>3, Zenon DEF Looping, Priming
  <2>5. LastRead(t)'
    BY <1>1, <1>2, Zenon DEF LastRead
  <2> QED
    BY <2>4, <2>5
<1>5. at'[t] \in {"loop", "free"}
    BY <1>1, Zenon
<1>6. Served(t)'
    BY <1>1, <1>3, <1>4, <1>5 DEF Served, Alive, Active, Runs
<1>7. app.pc = "idle"
    BY <1>2, Zenon DEF Priming
<1> QED
    BY <1>1, <1>2, <1>5, <1>6, <1>7, OrderedStays, ThreadStep, Zenon

(* A message: the end of the playback is the last of them *)
LEMMA ReceivePriority ==
    ASSUME Counting, IInv, Typed, PInv, NEW t \in Play, Receive(t) PROVE PInv'
<1>1. /\ Others(t) /\ DriverRest
      /\ UNCHANGED state /\ UNCHANGED fd /\ UNCHANGED dev_fd
      /\ UNCHANGED mq /\ UNCHANGED app
      /\ at[t] = "loop" /\ queue # <<>> /\ queue' = Tail(queue)
      /\ th'[t].priming = th[t].priming
      /\ drv'.held = drv.held /\ drv'.final = drv.final
      /\ \/ /\ Head(queue) = "DEQUEUE" /\ UNCHANGED drv
            /\ at'[t] \in {"fill", "loop"} /\ th'[t].running = th[t].running
            /\ th'[t].outstanding = th[t].outstanding - 1
         \/ /\ Head(queue) = "STOP"
            /\ drv'.ending <=> drv.ending \/ dev_fd # None
            /\ at'[t] = "loop" /\ th'[t].running = th[t].running
            /\ th'[t].outstanding = th[t].outstanding
         \/ /\ Head(queue) = "COMPLETE" /\ UNCHANGED drv
            /\ at'[t] = "free" /\ th'[t].outstanding = th[t].outstanding
    BY ReceiveStep
<1>2. /\ Active(t) /\ Owner(t) /\ LastRead(t) /\ ~th[t].priming /\ Looping(t)
      /\ th[t].outstanding \in Nat /\ drv.held \in Nat
      /\ Deq(queue) \in Nat /\ NBuffers \in Nat /\ queue \in Seq(Message)
    BY <1>1, ServedRuns, NxPlayerConfig, Zenon DEF Typed
<1>3. /\ DOMAIN queue = 1 .. Len(queue) /\ DOMAIN queue' = 1 .. Len(queue) - 1
      /\ Len(queue) \in Nat /\ Len(queue) > 0 /\ Len(queue') = Len(queue) - 1
      /\ \A k \in 1 .. Len(queue) - 1 : queue'[k] = queue[k + 1]
      /\ Head(queue) = queue[1] /\ queue' \in Seq(Message)
  <2>1. queue # <<>> /\ queue' = Tail(queue) /\ queue \in Seq(Message)
    BY <1>1, <1>2, Zenon
  <2> QED
    BY <2>1
<1>4. /\ drv'.completed = drv.completed /\ drv'.started = drv.started
      /\ drv'.reserved = drv.reserved /\ (drv.ending => drv'.ending)
    BY <1>1 DEF DriverRest
<1>5. Ordered'
  <2> SUFFICES ASSUME NEW k \in DOMAIN queue'
               PROVE  /\ queue'[k] # "STOP"
                      /\ queue'[k] = "COMPLETE" => k = Len(queue') /\ drv'.completed
    BY DEF Ordered
  <2>1. k \in Nat /\ k >= 1 /\ k + 1 \in DOMAIN queue /\ queue'[k] = queue[k + 1] /\ k + 1 # 1
    BY <1>3
  <2>2. k + 1 = Len(queue) => k = Len(queue')
    BY <1>3, <2>1
  <2> QED
    BY <1>4, <2>1, <2>2 DEF PInv, Ordered
<1>6. Deq(queue') = IF Head(queue) = "DEQUEUE" THEN Deq(queue) - 1 ELSE Deq(queue)
    BY <1>1, <1>2, DeqTail
<1>7. th'[t].outstanding = drv'.held + Deq(queue')
  <2>1. th[t].outstanding = drv.held + Deq(queue)
    BY <1>2 DEF Owner
  <2>2. /\ drv'.held = drv.held /\ th[t].outstanding \in Nat
        /\ drv.held \in Nat /\ Deq(queue) \in Nat
        /\ \/ Head(queue) = "DEQUEUE" /\ th'[t].outstanding = th[t].outstanding - 1
           \/ Head(queue) # "DEQUEUE" /\ th'[t].outstanding = th[t].outstanding
    BY <1>1, <1>2
  <2> QED
    BY <1>6, <2>1, <2>2
<1>8. at'[t] = "free" => th'[t].outstanding = 0
  <2> SUFFICES ASSUME at'[t] = "free" PROVE th'[t].outstanding = 0
    OBVIOUS
  <2>1. Head(queue) = "COMPLETE"
    BY <1>1, Zenon
  <2>2. Len(queue) = 1 /\ drv.completed
    BY <1>3, <2>1 DEF PInv, Ordered
  <2>3. queue' = <<>>
    BY <1>3, <2>2
  <2>4. Deq(queue') = 0
    BY <2>3, DeqEmpty
  <2>5. drv'.held = 0
    BY <1>1, <1>2, <2>2 DEF Owner
  <2> QED
    BY <1>7, <2>4, <2>5
<1>9. at'[t] \in {"fill", "loop", "free"}
    BY <1>1, Zenon
<1>10. Owner(t)'
    BY <1>1, <1>2, <1>4, <1>7, <1>8, <1>9, Zenon DEF Owner, InPlay
<1>11. at'[t] # "free" => Looping(t)' /\ LastRead(t)'
  <2> SUFFICES ASSUME at'[t] # "free" PROVE Looping(t)' /\ LastRead(t)'
    OBVIOUS
  <2>1. th'[t].running
    BY <1>1, <1>2, Zenon DEF Looping
  <2>2. /\ at'[t] = "loop" => th'[t].outstanding <= NBuffers
        /\ at'[t] # "loop" => th'[t].outstanding < NBuffers
    <3>1. th[t].outstanding <= NBuffers
        BY <1>1, <1>2 DEF Looping
    <3>2. \/ th'[t].outstanding = th[t].outstanding - 1
          \/ at'[t] = "loop" /\ th'[t].outstanding = th[t].outstanding
        BY <1>1
    <3> QED
        BY <1>2, <3>1, <3>2
  <2>3. Looping(t)'
    BY <1>1, <1>2, <1>4, <2>1, <2>2, Zenon DEF Looping
  <2>4. LastRead(t)'
    BY <1>1, <1>2, <1>4, <1>9, Zenon DEF LastRead
  <2> QED
    BY <2>3, <2>4
<1>12. Served(t)'
  <2>1. ~th'[t].priming
    BY <1>1, <1>2
  <2> QED
    BY <1>9, <1>10, <1>11, <2>1, Zenon DEF Served, Alive, Active, Runs
<1> QED
    BY <1>1, <1>2, <1>5, <1>9, <1>12, ThreadStep, Zenon

(* The thread has all its buffers when it frees them *)
LEMMA FreePriority == ASSUME IInv, Typed, PInv, NEW t \in Play, Free(t) PROVE PInv'
<1>1. /\ Others(t) /\ Inside /\ UNCHANGED fd
      /\ at[t] = "free" /\ at'[t] = "clean" /\ th'[t] = th[t]
      /\ drv'.held = drv.held /\ drv'.completed = drv.completed
      /\ drv'.started = drv.started /\ drv'.ending = drv.ending
      /\ drv'.final = drv.final
    BY FreeStep
<1>2. Active(t)
    BY <1>1 DEF Active
<1>3. Owner(t)
    BY <1>2 DEF PInv, Served
<1>4. Owner(t)'
    BY <1>1, <1>3 DEF Owner, Inside, InPlay
<1>5. Served(t)'
    BY <1>1, <1>4, Zenon DEF Served, Alive, Active, Runs
<1> QED
    BY <1>1, <1>2, <1>5, OrderedStays, ThreadStep, Zenon DEF Inside

(* The player is closed *)
LEMMA CleanPriority == ASSUME Counting, IInv, Typed, PInv, NEW t \in Play, Clean(t) PROVE PInv'
<1>1. /\ Others(t) /\ UNCHANGED app
      /\ at[t] = "clean" /\ at'[t] = "release" /\ th'[t] = th[t]
      /\ fd' = None /\ dev_fd' = None /\ mq' = "closed" /\ state' = "IDLE"
      /\ queue' = <<>> /\ drv'.held = drv.held
    BY CleanStep, Zenon
<1>2. Active(t) /\ Alive(t)
    BY <1>1 DEF Active, Alive
<1>3. Owner(t) /\ drv.held \in Nat /\ Deq(queue) \in Nat
    BY <1>2, DeqNat, Zenon DEF PInv, Served, Typed, Driver
<1>4. th[t].outstanding = 0 /\ drv.held = 0
    BY <1>1, <1>3 DEF Owner
<1>5. Served(t)'
    BY <1>1, <1>4 DEF Served, Alive, Active, Runs
<1>6. \A s \in Play : Served(s)'
    BY <1>1, <1>2, <1>5, OneServed
<1>7. ~Ready
    BY <1>2 DEF PInv, Playing, Rest
<1>8. Playing'
    BY <1>1, <1>7 DEF Playing, InPlay, Ready
<1>9. AtRest' /\ Ordered'
    BY <1>1 DEF AtRest, Ordered
<1> QED
    BY <1>6, <1>8, <1>9 DEF PInv

(* The thread is gone *)
LEMMA ThreadReleasePriority ==
    ASSUME IInv, Typed, PInv, NEW t \in Play, ThreadRelease(t)
    PROVE  PInv'
<1>1. /\ Others(t) /\ Inside /\ UNCHANGED fd /\ UNCHANGED drv
      /\ at[t] = "release" /\ at'[t] = "gone" /\ th'[t] = Idle
    BY ThreadReleaseStep
<1>2. Alive(t) /\ ~Active(t)
    BY <1>1 DEF Active, Alive
<1>3. Served(t)' /\ ~Active(t)'
    BY <1>1 DEF Served, Alive, Active, Runs
<1>4. \A s \in Play : Served(s)' /\ ~Active(s) /\ ~Active(s)'
    BY <1>1, <1>2, <1>3, OneServed
<1>5. Rest /\ Rest'
    BY <1>4 DEF Rest
<1>6. Playing'
    BY <1>1, <1>5 DEF PInv, Playing, Inside, InPlay, Ready
<1>7. AtRest' /\ Ordered'
    BY <1>1, <1>5 DEF PInv, AtRest, Ordered, Inside
<1> QED
    BY <1>4, <1>6, <1>7 DEF PInv

-----------------------------------------------------------------------------
(* The schedule never changes *)
LEMMA EnvStays == [Next]_vars => UNCHANGED env
<1> SUFFICES ASSUME [Next]_vars PROVE UNCHANGED env
    OBVIOUS
<1>1. CASE Command \/ Call
    BY <1>1, Zenon DEF Command, Begin, Call, PlayTest, PlayOpen, PlayDevice, PlayReserve,
       PlayQueue, PlayCreate, JoinTake, Joined, StopTest, StopSend, AppRelease, SwitchTest,
       SwitchIoctl, SwitchAssign
<1>2. CASE Device
    BY <1>2, Zenon DEF Device, Returns, Completes
<1>3. CASE \E t \in Play : Thread(t)
    BY <1>3, Zenon DEF Thread, Start, Fill, Read, Enqueue, Go, Receive, Free, Clean,
       ThreadRelease
<1>4. CASE UNCHANGED vars
    BY <1>4, Zenon DEF vars
<1> QED
    BY <1>1, <1>2, <1>3, <1>4 DEF Next

(* Where the play thread is not overtaken, the invariant is inductive *)
LEMMA NextPriority ==
    Counting /\ Priority /\ IInv /\ Typed /\ PInv /\ [Next]_vars => PInv'
<1> SUFFICES ASSUME Counting, Priority, IInv, Typed, PInv, [Next]_vars PROVE PInv'
    OBVIOUS
<1>1. CASE Command
    BY <1>1, AppMoves
<1>2. CASE Call
    BY <1>2, AppMoves, PlayOpenPriority, PlayDevicePriority, PlayReservePriority,
       PlayQueuePriority, PlayCreatePriority, StopSendPriority, SwitchPriority, Zenon DEF Call
<1>3. CASE Device
    BY <1>3, ReturnsPriority, CompletesPriority DEF Device
<1>4. CASE \E t \in Play : Thread(t)
    BY <1>4, StartPriority, FillPriority, ReadPriority, EnqueuePriority, GoPriority,
       ReceivePriority, FreePriority, CleanPriority, ThreadReleasePriority, Zenon DEF Thread
<1>5. CASE UNCHANGED vars
  <2>1. /\ state' = state /\ fd' = fd /\ dev_fd' = dev_fd /\ mq' = mq
        /\ app' = app /\ at' = at /\ th' = th /\ queue' = queue /\ drv' = drv
    BY <1>5, Zenon DEF vars, player
  <2>2. AtRest' /\ Playing' /\ Ordered'
    BY <2>1 DEF PInv, AtRest, Playing, Ordered, Rest, Active, Ready, InPlay
  <2>3. ASSUME NEW t \in Play PROVE Served(t)'
    <3>1. Owner(t)' = Owner(t) /\ Priming(t)' = Priming(t)
        BY <2>1, Zenon DEF Owner, Priming, InPlay, Deq, DeqAt
    <3>2. Looping(t)' = Looping(t) /\ LastRead(t)' = LastRead(t)
        BY <2>1, Zenon DEF Looping, LastRead
    <3> QED
        BY <2>1, <3>1, <3>2, Zenon DEF PInv, Served, Alive, Active, Runs
  <2> QED
    BY <2>2, <2>3 DEF PInv
<1> QED
    BY <1>1, <1>2, <1>3, <1>4, <1>5 DEF Next

(* The invariant is strong enough *)
LEMMA InvariantGivesBuffersBack ==
    ASSUME Counting, Typed, Priority => PInv
    PROVE  BuffersBack
<1> SUFFICES ASSUME Priority
             PROVE  /\ \A t \in Play :
                         /\ Alive(t) => th[t].outstanding = drv.held + Dequeued
                         /\ at[t] \in {"free", "clean"} => th[t].outstanding = 0
                         /\ th[t].outstanding \in 0 .. NBuffers
                    /\ Len(queue) <= NBuffers + 8
    BY DEF BuffersBack, Priority
<1>1. PInv /\ queue \in Seq(Message) /\ Deq(queue) \in Nat /\ NBuffers \in Nat
    BY DeqNat, NxPlayerConfig DEF Typed
<1>2. Dequeued = Deq(queue)
    BY DEF Dequeued, Deq, DeqAt
<1>3. ASSUME NEW t \in Play
      PROVE  /\ Alive(t) => th[t].outstanding = drv.held + Deq(queue)
             /\ at[t] \in {"free", "clean"} => th[t].outstanding = 0
             /\ th[t].outstanding \in 0 .. NBuffers
  <2>1. Served(t) /\ drv.held \in Nat /\ th[t].x \in Nat
    BY <1>1 DEF PInv, Typed, Driver, Locals
  <2>2. CASE ~Alive(t)
    <3>1. th[t].outstanding = 0 /\ at[t] \notin {"free", "clean"}
        BY <2>1, <2>2 DEF Served, Idle, Alive
    <3> QED
        BY <1>1, <2>2, <3>1
  <2>3. CASE at[t] = "release"
    <3>1. Rest
      <4>1. \A s \in Play : Active(s) => Alive(s) /\ mq = "open"
        BY <1>1, Zenon DEF Active, Alive, PInv, Served, Owner
      <4> QED
        BY <2>1, <2>3, <4>1 DEF Served, Rest
    <3>2. queue = <<>> /\ Deq(queue) = 0
        BY <1>1, <3>1, DeqEmpty DEF PInv, AtRest
    <3>3. th[t].outstanding = 0 /\ drv.held = 0
        BY <2>1, <2>3 DEF Served
    <3> QED
        BY <1>1, <2>3, <3>2, <3>3
  <2>4. CASE Active(t)
    <3>1. Owner(t)
        BY <2>1, <2>4, Zenon DEF Served
    <3>2. th[t].outstanding = drv.held + Deq(queue) /\ th[t].outstanding \in Nat
        BY <1>1, <2>1, <3>1 DEF Owner
    <3>3. th[t].outstanding <= NBuffers
      <4>1. CASE at[t] \in {"free", "clean"}
        BY <1>1, <3>1, <4>1 DEF Owner
      <4>2. CASE at[t] \notin {"free", "clean"}
        <5>1. IF th[t].priming THEN Priming(t) ELSE Looping(t)
            BY <2>1, <2>4, <4>2 DEF Served, Runs
        <5>2. Priming(t) => th[t].outstanding <= NBuffers
            BY <1>1, <2>1, <3>2 DEF Priming
        <5>3. Looping(t) => th[t].outstanding <= NBuffers
            BY <1>1, <3>2 DEF Looping
        <5> QED
            BY <5>1, <5>2, <5>3
      <4> QED
        BY <4>1, <4>2
    <3> QED
        BY <1>1, <3>1, <3>2, <3>3 DEF Owner
  <2> QED
    BY <2>2, <2>3, <2>4 DEF Alive, Active
<1>4. Len(queue) <= Deq(queue) + 2 /\ Len(queue) \in Nat
    BY <1>1, DeqLength DEF PInv, Ordered
<1>5. Deq(queue) <= NBuffers
  <2>1. CASE Rest
    BY <1>1, <2>1, DeqEmpty DEF PInv, AtRest
  <2>2. CASE ~Rest
    <3>1. PICK t \in Play : Active(t)
        BY <2>2 DEF Rest
    <3>2. th[t].outstanding = drv.held + Deq(queue) /\ th[t].outstanding \in 0 .. NBuffers
        BY <1>3, <3>1 DEF Active, Alive
    <3>3. drv.held \in Nat
        BY DEF Typed, Driver
    <3> QED
        BY <1>1, <3>2, <3>3
  <2> QED
    BY <2>1, <2>2
<1> QED
    BY <1>1, <1>2, <1>3, <1>4, <1>5

-----------------------------------------------------------------------------
(* Where nothing fails either.  Which call the application is in *)
Named ==
    /\ app.pc \in {"play", "open", "device", "reserve", "queue", "create"} => app.op = "play"
    /\ app.pc \in {"switch", "ioctl", "assign"} => app.op # "stop"

(* A thread gets its file and starts the playback *)
Sound(t) ==
    IF th[t].priming
    THEN /\ th[t].running /\ ~th[t].failed
         /\ th[t].x = 0 /\ at[t] \in {"start", "fill"} => fd # None
    ELSE drv.started

(* File and device are open in nxplayer_playfile and while a thread runs *)
FInv ==
    /\ Named
    /\ app.pc = "open" \/ InPlay => Rest
    /\ InPlay => fd = app.n
    /\ Rest /\ ~InPlay => fd = None /\ dev_fd = None
    /\ app.pc = "idle" /\ app.last = "stop" => \A t \in Play : ~Alive(t)
    /\ \A t \in Play : Runs(t) => Sound(t)
Faultless == env = [sched |-> "priority", faults |-> "none"]

(* Nothing fails, and the thread is not overtaken *)
LEMMA FaultlessMeans == Faultless => Priority /\ ~Faulty
BY DEF Faultless, Priority, Faulty

(* A player that was just created *)
LEMMA InitFaultless == Init => FInv
<1> SUFFICES ASSUME Init PROVE FInv
    OBVIOUS
<1>1. /\ app = [pc |-> "idle", op |-> "none", id |-> None, n |-> 0, last |-> "none"]
      /\ at = [t \in Play |-> "none"] /\ fd = None /\ dev_fd = None
    BY Zenon DEF Init
<1>2. app.pc = "idle" /\ app.last = "none"
    BY <1>1
<1>3. \A t \in Play : ~Runs(t)
    BY <1>1 DEF Active, Runs
<1> QED
    BY <1>1, <1>2, <1>3 DEF FInv, Named, InPlay

(* The application goes on, and the threads stay where they are *)
LEMMA AppFaultless ==
    ASSUME Priority, AppRuns, PInv, FInv, UNCHANGED at, UNCHANGED th,
           ~Rest => drv'.started = drv.started,
           Named',
           app'.pc = "open" \/ InPlay' => Rest,
           InPlay' => fd' = app'.n,
           Rest /\ ~InPlay' => fd' = None /\ dev_fd' = None,
           app'.pc = "idle" /\ app'.last = "stop" => \A t \in Play : ~Alive(t)
    PROVE  FInv'
<1>1. Rest' = Rest /\ \A t \in Play : Runs(t)' = Runs(t) /\ Alive(t)' = Alive(t)
    BY SameThreads DEF Runs, Active, Alive
<1>2. ASSUME NEW t \in Play, Runs(t) PROVE Sound(t)'
  <2>1. Active(t) /\ ~Rest
    BY <1>2 DEF Runs, Rest
  <2>2. ~th[t].priming
    BY <2>1, FoundWaiting
  <2>3. drv.started
    BY <1>2, <2>2 DEF FInv, Sound
  <2> QED
    BY <2>1, <2>2, <2>3, Zenon DEF Sound
<1> QED
    BY <1>1, <1>2, Zenon DEF FInv

(* A player that is idle has no thread *)
LEMMA IdleAlone ==
    ASSUME Priority, AppRuns, PInv, FInv, state = "IDLE" \/ Rest
    PROVE  Rest /\ \A t \in Play : ~Alive(t)
<1>1. ASSUME NEW t \in Play, Active(t) PROVE FALSE
  <2>1. Runs(t) /\ ~th[t].priming /\ Looping(t)
    BY <1>1, FoundWaiting
  <2>2. drv.started /\ state # "IDLE"
    BY <2>1 DEF FInv, Sound, Looping
  <2> QED
    BY <1>1, <2>2 DEF Rest
<1>2. \A t \in Play : at[t] # "release"
    BY FoundWaiting
<1> QED
    BY <1>1, <1>2 DEF Rest, Active, Alive

(* Commands, tests and joins *)
LEMMA AppMovesFaultless ==
    ASSUME Priority, IInv, PInv, FInv,
           \/ Command \/ PlayTest \/ JoinTake \/ Joined \/ StopTest \/ SwitchTest \/ AppRelease
    PROVE  FInv'
<1>0. app \in App
    BY DEF IInv, Shape
<1>1. /\ AppRuns
      /\ UNCHANGED fd /\ UNCHANGED dev_fd /\ UNCHANGED at /\ UNCHANGED th /\ UNCHANGED drv
    BY Zenon DEF Command, Begin, PlayTest, JoinTake, Joined, StopTest, SwitchTest,
       AppRelease, At, player
<1>2. CASE Command
  <2>1. PICK op \in Op, pc \in {"play", "stop", "switch"} :
          /\ Begin(op, pc) /\ (pc = "play" => op = "play")
          /\ pc = "switch" => op # "stop"
    BY <1>2, Zenon DEF Command, Op
  <2>2. app.pc = "idle" /\ app' = [app EXCEPT !.op = op, !.pc = pc]
    BY <2>1, Zenon DEF Begin
  <2>3. app'.pc = pc /\ app'.op = op /\ app'.n = app.n
    BY <1>0, <2>2 DEF App
  <2> QED
    BY <1>1, <2>1, <2>2, <2>3, AppFaultless DEF FInv, InPlay, Named
<1>3. CASE PlayTest
  <2>1. app.pc = "play" /\ ((state = "IDLE" /\ Goto("open")) \/ Return)
    BY <1>3, Zenon DEF PlayTest, At
  <2>2. app.op = "play"
    BY <2>1 DEF FInv, Named
  <2>3. /\ app'.n = app.n
        /\ \/ app'.pc = "idle" /\ app'.last = app.op
           \/ app'.pc = "open" /\ app'.op = app.op /\ state = "IDLE"
    BY <1>0, <2>1, ReturnFields, GotoApp DEF Place
  <2>4. state = "IDLE" => Rest
    BY <1>1, IdleAlone
  <2> QED
    BY <1>1, <2>1, <2>2, <2>3, <2>4, AppFaultless, Zenon DEF FInv, InPlay, Named
<1>4. CASE JoinTake
  <2>1. app.pc = "join" /\ app' = [app EXCEPT !.pc = "joining", !.id = play_id]
    BY <1>4, Zenon DEF JoinTake, At
  <2>2. app'.pc = "joining" /\ app'.op = app.op /\ app'.n = app.n
    BY <1>0, <2>1 DEF App
  <2>3. InPlay' = InPlay /\ Named'
    BY <2>1, <2>2 DEF InPlay, Named
  <2> QED
    BY <1>1, <2>1, <2>2, <2>3, AppFaultless DEF FInv
<1>5. CASE Joined
  <2>1. /\ app.pc = "joining"
        /\ app.id # None => at[app.id] = "gone"
        /\ \/ app.op = "play" /\ Goto("create")
           \/ app.op \in {"stop", "quit"} /\ Stopped
           \/ app.op = "release" /\ Goto("unref")
    BY <1>5, Zenon DEF Joined, At
  <2>2. \A t \in Play : ~Alive(t)
    BY <2>1 DEF IInv, Owned, Alive, None, Play
  <2>3. /\ app'.n = app.n
        /\ \/ app.op = "play" /\ app'.pc = "create" /\ app'.op = "play"
           \/ app.op # "play" /\ app'.pc = "idle"
           \/ app.op # "play" /\ app'.pc = "join" /\ app'.op = "release"
           \/ app.op # "play" /\ app'.pc = "unref"
    BY <1>0, <2>1, StoppedFields, GotoApp DEF Place
  <2>4. InPlay' = InPlay /\ Named' /\ app'.pc # "open"
    BY <2>1, <2>3 DEF InPlay, Named
  <2> QED
    BY <1>1, <2>2, <2>3, <2>4, AppFaultless, Zenon DEF FInv
<1>6. CASE StopTest
  <2>1. app.pc = "stop" /\ ((state = "IDLE" /\ Stopped) \/ Goto("send"))
    BY <1>6, Zenon DEF StopTest, At
  <2>2. /\ app'.n = app.n
        /\ \/ app'.pc = "idle" /\ state = "IDLE"
           \/ app'.pc = "join" /\ app'.op = "release"
           \/ app'.pc = "send"
    BY <1>0, <2>1, StoppedFields, GotoApp DEF Place
  <2>3. state = "IDLE" => \A t \in Play : ~Alive(t)
    BY <1>1, IdleAlone
  <2>4. ~InPlay' /\ ~InPlay /\ Named' /\ app'.pc # "open"
    BY <2>1, <2>2 DEF InPlay, Named
  <2> QED
    BY <1>1, <2>2, <2>3, <2>4, AppFaultless, Zenon DEF FInv
<1>7. CASE SwitchTest
  <2>1. app.pc = "switch" /\ (Goto("ioctl") \/ Return)
    BY <1>7 DEF SwitchTest, At
  <2>2. app.op # "stop"
    BY <2>1 DEF FInv, Named
  <2>3. /\ app'.n = app.n
        /\ \/ app'.pc = "idle" /\ app'.last = app.op
           \/ app'.pc = "ioctl" /\ app'.op = app.op
    BY <1>0, <2>1, ReturnFields, GotoApp DEF Place
  <2> QED
    BY <1>1, <2>1, <2>2, <2>3, AppFaultless, Zenon DEF FInv, InPlay, Named
<1>8. CASE AppRelease
  <2>1. app.pc = "unref" /\ Goto("gone")
    BY <1>8, Zenon DEF AppRelease, At
  <2>2. app'.n = app.n /\ app'.pc = "gone"
    BY <1>0, <2>1, GotoApp DEF Place
  <2> QED
    BY <1>1, <2>1, <2>2, AppFaultless, Zenon DEF FInv, InPlay, Named
<1> QED
    BY <1>2, <1>3, <1>4, <1>5, <1>6, <1>7, <1>8

(* The other steps of a call *)
LEMMA CallFaultless ==
    ASSUME Priority, ~Faulty, IInv, Typed, PInv, FInv,
           \/ PlayOpen \/ PlayDevice \/ PlayReserve \/ PlayQueue
           \/ StopSend \/ SwitchIoctl \/ SwitchAssign
    PROVE  FInv'
<1>0. app \in App /\ drv \in Driver /\ app.n \in Nat
    BY DEF IInv, Shape, Typed, App
<1>1. AppRuns /\ UNCHANGED at /\ UNCHANGED th
    BY Zenon DEF PlayOpen, PlayDevice, PlayReserve, PlayQueue, StopSend, SwitchIoctl,
       SwitchAssign, At
<1>2. Rest => \A t \in Play : ~Alive(t)
    BY <1>1, IdleAlone
<1>3. CASE PlayOpen
  <2>1. /\ app.pc = "open" /\ app' = [app EXCEPT !.pc = "device", !.n = @ + 1]
        /\ fd' = app.n + 1 /\ UNCHANGED drv
    BY <1>3, Zenon DEF PlayOpen, At
  <2>2. app'.pc = "device" /\ app'.n = app.n + 1 /\ app'.op = app.op /\ Rest
    BY <1>0, <2>1 DEF App, FInv
  <2>3. Named' /\ InPlay'
    BY <2>1, <2>2 DEF FInv, Named, InPlay
  <2> QED
    BY <1>1, <2>1, <2>2, <2>3, AppFaultless
<1>4. CASE PlayDevice
  <2>1. app.pc = "device" /\ Goto("reserve") /\ UNCHANGED fd /\ UNCHANGED drv
    BY <1>4, Zenon DEF PlayDevice, At
  <2>2. app'.pc = "reserve" /\ app'.n = app.n /\ app'.op = app.op
    BY <1>0, <2>1, GotoApp DEF Place
  <2>3. Named' /\ InPlay' /\ InPlay
    BY <2>1, <2>2, Zenon DEF FInv, Named, InPlay
  <2> QED
    BY <1>1, <2>1, <2>2, <2>3, AppFaultless, Zenon DEF FInv
<1>5. CASE PlayReserve
  <2>1. /\ app.pc = "reserve"
        /\ \/ Goto("queue") /\ UNCHANGED fd
           \/ Return /\ Close
    BY <1>5, Zenon DEF PlayReserve, At
  <2>2. InPlay /\ Rest
    BY <2>1 DEF FInv, InPlay
  <2>3. CASE Goto("queue") /\ UNCHANGED fd
    <3>1. app'.pc = "queue" /\ app'.n = app.n /\ app'.op = app.op
        BY <1>0, <2>3, GotoApp DEF Place
    <3>2. Named' /\ InPlay'
        BY <2>1, <3>1 DEF FInv, Named, InPlay
    <3> QED
        BY <1>1, <2>2, <2>3, <3>1, <3>2, AppFaultless, Zenon DEF FInv
  <2>4. CASE Return /\ Close
    <3>1. app'.pc = "idle" /\ fd' = None /\ dev_fd' = None
        BY <1>0, <2>4, ReturnFields, CloseTyped
    <3> QED
        BY <1>1, <1>2, <2>2, <3>1, AppFaultless DEF Named, InPlay
  <2> QED
    BY <2>1, <2>3, <2>4
<1>6. CASE PlayQueue
  <2>1. app.pc = "queue" /\ Goto("join") /\ UNCHANGED fd /\ UNCHANGED drv
    BY <1>6, Zenon DEF PlayQueue, At
  <2>2. app'.pc = "join" /\ app'.n = app.n /\ app'.op = app.op
    BY <1>0, <2>1, GotoApp DEF Place
  <2>3. Named' /\ InPlay' /\ InPlay
    BY <2>1, <2>2 DEF FInv, Named, InPlay
  <2> QED
    BY <1>1, <2>1, <2>2, <2>3, AppFaultless DEF FInv
<1>7. CASE StopSend
  <2>1. app.pc = "send" /\ Goto("join") /\ UNCHANGED fd /\ UNCHANGED dev_fd /\ UNCHANGED drv
    BY <1>7, Zenon DEF StopSend, At, player
  <2>2. app'.pc = "join" /\ app'.op = app.op /\ app.op # "play"
    BY <1>0, <2>1, GotoApp DEF Place, IInv, Numbered
  <2>3. Named' /\ ~InPlay' /\ ~InPlay
    BY <2>1, <2>2 DEF Named, InPlay
  <2> QED
    BY <1>1, <2>1, <2>2, <2>3, AppFaultless, Zenon DEF FInv
<1>8. CASE SwitchIoctl \/ SwitchAssign
  <2>1. /\ app.pc \in {"ioctl", "assign"} /\ (Goto("assign") \/ Return)
        /\ UNCHANGED fd /\ UNCHANGED dev_fd
        /\ drv' = drv \/ drv' = [drv EXCEPT !.paused = (app.op = "pause")]
    BY <1>8, Zenon DEF SwitchIoctl, SwitchAssign, At, player
  <2>2. drv'.started = drv.started
    BY <1>0, <2>1 DEF Driver
  <2>3. app.op # "stop"
    BY <2>1 DEF FInv, Named
  <2>4. \/ app'.pc = "idle" /\ app'.last = app.op
        \/ app'.pc = "assign" /\ app'.op = app.op
    BY <1>0, <2>1, ReturnFields, GotoApp DEF Place
  <2>5. Named' /\ ~InPlay' /\ ~InPlay
    BY <2>1, <2>3, <2>4 DEF Named, InPlay
  <2> QED
    BY <1>1, <2>1, <2>2, <2>3, <2>4, <2>5, AppFaultless DEF FInv
<1> QED
    BY <1>3, <1>4, <1>5, <1>6, <1>7, <1>8

(* The thread starts with the file *)
LEMMA PlayCreateFaultless ==
    ASSUME Priority, ~Faulty, IInv, Typed, PInv, FInv, PlayCreate
    PROVE  FInv'
<1>1. /\ AppRuns /\ app.pc = "create" /\ Return
      /\ at' = [at EXCEPT ![app.n] = "start"] /\ UNCHANGED fd /\ UNCHANGED th
    BY Zenon DEF PlayCreate, At
<1>2. app \in App /\ at \in [Play -> Spot] /\ app.n \in Play
    BY <1>1 DEF IInv, Shape, Typed, Numbered
<1>3. app'.pc = "idle" /\ app'.last = app.op /\ app.op = "play"
    BY <1>1, <1>2, ReturnFields, Zenon DEF FInv, Named
<1>4. Rest /\ fd = app.n
    BY <1>1 DEF FInv, InPlay
<1>5. \A t \in Play : ~Alive(t) /\ ~Runs(t) /\ th[t] = Idle
    BY <1>1, <1>4, IdleAlone, Zenon DEF PInv, Served, Rest, Runs
<1>6. PICK n \in Play : n = app.n
    BY <1>2
<1>7. at'[n] = "start" /\ th'[n] = Idle /\ \A t \in Play \ {n} : at'[t] = at[t]
    BY <1>1, <1>2, <1>5, <1>6
<1>8. ~Rest' /\ \A t \in Play \ {n} : ~Runs(t)'
    BY <1>5, <1>7, Zenon DEF Rest, Active, Runs
<1>9. Sound(n)'
    BY <1>1, <1>4, <1>6, <1>7 DEF Sound, Idle, None, Play
<1> QED
    BY <1>3, <1>8, <1>9, Zenon DEF FInv, Named, InPlay

(* A thread that is not done goes on *)
LEMMA ThreadFaultless ==
    ASSUME IInv, PInv, FInv, NEW t \in Play, Active(t), Others(t), UNCHANGED app,
           at'[t] \notin {"none", "release", "gone"},
           at'[t] \notin {"free", "clean"} => Sound(t)'
    PROVE  FInv'
<1>1. Alive(t) /\ ~Rest /\ ~Rest'
    BY DEF Active, Alive, Rest
<1>2. \A s \in Play \ {t} : ~Runs(s)'
    BY <1>1, OneServed DEF Runs
<1>3. ~InPlay /\ ~InPlay' /\ app.pc # "open" /\ ~(app.pc = "idle" /\ app.last = "stop")
    BY <1>1 DEF FInv, InPlay
<1>4. Named'
    BY DEF FInv, Named
<1>5. \A s \in Play : Runs(s)' => Sound(s)'
    BY <1>2 DEF Runs
<1> QED
    BY <1>1, <1>3, <1>4, <1>5 DEF FInv

(* The thread fills the pipeline, starts the playback and waits *)
LEMMA ThreadWorksFaultless ==
    ASSUME Counting, ~Faulty, IInv, Typed, PInv, FInv, NEW t \in Play,
           Start(t) \/ Fill(t) \/ Read(t) \/ Enqueue(t) \/ Go(t) \/ Receive(t)
    PROVE  FInv'
<1>1. CASE Start(t)
  <2>1. /\ Others(t) /\ Inside /\ UNCHANGED fd /\ UNCHANGED drv
        /\ at[t] = "start" /\ th'[t] = th[t] /\ at'[t] \in {"fill", "free"}
    BY <1>1, StartStep
  <2>2. Active(t) /\ Sound(t) /\ th[t].priming
    BY <2>1, ServedRuns, Zenon DEF FInv, Runs
  <2>3. Sound(t)'
    BY <2>1, <2>2, Zenon DEF Sound
  <2> QED
    BY <2>1, <2>2, <2>3, ThreadFaultless, Zenon DEF Inside
<1>2. CASE Fill(t)
  <2>1. /\ Others(t) /\ Inside /\ UNCHANGED fd /\ UNCHANGED drv /\ at[t] = "fill"
        /\ th'[t].priming = th[t].priming /\ th'[t].failed = th[t].failed
        /\ \/ /\ fd = None /\ at'[t] = TurnsTo(th[t])
              /\ th'[t].x = IF th[t].priming THEN th[t].x + 1 ELSE th[t].x
              /\ th'[t].running <=> th[t].running /\ ~(th[t].priming /\ th[t].x = 0)
           \/ /\ fd # None /\ at'[t] = "reading"
              /\ th'[t].running = th[t].running
    BY <1>2, FillStep, Zenon
  <2>2. Active(t) /\ Sound(t) /\ th[t].x \in Nat
    BY <2>1, ServedRuns, Zenon DEF FInv, Runs
  <2>3. at'[t] \in {"loop", "go", "fill", "reading"}
    BY <2>1, Zenon DEF TurnsTo
  <2>4. Sound(t)'
    <3>1. CASE th[t].priming
      <4>1. /\ th[t].running /\ ~th[t].failed
            /\ th[t].x = 0 => fd # None
        BY <2>1, <2>2, <3>1 DEF Sound
      <4>2. th'[t].running /\ ~th'[t].failed
        BY <2>1, <3>1, <4>1, Zenon
      <4>3. ASSUME at'[t] \in {"start", "fill"}, th'[t].x = 0 PROVE FALSE
        <5>1. at'[t] # "reading"
          BY <4>3, Zenon
        <5>2. th'[t].x = th[t].x + 1
          BY <2>1, <3>1, <5>1, Zenon
        <5> QED
          BY <2>2, <4>3, <5>2
      <4> QED
        BY <2>1, <3>1, <4>2, <4>3, Zenon DEF Sound
    <3>2. CASE ~th[t].priming
      BY <2>1, <2>2, <3>2, Zenon DEF Sound
    <3> QED
      BY <3>1, <3>2
  <2> QED
    BY <2>1, <2>2, <2>3, <2>4, ThreadFaultless, Zenon DEF Inside
<1>3. CASE Read(t)
  <2>1. /\ Others(t) /\ Inside /\ UNCHANGED drv
        /\ at[t] = "reading" /\ at'[t] = "enqueue"
        /\ th'[t].priming = th[t].priming /\ th'[t].failed = th[t].failed
        /\ th'[t].running = th[t].running
    BY <1>3, ReadStep, Zenon
  <2>2. Active(t) /\ Sound(t)
    BY <2>1, ServedRuns, Zenon DEF FInv, Runs
  <2>3. Sound(t)'
    BY <2>1, <2>2, Zenon DEF Sound
  <2> QED
    BY <2>1, <2>2, <2>3, ThreadFaultless, Zenon DEF Inside
<1>4. CASE Enqueue(t)
  <2>1. /\ Others(t) /\ Inside /\ DriverRest
        /\ at[t] = "enqueue" /\ th'[t].priming = th[t].priming
        /\ th'[t].running = th[t].running
        /\ \/ /\ at'[t] = TurnsTo(th[t])
              /\ th'[t].x = IF th[t].priming THEN th[t].x + 1 ELSE th[t].x
              /\ th'[t].failed = th[t].failed
           \/ /\ dev_fd = None \/ drv.ending
              /\ at'[t] = IF th[t].priming THEN "go" ELSE "loop"
    BY <1>4, EnqueueStep, Zenon
  <2>2. /\ Active(t) /\ Sound(t) /\ th[t].x \in Nat /\ t # None
        /\ th[t].priming => Priming(t)
    BY <2>1, ServedRuns, Zenon DEF FInv, Runs
  <2>3. th[t].priming => dev_fd # None /\ ~drv.ending
    BY <2>1, <2>2, Zenon DEF Priming
  <2>4. at'[t] \in {"loop", "go", "fill"}
    BY <2>1, Zenon DEF TurnsTo
  <2>5. Sound(t)'
    <3>1. CASE th[t].priming
      <4>1. th[t].running /\ ~th[t].failed
        BY <2>2, <3>1 DEF Sound
      <4>2. /\ th'[t].running /\ th'[t].failed = th[t].failed
            /\ th'[t].x = th[t].x + 1
        BY <2>1, <2>3, <3>1, <4>1, Zenon
      <4>3. th'[t].x # 0
        BY <2>2, <4>2
      <4> QED
        BY <2>1, <3>1, <4>1, <4>2, <4>3, Zenon DEF Sound
    <3>2. CASE ~th[t].priming
      BY <2>1, <2>2, <3>2, Zenon DEF Sound, DriverRest
    <3> QED
      BY <3>1, <3>2
  <2> QED
    BY <2>1, <2>2, <2>4, <2>5, ThreadFaultless, Zenon DEF Inside
<1>5. CASE Go(t)
  <2>1. /\ Others(t) /\ UNCHANGED app
        /\ at[t] = "go" /\ at'[t] = IF th[t].running THEN "loop" ELSE "free"
        /\ ~th'[t].priming
        /\ \/ ~th[t].running
           \/ th[t].failed
           \/ drv'.started
           \/ dev_fd = None
    BY <1>5, GoStep, Zenon
  <2>2. Active(t) /\ Sound(t) /\ th[t].priming /\ Priming(t) /\ t # None
    BY <2>1, ServedRuns, Zenon DEF FInv, Runs
  <2>3. Sound(t)'
    BY <2>1, <2>2, Zenon DEF Sound, Priming
  <2>4. at'[t] \in {"loop", "free"}
    BY <2>1, Zenon
  <2> QED
    BY <2>1, <2>2, <2>3, <2>4, ThreadFaultless, Zenon
<1>6. CASE Receive(t)
  <2>1. /\ Others(t) /\ DriverRest /\ UNCHANGED app
        /\ at[t] = "loop" /\ th'[t].priming = th[t].priming
        /\ at'[t] \in {"fill", "loop", "free"}
    BY <1>6, ReceiveStep
  <2>2. Active(t) /\ Sound(t) /\ ~th[t].priming
    BY <2>1, ServedRuns, Zenon DEF FInv, Runs
  <2>3. Sound(t)'
    BY <2>1, <2>2 DEF Sound, DriverRest
  <2> QED
    BY <2>1, <2>2, <2>3, ThreadFaultless, Zenon
<1> QED
    BY <1>1, <1>2, <1>3, <1>4, <1>5, <1>6

(* The thread ends *)
LEMMA ThreadEndsFaultless ==
    ASSUME IInv, Typed, PInv, FInv, NEW t \in Play, Free(t) \/ Clean(t) \/ ThreadRelease(t)
    PROVE  FInv'
<1>1. CASE Free(t)
  <2>1. Others(t) /\ Inside /\ at[t] = "free" /\ at'[t] = "clean"
    BY <1>1, FreeStep
  <2> QED
    BY <2>1, ThreadFaultless, Zenon DEF Inside, Active
<1>2. CASE Clean(t)
  <2>1. /\ Others(t) /\ UNCHANGED app /\ at[t] = "clean" /\ at'[t] = "release"
        /\ fd' = None /\ dev_fd' = None
    BY <1>2, CleanStep
  <2>2. Alive(t) /\ ~Rest /\ ~Runs(t)'
    BY <2>1 DEF Alive, Rest, Active, Runs
  <2>3. ~InPlay /\ ~InPlay' /\ app.pc # "open" /\ ~(app.pc = "idle" /\ app.last = "stop")
    BY <2>1, <2>2, Zenon DEF FInv, InPlay
  <2>4. \A s \in Play : ~Runs(s)'
    BY <2>1, <2>2, OneServed, Zenon DEF Runs
  <2>5. Named'
    BY <2>1, Zenon DEF FInv, Named
  <2> QED
    BY <2>1, <2>3, <2>4, <2>5, Zenon DEF FInv
<1>3. CASE ThreadRelease(t)
  <2>1. Others(t) /\ Inside /\ UNCHANGED fd /\ at[t] = "release" /\ at'[t] = "gone"
    BY <1>3, ThreadReleaseStep
  <2>2. Alive(t) /\ ~Active(t) /\ ~Active(t)' /\ ~Alive(t)'
    BY <2>1 DEF Alive, Active
  <2>3. \A s \in Play : ~Active(s) /\ ~Active(s)'
    BY <2>1, <2>2, OneServed, Zenon
  <2>4. Rest /\ Rest' /\ \A s \in Play : ~Runs(s)'
    BY <2>3 DEF Rest, Runs
  <2>5. InPlay' = InPlay /\ Named' /\ ~(app.pc = "idle" /\ app.last = "stop")
    BY <2>1, <2>2, Zenon DEF FInv, Named, InPlay, Inside
  <2> QED
    BY <2>1, <2>4, <2>5 DEF FInv, Inside
<1> QED
    BY <1>1, <1>2, <1>3

(* The device, and steps that change nothing *)
LEMMA ElseFaultless ==
    ASSUME FInv, UNCHANGED app, UNCHANGED at, UNCHANGED th, UNCHANGED fd, UNCHANGED dev_fd,
           drv'.started = drv.started
    PROVE  FInv'
<1>1. Rest' = Rest /\ \A t \in Play : Runs(t)' = Runs(t) /\ Alive(t)' = Alive(t)
    BY SameThreads DEF Runs, Active, Alive
<1>2. \A t \in Play : Sound(t)' = Sound(t)
    BY DEF Sound
<1>3. InPlay' = InPlay /\ Named' = Named
    BY DEF InPlay, Named
<1> QED
    BY <1>1, <1>2, <1>3, Zenon DEF FInv

(* Where nothing fails and the thread is not overtaken, the invariant is     *)
(* inductive                                                                 *)
LEMMA NextFaultless ==
    Counting /\ Faultless /\ IInv /\ Typed /\ PInv /\ FInv /\ [Next]_vars => FInv'
<1> SUFFICES ASSUME Counting, Faultless, IInv, Typed, PInv, FInv, [Next]_vars PROVE FInv'
    OBVIOUS
<1>0. Priority /\ ~Faulty
    BY FaultlessMeans
<1>1. CASE Command
    BY <1>0, <1>1, AppMovesFaultless
<1>2. CASE Call
    BY <1>0, <1>2, AppMovesFaultless, CallFaultless, PlayCreateFaultless, Zenon DEF Call
<1>3. CASE Device
  <2>1. Sends("DEQUEUE") \/ Sends("COMPLETE")
    BY <1>3, ReturnsStep, CompletesStep DEF Device
  <2> QED
    BY <2>1, ElseFaultless DEF Sends
<1>4. CASE \E t \in Play : Thread(t)
    BY <1>0, <1>4, ThreadWorksFaultless, ThreadEndsFaultless, Zenon DEF Thread
<1>5. CASE UNCHANGED vars
  <2>1. /\ app' = app /\ at' = at /\ th' = th /\ fd' = fd /\ dev_fd' = dev_fd /\ drv' = drv
    BY <1>5, Zenon DEF vars, player
  <2> QED
    BY <2>1, ElseFaultless
<1> QED
    BY <1>1, <1>2, <1>3, <1>4, <1>5 DEF Next

-----------------------------------------------------------------------------
(* The counting, with the theorems about finite sets.  They come in only     *)
(* here: the proofs above need no more of them than Counting.                *)
Finite == INSTANCE FiniteSetTheorems

(* The library speaks of the same sets and sizes *)
LEMMA SameFinite == ASSUME NEW S PROVE Finite!IsFiniteSet(S) <=> IsFiniteSet(S)
  BY Zenon DEF Finite!IsFiniteSet, IsFiniteSet

(* The library speaks of the same sets and sizes *)
LEMMA SameSize == ASSUME NEW S PROVE Finite!Cardinality(S) = Cardinality(S)
  BY Zenon DEF Finite!Cardinality, Cardinality

(* A queue brings back a number of buffers *)
LEMMA CountNat ==
    ASSUME NEW q \in Seq(Message)
    PROVE  IsFiniteSet(DeqAt(q)) /\ Deq(q) \in Nat
<1>1. DOMAIN q = 1 .. Len(q) /\ Len(q) \in Nat
    OBVIOUS
<1>2. IsFiniteSet(1 .. Len(q))
    BY <1>1, Finite!FS_Interval, SameFinite, SameSize
<1>3. DeqAt(q) \subseteq 1 .. Len(q)
    BY <1>1 DEF DeqAt
<1> QED
    BY <1>2, <1>3, Finite!FS_Subset, Finite!FS_CardinalityType, SameFinite,
       SameSize, Zenon DEF Deq

(* No message, no buffer *)
LEMMA CountEmpty == Deq(<<>>) = 0
<1>1. DeqAt(<<>>) = {}
    BY DEF DeqAt
<1> QED
    BY <1>1, Finite!FS_EmptySet, SameFinite, SameSize, Zenon DEF Deq

(* A buffer more for each AUDIO_MSG_DEQUEUE *)
LEMMA CountAppend ==
    ASSUME NEW q \in Seq(Message), NEW m \in Message
    PROVE  Deq(Append(q, m)) = IF m = "DEQUEUE" THEN Deq(q) + 1 ELSE Deq(q)
<1> DEFINE a == Append(q, m)
<1>1. /\ DOMAIN a = 1 .. Len(q) + 1 /\ DOMAIN q = 1 .. Len(q) /\ Len(q) \in Nat
      /\ a[Len(q) + 1] = m /\ \A i \in 1 .. Len(q) : a[i] = q[i]
    OBVIOUS
<1> HIDE DEF a
<1>2. DeqAt(a) = IF m = "DEQUEUE" THEN DeqAt(q) \cup {Len(q) + 1} ELSE DeqAt(q)
    BY <1>1 DEF DeqAt
<1>3. Len(q) + 1 \notin DeqAt(q)
    BY <1>1 DEF DeqAt
<1>4. Cardinality(DeqAt(q) \cup {Len(q) + 1}) = Deq(q) + 1
    BY <1>3, CountNat, Finite!FS_AddElement, SameFinite, SameSize, Zenon DEF Deq
<1> QED
    BY <1>2, <1>4 DEF Deq, a

(* A buffer less when one is received *)
LEMMA CountTail ==
    ASSUME NEW q \in Seq(Message), q # <<>>
    PROVE  Deq(Tail(q)) = IF Head(q) = "DEQUEUE" THEN Deq(q) - 1 ELSE Deq(q)
<1> DEFINE u == Tail(q)
<1>1. /\ u \in Seq(Message) /\ Len(q) \in Nat /\ Len(q) > 0 /\ Len(u) = Len(q) - 1
      /\ DOMAIN u = 1 .. Len(q) - 1 /\ DOMAIN q = 1 .. Len(q)
      /\ \A i \in 1 .. Len(q) - 1 : u[i] = q[i + 1]
      /\ Head(q) = q[1]
    OBVIOUS
<1> HIDE DEF u
<1> DEFINE S == DeqAt(q) \ {1}
           f == [i \in DeqAt(u) |-> i + 1]
<1>2. \A i \in DeqAt(u) : i \in 1 .. Len(q) - 1 /\ i + 1 \in S
    BY <1>1 DEF DeqAt
<1>3. \A k \in S : k - 1 \in DeqAt(u) /\ k = (k - 1) + 1
    BY <1>1 DEF DeqAt
<1>4. f \in Finite!Bijection(DeqAt(u), S)
  <2>1. f \in [DeqAt(u) -> S]
    BY <1>2
  <2>2. \A i, j \in DeqAt(u) : f[i] = f[j] => i = j
    BY <1>2
  <2>3. \A k \in S : \E i \in DeqAt(u) : f[i] = k
    BY <1>3
  <2> QED
    BY <2>1, <2>2, <2>3 DEF Finite!Bijection, Finite!Injection,
       Finite!Surjection, Finite!IsInjective
<1>5. IsFiniteSet(DeqAt(u)) /\ IsFiniteSet(DeqAt(q)) /\ Deq(q) \in Nat
    BY <1>1, CountNat
<1>6. Cardinality(S) = Deq(u)
  <2> HIDE DEF S, f
  <2> QED
    BY <1>4, <1>5, Finite!FS_Bijection, SameFinite, SameSize, Zenon
    DEF Finite!ExistsBijection, Deq
<1>7. Cardinality(S) = IF 1 \in DeqAt(q) THEN Deq(q) - 1 ELSE Deq(q)
    BY <1>5, Finite!FS_RemoveElement, SameFinite, SameSize, Zenon DEF Deq
<1>8. 1 \in DeqAt(q) <=> Head(q) = "DEQUEUE"
    BY <1>1 DEF DeqAt
<1> QED
    BY <1>6, <1>7, <1>8 DEF u

(* A queue whose other messages are its first and its last *)
LEMMA CountLength ==
    ASSUME NEW q \in Seq(Message),
           \A k \in DOMAIN q : q[k] = "STOP" => k = 1,
           \A k \in DOMAIN q : q[k] = "COMPLETE" => k = Len(q)
    PROVE  Len(q) <= Deq(q) + 2
<1> DEFINE S == DeqAt(q) \cup {1}
           T == S \cup {Len(q)}
<1>1. DOMAIN q = 1 .. Len(q) /\ Len(q) \in Nat /\ \A k \in DOMAIN q : q[k] \in Message
    OBVIOUS
<1>2. 1 .. Len(q) \subseteq T
    BY <1>1 DEF DeqAt, Message
<1>3. IsFiniteSet(DeqAt(q)) /\ Deq(q) \in Nat
    BY CountNat
<1>4. /\ IsFiniteSet(S) /\ Cardinality(S) \in {Deq(q), Deq(q) + 1}
    BY <1>3, Finite!FS_AddElement, SameFinite, SameSize, Zenon DEF Deq
<1>5. IsFiniteSet(T) /\ Cardinality(T) \in {Cardinality(S), Cardinality(S) + 1}
  <2> HIDE DEF S
  <2> QED
    BY <1>4, Finite!FS_AddElement, SameFinite, SameSize, Zenon
<1>6. Cardinality(1 .. Len(q)) = Len(q)
    BY <1>1, Finite!FS_Interval, SameFinite, SameSize
<1>7. Cardinality(1 .. Len(q)) <= Cardinality(T)
  <2> HIDE DEF T
  <2> QED
    BY <1>2, <1>5, Finite!FS_Subset, SameFinite, SameSize, Zenon
<1> QED
  <2> HIDE DEF T, S
  <2> QED
    BY <1>1, <1>3, <1>4, <1>5, <1>6, <1>7

(* The size of the set counts the buffers *)
LEMMA CountingHolds == Counting
<1> SUFFICES ASSUME NEW q \in Seq(Message)
             PROVE  /\ Deq(q) \in Nat
                    /\ \A m \in Message :
                         Deq(Append(q, m)) = IF m = "DEQUEUE" THEN Deq(q) + 1 ELSE Deq(q)
                    /\ q # <<>> =>
                         Deq(Tail(q)) = IF Head(q) = "DEQUEUE" THEN Deq(q) - 1 ELSE Deq(q)
                    /\ /\ \A k \in DOMAIN q : q[k] = "STOP" => k = 1
                       /\ \A k \in DOMAIN q : q[k] = "COMPLETE" => k = Len(q)
                       => Len(q) <= Deq(q) + 2
    BY CountEmpty, Zenon DEF Counting
<1> QED
    BY CountNat, CountAppend, CountTail, CountLength, Zenon

(* Where the play thread is not overtaken by the application, whatever       *)
(* fails: it knows at any time how many buffers the device has, it frees     *)
(* none that the device still has, and the queue of nbuffers + 8 messages    *)
(* has room for all that is sent - for any number of calls and buffers.      *)
THEOREM PlayerBuffersBack == Spec => []BuffersBack
<1> DEFINE Inv == IInv /\ Typed /\ (Priority => PInv)
<1>1. Init => Inv
    BY InitInvariant, InitTyped, InitPriority, Zenon
<1>2. Inv /\ [Next]_vars => Inv'
  <2> SUFFICES ASSUME Inv, [Next]_vars PROVE Inv'
    OBVIOUS
  <2>1. Priority' = Priority
    BY EnvStays DEF Priority
  <2> QED
    BY <2>1, CountingHolds, NextInvariant, NextTyped, NextPriority, Zenon
<1>3. Inv => BuffersBack
    BY CountingHolds, InvariantGivesBuffersBack
<1> QED
    BY <1>1, <1>2, <1>3, PTL DEF Spec

(* Where nothing fails and the play thread is not overtaken, a stop that has *)
(* returned has ended the playback: no thread is left, and the file and the  *)
(* device are closed - whatever the device has sent in the meantime.         *)
THEOREM PlayerStopStops == Spec => []StopStops
<1> DEFINE Inv == IInv /\ Typed /\ (Priority => PInv) /\ (Faultless => FInv)
<1>1. Init => Inv
    BY InitInvariant, InitTyped, InitPriority, InitFaultless, Zenon
<1>2. Inv /\ [Next]_vars => Inv'
  <2> SUFFICES ASSUME Inv, [Next]_vars PROVE Inv'
    OBVIOUS
  <2>1. Priority' = Priority /\ Faultless' = Faultless
    BY EnvStays DEF Priority, Faultless
  <2> QED
    BY <2>1, CountingHolds, NextInvariant, NextTyped, NextPriority, NextFaultless,
       FaultlessMeans, Zenon
<1>3. Inv => StopStops
  <2> SUFFICES ASSUME Inv, Faultless, app.pc = "idle", app.last = "stop"
               PROVE  fd = None /\ dev_fd = None /\ \A t \in Play : ~Alive(t)
    BY DEF StopStops, Faultless
  <2>1. \A t \in Play : ~Alive(t)
    BY DEF FInv
  <2>2. Rest /\ ~InPlay
    BY <2>1 DEF Rest, Active, Alive, InPlay
  <2> QED
    BY <2>1, <2>2 DEF FInv
<1> QED
    BY <1>1, <1>2, <1>3, PTL DEF Spec
=============================================================================
