--------------------------- MODULE NxPlayerProofs ---------------------------
(***************************************************************************)
(* Proofs about the player, for any number of calls, of buffers and of     *)
(* files.  However the threads are scheduled and whatever fails, the       *)
(* context outlives its users.  The shape of its state, which the proofs   *)
(* about its buffers need, is here too, and so is the invariant they rest  *)
(* on, with what the calls of nxplayer_playfile and nxplayer_stop make of  *)
(* it: NxPlayerStopProofs has the other steps and the theorems.            *)
(***************************************************************************)
EXTENDS NxPlayer, TLAPS

(* What the steps of the threads are made of *)
Place == {"idle", "play", "open", "device", "reserve", "queue", "join", "joining", "create",
          "stop", "send", "unref", "gone", "switch", "ioctl", "assign"}
Op == {"none", "play", "stop", "quit", "release", "pause", "resume"}
App == [pc : Place, op : Op, id : Play \cup {None}, n : 0 .. Plays, last : Op]
Shape ==
    /\ crefs \in Nat
    /\ play_id \in Play \cup {None}
    /\ app \in App
    /\ at = [t \in Play |-> at[t]]

(* A call of nxplayer_playfile on its way has a number that it can use *)
Numbered ==
    /\ app.pc \in {"play", "open"} => app.n < Plays
    /\ app.pc \in {"device", "reserve", "queue", "create"} => app.n \in Play
    /\ app.pc \in {"join", "joining"} /\ app.op = "play" => app.n \in Play
    /\ app.pc \in {"stop", "send"} => app.op # "play"

(* A running thread is the one in play_id, or the one that is being joined, *)
(* and then play_id is 0 until the next thread is created                   *)
Owned ==
    /\ \A t \in Play : Alive(t) => t = play_id \/ (app.pc = "joining" /\ t = app.id)
    /\ app.pc \in {"joining", "create", "unref", "gone"} => play_id = None

Counted ==
    /\ crefs >= Users
    /\ env.faults = "none" => crefs = Users

IInv == Shape /\ Numbered /\ Owned /\ Counted

-----------------------------------------------------------------------------
(* No two play threads run: play_id and a join tell which one it is *)
LEMMA OneThread ==
    ASSUME IInv
    PROVE  \A s, t \in Play : Alive(s) /\ Alive(t) => s = t
BY DEF IInv, Owned, Shape, None, Play

(* The invariant is strong enough *)
LEMMA InvariantGivesContextAlive == IInv => ContextAlive
BY OneThread DEF IInv, Counted, ContextAlive

(* A player that was just created *)
LEMMA InitInvariant == Init => IInv
<1> SUFFICES ASSUME Init PROVE IInv
    OBVIOUS
<1>1. Shape
  <2>1. app = [pc |-> "idle", op |-> "none", id |-> None, n |-> 0, last |-> "none"]
    BY Zenon DEF Init
  <2>2. at = [t \in Play |-> "none"]
    BY Zenon DEF Init
  <2>3. crefs = 1 /\ play_id = None
    BY Zenon DEF Init
  <2>4. None \in Play \cup {None} /\ 0 \in 0 .. Plays
    BY NxPlayerConfig
  <2>5. app \in App
    BY <2>1, <2>4 DEF App, Place, Op
  <2> QED
    BY <2>2, <2>3, <2>5 DEF Shape
<1>2. \A t \in Play : ~Alive(t)
    BY DEF Init, Alive
<1>3. Users = 1
    BY <1>2 DEF Users, Init
<1> QED
    BY <1>1, <1>2, <1>3 DEF IInv, Numbered, Owned, Counted, Init

(* A thread that runs and goes on running changes nothing that counts *)
Moves(t) == \E place : /\ place \notin {"none", "gone"}
                       /\ at' = [at EXCEPT ![t] = place]

Continues(t) ==
    /\ at[t] \notin {"none", "gone"}
    /\ Moves(t)
    /\ UNCHANGED env /\ UNCHANGED play_id /\ UNCHANGED crefs /\ UNCHANGED app

(* A thread that goes on keeps the invariant *)
LEMMA ContinuesInvariant ==
    ASSUME IInv, NEW t \in Play, Continues(t)
    PROVE  IInv'
<1>1. \A s \in Play : Alive(s)' <=> Alive(s)
    BY DEF Continues, Moves, Alive, IInv, Shape
<1>2. Shape'
    BY DEF Continues, Moves, IInv, Shape
<1>3. Numbered'
    BY DEF Continues, IInv, Numbered
<1>4. Owned'
    BY <1>1 DEF Continues, IInv, Owned
<1>5. Users' = Users
    BY <1>1 DEF Continues, Users
<1>6. Counted'
    BY <1>5 DEF Continues, IInv, Counted
<1> QED
    BY <1>2, <1>3, <1>4, <1>6 DEF IInv

(* A thread that changes its place and its locals *)
LEMMA BecomesMoves ==
    ASSUME NEW t \in Play, NEW place, NEW r, Becomes(t, place, r),
           place # "none", place # "gone"
    PROVE  Moves(t)
BY Zenon DEF Becomes, Moves

(* The next turn of the loop of the play thread *)
LEMMA NextTurnMoves ==
    ASSUME NEW t \in Play, NEW r, NextTurn(t, r)
    PROVE  Moves(t)
BY BecomesMoves, Zenon DEF NextTurn

(* All steps of a thread but its last *)
LEMMA ThreadContinues ==
    ASSUME NEW t \in Play, Thread(t), ~ThreadRelease(t)
    PROVE  Continues(t)
<1>1. CASE Start(t)
    BY <1>1, BecomesMoves, Zenon DEF Start, player, Continues
<1>2. CASE Fill(t)
    BY <1>2, BecomesMoves, NextTurnMoves, Zenon DEF Fill, player, Continues
<1>3. CASE Read(t)
    BY <1>3, BecomesMoves, Zenon DEF Read, Continues
<1>4. CASE Enqueue(t)
    BY <1>4, BecomesMoves, NextTurnMoves, Zenon DEF Enqueue, Continues
<1>5. CASE Go(t)
    BY <1>5, BecomesMoves, Zenon DEF Go, Continues
<1>6. CASE Receive(t)
    BY <1>6, BecomesMoves, Zenon DEF Receive, OnDequeue, OnStop, OnComplete, player, Continues
<1>7. CASE Free(t)
    BY <1>7, BecomesMoves, Zenon DEF Free, player, Continues
<1>8. CASE Clean(t)
    BY <1>8, BecomesMoves, Zenon DEF Clean, Continues
<1> QED
    BY <1>1, <1>2, <1>3, <1>4, <1>5, <1>6, <1>7, <1>8 DEF Thread

(* The thread gives its reference back as it ends *)
LEMMA ThreadReleaseInvariant ==
    ASSUME IInv, NEW t \in Play, ThreadRelease(t)
    PROVE  IInv'
<1> USE DEF ThreadRelease, Becomes
<1>1. at' = [at EXCEPT ![t] = "gone"]
    OBVIOUS
<1>2. at' = [s \in Play |-> at'[s]] /\ at'[t] = "gone" /\ \A s \in Play \ {t} : at'[s] = at[s]
    BY <1>1 DEF IInv, Shape
<1>3. Alive(t)
    BY DEF Alive
<1>4. \A s \in Play \ {t} : ~Alive(s)
    BY <1>3, OneThread
<1>5. \A s \in Play : ~Alive(s)'
    BY <1>2, <1>4 DEF Alive
<1>6. Users = Users' + 1 /\ Users' \in Nat
    BY <1>3, <1>5 DEF Users
<1>7. Shape'
    BY <1>2, <1>6 DEF IInv, Shape, Counted, Users
<1>8. Numbered'
    BY DEF IInv, Numbered
<1>9. Owned'
    BY <1>3, <1>5 DEF IInv, Owned, None, Play
<1>10. Counted'
    BY <1>6, <1>7 DEF IInv, Counted, Shape
<1> QED
    BY <1>7, <1>8, <1>9, <1>10 DEF IInv

-----------------------------------------------------------------------------
(* The application moves on, and no thread, reference or play_id with it *)
Proceeds ==
    /\ UNCHANGED env /\ UNCHANGED crefs /\ UNCHANGED at /\ UNCHANGED play_id
    /\ app.pc \notin {"joining", "gone"}
    /\ app' \in App
    /\ app'.pc \notin {"joining", "create", "unref", "gone"}
    /\ Numbered'

(* An application that moves on keeps the invariant *)
LEMMA ProceedsInvariant ==
    ASSUME IInv, Proceeds
    PROVE  IInv'
<1>1. \A t \in Play : Alive(t)' <=> Alive(t)
    BY DEF Proceeds, Alive
<1>2. Shape'
    BY DEF Proceeds, IInv, Shape
<1>3. Owned'
    BY <1>1 DEF Proceeds, IInv, Owned
<1>4. Users' = Users
    BY <1>1 DEF Proceeds, Users
<1>5. Counted'
    BY <1>4 DEF Proceeds, IInv, Counted
<1> QED
    BY <1>2, <1>3, <1>5 DEF IInv, Proceeds

(* The state of the application at another place of a call *)
LEMMA GotoApp ==
    ASSUME app \in App, NEW pc \in Place, Goto(pc)
    PROVE  app' \in App /\ app'.pc = pc /\ app'.op = app.op /\ app'.n = app.n
BY DEF App, Goto

(* The state of the application after a call *)
LEMMA ReturnApp ==
    ASSUME app \in App, Return
    PROVE  app' \in App /\ app'.pc = "idle"
<1>1. app' = [app EXCEPT !.pc = "idle", !.op = "none", !.last = app.op]
    BY DEF Return
<1>2. app.op \in Op
    BY DEF App
<1> QED
    BY <1>1, <1>2, Zenon DEF App, Place, Op

(* The state of the application after nxplayer_stop *)
LEMMA StoppedApp ==
    ASSUME app \in App, Stopped
    PROVE  /\ app' \in App
           /\ app'.pc = "idle" \/ (app'.pc = "join" /\ app'.op = "release")
<1>1. CASE app.op = "quit"
    BY <1>1, Zenon DEF App, Place, Op, Stopped
<1>2. CASE app.op # "quit"
    BY <1>2, ReturnApp DEF Stopped
<1> QED
    BY <1>1, <1>2

(* The steps that go on to another place or return *)
LEMMA GotoProceeds ==
    ASSUME IInv, app.pc \notin {"joining", "gone"},
           NEW pc \in Place \ {"joining", "create", "unref", "gone"},
           pc \in {"play", "open"} => app.n < Plays,
           pc \in {"device", "reserve", "queue"} => app.n \in Play,
           pc = "join" /\ app.op = "play" => app.n \in Play,
           pc \in {"stop", "send"} => app.op # "play",
           Goto(pc), UNCHANGED env, UNCHANGED crefs, UNCHANGED at, UNCHANGED play_id
    PROVE  Proceeds
<1>1. app \in App
    BY DEF IInv, Shape
<1>2. app' \in App /\ app'.pc = pc /\ app'.op = app.op /\ app'.n = app.n
    BY <1>1, GotoApp
<1>3. Numbered'
    BY <1>2 DEF Numbered
<1> QED
    BY <1>2, <1>3 DEF Proceeds

(* A call that returns *)
LEMMA ReturnProceeds ==
    ASSUME IInv, app.pc \notin {"joining", "gone"}, Return,
           UNCHANGED env, UNCHANGED crefs, UNCHANGED at, UNCHANGED play_id
    PROVE  Proceeds
<1>1. app' \in App /\ app'.pc = "idle"
    BY ReturnApp DEF IInv, Shape
<1>2. Numbered'
    BY <1>1 DEF Numbered
<1> QED
    BY <1>1, <1>2 DEF Proceeds

(* A call that begins *)
LEMMA BeginProceeds ==
    ASSUME IInv, NEW op \in Op, NEW pc \in {"play", "stop", "switch"},
           pc = "play" => app.n < Plays, pc = "stop" => op # "play", Begin(op, pc)
    PROVE  Proceeds
<1>1. app.pc = "idle" /\ app \in App
    BY DEF Begin, IInv, Shape
<1>2. app' = [app EXCEPT !.op = op, !.pc = pc]
    BY DEF Begin
<1>3. app' \in App /\ app'.pc = pc /\ app'.op = op /\ app'.n = app.n
    BY <1>1, <1>2, Zenon DEF App, Place
<1>4. Numbered'
    BY <1>3 DEF Numbered
<1>5. UNCHANGED env /\ UNCHANGED crefs /\ UNCHANGED at /\ UNCHANGED play_id
    BY DEF Begin, player
<1> QED
    BY <1>1, <1>3, <1>4, <1>5 DEF Proceeds

(* Any command of the user *)
LEMMA CommandProceeds == ASSUME IInv, Command PROVE Proceeds
<1>1. CASE app.n < Plays /\ Begin("play", "play")
    BY <1>1, BeginProceeds DEF Op
<1>2. CASE Begin("stop", "stop")
    BY <1>2, BeginProceeds DEF Op
<1>3. CASE Begin("quit", "stop")
    BY <1>3, BeginProceeds DEF Op
<1>4. CASE \E op \in {"pause", "resume"} : Begin(op, "switch")
    BY <1>4, BeginProceeds DEF Op
<1> QED
    BY <1>1, <1>2, <1>3, <1>4 DEF Command

(* The steps inside a call that neither join a thread nor count references *)
LEMMA CallProceeds ==
    ASSUME IInv,
           \/ PlayTest \/ PlayOpen \/ PlayDevice \/ PlayReserve \/ PlayQueue
           \/ StopTest \/ StopSend \/ SwitchTest \/ SwitchIoctl \/ SwitchAssign
    PROVE  Proceeds
<1>0. app \in App
    BY DEF IInv, Shape
<1>1. CASE PlayTest
  <2>1. /\ app.pc = "play"
        /\ Goto("open") \/ Return
        /\ UNCHANGED env /\ UNCHANGED crefs /\ UNCHANGED at /\ UNCHANGED play_id
    BY <1>1, Zenon DEF PlayTest, At, player
  <2> QED
    BY <2>1, GotoProceeds, ReturnProceeds DEF IInv, Numbered, Place
<1>2. CASE PlayDevice
  <2>1. /\ app.pc = "device"
        /\ Goto("reserve") \/ Return
        /\ UNCHANGED env /\ UNCHANGED crefs /\ UNCHANGED at /\ UNCHANGED play_id
    BY <1>2, Zenon DEF PlayDevice, At, player
  <2> QED
    BY <2>1, GotoProceeds, ReturnProceeds DEF IInv, Numbered, Place
<1>3. CASE PlayReserve
  <2>1. /\ app.pc = "reserve"
        /\ Goto("queue") \/ Return
        /\ UNCHANGED env /\ UNCHANGED crefs /\ UNCHANGED at /\ UNCHANGED play_id
    BY <1>3, Zenon DEF PlayReserve, At, player
  <2> QED
    BY <2>1, GotoProceeds, ReturnProceeds DEF IInv, Numbered, Place
<1>4. CASE PlayQueue
  <2>1. /\ app.pc = "queue"
        /\ Goto("join") \/ Return
        /\ UNCHANGED env /\ UNCHANGED crefs /\ UNCHANGED at /\ UNCHANGED play_id
    BY <1>4, Zenon DEF PlayQueue, At, player
  <2> QED
    BY <2>1, GotoProceeds, ReturnProceeds DEF IInv, Numbered, Place
<1>5. CASE StopSend
  <2>1. /\ app.pc = "send"
        /\ Goto("join")
        /\ UNCHANGED env /\ UNCHANGED crefs /\ UNCHANGED at /\ UNCHANGED play_id
    BY <1>5, Zenon DEF StopSend, At, player
  <2> QED
    BY <2>1, GotoProceeds, ReturnProceeds DEF IInv, Numbered, Place
<1>6. CASE SwitchTest
  <2>1. /\ app.pc = "switch"
        /\ Goto("ioctl") \/ Return
        /\ UNCHANGED env /\ UNCHANGED crefs /\ UNCHANGED at /\ UNCHANGED play_id
    BY <1>6, Zenon DEF SwitchTest, At, player
  <2> QED
    BY <2>1, GotoProceeds, ReturnProceeds DEF IInv, Numbered, Place
<1>7. CASE SwitchIoctl
  <2>1. /\ app.pc = "ioctl"
        /\ Goto("assign") \/ Return
        /\ UNCHANGED env /\ UNCHANGED crefs /\ UNCHANGED at /\ UNCHANGED play_id
    BY <1>7, Zenon DEF SwitchIoctl, At, player
  <2> QED
    BY <2>1, GotoProceeds, ReturnProceeds DEF IInv, Numbered, Place
<1>8. CASE SwitchAssign
  <2>1. /\ app.pc = "assign"
        /\ Return
        /\ UNCHANGED env /\ UNCHANGED crefs /\ UNCHANGED at /\ UNCHANGED play_id
    BY <1>8, Zenon DEF SwitchAssign, At, player
  <2> QED
    BY <2>1, GotoProceeds, ReturnProceeds DEF IInv, Numbered, Place
<1>9. CASE PlayOpen
  <2>1. /\ app.pc = "open"
        /\ \/ app' = [app EXCEPT !.pc = "device", !.n = @ + 1]
           \/ Return
        /\ UNCHANGED env /\ UNCHANGED crefs /\ UNCHANGED at /\ UNCHANGED play_id
    BY <1>9, Zenon DEF PlayOpen, At
  <2>2. CASE app' = [app EXCEPT !.pc = "device", !.n = @ + 1]
    <3>1. app.n \in 0 .. Plays /\ app.n < Plays
        BY <1>0, <2>1 DEF App, IInv, Numbered
    <3>2. app.n + 1 \in 0 .. Plays /\ app.n + 1 \in Play
        BY <3>1, NxPlayerConfig DEF Play
    <3>3. app' \in App /\ app'.pc = "device" /\ app'.n \in Play
        BY <1>0, <2>2, <3>2, Zenon DEF App, Place
    <3>4. Numbered'
        BY <3>3 DEF Numbered
    <3> QED
        BY <2>1, <3>3, <3>4 DEF Proceeds
  <2> QED
    BY <2>1, <2>2, ReturnProceeds
<1>10. CASE StopTest
  <2>1. /\ app.pc = "stop"
        /\ Stopped \/ Goto("send")
        /\ UNCHANGED env /\ UNCHANGED crefs /\ UNCHANGED at /\ UNCHANGED play_id
    BY <1>10, Zenon DEF StopTest, At, player
  <2>2. CASE Stopped
    <3>1. /\ app' \in App
          /\ app'.pc = "idle" \/ (app'.pc = "join" /\ app'.op = "release")
        BY <1>0, <2>2, StoppedApp
    <3>2. Numbered'
        BY <3>1 DEF Numbered
    <3> QED
        BY <2>1, <3>1, <3>2 DEF Proceeds
  <2> QED
    BY <2>1, <2>2, GotoProceeds DEF IInv, Numbered, Place
<1> QED
    BY <1>1, <1>2, <1>3, <1>4, <1>5, <1>6, <1>7, <1>8, <1>9, <1>10

-----------------------------------------------------------------------------
(* nxplayer_jointhread takes the thread from play_id *)
LEMMA JoinTakeInvariant == ASSUME IInv, JoinTake PROVE IInv'
<1>1. /\ app.pc = "join"
      /\ app' = [app EXCEPT !.pc = "joining", !.id = play_id]
      /\ play_id' = None
      /\ UNCHANGED env /\ UNCHANGED crefs /\ UNCHANGED at
    BY Zenon DEF JoinTake, At
<1>2. app \in App /\ play_id \in Play \cup {None}
    BY DEF IInv, Shape
<1>3. /\ app' \in App /\ app'.pc = "joining" /\ app'.id = play_id
      /\ app'.op = app.op /\ app'.n = app.n
    BY <1>1, <1>2, Zenon DEF App, Place
<1>4. \A t \in Play : Alive(t)' <=> Alive(t)
    BY <1>1 DEF Alive
<1>5. Shape'
    BY <1>1, <1>3 DEF IInv, Shape
<1>6. Numbered'
    BY <1>1, <1>3 DEF IInv, Numbered
<1>7. Owned'
    BY <1>1, <1>3, <1>4 DEF IInv, Owned
<1>8. Users' = Users
    BY <1>1, <1>3, <1>4 DEF Users
<1>9. Counted'
    BY <1>1, <1>8 DEF IInv, Counted
<1> QED
    BY <1>5, <1>6, <1>7, <1>9 DEF IInv

(* After the join no thread runs, and none is in play_id *)
LEMMA JoinedInvariant == ASSUME IInv, Joined PROVE IInv'
<1>1. /\ app.pc = "joining"
      /\ app.id # None => at[app.id] = "gone"
      /\ \/ app.op = "play" /\ Goto("create")
         \/ app.op \in {"stop", "quit"} /\ Stopped
         \/ app.op = "release" /\ Goto("unref")
      /\ UNCHANGED env /\ UNCHANGED crefs /\ UNCHANGED at /\ UNCHANGED play_id
    BY Zenon DEF Joined, At, player
<1>2. app \in App
    BY DEF IInv, Shape
<1>3. \A t \in Play : ~Alive(t) /\ ~Alive(t)'
    BY <1>1 DEF IInv, Owned, Alive, None, Play
<1>4. app' \in App /\ \/ app'.pc = "create" /\ app'.n = app.n /\ app.op = "play"
                      \/ app'.pc = "idle"
                      \/ app'.pc = "join" /\ app'.op = "release"
                      \/ app'.pc = "unref"
    BY <1>1, <1>2, GotoApp, StoppedApp DEF Place
<1>5. Shape'
    BY <1>1, <1>4 DEF IInv, Shape
<1>6. Numbered'
    BY <1>1, <1>4 DEF IInv, Numbered
<1>7. Owned'
    BY <1>1, <1>3 DEF IInv, Owned
<1>8. Users' = Users
    BY <1>1, <1>3, <1>4 DEF Users
<1>9. Counted'
    BY <1>1, <1>8 DEF IInv, Counted
<1> QED
    BY <1>5, <1>6, <1>7, <1>9 DEF IInv

(* The reference comes before the thread *)
LEMMA PlayCreateInvariant == ASSUME IInv, PlayCreate PROVE IInv'
<1>1. /\ app.pc = "create"
      /\ crefs' = crefs + 1
      /\ \/ play_id' = app.n /\ at' = [at EXCEPT ![app.n] = "start"]
         \/ Faulty /\ UNCHANGED play_id /\ UNCHANGED at
      /\ Return
      /\ UNCHANGED env
    BY Zenon DEF PlayCreate, At
<1>2. /\ app.n \in Play /\ play_id = None
      /\ \A t \in Play : ~Alive(t)
    BY <1>1 DEF IInv, Numbered, Owned, None, Play
<1>3. app' \in App /\ app'.pc = "idle"
    BY <1>1, ReturnApp DEF IInv, Shape
<1>4. Users = 1
    BY <1>1, <1>2 DEF Users
<1>5. Numbered'
    BY <1>3 DEF Numbered
<1>6. CASE play_id' = app.n /\ at' = [at EXCEPT ![app.n] = "start"]
  <2>1. /\ at' = [t \in Play |-> at'[t]]
        /\ at'[app.n] = "start"
        /\ \A t \in Play \ {app.n} : at'[t] = at[t]
    BY <1>2, <1>6 DEF IInv, Shape
  <2>2. \A t \in Play : Alive(t)' <=> t = app.n
    BY <1>2, <2>1 DEF Alive
  <2>3. Shape'
    BY <1>1, <1>2, <1>3, <1>6, <2>1 DEF IInv, Shape
  <2>4. Owned'
    BY <1>3, <1>6, <2>2 DEF Owned
  <2>5. Users' = 2
    BY <1>2, <1>3, <2>2 DEF Users
  <2>6. Counted'
    BY <1>1, <1>4, <2>5 DEF IInv, Shape, Counted
  <2> QED
    BY <1>5, <2>3, <2>4, <2>6 DEF IInv
<1>7. CASE Faulty /\ UNCHANGED play_id /\ UNCHANGED at
  <2>1. \A t \in Play : ~Alive(t)'
    BY <1>2, <1>7 DEF Alive
  <2>2. Shape'
    BY <1>1, <1>3, <1>7 DEF IInv, Shape
  <2>3. Owned'
    BY <1>3, <2>1 DEF Owned
  <2>4. Users' = 1
    BY <1>3, <2>1 DEF Users
  <2>5. Counted'
    BY <1>1, <1>4, <1>7, <2>4 DEF IInv, Shape, Counted, Faulty
  <2> QED
    BY <1>5, <2>2, <2>3, <2>5 DEF IInv
<1> QED
    BY <1>1, <1>6, <1>7

(* The application gives its reference back as it quits *)
LEMMA AppReleaseInvariant == ASSUME IInv, AppRelease PROVE IInv'
<1>1. /\ app.pc = "unref"
      /\ crefs' = crefs - 1
      /\ Goto("gone")
      /\ UNCHANGED env /\ UNCHANGED at /\ UNCHANGED play_id
    BY Zenon DEF AppRelease, At
<1>2. app' \in App /\ app'.pc = "gone"
    BY <1>1, GotoApp DEF IInv, Shape, Place
<1>3. play_id = None /\ \A t \in Play : ~Alive(t) /\ ~Alive(t)'
    BY <1>1 DEF IInv, Owned, Alive, None, Play
<1>4. Users = 1 /\ Users' = 0
    BY <1>1, <1>2, <1>3 DEF Users
<1>5. Shape'
    BY <1>1, <1>2, <1>4 DEF IInv, Shape, Counted
<1>6. Numbered'
    BY <1>2 DEF Numbered
<1>7. Owned'
    BY <1>1, <1>3 DEF Owned
<1>8. Counted'
    BY <1>1, <1>4 DEF IInv, Shape, Counted
<1> QED
    BY <1>5, <1>6, <1>7, <1>8 DEF IInv

-----------------------------------------------------------------------------
(* What the invariant is about does not change *)
LEMMA StutterInvariant ==
    ASSUME IInv, UNCHANGED env, UNCHANGED crefs, UNCHANGED at, UNCHANGED play_id,
           UNCHANGED app
    PROVE  IInv'
BY DEF IInv, Shape, Numbered, Owned, Counted, Users, Alive

(* The invariant is inductive *)
LEMMA NextInvariant == IInv /\ [Next]_vars => IInv'
<1> SUFFICES ASSUME IInv, [Next]_vars PROVE IInv'
    OBVIOUS
<1>1. CASE Command
    BY <1>1, CommandProceeds, ProceedsInvariant
<1>2. CASE Call
    BY <1>2, CallProceeds, ProceedsInvariant, JoinTakeInvariant, JoinedInvariant,
       PlayCreateInvariant, AppReleaseInvariant DEF Call
<1>3. CASE Device
    BY <1>3, StutterInvariant, Zenon DEF Device, Returns, Completes, player
<1>4. CASE \E t \in Play : Thread(t)
    BY <1>4, ThreadContinues, ContinuesInvariant, ThreadReleaseInvariant DEF Thread
<1>5. CASE UNCHANGED vars
    BY <1>5, StutterInvariant, Zenon DEF vars, player
<1> QED
    BY <1>1, <1>2, <1>3, <1>4, <1>5 DEF Next

(* However the application and its play threads are scheduled, and whatever  *)
(* fails, at most one play thread runs, and the context that                 *)
(* nxplayer_release frees with its last reference has no user left.          *)
THEOREM PlayerContextAlive == Spec => []ContextAlive
<1>1. Init => IInv
    BY InitInvariant
<1>2. IInv /\ [Next]_vars => IInv'
    BY NextInvariant
<1>3. IInv => ContextAlive
    BY InvariantGivesContextAlive
<1> QED
    BY <1>1, <1>2, <1>3, PTL DEF Spec

-----------------------------------------------------------------------------
(* What the variables of the thread, the queue and the device hold *)
Spot == {"none", "start", "fill", "reading", "enqueue", "go", "loop", "free", "clean",
         "release", "gone"}
Locals == [running : BOOLEAN, streaming : BOOLEAN, failed : BOOLEAN, priming : BOOLEAN,
           x : Nat, file : Play \cup {None}, last : BOOLEAN, outstanding : Int]
Driver == [reserved : Play \cup {None}, started : BOOLEAN, paused : BOOLEAN,
           ending : BOOLEAN, final : BOOLEAN, held : Nat, completed : BOOLEAN]
Message == {"DEQUEUE", "STOP", "COMPLETE"}

Typed ==
    /\ env \in [sched : {"priority", "any"}, faults : {"none", "some"}]
    /\ state \in {"IDLE", "PLAYING", "PAUSED"}
    /\ fd \in Play \cup {None} /\ dev_fd \in Play \cup {None}
    /\ mq \in {"open", "closed"}
    /\ left \in [Play -> Nat]
    /\ at \in [Play -> Spot] /\ th \in [Play -> Locals]
    /\ \A t \in Play : at[t] = "reading" => th[t].file # None
    /\ queue \in Seq(Message)
    /\ drv \in Driver

(* A player that was just created *)
LEMMA InitTyped == Init => Typed
<1> SUFFICES ASSUME Init PROVE Typed
    OBVIOUS
<1>1. Idle \in Locals
    BY DEF Idle, Locals, None
<1>2. Quiet \in Driver
    BY DEF Quiet, Driver, None
<1>3. left \in [Play -> Nat]
  <2>1. left \in [Play -> Lengths] /\ Lengths \subseteq Nat
    BY NxPlayerConfig DEF Init
  <2> QED
    BY <2>1, Zenon
<1>4. env \in [sched : {"priority", "any"}, faults : {"none", "some"}]
    BY NxPlayerConfig DEF Init
<1>5. /\ state = "IDLE" /\ fd = None /\ dev_fd = None /\ mq = "closed" /\ queue = <<>>
      /\ at = [t \in Play |-> "none"] /\ th = [t \in Play |-> Idle] /\ drv = Quiet
    BY Zenon DEF Init
<1>6. at \in [Play -> Spot] /\ \A t \in Play : at[t] = "none"
    BY <1>5 DEF Spot
<1>7. th \in [Play -> Locals]
    BY <1>1, <1>5
<1>8. queue \in Seq(Message)
    BY <1>5
<1>9. drv \in Driver
    BY <1>2, <1>5
<1> QED
    BY <1>3, <1>4, <1>5, <1>6, <1>7, <1>8, <1>9 DEF Typed

(* A device after its descriptor is closed *)
LEMMA CloseTyped ==
    ASSUME drv \in Driver, Close
    PROVE  /\ fd' = None /\ dev_fd' = None /\ drv' \in Driver
           /\ drv'.started = drv.started /\ drv'.ending = drv.ending
           /\ drv'.final = drv.final /\ drv'.held = drv.held
           /\ drv'.completed = drv.completed
           /\ drv'.reserved = IF drv.reserved = dev_fd THEN None ELSE drv.reserved
BY DEF Close, Driver, None

(* The application keeps the types *)
LEMMA CallTyped == ASSUME IInv, Typed, Command \/ Call PROVE Typed'
<1> USE DEF At
<1>0. /\ drv \in Driver /\ fd \in Play \cup {None} /\ dev_fd \in Play \cup {None}
      /\ queue \in Seq(Message) /\ at \in [Play -> Spot] /\ app \in App
      /\ None \in Play \cup {None} /\ "STOP" \in Message
    BY Zenon DEF Typed, IInv, Shape, Message
<1>1. CASE Command \/ PlayTest \/ Joined \/ StopTest \/ SwitchTest \/ JoinTake \/ AppRelease
  <2>1. /\ UNCHANGED env /\ UNCHANGED state /\ UNCHANGED fd /\ UNCHANGED dev_fd
        /\ UNCHANGED mq /\ UNCHANGED left /\ UNCHANGED at /\ UNCHANGED th
        /\ UNCHANGED queue /\ UNCHANGED drv
    BY <1>1, Zenon DEF Command, Begin, PlayTest, Joined, StopTest, SwitchTest, JoinTake,
       AppRelease, player
  <2> QED
    BY <2>1, Zenon DEF Typed
<1>2. CASE PlayOpen
  <2>1. app.n + 1 \in Play
    BY <1>2, NxPlayerConfig DEF PlayOpen, IInv, Shape, App, Numbered, Play
  <2>2. fd' \in Play \cup {None}
    BY <1>2, <2>1, Zenon DEF PlayOpen
  <2>3. /\ UNCHANGED env /\ UNCHANGED state /\ UNCHANGED dev_fd
        /\ UNCHANGED mq /\ UNCHANGED left /\ UNCHANGED at /\ UNCHANGED th
        /\ UNCHANGED queue /\ UNCHANGED drv
    BY <1>2, Zenon DEF PlayOpen
  <2> QED
    BY <2>2, <2>3, Zenon DEF Typed
<1>3. CASE PlayDevice
  <2>1. app.n \in Play
    BY <1>3 DEF PlayDevice, IInv, Numbered
  <2>2. fd' \in Play \cup {None} /\ dev_fd' \in Play \cup {None}
    BY <1>3, <2>1, <1>0, Zenon DEF PlayDevice
  <2>3. /\ UNCHANGED env /\ UNCHANGED state
        /\ UNCHANGED mq /\ UNCHANGED left /\ UNCHANGED at /\ UNCHANGED th
        /\ UNCHANGED queue /\ UNCHANGED drv
    BY <1>3, Zenon DEF PlayDevice
  <2> QED
    BY <2>2, <2>3, Zenon DEF Typed
<1>4. CASE PlayReserve
  <2>1. [Quiet EXCEPT !.reserved = dev_fd] \in Driver
    BY <1>0, Zenon DEF Quiet, Driver
  <2>2. fd' \in Play \cup {None} /\ dev_fd' \in Play \cup {None} /\ drv' \in Driver
    BY <1>4, <2>1, <1>0, CloseTyped, Zenon DEF PlayReserve
  <2>3. /\ UNCHANGED env /\ UNCHANGED state
        /\ UNCHANGED mq /\ UNCHANGED left /\ UNCHANGED at /\ UNCHANGED th
        /\ UNCHANGED queue
    BY <1>4, Zenon DEF PlayReserve
  <2> QED
    BY <2>2, <2>3, Zenon DEF Typed
<1>5. CASE PlayQueue
  <2>1. <<>> \in Seq(Message)
    OBVIOUS
  <2>2. /\ fd' \in Play \cup {None} /\ dev_fd' \in Play \cup {None} /\ drv' \in Driver
        /\ mq' \in {"open", "closed"} /\ queue' \in Seq(Message)
    BY <1>5, <2>1, <1>0, CloseTyped, Zenon DEF PlayQueue
  <2>3. UNCHANGED env /\ UNCHANGED state /\ UNCHANGED left /\ UNCHANGED at /\ UNCHANGED th
    BY <1>5, Zenon DEF PlayQueue
  <2> QED
    BY <2>2, <2>3, Zenon DEF Typed
<1>6. CASE PlayCreate
  <2>1. app.n \in Play
    BY <1>6 DEF PlayCreate, IInv, Numbered
  <2>2. fd' \in Play \cup {None} /\ dev_fd' \in Play \cup {None} /\ drv' \in Driver
    BY <1>6, <1>0, CloseTyped, Zenon DEF PlayCreate
  <2>3. at' = at \/ at' = [at EXCEPT ![app.n] = "start"]
    BY <1>6, Zenon DEF PlayCreate
  <2>4. at' \in [Play -> Spot] /\ \A t \in Play : at'[t] = "reading" => at[t] = "reading"
    BY <2>1, <2>3, <1>0 DEF Spot
  <2>5. /\ UNCHANGED env /\ UNCHANGED state /\ UNCHANGED mq /\ UNCHANGED left
        /\ UNCHANGED th /\ UNCHANGED queue
    BY <1>6, Zenon DEF PlayCreate
  <2> QED
    BY <2>2, <2>4, <2>5, Zenon DEF Typed
<1>7. CASE StopSend
  <2>1. Append(queue, "STOP") \in Seq(Message)
    BY <1>0
  <2>2. queue' \in Seq(Message)
    BY <1>7, <2>1, <1>0, Zenon DEF StopSend
  <2>3. /\ UNCHANGED env /\ UNCHANGED state /\ UNCHANGED fd /\ UNCHANGED dev_fd
        /\ UNCHANGED mq /\ UNCHANGED left /\ UNCHANGED at /\ UNCHANGED th
        /\ UNCHANGED drv
    BY <1>7, Zenon DEF StopSend, player
  <2> QED
    BY <2>2, <2>3, Zenon DEF Typed
<1>8. CASE SwitchIoctl
  <2>1. [drv EXCEPT !.paused = (app.op = "pause")] \in Driver
    BY <1>0, Zenon DEF Driver
  <2>2. drv' \in Driver
    BY <1>8, <2>1, <1>0, Zenon DEF SwitchIoctl
  <2>3. /\ UNCHANGED env /\ UNCHANGED state /\ UNCHANGED fd /\ UNCHANGED dev_fd
        /\ UNCHANGED mq /\ UNCHANGED left /\ UNCHANGED at /\ UNCHANGED th
        /\ UNCHANGED queue
    BY <1>8, Zenon DEF SwitchIoctl, player
  <2> QED
    BY <2>2, <2>3, Zenon DEF Typed
<1>9. CASE SwitchAssign
  <2>1. state' \in {"IDLE", "PLAYING", "PAUSED"}
    BY <1>9, Zenon DEF SwitchAssign
  <2>3. /\ UNCHANGED env /\ UNCHANGED fd /\ UNCHANGED dev_fd
        /\ UNCHANGED mq /\ UNCHANGED left /\ UNCHANGED at /\ UNCHANGED th
        /\ UNCHANGED queue /\ UNCHANGED drv
    BY <1>9, Zenon DEF SwitchAssign
  <2> QED
    BY <2>1, <2>3, Zenon DEF Typed
<1> QED
    BY <1>1, <1>2, <1>3, <1>4, <1>5, <1>6, <1>7, <1>8, <1>9 DEF Call

(* One thread moves, the others stay *)
Moved(t, place, r) ==
    /\ at' \in [Play -> Spot] /\ th' \in [Play -> Locals]
    /\ at'[t] = place /\ th'[t] = r
    /\ \A s \in Play \ {t} : at'[s] = at[s] /\ th'[s] = th[s]

(* A thread at another place, with other locals *)
LEMMA BecomesMoved ==
    ASSUME Typed, NEW t \in Play, NEW place \in Spot, NEW r \in Locals, Becomes(t, place, r)
    PROVE  Moved(t, place, r)
BY DEF Typed, Becomes, Moved

(* The place and the locals after a turn of one of the loops *)
Turned(r) == IF r.priming THEN [r EXCEPT !.x = @ + 1] ELSE r
TurnsTo(r) ==
    IF ~r.priming THEN "loop" ELSE IF r.x + 1 = NBuffers THEN "go" ELSE "fill"

(* A turn of one of the loops *)
LEMMA NextTurnMoved ==
    ASSUME Typed, NEW t \in Play, NEW r \in Locals, NextTurn(t, r)
    PROVE  Turned(r) \in Locals /\ Moved(t, TurnsTo(r), Turned(r))
<1>1. Turned(r) \in Locals /\ TurnsTo(r) \in Spot
    BY DEF Turned, TurnsTo, Locals, Spot
<1>2. Becomes(t, TurnsTo(r), Turned(r))
    BY Zenon DEF NextTurn, Turned, TurnsTo
<1> QED
    BY <1>1, <1>2, BecomesMoved

(* Threads that move keep their types *)
LEMMA MovedTyped ==
    ASSUME Typed, NEW t \in Play, NEW place, NEW r, Moved(t, place, r),
           place = "reading" => r.file # None
    PROVE  /\ at' \in [Play -> Spot] /\ th' \in [Play -> Locals]
           /\ \A s \in Play : at'[s] = "reading" => th'[s].file # None
BY Zenon DEF Typed, Moved

(* The other threads stay where they are *)
Others(t) == \A s \in Play \ {t} : at'[s] = at[s] /\ th'[s] = th[s]

(* What a step leaves alone when it is not about the device *)
Inside == /\ UNCHANGED env /\ UNCHANGED state /\ UNCHANGED dev_fd /\ UNCHANGED mq
          /\ UNCHANGED app /\ UNCHANGED queue

(* A thread without a file, or that has no buffers *)
LEMMA StartStep ==
    ASSUME Typed, NEW t \in Play, Start(t)
    PROVE  /\ Typed' /\ Others(t) /\ Inside /\ UNCHANGED fd /\ UNCHANGED drv
           /\ at[t] = "start" /\ th'[t] = th[t]
           /\ \/ dev_fd # None /\ at'[t] = "fill"
              \/ (dev_fd = None \/ Faulty) /\ at'[t] = "free"
<1>1. /\ at[t] = "start" /\ Inside /\ UNCHANGED fd /\ UNCHANGED drv /\ UNCHANGED left
      /\ \/ dev_fd # None /\ Becomes(t, "fill", th[t])
         \/ (dev_fd = None \/ Faulty) /\ Becomes(t, "free", th[t])
    BY Zenon DEF Start, Inside, player
<1>2. th[t] \in Locals /\ "fill" \in Spot /\ "free" \in Spot
    BY DEF Typed, Spot
<1>3. \/ dev_fd # None /\ Moved(t, "fill", th[t])
      \/ (dev_fd = None \/ Faulty) /\ Moved(t, "free", th[t])
    BY <1>1, <1>2, BecomesMoved, Zenon
<1>4. Typed'
    BY <1>1, <1>3, MovedTyped, Zenon DEF Typed, Inside
<1> QED
    BY <1>1, <1>3, <1>4, Zenon DEF Moved, Others

(* A buffer is read unless the file is closed *)
LEMMA FillStep ==
    ASSUME Typed, NEW t \in Play, Fill(t)
    PROVE  /\ Typed' /\ Others(t) /\ Inside /\ UNCHANGED fd /\ UNCHANGED drv
           /\ at[t] = "fill"
           /\ th'[t].priming = th[t].priming /\ th'[t].failed = th[t].failed
           /\ th'[t].outstanding = th[t].outstanding
           /\ \/ /\ fd = None /\ at'[t] = TurnsTo(th[t])
                 /\ th'[t].x = IF th[t].priming THEN th[t].x + 1 ELSE th[t].x
                 /\ th'[t].running <=> th[t].running /\ ~(th[t].priming /\ th[t].x = 0)
              \/ /\ fd # None /\ at'[t] = "reading"
                 /\ th'[t].x = th[t].x /\ th'[t].file = fd
                 /\ th'[t].running = th[t].running
<1> DEFINE r == [th[t] EXCEPT !.streaming = FALSE,
                              !.running = @ /\ ~(th[t].priming /\ th[t].x = 0)]
           q == [th[t] EXCEPT !.file = fd]
<1>1. /\ at[t] = "fill" /\ Inside /\ UNCHANGED fd /\ UNCHANGED drv /\ UNCHANGED left
      /\ \/ fd = None /\ NextTurn(t, r)
         \/ fd # None /\ Becomes(t, "reading", q)
    BY Zenon DEF Fill, Inside, player
<1>2. th[t] \in Locals /\ "reading" \in Spot /\ fd \in Play \cup {None}
    BY DEF Typed, Spot
<1>3. /\ r \in Locals /\ r.priming = th[t].priming /\ r.failed = th[t].failed
      /\ r.outstanding = th[t].outstanding /\ r.x = th[t].x
      /\ r.running <=> th[t].running /\ ~(th[t].priming /\ th[t].x = 0)
    BY <1>2, Zenon DEF Locals
<1>4. /\ q \in Locals /\ q.priming = th[t].priming /\ q.failed = th[t].failed
      /\ q.outstanding = th[t].outstanding /\ q.x = th[t].x /\ q.file = fd
      /\ q.running = th[t].running
    BY <1>2 DEF Locals
<1> HIDE DEF r, q
<1>5. CASE fd = None /\ NextTurn(t, r)
  <2>1. Turned(r) \in Locals /\ Moved(t, TurnsTo(r), Turned(r))
    BY <1>3, <1>5, NextTurnMoved
  <2>2. TurnsTo(r) # "reading" /\ TurnsTo(r) = TurnsTo(th[t])
    BY <1>3 DEF TurnsTo
  <2>3. /\ Turned(r).priming = r.priming /\ Turned(r).failed = r.failed
        /\ Turned(r).outstanding = r.outstanding /\ Turned(r).running = r.running
        /\ Turned(r).x = IF r.priming THEN r.x + 1 ELSE r.x
    BY <1>3 DEF Turned, Locals
  <2>4. Typed'
    BY <1>1, <2>1, <2>2, MovedTyped DEF Typed, Inside
  <2> QED
    BY <1>1, <1>3, <1>5, <2>1, <2>2, <2>3, <2>4 DEF Moved, Others
<1>6. CASE fd # None /\ Becomes(t, "reading", q)
  <2>1. Moved(t, "reading", q)
    BY <1>2, <1>4, <1>6, BecomesMoved
  <2>2. Typed'
    BY <1>1, <1>4, <1>6, <2>1, MovedTyped DEF Typed, Inside
  <2> QED
    BY <1>1, <1>4, <1>6, <2>1, <2>2 DEF Moved, Others
<1> QED
    BY <1>1, <1>5, <1>6

(* The file is closed with its last buffer *)
LEMMA ReadStep ==
    ASSUME Typed, NEW t \in Play, Read(t)
    PROVE  /\ Typed' /\ Others(t) /\ Inside /\ UNCHANGED drv
           /\ at[t] = "reading" /\ at'[t] = "enqueue"
           /\ th'[t].priming = th[t].priming /\ th'[t].failed = th[t].failed
           /\ th'[t].outstanding = th[t].outstanding
           /\ th'[t].x = th[t].x /\ th'[t].running = th[t].running
           /\ fd' = IF th'[t].last THEN None ELSE fd
<1> DEFINE f == th[t].file
           n == IF left[f] = 0 THEN 0 ELSE left[f] - 1
           r == [th[t] EXCEPT !.file = None, !.last = (n = 0)]
<1>1. /\ at[t] = "reading" /\ Inside /\ UNCHANGED drv
      /\ left' = [left EXCEPT ![f] = n]
      /\ fd' = IF n = 0 THEN None ELSE fd
      /\ Becomes(t, "enqueue", r)
    BY Zenon DEF Read, Inside
<1>2. th[t] \in Locals /\ "enqueue" \in Spot
    BY DEF Typed, Spot
<1>3. f \in Play /\ left \in [Play -> Nat]
    BY <1>1, <1>2 DEF Typed, Locals
<1>4. n \in Nat
    BY <1>3
<1>5. left' \in [Play -> Nat]
    BY <1>1, <1>3, <1>4
<1>6. /\ r \in Locals /\ r.priming = th[t].priming /\ r.failed = th[t].failed
      /\ r.outstanding = th[t].outstanding /\ r.x = th[t].x
      /\ r.running = th[t].running /\ r.last = (n = 0)
    BY <1>2, Zenon DEF Locals, None
<1>7. fd' \in Play \cup {None}
    BY <1>1 DEF Typed
<1> HIDE DEF r, n
<1>8. Moved(t, "enqueue", r)
    BY <1>1, <1>2, <1>6, BecomesMoved
<1>9. Typed'
    BY <1>1, <1>5, <1>7, <1>8, MovedTyped, Zenon DEF Typed, Inside
<1> QED
    BY <1>1, <1>6, <1>8, <1>9, Zenon DEF Moved, Others

(* The fields of the device that the thread and the player do not ask for *)
DriverRest == UNCHANGED drv.started /\ UNCHANGED drv.completed /\ UNCHANGED drv.reserved

(* The device takes the buffer, or it refuses it and ends the playback *)
LEMMA EnqueueStep ==
    ASSUME Typed, NEW t \in Play, Enqueue(t)
    PROVE  /\ Typed' /\ Others(t) /\ Inside /\ DriverRest
           /\ at[t] = "enqueue" /\ th'[t].priming = th[t].priming
           /\ th'[t].running = th[t].running
           /\ \/ /\ dev_fd # None /\ ~drv.ending /\ UNCHANGED fd
                 /\ drv'.held = drv.held + 1 /\ ~drv'.ending
                 /\ drv'.final <=> drv.final \/ th[t].last
                 /\ at'[t] = TurnsTo(th[t])
                 /\ th'[t].x = IF th[t].priming THEN th[t].x + 1 ELSE th[t].x
                 /\ th'[t].outstanding = th[t].outstanding + 1
                 /\ th'[t].failed = th[t].failed
              \/ /\ dev_fd = None \/ drv.ending \/ Faulty
                 /\ fd' = None
                 /\ drv'.held = drv.held /\ drv'.final = drv.final
                 /\ drv'.ending <=> drv.ending \/ dev_fd # None
                 /\ at'[t] = IF th[t].priming THEN "go" ELSE "loop"
                 /\ th'[t].x = th[t].x /\ th'[t].outstanding = th[t].outstanding
                 /\ th'[t].failed
<1> DEFINE r == [th[t] EXCEPT !.outstanding = @ + 1]
           q == [th[t] EXCEPT !.streaming = FALSE, !.failed = TRUE]
           place == IF th[t].priming THEN "go" ELSE "loop"
           taken == [drv EXCEPT !.held = @ + 1, !.final = @ \/ th[t].last]
           refused == [drv EXCEPT !.ending = @ \/ dev_fd # None]
<1>1. /\ at[t] = "enqueue" /\ Inside /\ UNCHANGED left
      /\ \/ /\ dev_fd # None /\ ~drv.ending /\ UNCHANGED fd
            /\ drv' = taken /\ NextTurn(t, r)
         \/ /\ dev_fd = None \/ drv.ending \/ Faulty
            /\ fd' = None /\ drv' = refused /\ Becomes(t, place, q)
    BY Zenon DEF Enqueue, Inside
<1>2. th[t] \in Locals /\ place \in Spot /\ drv \in Driver
    BY DEF Typed, Spot
<1>3. /\ r \in Locals /\ r.priming = th[t].priming /\ r.failed = th[t].failed
      /\ r.outstanding = th[t].outstanding + 1 /\ r.x = th[t].x
      /\ r.running = th[t].running
    BY <1>2 DEF Locals
<1>4. /\ q \in Locals /\ q.priming = th[t].priming /\ q.failed
      /\ q.outstanding = th[t].outstanding /\ q.x = th[t].x
      /\ q.running = th[t].running
    BY <1>2, Zenon DEF Locals
<1>5. /\ taken \in Driver /\ taken.held = drv.held + 1 /\ taken.ending = drv.ending
      /\ taken.final <=> drv.final \/ th[t].last
      /\ taken.started = drv.started /\ taken.completed = drv.completed
      /\ taken.reserved = drv.reserved
  <2>1. (drv.final \/ th[t].last) \in BOOLEAN /\ drv.held + 1 \in Nat
    BY <1>2 DEF Driver, Locals
  <2> DEFINE f == drv.final \/ th[t].last
             h == drv.held + 1
  <2>2. f \in BOOLEAN /\ h \in Nat /\ taken = [drv EXCEPT !.held = h, !.final = f]
    BY <2>1
  <2> HIDE DEF taken, f, h
  <2>3. /\ taken \in Driver /\ taken.held = h /\ taken.ending = drv.ending
        /\ taken.final = f
        /\ taken.started = drv.started /\ taken.completed = drv.completed
        /\ taken.reserved = drv.reserved
    BY <1>2, <2>2, Zenon DEF Driver
  <2> QED
    BY <2>3, Zenon DEF f, h
<1>6. /\ refused \in Driver /\ refused.held = drv.held /\ refused.final = drv.final
      /\ refused.ending <=> drv.ending \/ dev_fd # None
      /\ refused.started = drv.started /\ refused.completed = drv.completed
      /\ refused.reserved = drv.reserved
    BY <1>2, Zenon DEF Driver
<1> HIDE DEF r, q, taken, refused
<1>7. CASE /\ dev_fd # None /\ ~drv.ending /\ UNCHANGED fd
           /\ drv' = taken /\ NextTurn(t, r)
  <2>1. Turned(r) \in Locals /\ Moved(t, TurnsTo(r), Turned(r))
    BY <1>3, <1>7, NextTurnMoved
  <2>2. TurnsTo(r) # "reading" /\ TurnsTo(r) = TurnsTo(th[t])
    BY <1>3 DEF TurnsTo
  <2>3. /\ Turned(r).priming = r.priming /\ Turned(r).failed = r.failed
        /\ Turned(r).outstanding = r.outstanding /\ Turned(r).running = r.running
        /\ Turned(r).x = IF r.priming THEN r.x + 1 ELSE r.x
    BY <1>3 DEF Turned, Locals
  <2>4. Typed'
    BY <1>1, <1>5, <1>7, <2>1, <2>2, MovedTyped, Zenon DEF Typed, Inside
  <2> QED
    BY <1>1, <1>3, <1>5, <1>7, <2>1, <2>2, <2>3, <2>4 DEF Moved, Others, DriverRest
<1>8. CASE /\ dev_fd = None \/ drv.ending \/ Faulty
           /\ fd' = None /\ drv' = refused /\ Becomes(t, place, q)
  <2>1. Moved(t, place, q)
    BY <1>2, <1>4, <1>8, BecomesMoved, Zenon
  <2>2. Typed'
    BY <1>1, <1>6, <1>8, <2>1, MovedTyped, Zenon DEF Typed, Inside
  <2> QED
    BY <1>1, <1>4, <1>6, <1>8, <2>1, <2>2 DEF Moved, Others, DriverRest
<1> QED
    BY <1>1, <1>7, <1>8

(* The playback starts, or it has failed *)
LEMMA GoStep ==
    ASSUME Typed, NEW t \in Play, Go(t)
    PROVE  /\ Typed' /\ Others(t) /\ UNCHANGED fd /\ UNCHANGED dev_fd /\ UNCHANGED env
           /\ UNCHANGED mq /\ UNCHANGED app /\ UNCHANGED queue
           /\ at[t] = "go" /\ at'[t] = IF th[t].running THEN "loop" ELSE "free"
           /\ ~th'[t].priming
           /\ th'[t].running = th[t].running /\ th'[t].outstanding = th[t].outstanding
           /\ drv'.held = drv.held /\ drv'.final = drv.final
           /\ drv'.completed = drv.completed /\ drv'.reserved = drv.reserved
           /\ \/ ~th[t].running /\ UNCHANGED state /\ UNCHANGED drv
              \/ th[t].failed /\ UNCHANGED state /\ UNCHANGED drv
              \/ /\ th[t].running /\ ~th[t].failed /\ dev_fd # None
                 /\ state' = "PLAYING" /\ drv'.started /\ drv'.ending = drv.ending
              \/ /\ th[t].running /\ ~th[t].failed /\ (dev_fd = None \/ Faulty)
                 /\ UNCHANGED state /\ drv'.started = drv.started
                 /\ drv'.ending <=> drv.ending \/ dev_fd # None
<1> DEFINE place == IF th[t].running THEN "loop" ELSE "free"
           r == [th[t] EXCEPT !.priming = FALSE]
           q == [r EXCEPT !.failed = TRUE]
           started == [drv EXCEPT !.started = TRUE]
           refused == [drv EXCEPT !.ending = @ \/ dev_fd # None]
<1>1. /\ at[t] = "go"
      /\ UNCHANGED fd /\ UNCHANGED dev_fd /\ UNCHANGED env /\ UNCHANGED left
      /\ UNCHANGED mq /\ UNCHANGED app /\ UNCHANGED queue
      /\ \/ /\ ~r.running \/ r.failed
            /\ Becomes(t, place, r) /\ UNCHANGED state /\ UNCHANGED drv
         \/ /\ r.running /\ ~r.failed /\ dev_fd # None
            /\ Becomes(t, place, r) /\ drv' = started /\ state' = "PLAYING"
         \/ /\ r.running /\ ~r.failed /\ (dev_fd = None \/ Faulty)
            /\ Becomes(t, place, q) /\ drv' = refused /\ UNCHANGED state
    BY Zenon DEF Go
<1>2. th[t] \in Locals /\ place \in Spot /\ drv \in Driver
    BY DEF Typed, Spot
<1>3. /\ r \in Locals /\ ~r.priming /\ r.failed = th[t].failed
      /\ r.outstanding = th[t].outstanding /\ r.running = th[t].running
    BY <1>2, Zenon DEF Locals
<1>4. /\ q \in Locals /\ ~q.priming /\ q.outstanding = th[t].outstanding
      /\ q.running = th[t].running
    BY <1>2, Zenon DEF Locals
<1>5. /\ started \in Driver /\ started.held = drv.held /\ started.final = drv.final
      /\ started.ending = drv.ending /\ started.completed = drv.completed
      /\ started.reserved = drv.reserved /\ started.started
    BY <1>2, Zenon DEF Driver
<1>6. /\ refused \in Driver /\ refused.held = drv.held /\ refused.final = drv.final
      /\ refused.ending <=> drv.ending \/ dev_fd # None
      /\ refused.started = drv.started /\ refused.completed = drv.completed
      /\ refused.reserved = drv.reserved
    BY <1>2, Zenon DEF Driver
<1>7. place # "reading"
    OBVIOUS
<1> HIDE DEF r, q, place, started, refused
<1>8. Moved(t, place, r) \/ Moved(t, place, q)
    BY <1>1, <1>2, <1>3, <1>4, BecomesMoved, Zenon
<1>9. state' \in {"IDLE", "PLAYING", "PAUSED"} /\ drv' \in Driver
    BY <1>1, <1>2, <1>5, <1>6, Zenon DEF Typed
<1>10. Typed'
    BY <1>1, <1>7, <1>8, <1>9, MovedTyped DEF Typed
<1>11. /\ Others(t) /\ at'[t] = place /\ ~th'[t].priming
       /\ th'[t].running = th[t].running /\ th'[t].outstanding = th[t].outstanding
    BY <1>3, <1>4, <1>8, Zenon DEF Moved, Others
<1> QED
    BY <1>1, <1>3, <1>5, <1>6, <1>10, <1>11 DEF place

(* A message is taken from the queue *)
LEMMA ReceiveStep ==
    ASSUME Typed, NEW t \in Play, Receive(t)
    PROVE  /\ Typed' /\ Others(t) /\ DriverRest
           /\ UNCHANGED env /\ UNCHANGED state /\ UNCHANGED fd /\ UNCHANGED dev_fd
           /\ UNCHANGED mq /\ UNCHANGED app
           /\ at[t] = "loop" /\ queue # <<>> /\ queue' = Tail(queue)
           /\ th'[t].priming = th[t].priming
           /\ drv'.held = drv.held /\ drv'.final = drv.final
           /\ \/ /\ Head(queue) = "DEQUEUE" /\ UNCHANGED drv
                 /\ at'[t] \in {"fill", "loop"} /\ th'[t].running = th[t].running
                 /\ th'[t].outstanding = th[t].outstanding - 1
              \/ /\ Head(queue) = "STOP"
                 /\ drv'.ending <=> drv.ending \/ dev_fd # None
                 /\ at'[t] = "loop" /\ th'[t].running = th[t].running
                 /\ th'[t].outstanding = th[t].outstanding
              \/ /\ Head(queue) = "COMPLETE" /\ UNCHANGED drv
                 /\ at'[t] = "free" /\ th'[t].outstanding = th[t].outstanding
<1> DEFINE place == IF th[t].streaming THEN "fill" ELSE "loop"
           d == [th[t] EXCEPT !.outstanding = @ - 1]
           s == [th[t] EXCEPT !.streaming = FALSE]
           c == [th[t] EXCEPT !.running = FALSE]
           ended == [drv EXCEPT !.ending = @ \/ dev_fd # None]
<1>1. /\ at[t] = "loop" /\ queue # <<>> /\ queue' = Tail(queue)
      /\ UNCHANGED env /\ UNCHANGED state /\ UNCHANGED fd /\ UNCHANGED dev_fd
      /\ UNCHANGED mq /\ UNCHANGED app /\ UNCHANGED left
      /\ \/ Head(queue) = "DEQUEUE" /\ Becomes(t, place, d) /\ UNCHANGED drv
         \/ Head(queue) = "STOP" /\ Becomes(t, "loop", s) /\ drv' = ended
         \/ Head(queue) = "COMPLETE" /\ Becomes(t, "free", c) /\ UNCHANGED drv
    BY Zenon DEF Receive, OnDequeue, OnStop, OnComplete, player
<1>2. th[t] \in Locals /\ place \in Spot /\ drv \in Driver /\ "loop" \in Spot /\ "free" \in Spot
    BY DEF Typed, Spot
<1>3. /\ d \in Locals /\ d.outstanding = th[t].outstanding - 1
      /\ d.running = th[t].running /\ d.priming = th[t].priming
    BY <1>2 DEF Locals
<1>4. /\ s \in Locals /\ s.outstanding = th[t].outstanding
      /\ s.running = th[t].running /\ s.priming = th[t].priming
    BY <1>2, Zenon DEF Locals
<1>5. c \in Locals /\ c.outstanding = th[t].outstanding /\ c.priming = th[t].priming
    BY <1>2, Zenon DEF Locals
<1>6. /\ ended \in Driver /\ ended.held = drv.held /\ ended.final = drv.final
      /\ ended.ending <=> drv.ending \/ dev_fd # None
      /\ ended.started = drv.started /\ ended.completed = drv.completed
      /\ ended.reserved = drv.reserved
    BY <1>2, Zenon DEF Driver
<1>7. queue' \in Seq(Message)
    BY <1>1 DEF Typed
<1>8. place \in {"fill", "loop"} /\ place # "reading"
    OBVIOUS
<1> HIDE DEF place, d, s, c, ended
<1>9. CASE Head(queue) = "DEQUEUE" /\ Becomes(t, place, d) /\ UNCHANGED drv
  <2>1. Moved(t, place, d)
    BY <1>2, <1>3, <1>9, BecomesMoved, Zenon
  <2>2. Typed'
    BY <1>1, <1>7, <1>8, <1>9, <2>1, MovedTyped, Zenon DEF Typed
  <2> QED
    BY <1>1, <1>3, <1>8, <1>9, <2>1, <2>2, Zenon DEF Moved, Others, DriverRest
<1>10. CASE Head(queue) = "STOP" /\ Becomes(t, "loop", s) /\ drv' = ended
  <2>1. Moved(t, "loop", s)
    BY <1>2, <1>4, <1>10, BecomesMoved, Zenon
  <2>2. Typed'
    BY <1>1, <1>6, <1>7, <1>10, <2>1, MovedTyped, Zenon DEF Typed
  <2> QED
    BY <1>1, <1>4, <1>6, <1>10, <2>1, <2>2, Zenon DEF Moved, Others, DriverRest
<1>11. CASE Head(queue) = "COMPLETE" /\ Becomes(t, "free", c) /\ UNCHANGED drv
  <2>1. Moved(t, "free", c)
    BY <1>2, <1>5, <1>11, BecomesMoved, Zenon
  <2>2. Typed'
    BY <1>1, <1>7, <1>11, <2>1, MovedTyped DEF Typed
  <2> QED
    BY <1>1, <1>5, <1>11, <2>1, <2>2 DEF Moved, Others, DriverRest
<1> QED
    BY <1>1, <1>9, <1>10, <1>11

(* The device is released *)
LEMMA FreeStep ==
    ASSUME Typed, NEW t \in Play, Free(t)
    PROVE  /\ Typed' /\ Others(t) /\ Inside /\ UNCHANGED fd
           /\ at[t] = "free" /\ at'[t] = "clean" /\ th'[t] = th[t]
           /\ drv'.held = drv.held /\ drv'.completed = drv.completed
           /\ drv'.started = drv.started /\ drv'.ending = drv.ending
           /\ drv'.final = drv.final
<1>1. /\ at[t] = "free" /\ Inside /\ UNCHANGED fd /\ UNCHANGED left
      /\ drv' = IF dev_fd = None THEN drv ELSE [drv EXCEPT !.reserved = None]
      /\ Becomes(t, "clean", th[t])
    BY Zenon DEF Free, Inside, player
<1>2. th[t] \in Locals /\ "clean" \in Spot /\ drv \in Driver
    BY DEF Typed, Spot
<1>3. /\ drv' \in Driver /\ drv'.held = drv.held /\ drv'.completed = drv.completed
      /\ drv'.started = drv.started /\ drv'.ending = drv.ending
      /\ drv'.final = drv.final
    BY <1>1, <1>2 DEF Driver, None
<1>4. Moved(t, "clean", th[t])
    BY <1>1, <1>2, BecomesMoved
<1>5. Typed'
    BY <1>1, <1>3, <1>4, MovedTyped, Zenon DEF Typed, Inside
<1> QED
    BY <1>1, <1>3, <1>4, <1>5 DEF Moved, Others

(* Everything is closed *)
LEMMA CleanStep ==
    ASSUME Typed, NEW t \in Play, Clean(t)
    PROVE  /\ Typed' /\ Others(t) /\ UNCHANGED env /\ UNCHANGED app
           /\ at[t] = "clean" /\ at'[t] = "release" /\ th'[t] = th[t]
           /\ fd' = None /\ dev_fd' = None /\ mq' = "closed" /\ state' = "IDLE"
           /\ queue' = <<>> /\ drv'.held = drv.held
<1>1. /\ at[t] = "clean" /\ UNCHANGED env /\ UNCHANGED app /\ UNCHANGED left
      /\ Close /\ mq' = "closed" /\ state' = "IDLE" /\ queue' = <<>>
      /\ Becomes(t, "release", th[t])
    BY Zenon DEF Clean
<1>2. th[t] \in Locals /\ "release" \in Spot /\ drv \in Driver
    BY DEF Typed, Spot
<1>3. fd' = None /\ dev_fd' = None /\ drv' \in Driver /\ drv'.held = drv.held
    BY <1>1, <1>2, CloseTyped
<1>4. Moved(t, "release", th[t])
    BY <1>1, <1>2, BecomesMoved
<1>5. Typed'
    BY <1>1, <1>3, <1>4, MovedTyped DEF Typed
<1> QED
    BY <1>1, <1>3, <1>4, <1>5 DEF Moved, Others

(* The thread ends *)
LEMMA ThreadReleaseStep ==
    ASSUME Typed, NEW t \in Play, ThreadRelease(t)
    PROVE  /\ Typed' /\ Others(t) /\ Inside /\ UNCHANGED fd /\ UNCHANGED drv
           /\ at[t] = "release" /\ at'[t] = "gone" /\ th'[t] = Idle
<1>1. /\ at[t] = "release" /\ Inside /\ UNCHANGED fd /\ UNCHANGED drv /\ UNCHANGED left
      /\ Becomes(t, "gone", Idle)
    BY Zenon DEF ThreadRelease, Inside
<1>2. Idle \in Locals /\ "gone" \in Spot
    BY DEF Idle, Locals, None, Spot
<1>3. Moved(t, "gone", Idle)
    BY <1>1, <1>2, BecomesMoved, Zenon
<1>4. Typed'
    BY <1>1, <1>3, MovedTyped DEF Typed, Inside
<1> QED
    BY <1>1, <1>3, <1>4 DEF Moved, Others

-----------------------------------------------------------------------------
(* The device sends a message *)
Sends(m) ==
    /\ mq = "open" /\ queue' = Append(queue, m)
    /\ UNCHANGED env /\ UNCHANGED state /\ UNCHANGED fd /\ UNCHANGED dev_fd /\ UNCHANGED mq
    /\ UNCHANGED app /\ UNCHANGED at /\ UNCHANGED th
    /\ drv'.started = drv.started /\ drv'.ending = drv.ending
    /\ drv'.final = drv.final /\ drv'.reserved = drv.reserved

(* A buffer comes back *)
LEMMA ReturnsStep ==
    ASSUME Typed, Returns
    PROVE  /\ Typed' /\ Sends("DEQUEUE")
           /\ drv.ending \/ drv.started
           /\ drv.held > 0 /\ drv'.held = drv.held - 1 /\ drv'.completed = drv.completed
<1>1. /\ drv.held > 0
      /\ drv.ending \/ (drv.started /\ ~drv.paused)
      /\ mq = "open" /\ queue' = Append(queue, "DEQUEUE")
      /\ drv' = [drv EXCEPT !.held = @ - 1]
      /\ UNCHANGED env /\ UNCHANGED state /\ UNCHANGED fd /\ UNCHANGED dev_fd /\ UNCHANGED mq
      /\ UNCHANGED app /\ UNCHANGED at /\ UNCHANGED th /\ UNCHANGED left
    BY Zenon DEF Returns, Posts, player
<1>2. drv \in Driver /\ queue \in Seq(Message)
    BY DEF Typed
<1>3. /\ drv' \in Driver /\ drv'.held = drv.held - 1 /\ drv'.completed = drv.completed
      /\ drv'.started = drv.started /\ drv'.ending = drv.ending
      /\ drv'.final = drv.final /\ drv'.reserved = drv.reserved
    BY <1>1, <1>2 DEF Driver
<1>4. queue' \in Seq(Message)
    BY <1>1, <1>2 DEF Message
<1>5. Typed'
    BY <1>1, <1>3, <1>4 DEF Typed
<1> QED
    BY <1>1, <1>3, <1>5 DEF Sends

(* The playback is over *)
LEMMA CompletesStep ==
    ASSUME Typed, Completes
    PROVE  /\ Typed' /\ Sends("COMPLETE")
           /\ drv.ending \/ (drv.started /\ drv.final)
           /\ drv.held = 0 /\ drv'.held = 0 /\ ~drv.completed /\ drv'.completed
<1>1. /\ drv.held = 0 /\ ~drv.completed
      /\ drv.ending \/ (drv.started /\ drv.final)
      /\ mq = "open" /\ queue' = Append(queue, "COMPLETE")
      /\ drv' = [drv EXCEPT !.completed = TRUE]
      /\ UNCHANGED env /\ UNCHANGED state /\ UNCHANGED fd /\ UNCHANGED dev_fd /\ UNCHANGED mq
      /\ UNCHANGED app /\ UNCHANGED at /\ UNCHANGED th /\ UNCHANGED left
    BY Zenon DEF Completes, Posts, player
<1>2. drv \in Driver /\ queue \in Seq(Message)
    BY DEF Typed
<1>3. /\ drv' \in Driver /\ drv'.held = drv.held /\ drv'.completed
      /\ drv'.started = drv.started /\ drv'.ending = drv.ending
      /\ drv'.final = drv.final /\ drv'.reserved = drv.reserved
    BY <1>1, <1>2, Zenon DEF Driver
<1>4. queue' \in Seq(Message)
    BY <1>1, <1>2 DEF Message
<1>5. Typed'
    BY <1>1, <1>3, <1>4 DEF Typed
<1> QED
    BY <1>1, <1>3, <1>5 DEF Sends

(* The types are kept by every step *)
LEMMA NextTyped == IInv /\ Typed /\ [Next]_vars => Typed'
<1> SUFFICES ASSUME IInv, Typed, [Next]_vars PROVE Typed'
    OBVIOUS
<1>1. CASE Command \/ Call
    BY <1>1, CallTyped
<1>2. CASE Device
    BY <1>2, ReturnsStep, CompletesStep DEF Device
<1>3. CASE \E t \in Play : Thread(t)
    BY <1>3, StartStep, FillStep, ReadStep, EnqueueStep, GoStep, ReceiveStep, FreeStep,
       CleanStep, ThreadReleaseStep, Zenon DEF Thread
<1>4. CASE UNCHANGED vars
    BY <1>4 DEF vars, player, Typed
<1> QED
    BY <1>1, <1>2, <1>3, <1>4 DEF Next

(* How many buffers a queue brings back *)
DeqAt(q) == {i \in DOMAIN q : q[i] = "DEQUEUE"}
Deq(q) == Cardinality(DeqAt(q))

(* What the proofs use of the size of that set, and NxPlayerStopProofs shows *)
Counting ==
    /\ Deq(<<>>) = 0
    /\ \A q \in Seq(Message) :
         /\ Deq(q) \in Nat
         /\ \A m \in Message :
              Deq(Append(q, m)) = IF m = "DEQUEUE" THEN Deq(q) + 1 ELSE Deq(q)
         /\ q # <<>> =>
              Deq(Tail(q)) = IF Head(q) = "DEQUEUE" THEN Deq(q) - 1 ELSE Deq(q)
         /\ /\ \A k \in DOMAIN q : q[k] = "STOP" => k = 1
            /\ \A k \in DOMAIN q : q[k] = "COMPLETE" => k = Len(q)
            => Len(q) <= Deq(q) + 2

(* No message, no buffer *)
LEMMA DeqEmpty == ASSUME Counting PROVE Deq(<<>>) = 0
  BY DEF Counting

(* A queue brings back a number of buffers *)
LEMMA DeqNat == ASSUME Counting, NEW q \in Seq(Message) PROVE Deq(q) \in Nat
  BY DEF Counting

(* A buffer more for each AUDIO_MSG_DEQUEUE *)
LEMMA DeqAppend ==
    ASSUME Counting, NEW q \in Seq(Message), NEW m \in Message
    PROVE  Deq(Append(q, m)) = IF m = "DEQUEUE" THEN Deq(q) + 1 ELSE Deq(q)
  BY DEF Counting

(* A buffer less when one is received *)
LEMMA DeqTail ==
    ASSUME Counting, NEW q \in Seq(Message), q # <<>>
    PROVE  Deq(Tail(q)) = IF Head(q) = "DEQUEUE" THEN Deq(q) - 1 ELSE Deq(q)
  BY DEF Counting

(* A queue whose other messages are its first and its last *)
LEMMA DeqLength ==
    ASSUME Counting, NEW q \in Seq(Message),
           \A k \in DOMAIN q : q[k] = "STOP" => k = 1,
           \A k \in DOMAIN q : q[k] = "COMPLETE" => k = Len(q)
    PROVE  Len(q) <= Deq(q) + 2
  BY DEF Counting

(* Where the play thread is not overtaken.  nxplayer_playinternal once it    *)
(* has opened the file, and once it has the device                           *)
InPlay ==
    \/ app.pc \in {"device", "reserve", "queue", "create"}
    \/ app.pc \in {"join", "joining"} /\ app.op = "play"
Ready == InPlay /\ app.pc \notin {"device", "reserve"}

(* A thread that has not closed the player *)
Active(t) == at[t] \notin {"none", "release", "gone"}
Rest == \A t \in Play : ~Active(t)
Runs(t) == Active(t) /\ at[t] \notin {"free", "clean"}

(* Without a thread there are no messages and nobody sends one *)
AtRest ==
    Rest => /\ queue = <<>>
            /\ mq = "open" => drv.held = 0 /\ ~drv.started /\ ~drv.ending
            /\ state # "IDLE" \/ app.pc \in {"ioctl", "assign", "send"} => mq = "closed"

(* A call of nxplayer_playfile has a device that it alone has reserved *)
Playing ==
    /\ app.pc = "open" \/ InPlay => state = "IDLE"
    /\ app.pc = "reserve" => dev_fd \in {app.n, None}
    /\ Ready => /\ Rest /\ dev_fd = app.n /\ drv.reserved = app.n
                /\ drv.held = 0 /\ ~drv.started /\ ~drv.ending
                /\ ~drv.final /\ ~drv.completed
                /\ app.pc # "queue" => mq = "open"

(* A thread that fills the pipeline: the call that created it has returned   *)
(* and no other has run since                                                *)
Priming(t) ==
    /\ app.pc = "idle" /\ dev_fd = t /\ state = "IDLE" /\ ~drv.started
    /\ th[t].outstanding <= th[t].x
    /\ th[t].failed <=> drv.ending
    /\ ~th[t].running => fd = None /\ th[t].outstanding = 0 /\ at[t] \in {"fill", "go"}
    /\ at[t] # "go" => th[t].x < NBuffers /\ ~drv.ending
    /\ at[t] = "go" => th[t].x <= NBuffers
    /\ at[t] = "start" => th[t] = Idle

(* A thread in its main loop: if the playback did not start it is ending *)
Looping(t) ==
    /\ th[t].running
    /\ drv.started <=> state # "IDLE"
    /\ ~drv.started => drv.ending
    /\ app.pc \in {"ioctl", "assign", "send"} => state # "IDLE"
    /\ at[t] = "loop" => th[t].outstanding <= NBuffers
    /\ at[t] # "loop" => th[t].outstanding < NBuffers

(* The file is closed with its last buffer *)
LastRead(t) ==
    th[t].priming \/ drv.started =>
      /\ drv.final => fd = None /\ at[t] \notin {"reading", "enqueue"}
      /\ at[t] = "enqueue" /\ th[t].last => fd = None

(* A thread owns the device and knows how many buffers it has; and there     *)
(* are none when the playback is over                                        *)
Owner(t) ==
    /\ t <= app.n /\ (InPlay => t # app.n)
    /\ mq = "open"
    /\ at[t] # "clean" => drv.reserved = t
    /\ th[t].outstanding = drv.held + Deq(queue)
    /\ drv.completed => drv.held = 0 /\ (drv.ending \/ (drv.started /\ drv.final))
    /\ at[t] \in {"free", "clean"} => th[t].outstanding = 0

Served(t) ==
    /\ ~Alive(t) => th[t] = Idle
    /\ at[t] = "release" => th[t].outstanding = 0 /\ drv.held = 0 /\ mq = "closed"
    /\ Active(t) => Owner(t)
    /\ Runs(t) => /\ at[t] \in {"start", "go"} => th[t].priming
                  /\ at[t] = "loop" => ~th[t].priming
                  /\ at[t] = "reading" => th[t].file = fd
                  /\ IF th[t].priming THEN Priming(t) ELSE Looping(t)
                  /\ LastRead(t)

(* A stop comes to an empty queue, and nothing after the end of the playback *)
Ordered ==
    /\ \A k \in DOMAIN queue : queue[k] = "STOP" => k = 1
    /\ \A k \in DOMAIN queue : queue[k] = "COMPLETE" => k = Len(queue) /\ drv.completed

PInv == AtRest /\ Playing /\ Ordered /\ \A t \in Play : Served(t)
Priority == env.sched = "priority"

(* A player that was just created *)
LEMMA InitPriority == Init => PInv
<1> SUFFICES ASSUME Init PROVE PInv
    OBVIOUS
<1>1. /\ app = [pc |-> "idle", op |-> "none", id |-> None, n |-> 0, last |-> "none"]
      /\ queue = <<>> /\ at = [t \in Play |-> "none"] /\ th = [t \in Play |-> Idle]
      /\ mq = "closed" /\ state = "IDLE"
    BY Zenon DEF Init
<1>2. app.pc = "idle"
    BY <1>1
<1>3. \A t \in Play : ~Alive(t) /\ ~Active(t) /\ th[t] = Idle /\ at[t] = "none"
    BY <1>1 DEF Alive, Active
<1> QED
    BY <1>1, <1>2, <1>3 DEF PInv, AtRest, Playing, InPlay, Ready, Ordered, Served, Runs

(* What a call that returns leaves in the state of the application *)
LEMMA ReturnFields ==
    ASSUME app \in App, Return
    PROVE  app'.pc = "idle" /\ app'.op = "none" /\ app'.n = app.n /\ app'.last = app.op
BY DEF App, Return

(* What nxplayer_stop leaves there *)
LEMMA StoppedFields ==
    ASSUME app \in App, Stopped
    PROVE  /\ app'.n = app.n
           /\ \/ app'.pc = "idle" /\ app'.last = app.op
              \/ app'.pc = "join" /\ app'.op = "release"
<1>1. CASE app.op = "quit"
    BY <1>1, Zenon DEF App, Stopped
<1>2. CASE app.op # "quit"
    BY <1>2, ReturnFields DEF Stopped
<1> QED
    BY <1>1, <1>2

(* The application runs while the thread, if there is one, waits *)
LEMMA AppRunsWaiting ==
    ASSUME Priority, AppRuns
    PROVE  \A t \in Play : Alive(t) => at[t] = "loop" /\ queue = <<>>
BY DEF Priority, AppRuns

(* The application moves, and nothing else *)
LEMMA AppOnly ==
    ASSUME Priority, AppRuns, PInv, app'.n = app.n,
           UNCHANGED state, UNCHANGED fd, UNCHANGED dev_fd, UNCHANGED mq, UNCHANGED at,
           UNCHANGED th, UNCHANGED queue, UNCHANGED drv,
           app'.pc \in {"ioctl", "assign", "send"} => state # "IDLE",
           app'.pc = "open" => state = "IDLE",
           InPlay' => InPlay, Ready' => Ready /\ app.pc # "queue",
           app'.pc = "reserve" => app.pc = "reserve"
    PROVE  PInv'
<1>1. \A t \in Play : Alive(t)' = Alive(t) /\ Active(t)' = Active(t) /\ Runs(t)' = Runs(t)
    BY DEF Alive, Active, Runs
<1>2. Rest' = Rest
    BY <1>1 DEF Rest
<1>3. AtRest'
    BY <1>2 DEF PInv, AtRest
<1>4. Playing'
    BY <1>2 DEF PInv, Playing
<1>5. Ordered'
    BY Zenon DEF PInv, Ordered
<1>6. ASSUME NEW t \in Play PROVE Served(t)'
  <2>1. Active(t) => Alive(t)
    BY Zenon DEF Alive, Active
  <2>2. Runs(t) => at[t] = "loop" /\ ~th[t].priming /\ Looping(t) /\ LastRead(t)
    BY <2>1, AppRunsWaiting DEF PInv, Served, Runs
  <2>3. Active(t) => Owner(t)'
    BY Zenon DEF PInv, Served, Owner
  <2>4. Runs(t) => Looping(t)' /\ LastRead(t)'
    BY <2>2 DEF Looping, LastRead
  <2> QED
    BY <1>1, <2>2, <2>3, <2>4 DEF PInv, Served
<1> QED
    BY <1>3, <1>4, <1>5, <1>6 DEF PInv

(* Commands, tests and joins *)
LEMMA AppMoves ==
    ASSUME Priority, IInv, PInv,
           \/ Command \/ PlayTest \/ JoinTake \/ Joined \/ StopTest \/ SwitchTest \/ AppRelease
    PROVE  PInv'
<1>0. app \in App
    BY DEF IInv, Shape
<1>1. /\ AppRuns
      /\ UNCHANGED state /\ UNCHANGED fd /\ UNCHANGED dev_fd /\ UNCHANGED mq /\ UNCHANGED at
      /\ UNCHANGED th /\ UNCHANGED queue /\ UNCHANGED drv
    BY Zenon DEF Command, Begin, PlayTest, JoinTake, Joined, StopTest, SwitchTest,
       AppRelease, At, player
<1>2. CASE Command
  <2>1. PICK op \in Op, pc \in {"play", "stop", "switch"} : Begin(op, pc)
    BY <1>2, Zenon DEF Command, Op
  <2>2. app' = [app EXCEPT !.op = op, !.pc = pc]
    BY <2>1, Zenon DEF Begin
  <2>3. app'.pc = pc /\ app'.n = app.n
    BY <1>0, <2>2 DEF App
  <2> QED
    BY <1>1, <2>3, AppOnly DEF InPlay, Ready
<1>3. CASE PlayTest
  <2>1. (state = "IDLE" /\ Goto("open")) \/ Return
    BY <1>3, Zenon DEF PlayTest
  <2>2. app'.n = app.n /\ (app'.pc = "idle" \/ (app'.pc = "open" /\ state = "IDLE"))
    BY <1>0, <2>1, ReturnFields, GotoApp DEF Place
  <2> QED
    BY <1>1, <2>2, AppOnly DEF InPlay, Ready
<1>4. CASE JoinTake
  <2>1. app.pc = "join" /\ app' = [app EXCEPT !.pc = "joining", !.id = play_id]
    BY <1>4, Zenon DEF JoinTake, At
  <2>2. app'.pc = "joining" /\ app'.op = app.op /\ app'.n = app.n
    BY <1>0, <2>1 DEF App
  <2> QED
    BY <1>1, <2>1, <2>2, AppOnly DEF InPlay, Ready
<1>5. CASE Joined
  <2>1. /\ app.pc = "joining"
        /\ \/ app.op = "play" /\ Goto("create")
           \/ app.op \in {"stop", "quit"} /\ Stopped
           \/ app.op = "release" /\ Goto("unref")
    BY <1>5, Zenon DEF Joined, At
  <2>2. /\ app'.n = app.n
        /\ \/ app.op = "play" /\ app'.pc = "create"
           \/ app'.pc = "idle"
           \/ app'.pc = "join" /\ app'.op = "release"
           \/ app'.pc = "unref"
    BY <1>0, <2>1, StoppedFields, GotoApp DEF Place
  <2> QED
    BY <1>1, <2>1, <2>2, AppOnly DEF InPlay, Ready
<1>6. CASE StopTest
  <2>1. Stopped \/ (state # "IDLE" /\ Goto("send"))
    BY <1>6, Zenon DEF StopTest
  <2>2. /\ app'.n = app.n
        /\ \/ app'.pc = "idle"
           \/ app'.pc = "join" /\ app'.op = "release"
           \/ app'.pc = "send" /\ state # "IDLE"
    BY <1>0, <2>1, StoppedFields, GotoApp DEF Place
  <2> QED
    BY <1>1, <2>2, AppOnly DEF InPlay, Ready
<1>7. CASE SwitchTest
  <2>1. (state # "IDLE" /\ Goto("ioctl")) \/ Return
    BY <1>7 DEF SwitchTest
  <2>2. app'.n = app.n /\ (app'.pc = "idle" \/ (app'.pc = "ioctl" /\ state # "IDLE"))
    BY <1>0, <2>1, ReturnFields, GotoApp DEF Place
  <2> QED
    BY <1>1, <2>2, AppOnly DEF InPlay, Ready
<1>8. CASE AppRelease
  <2>1. Goto("gone")
    BY <1>8, Zenon DEF AppRelease
  <2>2. app'.n = app.n /\ app'.pc = "gone"
    BY <1>0, <2>1, GotoApp DEF Place
  <2> QED
    BY <1>1, <2>2, AppOnly DEF InPlay, Ready
<1> QED
    BY <1>2, <1>3, <1>4, <1>5, <1>6, <1>7, <1>8

(* A thread that the application finds waits for a message *)
LEMMA FoundWaiting ==
    ASSUME Priority, AppRuns, PInv, NEW t \in Play
    PROVE  /\ at[t] # "release"
           /\ Active(t) => /\ Runs(t) /\ at[t] = "loop" /\ queue = <<>> /\ ~th[t].priming
                           /\ Owner(t) /\ Looping(t) /\ LastRead(t)
<1>1. at[t] = "release" \/ Active(t) => Alive(t)
    BY DEF Alive, Active
<1>2. at[t] # "release" /\ (Active(t) => at[t] = "loop" /\ queue = <<>>)
    BY <1>1, AppRunsWaiting
<1> QED
    BY <1>2 DEF PInv, Served, Runs

(* The application goes on, and the thread is not disturbed *)
LEMMA AppStep ==
    ASSUME Priority, AppRuns, PInv, UNCHANGED at, UNCHANGED th,
           \A t \in Play : Active(t) => Owner(t)' /\ Looping(t)' /\ LastRead(t)',
           AtRest', Playing', Ordered'
    PROVE  PInv'
<1>1. ASSUME NEW t \in Play PROVE Served(t)'
  <2>1. Alive(t)' = Alive(t) /\ Active(t)' = Active(t) /\ Runs(t)' = Runs(t)
    BY DEF Alive, Active, Runs
  <2>2. /\ at[t] # "release"
        /\ Active(t) => Runs(t) /\ at[t] = "loop" /\ ~th[t].priming
    BY FoundWaiting
  <2>3. Runs(t) => Active(t)
    BY DEF Runs
  <2> QED
    BY <2>1, <2>2, <2>3 DEF PInv, Served
<1> QED
    BY <1>1, Zenon DEF PInv

(* The same threads run *)
LEMMA SameThreads ==
    ASSUME UNCHANGED at
    PROVE  Rest' = Rest /\ \A t \in Play : Active(t)' = Active(t)
BY DEF Rest, Active

(* A file is opened *)
LEMMA PlayOpenPriority == ASSUME Priority, IInv, Typed, PInv, PlayOpen PROVE PInv'
<1>1. /\ AppRuns /\ app.pc = "open"
      /\ \/ app' = [app EXCEPT !.pc = "device", !.n = @ + 1]
         \/ Return
      /\ UNCHANGED state /\ UNCHANGED dev_fd /\ UNCHANGED mq /\ UNCHANGED at
      /\ UNCHANGED th /\ UNCHANGED queue /\ UNCHANGED drv
    BY Zenon DEF PlayOpen, At
<1>2. app \in App /\ app.n \in Nat
    BY DEF IInv, Shape, App
<1>3. \/ app'.pc = "device" /\ app'.n = app.n + 1
      \/ app'.pc = "idle" /\ app'.n = app.n
    BY <1>1, <1>2, ReturnFields, Zenon DEF App
<1>4. state = "IDLE" /\ Rest' = Rest
    BY <1>1, SameThreads DEF PInv, Playing
<1>5. ASSUME NEW t \in Play, Active(t) PROVE Owner(t)' /\ Looping(t)' /\ LastRead(t)'
  <2>1. at[t] = "loop" /\ ~th[t].priming /\ Owner(t) /\ Looping(t)
    BY <1>1, <1>5, FoundWaiting
  <2>2. t \in Nat
    BY DEF Play
  <2>3. Owner(t)'
    BY <1>1, <1>2, <1>3, <2>1, <2>2 DEF Owner, InPlay
  <2>4. Looping(t)'
    BY <1>1, <1>3, <2>1 DEF Looping
  <2>5. LastRead(t)'
    BY <1>1, <1>4, <2>1 DEF Looping, LastRead
  <2> QED
    BY <2>3, <2>4, <2>5
<1>6. AtRest'
    BY <1>1, <1>3, <1>4 DEF PInv, AtRest
<1>7. Playing'
    BY <1>1, <1>3, <1>4 DEF Playing, InPlay, Ready
<1>8. Ordered'
    BY <1>1 DEF PInv, Ordered
<1> QED
    BY <1>1, <1>5, <1>6, <1>7, <1>8, AppStep

(* The device is opened *)
LEMMA PlayDevicePriority == ASSUME Priority, IInv, Typed, PInv, PlayDevice PROVE PInv'
<1>1. /\ AppRuns /\ app.pc = "device"
      /\ (Goto("reserve") /\ dev_fd' = app.n) \/ Return
      /\ UNCHANGED state /\ UNCHANGED mq /\ UNCHANGED at
      /\ UNCHANGED th /\ UNCHANGED queue /\ UNCHANGED drv
    BY Zenon DEF PlayDevice, At
<1>2. app \in App
    BY DEF IInv, Shape
<1>3. /\ app'.n = app.n
      /\ (app'.pc = "reserve" /\ dev_fd' = app.n) \/ app'.pc = "idle"
    BY <1>1, <1>2, ReturnFields, GotoApp DEF Place
<1>4. state = "IDLE" /\ Rest' = Rest
    BY <1>1, SameThreads DEF PInv, Playing, InPlay
<1>5. ASSUME NEW t \in Play, Active(t) PROVE Owner(t)' /\ Looping(t)' /\ LastRead(t)'
  <2>1. at[t] = "loop" /\ ~th[t].priming /\ Owner(t) /\ Looping(t)
    BY <1>1, <1>5, FoundWaiting, Zenon
  <2>3. Owner(t)'
    BY <1>1, <1>3, <2>1, Zenon DEF Owner, InPlay
  <2>4. Looping(t)'
    BY <1>1, <1>3, <2>1 DEF Looping
  <2>5. LastRead(t)'
    BY <1>1, <1>4, <2>1 DEF Looping, LastRead
  <2> QED
    BY <2>3, <2>4, <2>5
<1>6. AtRest'
    BY <1>1, <1>3, <1>4 DEF PInv, AtRest
<1>7. Playing'
    BY <1>1, <1>3, <1>4 DEF Playing, InPlay, Ready
<1>8. Ordered'
    BY <1>1 DEF PInv, Ordered
<1> QED
    BY <1>1, <1>5, <1>6, <1>7, <1>8, AppStep

(* The device is reserved, or everything is closed *)
LEMMA PlayReservePriority == ASSUME Priority, IInv, Typed, PInv, PlayReserve PROVE PInv'
<1>1. /\ AppRuns /\ app.pc = "reserve"
      /\ \/ /\ dev_fd # None /\ drv.reserved = None /\ Goto("queue") /\ UNCHANGED dev_fd
            /\ drv' = [Quiet EXCEPT !.reserved = dev_fd]
         \/ Return /\ Close
      /\ UNCHANGED state /\ UNCHANGED mq /\ UNCHANGED at
      /\ UNCHANGED th /\ UNCHANGED queue
    BY Zenon DEF PlayReserve, At
<1>2. app \in App /\ drv \in Driver
    BY DEF IInv, Shape, Typed
<1>3. /\ state = "IDLE" /\ Rest' = Rest /\ dev_fd \in {app.n, None} /\ InPlay
      /\ \A t \in Play : Active(t)' = Active(t)
    BY <1>1, SameThreads DEF PInv, Playing, InPlay
<1>4. Ordered' \/ drv'.completed # drv.completed
    BY <1>1 DEF PInv, Ordered
<1>5. CASE Return /\ Close
  <2>1. app'.pc = "idle" /\ app'.n = app.n
    BY <1>2, <1>5, ReturnFields
  <2>2. /\ drv'.started = drv.started /\ drv'.ending = drv.ending
        /\ drv'.final = drv.final /\ drv'.held = drv.held
        /\ drv'.completed = drv.completed
        /\ drv'.reserved = IF drv.reserved = dev_fd THEN None ELSE drv.reserved
    BY <1>2, <1>5, CloseTyped
  <2>3. ASSUME NEW t \in Play, Active(t) PROVE Owner(t)' /\ Looping(t)' /\ LastRead(t)'
    <3>1. at[t] = "loop" /\ ~th[t].priming /\ Owner(t) /\ Looping(t)
        BY <1>1, <2>3, FoundWaiting
    <3>2. t # None
        BY DEF Play, None
    <3>3. drv.reserved = t /\ drv.reserved # dev_fd
        BY <1>3, <3>1, <3>2 DEF Owner
    <3>4. Owner(t)'
        BY <1>1, <2>1, <2>2, <3>1, <3>3 DEF Owner, InPlay
    <3>5. Looping(t)'
        BY <1>1, <2>1, <2>2, <3>1 DEF Looping
    <3>6. LastRead(t)'
        BY <1>1, <1>3, <2>2, <3>1 DEF Looping, LastRead
    <3> QED
        BY <3>4, <3>5, <3>6
  <2>4. AtRest'
    BY <1>1, <1>3, <2>1, <2>2 DEF PInv, AtRest
  <2>5. Playing'
    BY <2>1 DEF Playing, InPlay, Ready
  <2> QED
    BY <1>1, <1>4, <2>2, <2>3, <2>4, <2>5, AppStep
<1>6. CASE /\ dev_fd # None /\ drv.reserved = None /\ Goto("queue") /\ UNCHANGED dev_fd
           /\ drv' = [Quiet EXCEPT !.reserved = dev_fd]
  <2>1. app'.pc = "queue" /\ app'.n = app.n
    BY <1>2, <1>6, GotoApp DEF Place
  <2>2. /\ ~drv'.started /\ ~drv'.ending /\ ~drv'.final /\ drv'.held = 0
        /\ ~drv'.completed /\ drv'.reserved = app.n
    BY <1>3, <1>6 DEF Quiet
  <2>3. \A t \in Play : ~Active(t)
    <3>1. SUFFICES ASSUME NEW t \in Play, Active(t) PROVE FALSE
        OBVIOUS
    <3>2. at[t] = "loop" /\ Owner(t)
        BY <1>1, <3>1, FoundWaiting
    <3> QED
        BY <1>6, <3>2 DEF Owner, Play, None
  <2>4. Rest /\ queue = <<>>
    BY <2>3 DEF Rest, PInv, AtRest
  <2>5. AtRest'
    BY <1>1, <1>3, <2>1, <2>2, <2>4 DEF AtRest
  <2>6. Playing'
    BY <1>1, <1>3, <1>6, <2>1, <2>2, <2>4 DEF Playing, InPlay, Ready
  <2>7. Ordered'
    BY <1>1, <2>4 DEF Ordered
  <2> QED
    BY <1>1, <2>3, <2>5, <2>6, <2>7, AppStep
<1> QED
    BY <1>1, <1>5, <1>6

(* The queue is opened *)
LEMMA PlayQueuePriority == ASSUME Priority, IInv, Typed, PInv, PlayQueue PROVE PInv'
<1>1. /\ AppRuns /\ app.pc = "queue"
      /\ \/ /\ Goto("join") /\ mq' = "open" /\ UNCHANGED dev_fd /\ UNCHANGED drv
         \/ Return /\ Close /\ mq' = "closed"
      /\ queue' = queue \/ queue' = <<>>
      /\ UNCHANGED state /\ UNCHANGED at /\ UNCHANGED th
    BY Zenon DEF PlayQueue, At
<1>2. app \in App /\ drv \in Driver
    BY DEF IInv, Shape, Typed
<1>3. Ready /\ state = "IDLE"
    BY <1>1 DEF Ready, InPlay, PInv, Playing
<1>4. Rest /\ queue = <<>> /\ Rest' /\ \A t \in Play : ~Active(t)
    BY <1>1, <1>3, SameThreads DEF PInv, Playing, AtRest, Rest
<1>5. queue' = <<>>
    BY <1>1, <1>4
<1>6. Ordered'
    BY <1>5 DEF Ordered
<1>7. CASE Goto("join") /\ mq' = "open" /\ UNCHANGED dev_fd /\ UNCHANGED drv
  <2>1. app'.pc = "join" /\ app'.n = app.n
    BY <1>2, <1>7, GotoApp DEF Place
  <2>2. AtRest'
    BY <1>1, <1>3, <1>5, <1>7, <2>1, Zenon DEF PInv, Playing, AtRest
  <2>3. Playing'
    BY <1>1, <1>3, <1>4, <1>7, <2>1 DEF PInv, Playing, InPlay, Ready
  <2> QED
    BY <1>1, <1>4, <1>6, <2>2, <2>3, AppStep
<1>8. CASE Return /\ Close /\ mq' = "closed"
  <2>1. app'.pc = "idle" /\ app'.n = app.n
    BY <1>2, <1>8, ReturnFields
  <2>2. AtRest'
    BY <1>5, <1>8 DEF AtRest
  <2>3. Playing'
    BY <2>1 DEF Playing, InPlay, Ready
  <2> QED
    BY <1>1, <1>4, <1>6, <2>2, <2>3, AppStep
<1> QED
    BY <1>1, <1>7, <1>8

(* The thread is created; it finds the device reserved and the queue open *)
LEMMA PlayCreatePriority == ASSUME Counting, Priority, IInv, Typed, PInv, PlayCreate PROVE PInv'
<1>1. /\ AppRuns /\ app.pc = "create" /\ Return
      /\ \/ /\ at' = [at EXCEPT ![app.n] = "start"]
            /\ UNCHANGED fd /\ UNCHANGED dev_fd /\ UNCHANGED drv
         \/ Close /\ UNCHANGED at
      /\ UNCHANGED state /\ UNCHANGED mq /\ UNCHANGED th /\ UNCHANGED queue
    BY Zenon DEF PlayCreate, At
<1>2. app \in App /\ drv \in Driver /\ at \in [Play -> Spot] /\ app.n \in Play
    BY <1>1 DEF IInv, Shape, Typed, Numbered
<1>3. app'.pc = "idle" /\ app'.n = app.n
    BY <1>1, <1>2, ReturnFields
<1>4. Ready /\ state = "IDLE"
    BY <1>1 DEF Ready, InPlay, PInv, Playing
<1>5. /\ Rest /\ queue = <<>> /\ mq = "open" /\ dev_fd = app.n /\ drv.reserved = app.n
      /\ drv.held = 0 /\ ~drv.started /\ ~drv.ending /\ ~drv.final /\ ~drv.completed
    BY <1>1, <1>4 DEF PInv, Playing, AtRest
<1>6. Playing'
    BY <1>3 DEF Playing, InPlay, Ready
<1>7. Ordered'
    BY <1>1, <1>5 DEF Ordered
<1>8. CASE Close /\ UNCHANGED at
  <2>1. /\ drv'.started = drv.started /\ drv'.ending = drv.ending
        /\ drv'.held = drv.held
    BY <1>2, <1>8, CloseTyped
  <2>2. AtRest'
    BY <1>1, <1>3, <1>4, <1>5, <2>1 DEF AtRest
  <2> QED
    BY <1>1, <1>5, <1>6, <1>7, <1>8, <2>2, AppStep DEF Rest
<1>9. CASE /\ at' = [at EXCEPT ![app.n] = "start"]
           /\ UNCHANGED fd /\ UNCHANGED dev_fd /\ UNCHANGED drv
  <2>1. at'[app.n] = "start" /\ \A t \in Play \ {app.n} : at'[t] = at[t]
    BY <1>2, <1>9
  <2>2. ~Rest'
    BY <1>2, <2>1 DEF Rest, Active
  <2>3. AtRest'
    BY <2>2 DEF AtRest
  <2>4. \A t \in Play : ~Alive(t) /\ th[t] = Idle
    <3>1. SUFFICES ASSUME NEW t \in Play PROVE ~Alive(t) /\ th[t] = Idle
        BY Zenon
    <3>2. at[t] # "release" /\ ~Active(t)
        BY <1>1, <1>5, FoundWaiting DEF Rest
    <3> QED
        BY <3>2 DEF Alive, Active, PInv, Served
  <2>5. PICK n \in Play : n = app.n
    BY <1>2, Zenon
  <2>6. ASSUME NEW t \in Play \ {n} PROVE Served(t)'
    BY <1>1, <2>1, <2>4, <2>5, <2>6, Zenon DEF Served, Alive, Active, Runs
  <2>7. at'[n] = "start" /\ th'[n] = Idle
    BY <1>1, <2>1, <2>4, <2>5, Zenon
  <2>8. Owner(n)'
    <3>1. Deq(queue)' = 0
        BY <1>1, <1>5, DeqEmpty, Zenon
    <3>2. th'[n].outstanding = 0
        BY <2>7 DEF Idle
    <3>3. n <= app'.n /\ ~InPlay'
        BY <1>2, <1>3, <2>5 DEF InPlay, Play
    <3> QED
        BY <1>1, <1>3, <1>5, <1>9, <2>5, <2>7, <3>1, <3>2, <3>3 DEF Owner
  <2>9. Priming(n)'
    BY <1>1, <1>3, <1>4, <1>5, <1>9, <2>5, <2>7, NxPlayerConfig DEF Priming, Idle
  <2>10. LastRead(n)'
    BY <1>5, <1>9, <2>7, Zenon DEF LastRead
  <2>11. Served(n)'
    <3>1. Alive(n)' /\ th'[n].priming /\ at'[n] \notin {"release", "loop", "reading"}
        BY <2>7 DEF Alive, Active, Idle
    <3> QED
        BY <2>7, <2>8, <2>9, <2>10, <3>1, Zenon DEF Served
  <2>12. ASSUME NEW t \in Play PROVE Served(t)'
    BY <2>6, <2>11
  <2> QED
    BY <1>6, <1>7, <2>3, <2>12 DEF PInv
<1> QED
    BY <1>1, <1>8, <1>9

(* A stop is sent to a thread that waits, or to nobody *)
LEMMA StopSendPriority == ASSUME Counting, Priority, IInv, Typed, PInv, StopSend PROVE PInv'
<1>1. /\ AppRuns /\ app.pc = "send" /\ Goto("join")
      /\ queue' = IF mq = "open" THEN Append(queue, "STOP") ELSE queue
      /\ UNCHANGED state /\ UNCHANGED mq /\ UNCHANGED th /\ UNCHANGED drv /\ UNCHANGED at
      /\ UNCHANGED fd /\ UNCHANGED dev_fd
    BY Zenon DEF StopSend, At, player
<1>2. app \in App /\ queue \in Seq(Message)
    BY DEF IInv, Shape, Typed
<1>3. app'.pc = "join" /\ app'.n = app.n /\ app'.op = app.op /\ app.op # "play"
    BY <1>1, <1>2, GotoApp DEF Place, IInv, Numbered
<1>4. ~InPlay' /\ ~Ready'
    BY <1>3 DEF InPlay, Ready
<1>5. Rest' = Rest
    BY <1>1, SameThreads
<1>6. Rest => mq = "closed"
    BY <1>1 DEF PInv, AtRest
<1>7. AtRest'
    BY <1>1, <1>3, <1>5, <1>6 DEF PInv, AtRest
<1>8. Playing'
    BY <1>3, <1>4 DEF Playing
<1>9. mq = "open" => queue = <<>>
    BY <1>1, <1>6, FoundWaiting DEF Rest
<1>10. Ordered'
  <2>1. CASE mq = "open"
    <3>1. queue' = <<"STOP">>
        BY <1>1, <1>9, <2>1
    <3> QED
        BY <3>1 DEF Ordered
  <2>2. CASE mq # "open"
    BY <1>1, <2>2 DEF PInv, Ordered
  <2> QED
    BY <2>1, <2>2
<1>11. ASSUME NEW t \in Play, Active(t) PROVE Owner(t)' /\ Looping(t)' /\ LastRead(t)'
  <2>1. at[t] = "loop" /\ ~th[t].priming /\ Owner(t) /\ Looping(t) /\ LastRead(t)
    BY <1>1, <1>11, FoundWaiting
  <2>2. "STOP" \in Message /\ "STOP" # "DEQUEUE"
    BY DEF Message
  <2>3. Deq(queue)' = Deq(queue)
    BY <1>1, <1>2, <2>2, DeqAppend, Zenon
  <2>4. Owner(t)'
    BY <1>1, <1>3, <1>4, <2>1, <2>3, Zenon DEF Owner
  <2>5. Looping(t)'
    BY <1>1, <1>3, <2>1, Zenon DEF Looping
  <2>6. LastRead(t)'
    BY <1>1, <2>1 DEF LastRead
  <2> QED
    BY <2>4, <2>5, <2>6, Zenon
<1> QED
    BY <1>1, <1>7, <1>8, <1>10, <1>11, AppStep
=============================================================================
