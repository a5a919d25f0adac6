----------------------------- MODULE WheelsProofs -----------------------------
(***************************************************************************)
(* Proofs about the wheels of one robot, for any timers and any sequence   *)
(* of keys, readings, orders and parameters.                               *)
(***************************************************************************)
EXTENDS Wheels, LineSensorProofs, TLAPS

\* While the line follower drives, the line was last seen no longer before the last
\* command than line_search_timeout.
Searched(s) == s.wheels = "Line" => s.lost =< SearchTimeout + s.command

\* What every callback keeps of the robot.
Sound(s) == s \in Robot /\ Owned(s) /\ Searched(s)

\* A robot that moves unheld, on a command no older than the bound.
Heeding(s, bound) == s.wheels # "Still" /\ ~ s.hold => s.command =< bound

\* The inductive invariant: the three properties need each other.
IInv ==
  /\ Sound(robot)
  /\ timed \in BOOLEAN
  /\ SilentSourceStops

-----------------------------------------------------------------------------
(* What the methods keep. *)

\* The values the methods assign are in their ranges.
LEMMA Ranges ==
  /\ 0 \in 0 .. CmdCap /\ CmdCap \in 0 .. CmdCap
  /\ Seen \in Seen .. LostCap /\ 0 \in Seen .. LostCap
  /\ 0 \in 0 .. TurnDeadline /\ TurnDeadline \in 0 .. TurnDeadline
  /\ 0 \in 0 .. SyncPause /\ SyncPause \in 0 .. SyncPause
  BY TimesAssumption DEF CmdCap, LostCap, Seen

\* The members two robots share when only the wheels are driven differently.
SameBut(s, t) ==
  /\ t.running = s.running /\ t.pause = s.pause /\ t.hold = s.hold
  /\ t.follow = s.follow /\ t.turn = s.turn /\ t.teleop = s.teleop

\* stop() changes the wheels and nothing else.
LEMMA StopShape ==
  ASSUME NEW s \in Robot
  PROVE  /\ Stop(s) \in Robot /\ Stop(s).wheels = "Still" /\ SameBut(s, Stop(s))
         /\ Stop(s).command = s.command /\ Stop(s).lost = s.lost
  BY DEF Stop, Robot, Wheel, SameBut

\* drive() with a fresh command changes the wheels and the command's age.
LEMMA DriveByShape ==
  ASSUME NEW s \in Robot, NEW w \in Wheel
  PROVE  /\ DriveBy(s, w) \in Robot /\ DriveBy(s, w).wheels = w
         /\ SameBut(s, DriveBy(s, w))
         /\ DriveBy(s, w).command = 0 /\ DriveBy(s, w).lost = s.lost
  BY Ranges DEF DriveBy, Robot, SameBut

\* Forgetting the line changes what follow_line() remembers and nothing else.
LEMMA ForgetLineShape ==
  ASSUME NEW s \in Robot
  PROVE  /\ ForgetLine(s) \in Robot /\ ForgetLine(s).wheels = s.wheels
         /\ SameBut(s, ForgetLine(s))
         /\ ForgetLine(s).command = s.command /\ ForgetLine(s).lost = Seen
  BY Ranges DEF ForgetLine, Robot, SameBut

\* finish_turn() stops the robot, the spin over and the line forgotten.
LEMMA FinishTurnShape ==
  ASSUME NEW s \in Robot
  PROVE  /\ FinishTurn(s) \in Robot /\ FinishTurn(s).wheels = "Still"
         /\ FinishTurn(s).turn = 0
         /\ FinishTurn(s).running = s.running /\ FinishTurn(s).pause = s.pause
         /\ FinishTurn(s).hold = s.hold /\ FinishTurn(s).command = s.command
<1> DEFINE t == [s EXCEPT !.turn = 0]
<1>1. /\ t \in Robot /\ t.turn = 0 /\ t.running = s.running
      /\ t.pause = s.pause /\ t.hold = s.hold /\ t.command = s.command
  BY Ranges DEF Robot
<1>2. FinishTurn(s) = ForgetLine(Stop(t))
  BY DEF FinishTurn
<1> HIDE DEF t
<1> QED
  BY <1>1, <1>2, StopShape, ForgetLineShape DEF SameBut

\* cancel_turn() ends a spin that is on, and keeps everything else.
LEMMA CancelTurnShape ==
  ASSUME NEW s \in Robot
  PROVE  /\ CancelTurn(s) \in Robot /\ CancelTurn(s).turn = 0
         /\ CancelTurn(s).running = s.running /\ CancelTurn(s).pause = s.pause
         /\ CancelTurn(s).hold = s.hold
<1>1. CASE Turning(s)
  BY <1>1, FinishTurnShape DEF CancelTurn
<1>2. CASE ~ Turning(s)
  BY <1>2, TimesAssumption DEF CancelTurn, Turning, Robot
<1> QED
  BY <1>1, <1>2

\* A robot that stands still without a spin is sound when it is held as it should be.
LEMMA StillSound ==
  ASSUME NEW s \in Robot, s.wheels = "Still", s.turn = 0,
         s.pause # "None" => s.hold /\ s.running
  PROVE  Sound(s)
  BY DEF Sound, Owned, Searched, Busy, Turning

\* stop() leaves a robot that does not spin sound.
LEMMA StopSound ==
  ASSUME NEW s \in Robot, Owned(s), ~ Turning(s)
  PROVE  Sound(Stop(s)) /\ Stop(s).wheels = "Still"
<1>1. s.turn = 0
  BY TimesAssumption DEF Robot, Turning
<1> QED
  BY <1>1, StopShape, StillSound DEF SameBut, Owned, Busy

\* The end of a spin leaves a robot that is held, still and sound.
LEMMA FinishTurnSound ==
  ASSUME NEW s, Sound(s)
  PROVE  Sound(FinishTurn(s)) /\ FinishTurn(s).wheels = "Still"
         /\ FinishTurn(s).turn = 0 /\ FinishTurn(s).hold = s.hold
         /\ FinishTurn(s).running = s.running
  BY FinishTurnShape, StillSound DEF Sound, Owned, Busy

\* A spinning robot is sound if the convoy runs and holds it.
LEMMA SpinSound ==
  ASSUME NEW s \in Robot, s.wheels = "Spin", s.turn > 0, s.hold, s.running
  PROVE  Sound(s) /\ Turning(s)
  BY DEF Sound, Owned, Searched, Busy, Turning

\* The start of a spin leaves a sound robot, if the convoy holds it.
LEMMA StartTurnSound ==
  ASSUME NEW s \in Robot, s.hold, s.running
  PROVE  Sound(StartTurn(s)) /\ Turning(StartTurn(s)) /\ StartTurn(s).pause = s.pause
<1> DEFINE t == [s EXCEPT !.turn = TurnDeadline, !.away = FALSE, !.half = FALSE]
<1>1. /\ t \in Robot /\ t.turn = TurnDeadline
      /\ t.hold /\ t.running /\ t.pause = s.pause
  BY Ranges DEF Robot
<1>2. StartTurn(s) = DriveBy(t, "Spin")
  BY DEF StartTurn
<1> HIDE DEF t
<1> QED
  BY <1>1, <1>2, DriveByShape, SpinSound, TimesAssumption DEF Wheel, SameBut

\* step_turn() keeps a spinning robot sound, and held.
LEMMA StepTurnSound ==
  ASSUME NEW s, Sound(s), Turning(s), NEW t \in StepTurn(s)
  PROVE  Sound(t) /\ t.hold
<1>1. CASE t = FinishTurn(s)
  BY <1>1, FinishTurnSound DEF Sound, Owned, Busy
<1>2. ASSUME NEW u \in Robot, SameBut(s, u), t = DriveBy(u, "Spin")
      PROVE  Sound(t) /\ t.hold
  <2>1. u.turn > 0 /\ u.hold /\ u.running
    BY <1>2 DEF SameBut, Sound, Owned, Busy, Turning
  <2> QED
    BY <1>2, <2>1, DriveByShape, SpinSound DEF Wheel, SameBut
<1>3. CASE \E h \in BOOLEAN : t = DriveBy([s EXCEPT !.half = h], "Spin")
  <2>1. PICK h \in BOOLEAN : t = DriveBy([s EXCEPT !.half = h], "Spin")
    BY <1>3
  <2>2. [s EXCEPT !.half = h] \in Robot /\ SameBut(s, [s EXCEPT !.half = h])
    BY DEF Sound, Robot, SameBut
  <2> QED
    BY <1>2, <2>1, <2>2
<1>4. CASE t = DriveBy(s, "Spin")
  BY <1>2, <1>4 DEF Sound, SameBut
<1> QED
  BY <1>1, <1>3, <1>4 DEF StepTurn

\* The watchdog keeps a robot sound and stops one that moves unheld on an old command.
LEMMA WatchdogSound ==
  ASSUME NEW s, Sound(s), ~ Turning(s)
  PROVE  Sound(Watchdog(s)) /\ Heeding(Watchdog(s), CmdTimeout)
<1>1. s.command \in Nat /\ CmdTimeout \in Nat
  BY TimesAssumption DEF Sound, Robot, CmdCap
<1>2. CASE s.wheels # "Still" /\ ~ s.hold /\ s.command > CmdTimeout
  BY <1>2, StopSound DEF Watchdog, Sound, Heeding
<1>3. CASE ~ (s.wheels # "Still" /\ ~ s.hold /\ s.command > CmdTimeout)
  BY <1>1, <1>3 DEF Watchdog, Heeding
<1> QED
  BY <1>2, <1>3

\* tick() while waiting for START.
LEMMA WaitSound ==
  ASSUME NEW s, Sound(s), ~ s.running
  PROVE  Sound(Wait(s))
<1> DEFINE held == [s EXCEPT !.hold = TRUE]
<1>1. held \in Robot /\ ~ Turning(held)
  BY DEF Sound, Robot, Owned, Busy, Turning
<1>2. CASE TeleopRecent(s)
  BY <1>2 DEF Wait, Sound, Robot, Owned, Searched, Busy, Turning, TeleopRecent
<1>3. CASE ~ TeleopRecent(s)
  BY <1>3
  DEF Wait, Stop, Sound, Robot, Wheel, Owned, Searched, Busy, Turning, TeleopRecent
<1> QED
  BY <1>2, <1>3

\* apply_motion() of a robot that neither pauses nor spins.
LEMMA ApplyMotionSound ==
  ASSUME NEW s, Sound(s), ~ Busy(s)
  PROVE  Sound(ApplyMotion(s))
  BY DEF ApplyMotion, Stop, Sound, Robot, Wheel, Owned, Searched, Busy, Turning,
         TeleopRecent

\* finish_sync() ends the pause, in a spin or not.
LEMMA FinishPauseSound ==
  ASSUME NEW s, Sound(s), s.running, s.pause # "None"
  PROVE  Sound(FinishPause(s)) /\ FinishPause(s).pause = "None"
<1> DEFINE done == [s EXCEPT !.pause = "None"]
<1>1. s.hold /\ s.wheels # "Line"
  BY DEF Sound, Owned, Busy
<1>2. Sound(done) /\ done.pause = "None"
  BY <1>1 DEF Sound, Robot, Owned, Searched, Busy, Turning, TeleopRecent
<1>3. CASE s.pause = "Speed"
  BY <1>1, <1>3
  DEF FinishPause, Sound, Robot, Owned, Searched, Busy, Turning, TeleopRecent
<1>4. CASE s.pause # "Speed" /\ HandoverTurn
  <2> DEFINE t == [done EXCEPT !.hold = TRUE]
  <2>1. t \in Robot /\ t.hold /\ t.running /\ t.pause = "None"
    BY DEF Sound, Robot
  <2>2. FinishPause(s) = StartTurn(t)
    BY <1>4 DEF FinishPause
  <2> HIDE DEF t
  <2> QED
    BY <2>1, <2>2, StartTurnSound
<1>5. CASE s.pause # "Speed" /\ ~ HandoverTurn
  BY <1>2, <1>5 DEF FinishPause
<1> QED
  BY <1>3, <1>4, <1>5

\* tick(), whatever the robot is at.
LEMMA TickSound ==
  ASSUME NEW s, Sound(s)
  PROVE  Sound(Tick(s))
<1>1. CASE ~ s.enabled
  BY <1>1 DEF Tick
<1>2. CASE s.enabled /\ ~ s.running
  BY <1>2, WaitSound DEF Tick
<1>3. CASE s.enabled /\ s.running
  <2>1. CASE s.pause # "None" /\ s.left > 0
    BY <1>3, <2>1 DEF Tick, Advance
  <2>2. CASE ~ (s.pause # "None" /\ s.left > 0)
    <3> DEFINE t == IF s.pause = "None" THEN s ELSE FinishPause(s)
    <3>1. Sound(t) /\ t.pause = "None"
      BY <1>3, FinishPauseSound
    <3>2. Tick(s) = IF Turning(t) THEN t ELSE ApplyMotion(t)
      BY <1>3, <2>2 DEF Tick, Advance
    <3> HIDE DEF t
    <3> QED
      BY <3>1, <3>2, ApplyMotionSound DEF Busy
  <2> QED
    BY <2>1, <2>2
<1> QED
  BY <1>1, <1>2, <1>3

\* What the sensor may show is of the type the node looks at.
LEMMA ReadingsTyped == Readings \subseteq Reading
<1> SUFFICES ASSUME NEW picture \in Picture
             PROVE  ReadingOf(EstimateLine(picture)) \in Reading
  BY DEF Readings
<1> DEFINE e == EstimateLine(picture)
<1>1. e.lost \in 0 .. 2
  <2>1. CASE Dark(picture) = 0 .. Count - 1
    BY <2>1 DEF EstimateLine
  <2>2. CASE Dark(picture) # 0 .. Count - 1 /\ Dark(picture) = {}
    BY <2>2 DEF EstimateLine
  <2>3. CASE Dark(picture) # 0 .. Count - 1 /\ Dark(picture) # {}
    BY <2>3 DEF EstimateLine
  <2> QED
    BY <2>1, <2>2, <2>3
<1> DEFINE middle == 10 * e.num > 4 * e.den /\ 10 * e.num < 6 * e.den
           exact  == 2 * e.num = e.den
<1>2. ReadingOf(e) = [lost |-> e.lost, middle |-> middle, exact |-> exact]
  BY DEF ReadingOf
<1>3. middle \in BOOLEAN /\ exact \in BOOLEAN
  OBVIOUS
<1> HIDE DEF middle, exact
<1>4. [lost |-> e.lost, middle |-> middle, exact |-> exact] \in Reading
  <2> DEFINE lost == e.lost
  <2>1. lost \in 0 .. 2
    BY <1>1
  <2> HIDE DEF lost
  <2> QED
    BY <2>1, <1>3 DEF Reading, lost
<1> QED
  BY <1>2, <1>4

\* A reading in the middle of a spin ends it or leaves it.
LEMMA CheckTurnLineSound ==
  ASSUME NEW s, Sound(s), NEW seen \in Reading
  PROVE  /\ Sound(CheckTurnLine(s, seen))
         /\ Turning(s) => CheckTurnLine(s, seen).hold
<1>1. CASE seen.lost # 0
  BY <1>1
  DEF CheckTurnLine, Sound, Robot, Owned, Searched, Busy, Turning, TeleopRecent
<1>2. CASE seen.lost = 0
  BY <1>2, FinishTurnSound DEF CheckTurnLine, Sound, Owned, Busy
<1> QED
  BY <1>1, <1>2

\* A reading of a robot free to follow the line leaves it driving on a fresh command, or
\* still.
LEMMA FollowLineSound ==
  ASSUME NEW s, Sound(s), ~ Turning(s), ~ TeleopRecent(s), s.follow, ~ s.hold,
         NEW seen \in Reading, NEW t, t = FollowLine(s, seen)
  PROVE  Sound(t) /\ Heeding(t, 0)
<1>0. ~ Busy(s)
  BY DEF Sound, Owned
<1>1. ASSUME NEW u \in Robot, SameBut(s, u), t = DriveBy(u, "Line"),
             u.lost =< SearchTimeout
      PROVE  Sound(t) /\ Heeding(t, 0)
  <2>1. /\ t \in Robot /\ t.wheels = "Line" /\ t.command = 0 /\ t.lost = u.lost
        /\ SameBut(u, t)
    BY <1>1, DriveByShape DEF Wheel
  <2>2. SameBut(s, t)
    BY <1>1, <2>1 DEF SameBut
  <2>3. Owned(t)
    BY <1>0, <2>1, <2>2 DEF Owned, SameBut, Busy, Turning, TeleopRecent
  <2> QED
    BY <1>1, <2>1, <2>3, TimesAssumption DEF Sound, Searched, Heeding
<1>2. CASE seen.lost = 2
  <2> DEFINE since == [s EXCEPT !.lost = IF @ = Seen THEN 0 ELSE @]
  <2>1. since \in Robot /\ SameBut(s, since)
    BY Ranges DEF Sound, Robot, SameBut
  <2>2. t = IF ~ s.astray \/ since.lost > SearchTimeout
            THEN Stop(since) ELSE DriveBy(since, "Line")
    BY <1>2 DEF FollowLine, SearchLine
  <2>3. since.lost \in Int
    BY <2>1 DEF Robot, Seen
  <2> HIDE DEF since
  <2>4. CASE ~ s.astray \/ since.lost > SearchTimeout
    <3>1. ~ Busy(since) /\ since.turn = 0
      BY <1>0, <2>1, TimesAssumption DEF SameBut, Busy, Turning, Robot
    <3> QED
      BY <2>1, <2>2, <2>4, <3>1, StopShape, StillSound DEF SameBut, Busy, Heeding
  <2>5. CASE ~ (~ s.astray \/ since.lost > SearchTimeout)
    BY <1>1, <2>1, <2>2, <2>3, <2>5, TimesAssumption
  <2> QED
    BY <2>4, <2>5
<1>3. CASE seen.lost # 2
  <2> DEFINE u == [s EXCEPT !.astray = ~ seen.exact, !.lost = Seen]
  <2>1. t = DriveBy(u, "Line")
    BY <1>3 DEF FollowLine
  <2>2. u \in Robot /\ SameBut(s, u) /\ u.lost = Seen
    BY Ranges DEF Sound, Robot, SameBut, Reading
  <2> HIDE DEF u
  <2>3. u.lost =< SearchTimeout
    BY <2>2, TimesAssumption DEF Seen
  <2> QED
    BY <1>1, <2>1, <2>2, <2>3 DEF u
<1> QED
  BY <1>2, <1>3

-----------------------------------------------------------------------------
(* What the callbacks keep. *)

\* on_timer(): tick(), then the spin or the watchdog.
LEMMA OnTimerSound ==
  ASSUME IInv, OnTimer
  PROVE  IInv'
<1> DEFINE s == Tick(robot)
<1>1. Sound(s)
  BY TickSound DEF IInv
<1>2. robot' \in IF Turning(s) THEN StepTurn(s) ELSE {Watchdog(s)}
  BY DEF OnTimer
<1>3. timed' = TRUE
  BY DEF OnTimer
<1> HIDE DEF s
<1>4. Sound(robot') /\ Heeding(robot', CmdTimeout)
  <2>1. CASE Turning(s)
    BY <1>1, <1>2, <2>1, StepTurnSound DEF Heeding
  <2>2. CASE ~ Turning(s)
    BY <1>1, <1>2, <2>2, WatchdogSound
  <2> QED
    BY <2>1, <2>2
<1> QED
  BY <1>3, <1>4, TimesAssumption
  DEF IInv, Sound, Owned, Searched, Busy, Turning, TeleopRecent, SilentSourceStops, Heeding

\* A key press.
LEMMA OnCmdVelSound ==
  ASSUME IInv, OnCmdVel
  PROVE  IInv'
<1>1. PICK w \in {"Key", "Still"} :
        robot' = DriveBy([robot EXCEPT !.teleop = 0, !.turn = 0], w)
  BY DEF OnCmdVel
<1>2. timed' = timed
  BY DEF OnCmdVel
<1> DEFINE s == [robot EXCEPT !.teleop = 0, !.turn = 0]
<1>3. Sound(robot') /\ robot'.command = 0
  <2>1. /\ s \in Robot /\ s.turn = 0 /\ s.pause = robot.pause
        /\ s.hold = robot.hold /\ s.running = robot.running
    BY Ranges DEF IInv, Sound, Robot
  <2>2. robot' = DriveBy(s, w)
    BY <1>1
  <2> HIDE DEF s
  <2>3. /\ robot' \in Robot /\ robot'.wheels = w /\ robot'.command = 0
        /\ SameBut(s, robot')
    BY <2>1, <2>2, DriveByShape DEF Wheel
  <2>4. Owned(robot')
    BY <2>1, <2>3 DEF IInv, Sound, Owned, Busy, Turning, SameBut
  <2> QED
    BY <2>3, <2>4 DEF Sound, Searched
<1> QED
  BY <1>2, <1>3, TimesAssumption
  DEF IInv, Sound, Owned, Searched, Busy, Turning, TeleopRecent, SilentSourceStops

\* A sound step that leaves the wheels held, still or on a fresh or unchanged command
\* keeps the invariant.
LEMMA StepSound ==
  ASSUME IInv, timed' = timed, Sound(robot'),
         \/ robot'.hold
         \/ robot'.wheels = "Still"
         \/ robot'.command =< 0
         \/ /\ robot'.wheels = robot.wheels
            /\ robot'.hold = robot.hold /\ robot'.command = robot.command
  PROVE  IInv'
<1>1. SilentSourceStops'
  BY TimesAssumption DEF IInv, SilentSourceStops, Sound, Robot, CmdCap
<1> QED
  BY <1>1 DEF IInv, Sound, Owned, Searched, Busy, Turning, TeleopRecent

\* A line reading.
LEMMA OnLineSound ==
  ASSUME IInv, OnLineTurning \/ OnLineDriving
  PROVE  IInv'
<1>1. timed' = timed
  BY DEF OnLineTurning, OnLineDriving, SensorRead
<1>2. CASE OnLineTurning
  <2>1. PICK seen \in Reading : robot' = CheckTurnLine(robot, seen)
    BY <1>2, ReadingsTyped DEF OnLineTurning
  <2> QED
    BY <1>1, <1>2, <2>1, CheckTurnLineSound, StepSound DEF OnLineTurning, IInv
<1>3. CASE OnLineDriving
  <2>1. PICK seen \in Reading : robot' = FollowLine(robot, seen)
    BY <1>3, ReadingsTyped DEF OnLineDriving
  <2>2. Sound(robot') /\ Heeding(robot', 0)
    BY <1>3, <2>1, FollowLineSound DEF OnLineDriving, SensorRead, IInv
  <2> QED
    BY <1>1, <2>2, StepSound DEF Heeding
<1> QED
  BY <1>2, <1>3

\* The convoy's orders.
LEMMA OrdersSound ==
  ASSUME IInv, OrderPause \/ OrderStop
  PROVE  IInv'
<1>1. timed' = timed /\ Sound(robot)
  BY DEF OrderPause, OrderStop, IInv
<1>2. CASE OrderPause
  <2>1. PICK kind \in {"Speed", "Handover"} : robot' = BeginPause(robot, kind)
    BY <1>2 DEF OrderPause
  <2> DEFINE s == [robot EXCEPT !.pause = kind, !.left = SyncPause, !.hold = TRUE]
  <2>2. s \in Robot /\ s.hold /\ s.running = robot.running /\ s.turn = robot.turn
    BY <1>1, Ranges DEF Sound, Robot
  <2>3. robot.running /\ robot.turn = 0
    BY <1>1, <1>2, TimesAssumption DEF OrderPause, Busy, Turning, Sound, Robot
  <2>4. robot' = Stop(s)
    BY <2>1 DEF BeginPause
  <2> HIDE DEF s
  <2>5. Sound(robot') /\ robot'.hold
    BY <2>2, <2>3, <2>4, StopShape, StillSound DEF SameBut
  <2> QED
    BY <1>1, <2>5, StepSound
<1>3. CASE OrderStop
  <2> DEFINE s == CancelTurn(robot)
  <2>1. /\ Sound(s) /\ ~ Turning(s) /\ s.running = robot.running /\ s.hold = robot.hold
        /\ s.wheels = "Still" \/ s = robot
    BY <1>1, FinishTurnSound DEF CancelTurn, Turning
  <2>2. robot' = [s EXCEPT !.pause = "None", !.stopping = TRUE]
    BY <1>3 DEF OrderStop
  <2> HIDE DEF s
  <2>3. /\ Sound(robot')
        /\ robot'.hold = s.hold /\ robot'.wheels = s.wheels
        /\ robot'.command = s.command
    BY <2>1, <2>2 DEF Sound, Robot, Owned, Searched, Busy, Turning, TeleopRecent
  <2> QED
    BY <1>1, <2>1, <2>3, StepSound
<1> QED
  BY <1>2, <1>3

\* START and STOP on /convoy/run.
LEMMA RunSound ==
  ASSUME IInv, RunStart \/ RunStop
  PROVE  IInv'
<1>1. timed' = timed /\ Sound(robot)
  BY DEF RunStart, RunStop, IInv
<1>2. CASE RunStart
  <2>1. PICK stopping \in BOOLEAN :
          robot' = [robot EXCEPT !.running = TRUE, !.stopping = stopping]
    BY <1>1, <1>2 DEF RunStart, Sound, Robot
  <2>2. /\ Sound(robot') /\ robot'.wheels = robot.wheels
        /\ robot'.hold = robot.hold /\ robot'.command = robot.command
    BY <1>1, <1>2, <2>1
    DEF RunStart, Sound, Robot, Owned, Searched, Busy, Turning, TeleopRecent
  <2> QED
    BY <1>1, <2>2, StepSound
<1>3. CASE RunStop
  <2> DEFINE s == [robot EXCEPT !.running = FALSE, !.hold = TRUE, !.pause = "None"]
             t == CancelTurn(s)
  <2>1. s \in Robot /\ s.hold /\ ~ s.running /\ s.pause = "None"
    BY <1>1 DEF Sound, Robot
  <2>3. robot' = Stop(t)
    BY <1>3 DEF RunStop
  <2> HIDE DEF s
  <2>2. t \in Robot /\ t.hold /\ t.pause = "None" /\ t.turn = 0
    BY <2>1, CancelTurnShape
  <2> HIDE DEF t
  <2>4. Sound(robot') /\ robot'.hold
    BY <2>2, <2>3, StopShape, StillSound DEF SameBut
  <2> QED
    BY <1>1, <2>4, StepSound
<1> QED
  BY <1>2, <1>3

\* The parameters.
LEMMA SettingsSound ==
  ASSUME IInv, SetEnable \/ SetLineFollow
  PROVE  IInv'
<1>1. timed' = timed /\ Sound(robot)
  BY DEF SetEnable, SetLineFollow, IInv
<1>2. CASE SetEnable
  <2>1. PICK enable \in BOOLEAN : robot' = [robot EXCEPT !.enabled = enable]
    BY <1>2 DEF SetEnable
  <2>2. /\ Sound(robot') /\ robot'.wheels = robot.wheels
        /\ robot'.hold = robot.hold /\ robot'.command = robot.command
    BY <1>1, <2>1 DEF Sound, Robot, Owned, Searched, Busy, Turning, TeleopRecent
  <2> QED
    BY <1>1, <2>2, StepSound
<1>3. CASE SetLineFollow
  <2>1. PICK follow \in BOOLEAN :
          LET s == ForgetLine([robot EXCEPT !.follow = follow]) IN
          robot' = IF follow THEN s ELSE Stop(CancelTurn(s))
    BY <1>3 DEF SetLineFollow
  <2> DEFINE s == ForgetLine([robot EXCEPT !.follow = follow])
  <2>2. /\ s \in Robot /\ s.follow = follow /\ s.lost = Seen
        /\ s.wheels = robot.wheels /\ s.hold = robot.hold /\ s.command = robot.command
        /\ s.pause = robot.pause /\ s.turn = robot.turn
        /\ s.running = robot.running /\ s.teleop = robot.teleop
    <3> DEFINE u == [robot EXCEPT !.follow = follow]
    <3>1. /\ u \in Robot /\ u.follow = follow
          /\ u.wheels = robot.wheels /\ u.hold = robot.hold
          /\ u.command = robot.command /\ u.pause = robot.pause
          /\ u.turn = robot.turn /\ u.running = robot.running
          /\ u.teleop = robot.teleop
      BY <1>1 DEF Sound, Robot
    <3> HIDE DEF u
    <3> QED
      BY <3>1, ForgetLineShape DEF SameBut, u
  <2>3. CASE follow
    <3>1. robot' = s
      BY <2>1, <2>3
    <3> HIDE DEF s
    <3>2. Owned(robot')
      BY <1>1, <2>2, <2>3, <3>1 DEF Sound, Owned, Busy, Turning, TeleopRecent
    <3>3. Searched(robot')
      <4>1. s.command \in Nat
        BY <2>2, TimesAssumption DEF Robot, CmdCap
      <4> QED
        BY <2>2, <3>1, <4>1, TimesAssumption DEF Searched, Seen
    <3> QED
      BY <1>1, <2>2, <3>1, <3>2, <3>3, StepSound DEF Sound
  <2>4. CASE ~ follow
    <3>1. robot' = Stop(CancelTurn(s))
      BY <2>1, <2>4
    <3> HIDE DEF s
    <3>2. Sound(robot') /\ robot'.wheels = "Still"
      BY <1>1, <2>2, <3>1, CancelTurnShape, StopShape, StillSound
      DEF SameBut, Sound, Owned, Busy
    <3> QED
      BY <1>1, <3>2, StepSound
  <2> QED
    BY <2>3, <2>4
<1> QED
  BY <1>2, <1>3

\* The clock.
LEMMA ElapseSound ==
  ASSUME IInv, Elapse
  PROVE  IInv'
<1> DEFINE s == robot
<1>1. /\ robot' = Older(s) /\ timed' = FALSE
      /\ s \in Robot /\ Owned(s) /\ Searched(s)
      /\ s.wheels # "Still" /\ ~ s.hold => s.command =< CmdTimeout
  BY TimesAssumption DEF Elapse, IInv, Sound, SilentSourceStops, Robot, CmdCap
<1>0. /\ \A n \in 0 .. CmdCap : Until(CmdCap, n) \in 0 .. CmdCap
      /\ \A n \in Seen .. LostCap :
           (IF n = Seen THEN Seen ELSE Until(LostCap, n)) \in Seen .. LostCap
      /\ \A n \in 0 .. SyncPause : (IF n = 0 THEN 0 ELSE n - 1) \in 0 .. SyncPause
      /\ \A n \in 0 .. TurnDeadline : (IF n > 1 THEN n - 1 ELSE n) \in 0 .. TurnDeadline
  BY TimesAssumption DEF Until, CmdCap, LostCap, Seen
<1>8. robot' \in Robot
  BY <1>0, <1>1 DEF Older, Robot
<1>2. /\ robot'.wheels = s.wheels /\ robot'.hold = s.hold /\ robot'.follow = s.follow
      /\ robot'.pause = s.pause /\ robot'.running = s.running
      /\ robot'.turn = IF s.turn > 1 THEN s.turn - 1 ELSE s.turn
  BY <1>1 DEF Older, Robot
<1>3. /\ robot'.command = IF s.command < CmdCap THEN s.command + 1 ELSE s.command
      /\ robot'.teleop = IF s.teleop < CmdCap THEN s.teleop + 1 ELSE s.teleop
      /\ robot'.lost = IF s.lost = Seen THEN Seen ELSE Until(LostCap, s.lost)
  BY <1>1 DEF Older, Until, Robot
<1>4. /\ s.command \in Nat /\ s.teleop \in Nat /\ s.lost \in Int /\ s.turn \in Nat
      /\ robot'.lost =< (IF s.lost = Seen THEN Seen ELSE s.lost + 1)
  BY <1>1, <1>3, TimesAssumption DEF Robot, CmdCap, LostCap, Seen, Until
<1>5. Owned(robot')
  BY <1>1, <1>2, <1>3, <1>4, TimesAssumption DEF Owned, Busy, Turning, TeleopRecent
<1>6. Searched(robot')
  <2>1. SUFFICES ASSUME s.wheels = "Line"
                 PROVE  robot'.lost =< SearchTimeout + robot'.command
    BY <1>2 DEF Searched
  <2>2. s.lost =< SearchTimeout + s.command /\ s.command =< CmdTimeout
    BY <1>1, <2>1 DEF Searched, Owned
  <2>3. robot'.command = s.command + 1
    BY <1>3, <1>4, <2>2, TimesAssumption DEF CmdCap
  <2>4. robot'.lost \in Int
    BY <1>8, TimesAssumption DEF Robot, Seen, LostCap
  <2> HIDE DEF s
  <2> QED
    BY <1>4, <2>2, <2>3, <2>4, TimesAssumption DEF Seen
<1>7. SilentSourceStops'
  BY <1>1, <1>2, <1>3, <1>4, TimesAssumption DEF SilentSourceStops
<1> QED
  BY <1>1, <1>5, <1>6, <1>7, <1>8
  DEF IInv, Sound, Owned, Searched, Busy, Turning, TeleopRecent

\* Every step keeps the invariant.
LEMMA NextSound ==
  ASSUME IInv, [Next]_vars
  PROVE  IInv'
<1>1. CASE UNCHANGED vars
  BY <1>1
  DEF vars, IInv, Sound, Owned, Searched, Busy, Turning, TeleopRecent, SilentSourceStops
<1>2. CASE Next
  BY <1>2, OnTimerSound, OnCmdVelSound, OnLineSound, OrdersSound, RunSound,
     SettingsSound, ElapseSound DEF Next
<1> QED
  BY <1>1, <1>2

\* The robot starts sound: still, and held if the convoy is enabled.
LEMMA InitSound ==
  ASSUME Init
  PROVE  IInv
<1>1. robot \in Robot
  BY Ranges DEF Init, Robot, Wheel
<1>2. robot.wheels = "Still" /\ robot.turn = 0 /\ robot.pause = "None" /\ timed = FALSE
  BY DEF Init
<1> QED
  BY <1>1, <1>2, StillSound DEF IInv, SilentSourceStops

\* Every behaviour keeps the invariant.
LEMMA Invariant == Spec => []IInv
  BY InitSound, NextSound, PTL DEF Spec

-----------------------------------------------------------------------------
(* The theorems. *)

\* Every member of the node and its controller that moves the wheels keeps its type,
\* through any sequence of callbacks.
THEOREM WheelsTypeCorrect == Spec => []WheelsTypeOK
<1>1. IInv => WheelsTypeOK
  BY DEF IInv, Sound, WheelsTypeOK
<1> QED
  BY <1>1, Invariant, PTL

\* The wheels have one owner: no callback of teleop, line follower, convoy or parameters
\* leaves the line follower driving a robot that is held, spinning, switched off the line
\* or under a key, or a spin without its flag.
THEOREM OwnerCorrect == Spec => []OneOwner
<1>1. IInv => OneOwner
  BY DEF IInv, Sound, OneOwner
<1> QED
  BY <1>1, Invariant, PTL

\* A robot the convoy does not hold never moves longer than cmd_timeout on a source that
\* has gone silent: the watchdog covers every path by which a hold is lifted.
THEOREM SilenceStops == Spec => []SilentSourceStops
<1>1. IInv => SilentSourceStops
  BY DEF IInv
<1> QED
  BY <1>1, Invariant, PTL

\* The search for a lost line ends, even when the sensor stops answering in it: the two
\* timeouts, line_search_timeout and cmd_timeout, add up to the bound.
THEOREM SearchEnds == Spec => []SearchGivesUp
<1>1. IInv => SearchGivesUp
  <2>1. SUFFICES ASSUME IInv, robot.wheels = "Line"
                 PROVE  robot.lost =< SearchTimeout + CmdTimeout + 1
    BY DEF SearchGivesUp
  <2>2. robot.lost =< SearchTimeout + robot.command /\ ~ robot.hold
    BY <2>1 DEF IInv, Sound, Searched, Owned
  <2>3. robot.command =< CmdTimeout + 1
    BY <2>1, <2>2, TimesAssumption DEF IInv, SilentSourceStops, Sound, Robot, CmdCap
  <2>4. robot.lost \in Int /\ robot.command \in Nat
    BY <2>1, TimesAssumption DEF IInv, Sound, Robot, CmdCap, LostCap, Seen
  <2> QED
    BY <2>2, <2>3, <2>4, TimesAssumption
<1> QED
  BY <1>1, Invariant, PTL

\* What the wheels steer and stop by is sound whatever the line sensor answers: see
\* LineSensorProofs.
THEOREM SightCorrect == Spec => []SightSound
<1>1. SightSound
  BY EstimateCorrect DEF SightSound
<1> QED
  BY <1>1, PTL
=============================================================================
