-------------------------------- MODULE Wheels --------------------------------
(***************************************************************************)
(* The wheels of one robot and everything on it that drives them: teleop,  *)
(* the line follower, the convoy's pauses and handover spin, and the       *)
(* watchdog (gopigo3_ros_node.cpp, with the calls convoy_controller.cpp    *)
(* makes into it).  One thread runs every callback, so each is one step.   *)
(*                                                                         *)
(* Who leads is left out: which orders and cards the robot heeds is free.  *)
(* Time is counted in periods of the 50 ms timer, stamps are kept as ages. *)
(***************************************************************************)
EXTENDS LineSensor

CONSTANTS
  CmdTimeout,      \* cmd_timeout, in periods
  SearchTimeout,   \* line_search_timeout, in periods
  SyncPause,       \* sync_pause, in periods
  TurnDeadline,    \* turn_deadline_ - turn_start_, in periods
  HandoverTurn     \* handover_turn

ASSUME TimesAssumption ==
  /\ CmdTimeout \in Nat
  /\ SearchTimeout \in Nat
  /\ SyncPause \in Nat
  /\ TurnDeadline \in Nat /\ TurnDeadline > 1
ASSUME SwitchAssumption == HandoverTurn \in BOOLEAN

VARIABLES
  robot,   \* the members of the node and of its controller that move the wheels
  timed    \* has on_timer() run in this period?

vars == <<robot, timed>>

\* What the motors were last told; stopped_ is "Still".
Wheel   == {"Still", "Key", "Line", "Spin"}
\* What the node looks at in an estimate: is the line lost, is it within a tenth of the
\* middle, and is the error exactly zero?
Reading == [lost: 0 .. 2, middle: BOOLEAN, exact: BOOLEAN]

ReadingOf(e) ==
  [lost   |-> e.lost,
   middle |-> 10 * e.num > 4 * e.den /\ 10 * e.num < 6 * e.den,
   exact  |-> 2 * e.num = e.den]

\* read_line_follower(): what the sensor may show.
Readings == {ReadingOf(EstimateLine(picture)) : picture \in Picture}

\* Ages are capped one past what a property tells apart; Seen: the line is not lost.
CmdCap  == CmdTimeout + 2
LostCap == SearchTimeout + CmdTimeout + 3
Seen    == -1

(***************************************************************************)
(* stopping is the order STOP in effect, pause and left the pending sync   *)
(* with its time left, hold is convoy_hold_, turn the time left to         *)
(* turn_deadline_ (0: not turning), away and half are turn_off_line_ and   *)
(* turn_done_ > 0.5; astray is last_line_error_ # 0, lost is how long ago  *)
(* line_lost_since_ was, command and teleop how long ago last_cmd_time_    *)
(* and last_teleop_time_ were.                                             *)
(***************************************************************************)
Robot ==
  [enabled: BOOLEAN, running: BOOLEAN, stopping: BOOLEAN,
   pause: {"None", "Speed", "Handover"}, left: 0 .. SyncPause,
   hold: BOOLEAN, follow: BOOLEAN,
   turn: 0 .. TurnDeadline, away: BOOLEAN, half: BOOLEAN,
   astray: BOOLEAN, lost: Seen .. LostCap,
   command: 0 .. CmdCap, teleop: 0 .. CmdCap, wheels: Wheel]

WheelsTypeOK == robot \in Robot /\ timed \in BOOLEAN

Init ==
  /\ \E enabled, follow \in BOOLEAN :
       robot = [enabled |-> enabled, running |-> FALSE, stopping |-> FALSE,
                pause |-> "None", left |-> 0, hold |-> enabled, follow |-> follow,
                turn |-> 0, away |-> FALSE, half |-> FALSE,
                astray |-> FALSE, lost |-> Seen,
                command |-> 0, teleop |-> CmdCap, wheels |-> "Still"]
  /\ timed = FALSE

Turning(s)      == s.turn > 0
Busy(s)         == s.pause # "None" \/ Turning(s)
TeleopRecent(s) == s.teleop =< CmdTimeout

-----------------------------------------------------------------------------
(* The node's methods. *)

Stop(s)       == [s EXCEPT !.wheels = "Still"]
DriveBy(s, w) == [s EXCEPT !.wheels = w, !.command = 0]

ForgetLine(s) == [s EXCEPT !.astray = FALSE, !.lost = Seen]
FinishTurn(s) == ForgetLine(Stop([s EXCEPT !.turn = 0]))
CancelTurn(s) == IF Turning(s) THEN FinishTurn(s) ELSE s

\* start_turn() with the step_turn() it ends in.
StartTurn(s) ==
  DriveBy([s EXCEPT !.turn = TurnDeadline, !.away = FALSE, !.half = FALSE], "Spin")

\* step_turn(): the encoders may say anything once the spin has gone on for a period,
\* and the deadline ends it.
StepTurn(s) ==
  CASE s.turn = TurnDeadline -> {DriveBy(s, "Spin")}
    [] s.turn = 1            -> {FinishTurn(s)}
    [] OTHER -> {FinishTurn(s)}
                \cup {DriveBy([s EXCEPT !.half = h], "Spin") : h \in BOOLEAN}

\* check_turn_line()
CheckTurnLine(s, seen) ==
  IF seen.lost # 0 THEN [s EXCEPT !.away = TRUE]
  ELSE IF s.away /\ s.half /\ seen.middle THEN FinishTurn(s) ELSE s

\* Mutant: the search for the line has no end.
SearchLineForever(s) ==
  LET since == [s EXCEPT !.lost = IF @ = Seen THEN 0 ELSE @] IN
  IF ~ s.astray THEN Stop(since) ELSE DriveBy(since, "Line")

\* follow_line() with nothing under the sensor: keep turning, for a while.
SearchLine(s) ==
  LET since == [s EXCEPT !.lost = IF @ = Seen THEN 0 ELSE @] IN
  IF ~ s.astray \/ since.lost > SearchTimeout
  THEN Stop(since) ELSE DriveBy(since, "Line")

\* follow_line(): the error is kept for the search.
FollowLine(s, seen) ==
  IF seen.lost = 2 THEN SearchLine(s)
  ELSE DriveBy([s EXCEPT !.astray = ~ seen.exact, !.lost = Seen], "Line")

-----------------------------------------------------------------------------
(* What the convoy does to the wheels. *)

\* Mutant: the pause leaves the wheels as they are.
BeginPauseMoving(s, kind) ==
  [s EXCEPT !.pause = kind, !.left = SyncPause, !.hold = TRUE]

BeginPause(s, kind) ==
  Stop([s EXCEPT !.pause = kind, !.left = SyncPause, !.hold = TRUE])

\* finish_sync(): the new speed takes effect, or the robot turns around.
FinishPause(s) ==
  LET done == [s EXCEPT !.pause = "None"] IN
  IF s.pause = "Speed" THEN [done EXCEPT !.stopping = FALSE]
  ELSE IF HandoverTurn THEN StartTurn([done EXCEPT !.hold = TRUE])
  ELSE done

\* apply_motion()
ApplyMotion(s) ==
  IF s.stopping THEN Stop([s EXCEPT !.hold = TRUE]) ELSE [s EXCEPT !.hold = FALSE]

\* Mutant: the wheels are left to teleop whether or not it is in use.
WaitForever(s) == [s EXCEPT !.hold = TRUE]

\* tick() until START: hold, and leave the wheels to a live teleop.
Wait(s) ==
  LET held == [s EXCEPT !.hold = TRUE] IN
  IF TeleopRecent(s) THEN held ELSE Stop(held)

\* tick() once running.
Advance(s) ==
  IF s.pause # "None" /\ s.left > 0 THEN s
  ELSE LET t == IF s.pause = "None" THEN s ELSE FinishPause(s) IN
       IF Turning(t) THEN t ELSE ApplyMotion(t)

Tick(s) ==
  IF ~ s.enabled THEN s ELSE IF s.running THEN Advance(s) ELSE Wait(s)

\* Mutant: the watchdog spares the line follower.
WatchdogForKeys(s) ==
  IF s.wheels = "Key" /\ ~ s.hold /\ s.command > CmdTimeout THEN Stop(s) ELSE s

\* The end of on_timer().
Watchdog(s) ==
  IF s.wheels # "Still" /\ ~ s.hold /\ s.command > CmdTimeout THEN Stop(s) ELSE s

-----------------------------------------------------------------------------
(* The callbacks. *)

\* on_timer()
OnTimer ==
  /\ ~ timed
  /\ timed' = TRUE
  /\ LET s == Tick(robot) IN
     robot' \in IF Turning(s) THEN StepTurn(s) ELSE {Watchdog(s)}

\* on_cmd_vel(): a key takes the wheels off a spin, and may ask them to stop.
OnCmdVel ==
  /\ \E w \in {"Key", "Still"} :
       robot' = DriveBy([robot EXCEPT !.teleop = 0, !.turn = 0], w)
  /\ UNCHANGED timed

\* publish_line_follower(), when teleop leaves the bus to it and the sensor answers.
SensorRead == ~ TeleopRecent(robot) /\ UNCHANGED timed

OnLineTurning ==
  /\ SensorRead
  /\ Turning(robot)
  /\ \E seen \in Readings : robot' = CheckTurnLine(robot, seen)

OnLineDriving ==
  /\ SensorRead
  /\ ~ Turning(robot)
  /\ robot.follow /\ ~ robot.hold
  /\ \E seen \in Readings : robot' = FollowLine(robot, seen)

\* on_command() and on_color(), for an order the robot heeds.  Cards alone ask for
\* enabled_, and leave a pause alone; a STOP on the bus ends it.
OrderPause ==
  /\ robot.running /\ ~ Busy(robot)
  /\ \E kind \in {"Speed", "Handover"} : robot' = BeginPause(robot, kind)
  /\ UNCHANGED timed

OrderStop ==
  /\ robot.running
  /\ robot' = [CancelTurn(robot) EXCEPT !.pause = "None", !.stopping = TRUE]
  /\ UNCHANGED timed

\* on_run(); the leader starts under CRUISE, the follower under the order it had.
RunStart ==
  /\ robot.enabled /\ ~ robot.running
  /\ \E stopping \in {robot.stopping, FALSE} :
       robot' = [robot EXCEPT !.running = TRUE, !.stopping = stopping]
  /\ UNCHANGED timed

RunStop ==
  /\ robot.enabled /\ robot.running
  /\ robot' = Stop(CancelTurn([robot EXCEPT !.running = FALSE, !.hold = TRUE,
                                            !.pause = "None"]))
  /\ UNCHANGED timed

\* The parameters convoy_enable and line_follow.
SetEnable ==
  /\ \E enable \in BOOLEAN : robot' = [robot EXCEPT !.enabled = enable]
  /\ UNCHANGED timed

SetLineFollow ==
  /\ \E follow \in BOOLEAN :
       LET s == ForgetLine([robot EXCEPT !.follow = follow]) IN
       robot' = IF follow THEN s ELSE Stop(CancelTurn(s))
  /\ UNCHANGED timed

-----------------------------------------------------------------------------
(* One period passes once the timer has run. *)

Until(bound, age) == IF age < bound THEN age + 1 ELSE age

\* Mutant: the countdown of the pause runs past zero.
OlderPastZero(s) == [s EXCEPT !.left = @ - 1]

Older(s) ==
  [s EXCEPT !.left = IF @ = 0 THEN 0 ELSE @ - 1,
            !.turn = IF @ > 1 THEN @ - 1 ELSE @,
            !.lost = IF @ = Seen THEN Seen ELSE Until(LostCap, @),
            !.command = Until(CmdCap, @),
            !.teleop = Until(CmdCap, @)]

Elapse ==
  /\ timed
  /\ timed' = FALSE
  /\ robot' = Older(robot)

Next ==
  \/ OnTimer
  \/ OnCmdVel
  \/ OnLineTurning
  \/ OnLineDriving
  \/ OrderPause
  \/ OrderStop
  \/ RunStart
  \/ RunStop
  \/ SetEnable
  \/ SetLineFollow
  \/ Elapse

Spec == Init /\ [][Next]_vars

\* The executor runs a timer that is due, and time passes once it has.
FairSpec == Spec /\ WF_vars(OnTimer) /\ WF_vars(Elapse)

-----------------------------------------------------------------------------
(* Properties. *)

\* The wheels have one owner.  The line follower drives only when it is switched on,
\* the convoy does not hold the robot, nothing spins it and no key was pressed lately;
\* the wheels spin exactly while a handover spin is on, and that is held off the line.
Owned(s) ==
  /\ s.wheels = "Line" => s.follow /\ ~ s.hold /\ ~ Busy(s) /\ ~ TeleopRecent(s)
  /\ Turning(s) <=> s.wheels = "Spin"
  /\ Busy(s) => s.hold /\ s.running

OneOwner == Owned(robot)

\* A robot the convoy does not hold never moves for longer than cmd_timeout on a source
\* that has gone silent, key, line sensor or spin, one period for the timer aside.
SilentSourceStops ==
  robot.wheels # "Still" /\ ~ robot.hold =>
    robot.command =< CmdTimeout + (IF timed THEN 0 ELSE 1)

\* While the line follower has the wheels, or a spin that may end on the line, the
\* estimate they are steered and stopped by is sound for any answer of the sensor.
SightSound == robot.wheels \in {"Line", "Spin"} => EstimateSound

\* The search for a lost line ends: whatever the sensor shows or fails to show, the line
\* follower does not drive on past line_search_timeout and the watchdog's share.
SearchGivesUp ==
  robot.wheels = "Line" => robot.lost =< SearchTimeout + CmdTimeout + 1

\* Once the convoy is stopped, by the operator or by a red card, and the keys are let go,
\* the robot comes to rest and stays there: no pause, spin or line reading moves it.
Halted ==
  /\ robot.enabled
  /\ robot.running => robot.stopping /\ ~ Busy(robot)

ComesToRest ==
  <>[](Halted /\ robot.teleop > 0) => <>[](robot.wheels = "Still")

\* readme.md says of cmd_timeout: "0.5 s without a command, then stop".  So a key that
\* was let go drives the robot no longer than that.
KeyTimesOut == robot.wheels = "Key" => robot.command =< CmdTimeout + 1
=============================================================================
