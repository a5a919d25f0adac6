# Verification of the GoPiGo3 convoy

TLA+ models, TLC runs and TLAPS proofs kept beside `gopigo3-ros`, the ROS 2 node that
drives a GoPiGo3 robot and, on two of them, the convoy demo: one robot leads, reads
colour cards and sends orders; the other follows them.  The modules translate the C++
under `src/gopigo3-ros/src/`; the readme and the comments are used only as statements to
hold the code against.

## Inventory

One process per robot, one node per process (`main.cpp`), one single-threaded executor:
every callback runs to its end before the next, so a handler is an atomic step and all
interleaving is between robots, the bus, the operator and the clock.

| Part | State | Operations | Hard behaviours | Correct when |
| --- | --- | --- | --- | --- |
| Convoy controller (`convoy_controller.*`) | role, term, order in effect, pending pause, last heartbeat heard, election clock, card debounce | `tick` (50 ms), `on_color`, `on_command`, `on_peer`, `on_run`, `apply_parameter` | elections and yields on stale heartbeats; orders lost in a pause or a spin; handover in two halves on two robots; crashes in between | one leader, both robots under one order and speed, nobody moves in a pause, pauses end |
| Convoy bus (`/convoy/command`, `/peer`, `/run`) | samples on their way, last sample per writer | publish, deliver, replace, redeliver | delay, loss, late joiners, own orders read back, no order between topics | (environment) |
| Handover spin (`start_turn` .. `cancel_turn`) | active, progress, deadline | start, step on the timer, end on the line, cancel | two ways to end, deadline, cancelled by an order or a key | ends; holds the wheels meanwhile |
| Wheel arbitration (`on_cmd_vel`, `on_timer`, `follow_line`, `convoy_hold_`) | hold, stopped, last command and teleop times | teleop, line follower, watchdog, spin | four writers of two wheels, watchdog against hold | one owner of the wheels; a silent source stops them |
| Colour sensor and card filter (`guess_color`, `accept_card`, `is_card`) | name and count of readings, last card and its time | one reading | three branches and a wrap of the hue; debounce across STOP, cooldown of the last card only, readings that fail | no colour favoured; cards spaced; one card, one order |
| Line sensor (`estimate_line`) | none | one reading | no sensor, all, or one on the line; values below black; any threshold | the position is on the line, left and right alike |
| Parameters (`on_set_parameters`, `apply_parameter`) | all tunables | set one or several | two passes that must refuse the same values | all or nothing |
| Eyes (`apply_leds`, `apply_sync_leds`, `on_eye*`, `set_eye*`) | flash and its deadline, colour of the pause, `had_peer_`, `peer_lost_`, the driver's LED cache | paint on `tick`, flash, LED topics | flashes against pauses, one call for two eyes over a cache per eye, writes the board misses | a colour tells the stand what the readme says it means |
| Driver (`gopigo3_driver.*`) | ports, sensor kind | probing, register access, motor writes | answers nobody looks at | (input and output) |
| `main.cpp`, build, packaging, scripts | | | | |

`tick()` calls into the node (hold, stop, speed, spin), the node calls into the
controller from its subscriptions and timers, and the controllers of the two robots talk
over the bus only.  `PROJECT.json` lists the hazards, line by line, with the properties
that watch each.

## Modules

* `ConvoyController` - one robot.  The record `Controller` holds the members of the class
  that steer (and the three of the node it steers by: `hold`, `speed`, `turn`); each method
  is an operator from the record before to the record after.  No variables, no recursion.
* `Convoy` - the robots, the three topics, the operator's laptop and the failures.  One
  action per path through a handler: `tick()` with the rest of `on_timer()` is `TickDisabled`,
  `TickWaiting`, `TickCountdown`, `TickFinish` and `TickDrive`; `on_command()` is
  `CommandIgnored`, `CommandStop`, `CommandHandover` and `CommandSpeed`; `on_color()` is
  `CardRejected`, `BlueCard`, `RedCard` and `SpeedCard`; `check_turn_line()` is `SpinEnds`;
  `OnPeer`, `OnRun`, `SetRole` and `SetEnable` are their handlers; `OrderReplaced` and
  `RunReplaced` are the reader's cache of one; `PublishRun`, `Crash`, `Restart`, `Offline`,
  `Online` and `BeatLost` are the world; `Elapse` is one period of 50 ms.  `claimed` is a history
  variable: the highest term each robot has led with.
* `ConvoyMC` - `Convoy` for TLC: budgets for cards, run orders, parameter settings and
  failures, and two ghosts, `heading` (which way along the line a robot faces) and `silent`
  (how long an idle follower has gone without a leader's heartbeat).
* `Lead` - what the convoy promises about its lead, in six variables and without cards, orders,
  heartbeats or timers: in a round each robot moves at most once, and of itself it only claims
  the lead with a term it has not led with, yields it to a robot whose real claim outranks its
  own, or does its part of a handover agreed on before.  The operator may appoint; a term falls
  only with the power.  `Convoy!ImplementsLead` is `Lead!Spec` under the mapping `RoleOf`,
  `TermOf`, `PartOf` (the pending pause, unless it is for a speed); `claimed`, `up` and `due`
  are `Convoy`'s own.
* `Stand` - `ConvoyMC` as the demo has it: two robots, a leader and a follower from the start, one
  START, any number of cards, no failures; how delay, pause and debounce compare; and `CardsClear`:
  no robot reads a card while the other spins.  `StandSpec` is the convoy under that condition.
* `ConvoyProofs`, `LeadProofs` - theorems about `Convoy`, and that it implements `Lead`.
* `TakeoverProofs`, `StandProofs` - theorems about `ConvoyMC` and its ghosts, and about `Stand`.
* `LineSensor` - `estimate_line()` in integers: values and threshold in units of pure white, the
  position a ratio.  A picture is any value on each of the board's 5 or 6 sensors.
* `Wheels` - one robot's wheels and everything on it that drives them, on `LineSensor`.  The
  record `Robot` holds the members of the node and the controller that move the wheels; `wheels`
  is what the motors were last told and by whom.  The node's methods and the controller's calls
  into it are operators on the record; `OnTimer` (`tick()`, then the spin or the watchdog),
  `OnCmdVel`, `OnLineTurning` and `OnLineDriving` (`publish_line_follower()`), `OrderPause`,
  `OrderStop`, `RunStart`, `RunStop`, `SetEnable` and `SetLineFollow` are the callbacks.  Of an
  estimate the robot looks at three things (`ReadingOf`): lost, within a tenth of the middle,
  exactly in it.  Who leads is left out: an order the robot may heed comes at any time.  It
  stands beside `Convoy`, which has the lead and no wheels; hold, pause and spin are in both.
* `WheelsProofs`, `LineSensorProofs` - theorems about `Wheels` and the estimate under it.
* `ColorSensor` - `read_color()` and `guess_color()` in integers: hue, saturation and value stay
  ratios, and the eight distances are multiplied by their common factor.
* `Settings` - `on_set_parameters()` with its first pass `Checked`, and `apply_parameter()` with
  its own refusals and the cast of the debounce to `int`.  The second loop is written as what it
  amounts to: `Applied` is how far it gets, `Assigned` the last value given for each name.
* `CardFilter` - the two composed: readings on the 100 ms timer (which may fail), `on_color()` up
  to a card that is taken, and sets of parameters at any moment.  Pauses and spins come and go
  freely; `calm` is a history variable, the periods since the last card or long pause, and
  `spell` the periods of a pause in which `on_color()` was enabled.
  `CardFilterMC` gives the settings and parameters for TLC.
* `CardFilterProofs` - theorems about `CardFilter` and `Settings`.
* `Eyes` - what both eyes show: the members of the controller that decide, the driver's cache and
  the board itself, which may miss a write (`missed`).  `OnTimer` paints, every other handler
  flashes or begins a pause; cards, orders and heartbeats come freely.
* `EyesProofs` - theorems about `Eyes`.

Operators marked `Mutant` are plausible bugs of the operator below them; each property is
known to fail when one of them takes that operator's place.

### Time

One unit is the 50 ms timer.  A time stamp becomes an age or a time left, capped where no
comparison can tell more apart.  Every timer fires once a period, in any order among the
robots.  `Elapse` waits until every timer has fired and every message that had to arrive
has.  An order arrives within `MaxDelay` periods while its robots are connected; a
heartbeat in its own period or never: any of them may be lost alone (`BeatLost`), as on a best
effort topic, or with the Wi-Fi.  A card can be taken `CardGap` periods after the
robot is last busy or last took one: two colour readings at 100 ms in the code.

### Abstractions

* Names, formats and logs are left out, and so are malformed messages.  `on_command()` and
  `on_run()` drop one before they change anything.  `on_peer()` does not: id, role and order of
  the cached heartbeat are assigned before `std::stoul` may throw (`convoy_controller.cpp:369-389`),
  so that one with a bad term would be half taken.  No robot publishes such a heartbeat.
* `Convoy` lets any card come whenever the debounce could have counted it (`CardGap`).  That is
  what `CardFilter` is asked for in `CardsSpaced`; the cooldown only takes cards away.
* In `Settings` one name stands for each group of parameters that both passes treat alike.  A value
  is an integer, 0 and 1 for a switch or a role; a double counts units of `1/Whole`, for any `Whole`
  in the proofs, or is `NaN`, of which no comparison holds.
* In `Eyes` a colour is a name; the phase of the two blinks that follow the clock is free.
* A spin ends at any moment after it starts, by encoders or line, and at its deadline.
* `term_` is a natural number; 2^32 elections are out of reach.
* `handover_turn`, `sync_pause` and `leader_timeout` are constants of a run of `Convoy`, not changed
  while it goes; the same on both robots, as the start scripts have it.
* `Convoy` has no teleop: nobody presses keys on a robot of the convoy while it runs.
  `Wheels` has it, with speeds and steering left out.  A line reading may come or fail at
  any time and show anything its board can.
* The Wi-Fi fails for a robot as a whole; on return the readers match again, and are sent
  the writer's last order, or not.

## Runs

| Run | Bounds | Question |
| --- | --- | --- |
| `cards` | `Stand`: 3 cards, 1 run order, delay 1, pause 2, debounce 2, spin 5; no card read while a robot spins | Healthy network: type, `ParkedUnlessDriving`, `SameSpeed`, `AgreeAtRest`, `HeadingsAgree`; the lead moves by handover only; no handover is done by half; pauses end; handovers complete |
| `elections` | 3 crashes, outages or lost heartbeats, no cards | From two followers: takeover in three timeouts, yields to real claims only, every change of a role is a move of `Lead`, one leader in the end |
| `lost_handover` | 1 card, 1 run order, 1 crash, outage or lost heartbeat | A failure anywhere in a handover or a speed change |
| `operator` | 2 run orders, 1 card, 1 parameter | START, STOP, role and enable at any moment: nobody moves while held, the lead moves as `Lead` allows |
| `wheels` | command and search timeout 2, pause 3, spin 3, the board of 6 sensors; no budget: every state | One owner of the wheels, silent sources, the search, a sound estimate, coming to rest |
| `card_filter` | every sample over 6 values a channel, 1 set of one or two parameters, 1 missed reading in a row, debounce up to 3, cooldown 6, `NaN` among the doubles sent | Sets land whole and leave every number within its range, or `NaN`; no colour favoured; cards spaced; no echo of a card that began a pause |
| `eyes` | pause 3, blink 1, go 1, flash 1; no budget: every state | After a tick the eyes tell what the readme says; flashes and pauses; lost peers |
| `takeover`, `spin_skew`, `start_race`, `lone_spin`, `runaway` | see the cfg | Each shows one disagreement of the code with its readme or a comment |

**Why the bounds suffice.** The demo is two robots. Three cards hold every ordered pair of cards
with a card in the pause of the first, after it, or into a pending order. The default timeouts (60
periods, 24 for the pause, 100 for the spin) are scaled down in an order that keeps what matters:
an order takes less than a pause, a pause less than a timeout. In `cards` a spin may last longer
than pause, debounce and order together (5 against 2, 2 and 1), so that a robot whose own spin was
short is ready for a card long before the other is; `CardsClear` keeps the cards away until then.
`spin_skew` drops that condition and `SameSpeed` fails (its spin is 6, with which `cards` passes
as well). Three failures give a crash during the recovery from an outage and another after it;
more repeat these, since a robot keeps nothing over a restart.

In `wheels` every callback may come at any time and any number of times.  The pause is longer
than the command timeout, as it is by default, and the spin longer than either needs to
start, go on and end; `runaway` has a pause shorter than the timeout, which leaves disabling
the convoy as the only way past the watchdog.

In `card_filter` the channels reach past saturation (`Full` 4, values 0 to 5), so that clipped,
dark, grey and every vivid hue occur; the parameters lie on both sides of every bound that the two
passes check; the cooldown is longer than a pause that has surely had a reading (`Long`), which is
what `NoEcho` compares.  The debounce values sent fit an `int` (see *Observations*).  In `eyes`
the pause is long enough to blink on, off and go solid; the code's 1.2 s, 0.15 s and 0.3 s
differ in the number of blinks only, and `EyesProofs` covers any.  In `wheels` the line sensor's
values are black, on the bare side and between, with the default threshold; `LineSensorProofs`
covers any.

**Fairness.**  `Convoy`: weak fairness of the robots' callbacks, taken together, and of time
passing.  The executor runs what is ready and no handler waits for anything, so a callback that
stays ready is run; a period holds finitely many of them, hence no robot has to be named.  `Wheels`:
weak fairness of the timer and of time passing, for the same reason; nothing makes the line sensor
answer.  No fairness is asked of cards, orders, keys, settings, failures or repairs.
`LeaderSettles` compares robots with those they can reach, so an outage that never ends counts.
`ComesToRest` speaks of behaviours in which the keys are let go for good.  Deadlock is checked in
every run.

## What the runs found

1. `takeover`: a silent leader is replaced after three `leader_timeout`s, not one.  The
   cached heartbeat is believed for two and resets the election clock meanwhile.  `TakesOver`
   states what the code does give and passes.
2. `spin_skew`: the robot whose spin ends first may take a speed card which the other, still
   spinning, drops: they run at two speeds until the next card.
3. `start_race`: an order that overtakes START on the other topic is dropped by the
   follower; nothing repeats it.
4. `lone_spin`: blue is accepted for two timeouts after the peer has gone; the leader gives
   the lead to nobody and turns around alone.
5. `runaway`: a convoy disabled while it holds its robot leaves the hold on and the watchdog
   off with it; a key pressed then drives the robot until the next one.

Observations, for which no run stands:

* With `sync_pause` 0 and `handover_turn` false, both documented, an old leader may be a follower
  again before its own HANDOVER comes back to it on the global topic, and takes it.
* The early return for the order already in effect (`convoy_controller.cpp:334`) stands before the
  STOP branch.  Under STOP, in the pause before a CRUISE, a second STOP is skipped and the robot
  drives off; it takes an order three periods late.
* `color_debounce` is checked as 64 bits and kept as 32.  `Settings!Stored` models the cast; a value
  past 2^31 would leave a debounce that takes every reading.
* A NaN passes every check of the first pass and of `apply_parameter()` (`gopigo3_ros_node.cpp:559`,
  `564`, `572`, `594`, `convoy_controller.cpp:164`): a NaN `line_threshold` lands, the clamp of
  `estimate_line()` keeps it, and no sensor sees the line from then on.  `Settings` has the value;
  `SettingsUsable` says that each number is within its range or not a number.
* White and black sit at the hue of red in the table of colours, so a pale red is nearer to white
  than a pale green is.  `SightsAlike` therefore speaks of vivid samples.
* A robot that yields or restarts keeps its own order until the next card: `AgreeAtRest` is
  checked without failures only.

## Proofs

`ConvoyProofs` is checked by tlapm for any set of robots, any timers and delays, and any
number of cards, orders, settings and failures:

* `TypeCorrect` - `Spec => []TypeOK`.
* `ParkedCorrect` - `Spec => []ParkedUnlessDriving`: a robot that waits, pauses or spins is held.
* `Yields` - `Spec => YieldsToRealClaim`: a leader yields on a heartbeat only to a robot that
  really led with a term, or an id, that outranks its own.

The argument.  One lemma per method says what it does to the controller's type, to
`Parked` and to the leader it hears.  `StepsHandled` collects them: every step is one
robot's handler (`Handles`), a heartbeat, the clock, or leaves the robots alone.  `TypeOK`
and `ParkedUnlessDriving` are inductive together.  `YieldsToRealClaim` is not: whether the
claim a robot yields to is real depends on what was sent earlier, so `ClaimsOK` adds that
the term of every leader, of every heartbeat on its way and of every heartbeat cached is
covered by what its robot has claimed.  TLC agreed with `ClaimsOK` on the bounds of
`elections` and `operator` before it was proved.  `ClaimsCorrect` is that invariant of its own.

`LeadProofs` builds on it, under the same assumptions:

* `LeadImplemented` - `Spec => ImplementsLead`: `Convoy` implements `Lead`.

Each method has a lemma that says what it does to a robot's role, term and part in a handover; a
tick is shown to be at most one move, since it elects only without a leader in its cache, yields
only with one, and does neither in a pause (the guard of `convoy_controller.cpp:261`).
`Lead!Appoint` is `convoy_role` set on a robot; it may come at any time, since `Lead` knows no
operator: a role that changes in a step which is no tick is held to being that one robot's only.
Yields need `ClaimsOK` for the claim they give way to, claims the type invariant for a term that
rises.

`TakeoverProofs` is about the convoy with its ghosts, for any budgets, robots and timeouts:

* `TakesOverCorrect` - `MCSpec => []TakesOver`.

The lemma `BudgetsRefine`, `MCSpec => Spec`, carries the theorems above over to what the runs check.

`TakesOver` bounds `silent`; what a tick looks at is the age of the cached heartbeat and the
election clock.  `Watched` ties them: while a leader's heartbeat is believed, the follower has been
silent no longer than that heartbeat is old; once it is not, no longer than `PeerExpiry` and the
clock together; and a robot whose timer has fired has either heard or counted.  The election of
`maybe_elect()` comes on the tick after the clock passes `LeaderTimeout`, which closes the bound.

`StandProofs` is about the healthy convoy of `Stand`, with any number of cards:

* `SameSpeedCorrect` - `StandSpec => []SameSpeed`; `AgreeAtRestCorrect` and `HeadingsAgreeCorrect`
  likewise.
* `LeadMovesCorrect` - `StandSpec => LeadMovesByHandover`.
* `HandoverMeetsCorrect` - `StandSpec => HandoverMeets`: no order, card, tick or period cuts a pause
  of a handover short, and when it runs out the other robot has begun its half or ended it, under
  the same order.
* `StandCorrect` - `StandSpec => []StandInv`, from which they follow.
* `WithoutSpin` - `MCSpec => StandSpec` with `handover_turn` false: all of the above then hold
  whenever a card comes.

The invariants are not inductive: each depends on what the other robot has been sent and how long
ago. `StandInv` says where the two stand to each other, as a leader `w` and a follower `r`. All
that is on its way is the leader's last order (`Word`), older than the leader's pause or debounce
(`Since`), so it has arrived when either is over. Until then the follower is idle under the old
order (`Hailing`, `Stopping`); afterwards it pauses too, no further behind than an order takes
(`Shifting`, `Giving`); one of the two ends the pause first (`Ahead`, `Trailing`) and they are
`Level` again. A handover passes through `Gap`, in which nobody leads, or `Clash`, in which both
do: neither outlasts `MaxDelay`, the robot that has yet to move is in its pause, which keeps it
from electing or yielding, and the exchanged roles are `Level` when it does. `Heeding` is why
nobody elects in between (a tick of a follower has a leader's heartbeat or a young clock), `Peers`
what the heartbeats of a period tell, `Counters` that a countdown that is over is seen by a tick,
`Started` that no card is taken before both have read START, `Face` which way a robot will face
once its spin is over. One lemma per callback says what it does (`TimerIs`, `CommandIs`, ..), then
one per callback and phase where that leads. `HandoverMeets` is read off the phases: an order can
be on its way only to a robot that does not pause or heeds none, so none reaches a half that has
begun (`CommandMeets`), and a tick ends one in `Giving`, `Gap` or `Clash` only (`TimerMeets`). TLC
agreed with `StandInv` on seven settings of timers and delays before it was proved.

The theorems ask one thing that the code does not see to, `CardsClear`: no card is read while a
robot spins.  A spin may take any time up to its deadline, some five seconds at the default
`turn_speed`, and a debounce is two readings: with cards closer behind the place of a handover than
the slower spin takes, an order reaches a robot that still spins and is dropped.  How long a spin
lasts, and how far the two differ, is not restricted.  The condition cannot be left out: with the
bounds of `spin_skew`, where cards come during spins, TLC violates each of `SameSpeed`,
`AgreeAtRest`, `HeadingsAgree`, `LeadMovesByHandover` and `HandoverMeets`.  It asks nothing of a
convoy with `handover_turn` false (`WithoutSpin`); true is the default.

`CardFilterProofs` is checked for any channels, parameters, timer of the colour sensor, number of
failed readings in a row, debounce and cooldown:

* `FilterTypeCorrect` - `Spec => []FilterTypeOK`.
* `UsableCorrect` - `DebouncesFit /\ Usable(Start) => (Spec => []SettingsUsable)`: every number within
  its range or a NaN.
* `WholeSets` - `Spec => AllOrNothing`: what the second pass refuses, the first has refused.
* `SpacingCorrect` - `Spec => CardsSpaced`; `EchoCorrect` - `Spec => NoEcho`.
* `AlikeCorrect` - `Spec => []SightsAlike`.

`SpacingCorrect` and `EchoCorrect` rest on `Paced`.  `Lag` is the time since the last reading that did not fail, and is
shorter than `Long` whenever time can pass.  `SpellOK`: a pause either began within the lag, or was
read in, which ended the count and began the cooldown within the lag.  `CountOK`: what is counted
took an interval for each reading but the first since the last card or long pause, or it is the
card taken last, whose cooldown began no earlier.  TLC agreed with `Paced` on the bounds of
`card_filter` before it was proved.  `DebouncesFit` is the one thing the code does not check
(see *Observations*); ages and counts are capped at `MaxAge` and `MaxCount`, any numbers that
leave room for `MaxCount` readings.

`SightsAlike` is about `read_color()` alone and holds in every state.  Each of the eight distances
is the square of the way between two hues and a rest that is the same for all six colours
(`DistancesAre`).  White and black are farther than the nearest of these: a vivid sample has a
saturation of more than a half, and saturation and value together of more than one
(`FarFromWhite`, `FarFromBlack`).  What is left is the nearest hue, and that is the channel that
leads or the complement of the one that lags, with ties broken the same way (`HueIs`, `GuessIs`);
said in these words it turns with the channels (`NamesTurn`), which said in degrees it does not.

`WheelsProofs` is checked for any timeouts, pause and deadline:

* `WheelsTypeCorrect` - `Spec => []WheelsTypeOK`.
* `OwnerCorrect` - `Spec => []OneOwner`: the line follower never drives a robot that is held,
  spinning, switched off the line or under a key.
* `SilenceStops` - `Spec => []SilentSourceStops`: unheld and moving means a fresh command.
* `SearchEnds` - `Spec => []SearchGivesUp`.

`OneOwner` is inductive with the type: `tick()` may leave the wheels to a live teleop when it
sets the hold only because the line follower cannot have them then.  `SearchGivesUp` is not: a
sensor that stops answering leaves the stop to the watchdog, so `Searched` bounds the age of
the loss by the age of the last command, and `SilentSourceStops` bounds that.  Each method has a
lemma that says which members it touches, each callback one that it keeps `IInv`.

* `SightCorrect` - `Spec => []SightSound`, from `LineSensorProofs`, where `EstimateCorrect` is shown
  for either board, any values and any threshold: `EstimateBetween` bounds the weighted mean by the
  outermost sensors on the line, `EstimateEven` mirrors it, `EstimatePulls` darkens one sensor.

`EyesProofs` is checked for any pause, blink and flash, and any choice of cards:

* `EyesTypeCorrect`, `PauseOwnsEyesCorrect`, `LostPeerCorrect` - the three invariants, inductive
  once the colour of a pause is tied to its kind and the cache to the board.
* `EyesTellCorrect` - `Spec => EyesTell`: an eye whose last write arrived shows what the cache says,
  and what `tick()` paints is what the readme's table allows.

Assumed: robot ids are naturals (only their order is used), timers and delays are naturals,
a deadline is longer than one period, each robot boots into a role, a board has 5 or 6 sensors.

For `StandProofs` alone `StandAssumption` as well: two robots that boot as leader and follower, at
most one run order, no setting and no failure, an order that arrives within less than a pause and a
debounce (1.2 s and 0.2 s by default) and no more than a leader timeout.  The condition on the cards
is part of `StandSpec`.

Only model-checked: liveness (`PausesEnd`, `HandoverCompletes`, `LeaderSettles`, `ComesToRest`),
which TLAPS cannot prove under fairness.  What each must not do on the way is proved:
`HandoverMeets` and `LeadMovesByHandover` for a handover, `ImplementsLead` and `TakesOver` for an
election, `SilentSourceStops` and `SearchGivesUp` for coming to rest.  Every other property of a
passing run has a theorem.

## Not modelled

* Register access over I2C and SPI, the decoding of a sensor's bytes and the probing of sensors at
  start-up: pure input and output; a reading may fail at any time in every module that has one.
* Lost motor writes: `stop()` and `drive()` never look at the board's answer, and what a board does
  with a write it missed is not in this code.
* The encoder arithmetic of a spin, speeds and steering: real-valued; a spin may end at any moment
  after its first step, and the wheels are told apart by who drives them.
* The blinkers (a pass-through without state), logs, topic names and ports.
* Parameters of `Convoy` and `Wheels` other than `convoy_role`, `convoy_enable` and `line_follow`
  while they run: `Settings` has the others.
* `main.cpp`, whose one single-threaded executor is the reason each handler is one step, and build,
  packaging and deployment, which keep no state at run time.
