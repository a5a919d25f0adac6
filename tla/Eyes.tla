---------------------------------- MODULE Eyes ----------------------------------
(***************************************************************************)
(* What the robot shows on its two eyes, which the readme calls the UI of  *)
(* the stand: the colours of tick(), the flashes of the handlers, the      *)
(* memory of a peer that was lost (convoy_controller.cpp), the led topics  *)
(* (gopigo3_ros_node.cpp) and the driver's cache of what the board was     *)
(* last sent (gopigo3_driver.cpp), for a board that may miss a write.      *)
(*                                                                         *)
(* Left free: which cards, orders and heartbeats come when, when a robot   *)
(* takes the lead or yields it, and the phase of a blink kept by the clock.*)
(***************************************************************************)
EXTENDS Integers

CONSTANTS
  SyncPause,      \* sync_pause, in periods
  SyncGo,         \* kSyncGoSeconds
  SyncBlink,      \* kSyncBlinkSeconds
  Flash,          \* kFlashSeconds
  HandoverTurn,   \* handover_turn
  SpeedCards      \* the cards that set a speed; alike but for their colour

ASSUME TimesAssumption ==
  /\ SyncPause \in Nat /\ SyncGo \in Nat /\ SyncBlink \in Nat \ {0}
  /\ Flash \in Nat
ASSUME SwitchAssumption == HandoverTurn \in BOOLEAN
ASSUME CardsAssumption == SpeedCards \subseteq {"yellow", "green"}

VARIABLES
  robot,   \* the members of the controller that decide on the eyes
  eyes     \* the driver's cache, the board, and which eye missed its last write

vars == <<robot, eyes>>

Eye    == {"left", "right"}
Colour == {"off", "white", "red", "yellow", "green", "blue"}
Unset  == "unset"

(***************************************************************************)
(* known and lost are had_peer_ and peer_lost_, sync and until are         *)
(* sync_kind_ and the time left to sync_until_, sign is sync_r_, _g_, _b_, *)
(* flash and flashing are flash_r_, _g_, _b_ and the time left to          *)
(* flash_until_, turning is the node's turn_active_.                       *)
(***************************************************************************)
Robot ==
  [enabled: BOOLEAN, running: BOOLEAN, leader: BOOLEAN,
   valid: BOOLEAN, known: BOOLEAN, lost: BOOLEAN,
   sync: {"None", "Speed", "TakeLead", "GiveLead"}, until: 0 .. SyncPause,
   sign: Colour, flash: Colour, flashing: 0 .. Flash, turning: BOOLEAN]

Board == [cache: [Eye -> Colour \cup {Unset}], board: [Eye -> Colour], missed: SUBSET Eye]

EyesTypeOK == robot \in Robot /\ eyes \in Board

\* The board shows what it showed before this node came up.
Init ==
  /\ \E enabled, leader \in BOOLEAN :
       robot = [enabled |-> enabled, running |-> FALSE, leader |-> leader,
                valid |-> FALSE, known |-> FALSE, lost |-> FALSE,
                sync |-> "None", until |-> 0, sign |-> "off",
                flash |-> "off", flashing |-> 0, turning |-> FALSE]
  /\ \E before \in [Eye -> {"off", "white"}] :
       eyes = [cache |-> [eye \in Eye |-> Unset], board |-> before, missed |-> {}]

-----------------------------------------------------------------------------
(* The driver. *)

\* set_led(): the board takes the write to these eyes, or misses it.
SetLed(e, which, colour) ==
  LET sent == [eye \in Eye |-> IF eye \in which THEN colour ELSE e.cache[eye]] IN
  {[e EXCEPT !.cache = sent, !.missed = @ \cup which],
   [cache  |-> sent,
    board  |-> [eye \in Eye |-> IF eye \in which THEN colour ELSE e.board[eye]],
    missed |-> e.missed \ which]}

\* set_eye_left(), set_eye_right()
SetEye(e, eye, colour) ==
  IF e.cache[eye] = colour THEN {e} ELSE SetLed(e, {eye}, colour)

\* Mutant: one eye speaks for both.
SetEyesByLeft(e, colour) ==
  IF e.cache["left"] = colour THEN {e} ELSE SetLed(e, Eye, colour)

\* set_eyes()
SetEyes(e, colour) ==
  IF \A eye \in Eye : e.cache[eye] = colour THEN {e} ELSE SetLed(e, Eye, colour)

-----------------------------------------------------------------------------
(* The controller's methods. *)

Busy(s) == s.sync # "None" \/ s.turning

FlashRgb(s, colour) == [s EXCEPT !.flash = colour, !.flashing = Flash]

\* Mutant: a flash of before the pause is left to go on after it.
BeginSyncFlashing(s, kind, colour) ==
  [s EXCEPT !.sync = kind, !.until = SyncPause, !.sign = colour]

BeginSync(s, kind, colour) ==
  [s EXCEPT !.sync = kind, !.until = SyncPause, !.sign = colour, !.flashing = 0]

\* finish_sync(): roles and the spin; an order of speed shows nowhere.
FinishSync(s) ==
  LET done == [s EXCEPT !.sync = "None"] IN
  IF s.sync = "Speed" THEN done
  ELSE [done EXCEPT !.leader = (s.sync = "TakeLead"), !.turning = HandoverTurn]

\* cancel_turn(), and the ends of a spin by line, encoders, deadline or key.
EndTurn(s) == [s EXCEPT !.turning = FALSE]

\* apply_sync_leds()
ApplySyncLeds(e, s) ==
  LET on == s.until =< SyncGo \/ (s.until \div SyncBlink) % 2 = 0 IN
  SetEyes(e, IF on THEN s.sign ELSE "off")

\* apply_leds(): lone is what the left eye of a leader without a peer may show.
ApplyLeds(e, s) ==
  LET lone == IF s.lost THEN {"white", "off"} ELSE {"white"} IN
  CASE s.flashing > 0 -> SetEyes(e, s.flash)
    [] s.flashing = 0 /\ ~ s.running -> SetEyes(e, "off") \cup SetEyes(e, "white")
    [] s.flashing = 0 /\ s.running /\ ~ s.leader -> SetEyes(e, "off")
    [] s.flashing = 0 /\ s.running /\ s.leader /\ s.valid -> SetEyes(e, "white")
    [] OTHER ->
         UNION {SetEye(f, "right", "off") :
                  f \in UNION {SetEye(e, "left", colour) : colour \in lone}}

\* Mutant: a peer that falls silent is forgotten, not missed.
ExpireQuietly(s) == IF s.valid THEN {s, [s EXCEPT !.valid = FALSE]} ELSE {s}

\* tick(): the peer may turn out to be silent.
Expire(s) ==
  IF s.valid THEN {s, [s EXCEPT !.valid = FALSE, !.lost = s.known \/ @]} ELSE {s}

\* maybe_elect() and resolve_roles(); a robot yields to a peer it hears.
Resolve(s) ==
  IF Busy(s) THEN {s}
  ELSE {s}
       \cup (IF s.leader THEN {} ELSE {[s EXCEPT !.leader = TRUE]})
       \cup (IF s.leader /\ s.valid
             THEN {FlashRgb([s EXCEPT !.leader = FALSE], "white")} ELSE {})

\* What tick() does to the controller once peers and roles are settled.
Advanced(s) ==
  IF s.running /\ s.sync # "None" /\ s.until = 0 THEN FinishSync(s) ELSE s

\* What tick() then shows.
Painted(e, s) ==
  IF s.running /\ s.sync # "None" THEN ApplySyncLeds(e, s)
  ELSE IF s.running /\ s.turning THEN SetEyes(e, s.sign)
  ELSE ApplyLeds(e, s)

-----------------------------------------------------------------------------
(* The callbacks. *)

\* on_timer(): tick(), and then step_turn(), which may end the spin.
OnTimer ==
  \E s \in UNION {Resolve(x) : x \in Expire(robot)} :
    /\ robot.enabled
    /\ robot' \in {Advanced(s), EndTurn(Advanced(s))}
    /\ eyes' \in Painted(eyes, Advanced(s))

OnTimerDisabled ==
  /\ ~ robot.enabled
  /\ robot' = EndTurn(robot)
  /\ UNCHANGED eyes

\* on_color(), for a card that was accepted.
Card ==
  /\ robot.enabled /\ robot.running
  /\ ~ Busy(robot)
  /\ UNCHANGED eyes

CardRejected ==
  /\ Card
  /\ ~ (robot.leader /\ robot.valid)
  /\ robot' = FlashRgb(robot, "red")

RedCard == Card /\ robot.leader /\ robot' = FlashRgb(robot, "red")

BlueCard ==
  /\ Card /\ robot.leader /\ robot.valid
  /\ robot' = BeginSync(robot, "GiveLead", "blue")

\* The speed is new, or in effect already.
SpeedCard(card) ==
  /\ Card /\ robot.leader
  /\ \/ robot' = BeginSync(robot, "Speed", card)
     \/ robot' = FlashRgb(robot, card)

\* on_command(), for an order that is heeded; it does not ask for enabled_.
Order ==
  /\ robot.running /\ ~ robot.leader
  /\ UNCHANGED eyes

OrderStop ==
  /\ Order
  /\ robot' = FlashRgb(EndTurn([robot EXCEPT !.sync = "None"]), "red")

OrderHandover ==
  /\ Order /\ ~ Busy(robot)
  /\ robot' = BeginSync(robot, "TakeLead", "blue")

OrderSpeed(card) ==
  /\ Order /\ ~ Busy(robot)
  /\ robot' = BeginSync(robot, "Speed", card)

\* on_peer()
OnPeer ==
  /\ robot' = [(IF ~ robot.valid /\ robot.lost THEN FlashRgb(robot, "white") ELSE robot)
                 EXCEPT !.valid = TRUE, !.known = TRUE, !.lost = robot.valid /\ @]
  /\ UNCHANGED eyes

\* on_run()
RunStart ==
  /\ robot.enabled /\ ~ robot.running
  /\ robot' = FlashRgb([robot EXCEPT !.running = TRUE], "white")
  /\ UNCHANGED eyes

RunStop ==
  /\ robot.enabled /\ robot.running
  /\ robot' = EndTurn([robot EXCEPT !.running = FALSE, !.sync = "None"])
  /\ UNCHANGED eyes

\* The parameters convoy_role and convoy_enable.
SetParameter ==
  /\ \E b \in BOOLEAN :
       \/ robot' = [robot EXCEPT !.leader = b]
       \/ robot' = [robot EXCEPT !.enabled = b]
  /\ UNCHANGED eyes

\* on_cmd_vel() and check_turn_line() between two timers.
TurnEnds == robot.turning /\ robot' = EndTurn(robot) /\ UNCHANGED eyes

\* on_eye_left(), on_eye_right() and on_eyes().
OnLed ==
  /\ \E colour \in {"off", "white"} :
       \/ \E eye \in Eye : eyes' \in SetEye(eyes, eye, colour)
       \/ eyes' \in SetEyes(eyes, colour)
  /\ UNCHANGED robot

\* Mutant: a countdown that does not end at zero.
OlderPastZero(s) == [s EXCEPT !.flashing = @ - 1]

Older(s) ==
  [s EXCEPT !.until = IF @ = 0 THEN 0 ELSE @ - 1,
            !.flashing = IF @ = 0 THEN 0 ELSE @ - 1]

Elapse == robot' = Older(robot) /\ UNCHANGED eyes

Next ==
  \/ OnTimer
  \/ OnTimerDisabled
  \/ CardRejected
  \/ RedCard
  \/ BlueCard
  \/ \E card \in SpeedCards : SpeedCard(card) \/ OrderSpeed(card)
  \/ OrderStop
  \/ OrderHandover
  \/ OnPeer
  \/ RunStart
  \/ RunStop
  \/ SetParameter
  \/ TurnEnds
  \/ OnLed
  \/ Elapse

Spec == Init /\ [][Next]_vars

-----------------------------------------------------------------------------
(* Properties. *)

(***************************************************************************)
(* What a colour on one eye tells the stand, by the table of readme.md.    *)
(* "Flash": the flash has time left and neither pause nor spin hides it.   *)
(***************************************************************************)
Idle(s) == s.running /\ ~ Busy(s)
Flashes(s, colour) == ~ Busy(s) /\ s.flashing > 0 /\ s.flash = colour
Waits(s) == ~ s.running /\ s.flashing = 0
Pauses(s, kinds) == s.running /\ s.sync \in kinds
Alone(s) == Idle(s) /\ s.leader /\ ~ s.valid

Means(s, eye, colour) ==
  \/ colour \in {"red", "yellow", "green", "white"} /\ Flashes(s, colour)
  \/ colour \in {"yellow", "green"} /\ Pauses(s, {"Speed"}) /\ s.sign = colour
  \/ colour = "blue" /\ (Pauses(s, {"TakeLead", "GiveLead"}) \/ s.turning)
  \/ colour = "white"
     /\ \/ Waits(s)
        \/ Idle(s) /\ s.leader /\ s.valid /\ s.flashing = 0
        \/ Alone(s) /\ s.flashing = 0 /\ eye = "left"
  \/ colour = "off"
     /\ \/ Pauses(s, {"Speed", "TakeLead", "GiveLead"}) /\ s.until > SyncGo
        \/ Waits(s)
        \/ Idle(s) /\ ~ s.leader /\ s.flashing = 0
        \/ Alone(s) /\ s.flashing = 0 /\ (eye = "right" \/ (s.known /\ s.lost))

\* After every tick of an enabled robot each eye tells the stand what the readme says
\* the colour means, whatever led topics, missed writes and flashes came before: only an
\* eye whose own last write the board missed may lie.  A spin that ends in the tick still
\* shows its colour.
EyesTell ==
  [][OnTimer =>
       \A eye \in Eye \ eyes'.missed :
         \/ Means(robot', eye, eyes'.board[eye])
         \/ eyes'.board[eye] = robot'.sign /\ robot'.sign = "blue" /\ ~ robot'.turning
            /\ (robot.turning \/ robot.sync \in {"TakeLead", "GiveLead"})]_vars

\* The countdown owns the eyes: no flash of a card or an order outlives the pause it
\* came before, so that none shows when the robots leave; a peer that comes back may.
PauseOwnsEyes ==
  robot.sync # "None" /\ robot.flashing > 0 => robot.flash = "white"

\* The left eye tells "never saw a peer" from "peer lost": whatever the robot was doing
\* and whether or not it was enabled when its peer fell silent or came back.
LostPeerKnown == robot.lost <=> robot.known /\ ~ robot.valid
=============================================================================
