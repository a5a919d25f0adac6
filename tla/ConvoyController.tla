--------------------------- MODULE ConvoyController ---------------------------
(***************************************************************************)
(* One robot's convoy controller (convoy_controller.cpp): the state it     *)
(* keeps and, as operators on that state, what its methods do to it.  The  *)
(* convoy node runs every callback on one thread, so each handler is one   *)
(* atomic step; Convoy.tla composes the robots with the bus between them.  *)
(*                                                                         *)
(* Time is counted in periods of the 50 ms timer that calls tick().  A     *)
(* time stamp of the code is kept as the age or the time left that the     *)
(* code computes from it, capped where no test can tell more apart.        *)
(***************************************************************************)
EXTENDS Integers

CONSTANTS
  \* @type: Set(Int); the robot_id parameters, ordered as the strings are
  Robots,
  LeaderTimeout,   \* leader_timeout, in periods
  SyncPause,       \* sync_pause, in periods
  TurnDeadline,    \* turn_deadline_ - turn_start_, in periods
  CardGap,         \* periods color_debounce needs before it takes a card
  HandoverTurn     \* handover_turn

ASSUME RobotsAssumption == Robots \subseteq Nat
ASSUME TimesAssumption ==
  /\ LeaderTimeout \in Nat
  /\ SyncPause \in Nat
  /\ TurnDeadline \in Nat /\ TurnDeadline > 1
  /\ CardGap \in Nat
ASSUME SwitchAssumption == HandoverTurn \in BOOLEAN

Role     == {"Leader", "Follower"}
Drive    == {"Stop", "Cruise", "Turbo"}
Command  == Drive \cup {"Handover"}
SyncKind == {"None", "Speed", "TakeLead", "GiveLead"}

Larger(a, b) == IF a < b THEN b ELSE a
Smaller(a, b) == IF a < b THEN a ELSE b

\* The last heartbeat heard (struct Peer); NoRobot is the empty id.
NoRobot == -1
PeerExpiry == 2 * LeaderTimeout
Peer == [id: Robots \cup {NoRobot}, role: Role, term: Nat, valid: BOOLEAN,
         age: 0 .. PeerExpiry + 1]

(***************************************************************************)
(* The controller's members, and the three of the node it steers by:       *)
(* hold is convoy_hold_, speed is line_follow_speed_ ("Param" until the    *)
(* convoy first sets it) and turn is turn_active_ with the time left to    *)
(* turn_deadline_ (0: not turning).  calm is how long the colour debounce  *)
(* has been free to count.                                                 *)
(***************************************************************************)
Controller ==
  [enabled: BOOLEAN, running: BOOLEAN, hold: BOOLEAN,
   role: Role, term: Nat, drive: Drive, speed: Drive \cup {"Param"},
   peer: Peer, seen: 0 .. LeaderTimeout + 1,
   sync: SyncKind, syncCmd: Drive, syncLeft: 0 .. SyncPause,
   turn: 0 .. TurnDeadline, calm: 0 .. CardGap]

\* The constructor and load_parameters(), with convoy_enable true.
Boot(role) ==
  [enabled |-> TRUE, running |-> FALSE, hold |-> TRUE,
   role |-> role, term |-> IF role = "Leader" THEN 1 ELSE 0,
   drive |-> "Cruise", speed |-> "Param",
   peer |-> [id |-> NoRobot, role |-> "Follower", term |-> 0,
             valid |-> FALSE, age |-> 0],
   seen |-> 0, sync |-> "None", syncCmd |-> "Cruise", syncLeft |-> 0,
   turn |-> 0, calm |-> 0]

Turning(c) == c.turn > 0
Busy(c)    == c.sync # "None" \/ Turning(c)

-----------------------------------------------------------------------------
(* Roles. *)

BecomeLeader(c) ==
  [c EXCEPT !.term = Larger(c.term, c.peer.term) + 1, !.role = "Leader"]

\* Mutant: the election clock is not reset with the role.
BecomeFollowerAsIs(c) == [c EXCEPT !.role = "Follower"]

BecomeFollower(c) == [c EXCEPT !.role = "Follower", !.seen = 0]

HearsLeader(c) == c.peer.valid /\ c.peer.role = "Leader"

\* Mutant: a silent peer is never forgotten.
ExpirePeerNever(c) == c

\* tick(): forget a peer that has been silent for two leader timeouts.
ExpirePeer(c) ==
  IF c.peer.age > PeerExpiry THEN [c EXCEPT !.peer.valid = FALSE] ELSE c

\* tick(): the cached heartbeat of a leader, however old, resets the election clock.
NoteLeader(c) == IF HearsLeader(c) THEN [c EXCEPT !.seen = 0] ELSE c

\* maybe_elect()'s early returns.
Elects(c) ==
  /\ c.role = "Follower"
  /\ ~ HearsLeader(c)
  /\ c.seen > LeaderTimeout

MaybeElect(c) == IF Elects(c) THEN BecomeLeader(c) ELSE c

\* Mutant: leaders of one term both yield.
LosesTies(r, c) ==
  c.role = "Leader" /\ HearsLeader(c) /\ c.term =< c.peer.term

\* Mutant: leaders of one term both stay.
LosesByTerm(r, c) ==
  c.role = "Leader" /\ HearsLeader(c) /\ c.term < c.peer.term

\* resolve_roles(): of two leaders the older term yields, then the larger id.
Loses(r, c) ==
  /\ c.role = "Leader"
  /\ HearsLeader(c)
  /\ \/ c.term < c.peer.term
     \/ c.term = c.peer.term /\ r > c.peer.id

ResolveRoles(r, c) == IF Loses(r, c) THEN BecomeFollower(c) ELSE c

\* tick() up to the roles being settled.
Heard(c) == NoteLeader(ExpirePeer(c))
Settled(r, c) ==
  IF Busy(c) THEN Heard(c) ELSE ResolveRoles(r, MaybeElect(Heard(c)))

-----------------------------------------------------------------------------
(* Pauses, spins and motion. *)

\* Mutant: the wheels are not parked for the pause.
BeginSyncMoving(c, kind, cmd) ==
  [c EXCEPT !.sync = kind, !.syncCmd = cmd, !.syncLeft = SyncPause, !.calm = 0]

BeginSync(c, kind, cmd) ==
  [c EXCEPT !.sync = kind, !.syncCmd = cmd, !.syncLeft = SyncPause,
            !.hold = TRUE, !.calm = 0]

\* begin_turnaround() and start_turn().
BeginTurnaround(c) ==
  IF HandoverTurn THEN [c EXCEPT !.hold = TRUE, !.turn = TurnDeadline] ELSE c

\* finish_turn(), and cancel_turn() which calls it only during a spin.
FinishTurn(c) == [c EXCEPT !.turn = 0]

\* Mutant: the robot that takes the lead forgets the order in effect.
FinishSyncCruising(c) ==
  LET done == [c EXCEPT !.sync = "None"] IN
  CASE c.sync = "TakeLead" ->
         BeginTurnaround([BecomeLeader(done) EXCEPT !.drive = "Cruise"])
    [] c.sync = "GiveLead" -> BeginTurnaround(BecomeFollower(done))
    [] OTHER               -> [done EXCEPT !.drive = c.syncCmd]

\* Mutant: the end of a pause forgets what the pause was for.
FinishSyncInRole(c) == [c EXCEPT !.sync = "None", !.drive = c.syncCmd]

\* finish_sync(), without the order that TakeLead publishes.
FinishSync(c) ==
  LET done == [c EXCEPT !.sync = "None"] IN
  CASE c.sync = "TakeLead" ->
         BeginTurnaround([BecomeLeader(done) EXCEPT !.drive = c.syncCmd])
    [] c.sync = "GiveLead" -> BeginTurnaround(BecomeFollower(done))
    [] OTHER               -> [done EXCEPT !.drive = c.syncCmd]

ApplyMotion(c) ==
  IF c.drive = "Stop"
  THEN [c EXCEPT !.hold = TRUE]
  ELSE [c EXCEPT !.hold = FALSE, !.speed = c.drive]

\* Mutant: the speed of the order is set on a robot that spins.
SteerThroughSpin(c) == ApplyMotion(c)

\* tick() after a pause or without one: a spin keeps the wheels.
Steer(c) == IF Turning(c) THEN c ELSE ApplyMotion(c)

\* Mutant: no deadline ends a spin.
StepTurnForever(c) == {d \in {c, FinishTurn(c)} : c.turn = TurnDeadline => d = c}

\* step_turn() at the end of on_timer(): the encoders may end a spin any time
\* after it starts, and the deadline ends it at the latest.
StepTurn(c) ==
  {d \in {c, FinishTurn(c)} :
     /\ c.turn = TurnDeadline => d = c
     /\ c.turn = 1 => d = FinishTurn(c)}

-----------------------------------------------------------------------------
(* The operator's orders. *)

\* Mutant: stopping the convoy leaves a pause in progress.
SetRunningInPause(c, run) ==
  [FinishTurn(c) EXCEPT !.running = run, !.hold = TRUE]

SetRunning(c, run) ==
  IF run
  THEN [c EXCEPT !.running = TRUE,
                 !.drive = IF c.role = "Leader" THEN "Cruise" ELSE @]
  ELSE [FinishTurn(c) EXCEPT !.running = FALSE, !.hold = TRUE, !.sync = "None"]

-----------------------------------------------------------------------------
(* Time. *)

\* Mutant: a countdown that does not end at zero.
OlderPastZero(c) == [c EXCEPT !.syncLeft = @ - 1]

\* One period later, as every now() - stamp of the code will find it.
Older(c) ==
  [c EXCEPT !.peer.age = Smaller(@ + 1, PeerExpiry + 1),
            !.seen = Smaller(@ + 1, LeaderTimeout + 1),
            !.syncLeft = IF @ = 0 THEN 0 ELSE @ - 1,
            !.turn = IF @ > 1 THEN @ - 1 ELSE @,
            !.calm = IF Busy(c) THEN 0
                     ELSE IF c.enabled /\ c.running THEN Smaller(@ + 1, CardGap)
                     ELSE @]
=============================================================================
