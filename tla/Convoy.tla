-------------------------------- MODULE Convoy --------------------------------
(***************************************************************************)
(* The convoy: a controller per robot (ConvoyController), the three topics *)
(* they share, the operator's laptop, and the network and power failures   *)
(* between them.                                                           *)
(*                                                                         *)
(*   /convoy/command  reliable, transient local, keep last 1: an order     *)
(*                    arrives within MaxDelay periods of being sent while  *)
(*                    writer and reader are connected, in order; a reader  *)
(*                    that joins late is sent the writer's last one.       *)
(*   /convoy/peer     best effort, keep last 1: a heartbeat arrives in the *)
(*                    period it is sent in, or never: an outage keeps it   *)
(*                    from its reader, and so may the radio at any time.   *)
(*   /convoy/run      reliable, volatile: as /convoy/command, without the  *)
(*                    history.                                             *)
(***************************************************************************)
EXTENDS ConvoyController, Sequences

CONSTANTS
  BootRole,   \* the convoy_role each robot starts with
  MaxDelay    \* periods a reliable topic may take

ASSUME BusAssumption ==
  /\ BootRole \in [Robots -> Role]
  /\ MaxDelay \in Nat

VARIABLES
  robot,     \* the controller of each robot
  up,        \* the robots whose node is running
  online,    \* the robots on the Wi-Fi
  due,       \* the robots whose timer has yet to fire in this period
  orders,    \* /convoy/command: for <<writer, reader>>, the orders on their way
  history,   \* /convoy/command: the last sample each writer keeps, or "None"
  beats,     \* /convoy/peer: the heartbeats on their way
  runs,      \* /convoy/run: for each reader, the orders on their way
  claimed    \* the highest term each robot has led with (history variable)

bus  == <<orders, history, beats, runs>>
net  == <<up, online>>
vars == <<robot, up, online, due, orders, history, beats, runs, claimed>>

RunOrder == {"START", "STOP"}
Order    == [cmd: Command, age: 0 .. MaxDelay]
Run      == [run: RunOrder, age: 0 .. MaxDelay]
Beat     == [from: Robots, to: Robots, role: Role, term: Nat]
Pairs    == Robots \X Robots

Connected(w, r) == w = r \/ {w, r} \subseteq online

TypeOK ==
  /\ robot \in [Robots -> Controller]
  /\ up \subseteq Robots
  /\ online \subseteq Robots
  /\ due \subseteq up
  /\ orders \in [Pairs -> Seq(Order)]
  /\ history \in [Robots -> Command \cup {"None"}]
  /\ beats \subseteq Beat
  /\ runs \in [Robots -> Seq(Run)]
  /\ claimed \in [Robots -> Nat]

Init ==
  /\ robot = [r \in Robots |-> Boot(BootRole[r])]
  /\ up = Robots
  /\ online = Robots
  /\ due = Robots
  /\ orders = [p \in Pairs |-> <<>>]
  /\ history = [r \in Robots |-> "None"]
  /\ beats = {}
  /\ runs = [r \in Robots |-> <<>>]
  /\ claimed = [r \in Robots |-> robot[r].term]

-----------------------------------------------------------------------------
(* The bus. *)

\* A writer keeps one sample: a reader it cannot reach loses all but the last.
Sent(q, w, r, cmd) ==
  IF r \notin up THEN q
  ELSE IF Connected(w, r) THEN Append(q, [cmd |-> cmd, age |-> 0])
  ELSE <<[cmd |-> cmd, age |-> 0]>>

\* Every reader of the topic is sent the order, the writer's own included.
Publish(w, cmd) ==
  /\ orders' = [p \in Pairs |->
                  IF p[1] = w THEN Sent(orders[p], w, p[2], cmd) ELSE orders[p]]
  /\ history' = [history EXCEPT ![w] = cmd]

Silent == UNCHANGED <<orders, history>>

\* publish_peer().  on_peer() skips the writer's own heartbeats.
BeatsOf(w, c) ==
  [from: {w}, to: up \ {w}, role: {c.role}, term: {c.term}]

Heartbeat(w, c) == beats' = {b \in beats : b.from # w} \cup BeatsOf(w, c)

\* The robot has become c, which may lead with a term of its own.
Becomes(r, c) ==
  /\ robot' = [robot EXCEPT ![r] = c]
  /\ claimed' = IF c.role = "Leader"
                THEN [claimed EXCEPT ![r] = Larger(@, c.term)] ELSE claimed

-----------------------------------------------------------------------------
(* on_timer(): tick(), then step_turn() while the robot is spinning. *)

\* The end of tick() and of on_timer(): a heartbeat and a look at the spin.
Ticked(r, c) ==
  /\ \E d \in StepTurn(c) : Becomes(r, d)
  /\ Heartbeat(r, c)
  /\ due' = due \ {r}
  /\ UNCHANGED <<up, online, runs>>

TickDisabled(r) ==
  /\ r \in due
  /\ ~ robot[r].enabled
  /\ \E d \in StepTurn(robot[r]) : Becomes(r, d)
  /\ due' = due \ {r}
  /\ UNCHANGED <<up, online, bus>>

TickWaiting(r) ==
  /\ r \in due
  /\ robot[r].enabled /\ ~ robot[r].running
  /\ Ticked(r, [Settled(r, robot[r]) EXCEPT !.hold = TRUE])
  /\ Silent

TickCountdown(r) ==
  /\ r \in due
  /\ robot[r].enabled /\ robot[r].running
  /\ robot[r].sync # "None" /\ robot[r].syncLeft > 0
  /\ Ticked(r, Settled(r, robot[r]))
  /\ Silent

TickFinish(r) ==
  /\ r \in due
  /\ robot[r].enabled /\ robot[r].running
  /\ robot[r].sync # "None" /\ robot[r].syncLeft = 0
  /\ LET c == FinishSync(Settled(r, robot[r])) IN
       /\ Ticked(r, Steer(c))
       /\ IF robot[r].sync = "TakeLead" THEN Publish(r, c.drive) ELSE Silent

TickDrive(r) ==
  /\ r \in due
  /\ robot[r].enabled /\ robot[r].running
  /\ robot[r].sync = "None"
  /\ LET c == Settled(r, robot[r]) IN
       /\ Ticked(r, Steer(c))
       /\ IF ~ Busy(robot[r]) /\ Elects(Heard(robot[r]))
          THEN Publish(r, c.drive) ELSE Silent

OnTimer(r) ==
  \/ TickDisabled(r)
  \/ TickWaiting(r)
  \/ TickCountdown(r)
  \/ TickFinish(r)
  \/ TickDrive(r)

\* check_turn_line(): the line sensor ends the spin between two timers.
SpinEnds(r) ==
  /\ r \in up
  /\ Turning(robot[r])
  /\ robot[r].turn < TurnDeadline
  /\ Becomes(r, FinishTurn(robot[r]))
  /\ UNCHANGED <<net, due, bus>>

-----------------------------------------------------------------------------
(* on_command(): r takes the oldest order w has sent it, or its reader's   *)
(* cache of one loses that order to a newer one.                           *)

Receive(w, r) ==
  /\ r \in up
  /\ orders[<<w, r>>] # <<>>
  /\ Connected(w, r)
  /\ orders' = [orders EXCEPT ![<<w, r>>] = Tail(@)]
  /\ UNCHANGED <<net, due, history, beats, runs>>

Arriving(w, r) == Head(orders[<<w, r>>]).cmd

\* Mutant: the order already in effect is taken as a fresh one.
HeedsAgain(c, cmd) == c.running /\ c.role = "Follower"

Heeds(c, cmd) ==
  /\ c.running
  /\ c.role = "Follower"
  /\ cmd # c.drive

CommandIgnored(w, r) ==
  /\ Receive(w, r)
  /\ \/ ~ Heeds(robot[r], Arriving(w, r))
     \/ Arriving(w, r) # "Stop" /\ Busy(robot[r])
  /\ UNCHANGED <<robot, claimed>>

CommandStop(w, r) ==
  /\ Receive(w, r)
  /\ Heeds(robot[r], Arriving(w, r))
  /\ Arriving(w, r) = "Stop"
  /\ Becomes(r, [FinishTurn(robot[r]) EXCEPT !.sync = "None", !.drive = "Stop"])

\* Mutant: the follower sits out the handover in the leader's part.
CommandHandoverSwapped(w, r) ==
  /\ Receive(w, r)
  /\ Heeds(robot[r], Arriving(w, r))
  /\ Arriving(w, r) = "Handover" /\ ~ Busy(robot[r])
  /\ Becomes(r, BeginSync(robot[r], "GiveLead", robot[r].drive))

CommandHandover(w, r) ==
  /\ Receive(w, r)
  /\ Heeds(robot[r], Arriving(w, r))
  /\ Arriving(w, r) = "Handover" /\ ~ Busy(robot[r])
  /\ Becomes(r, BeginSync(robot[r], "TakeLead", robot[r].drive))

CommandSpeed(w, r) ==
  /\ Receive(w, r)
  /\ Heeds(robot[r], Arriving(w, r))
  /\ Arriving(w, r) \in {"Cruise", "Turbo"} /\ ~ Busy(robot[r])
  /\ Becomes(r, BeginSync(robot[r], "Speed", Arriving(w, r)))

OrderReplaced(w, r) ==
  /\ Receive(w, r)
  /\ Len(orders[<<w, r>>]) > 1
  /\ UNCHANGED <<robot, claimed>>

OnCommand(w, r) ==
  \/ CommandIgnored(w, r)
  \/ CommandStop(w, r)
  \/ CommandHandover(w, r)
  \/ CommandSpeed(w, r)
  \/ OrderReplaced(w, r)

-----------------------------------------------------------------------------
(* on_peer(), on_run() and on_color(). *)

OnPeer(r) ==
  \E b \in {b \in beats : b.to = r} :
    /\ r \in up
    /\ Connected(b.from, r)
    /\ beats' = beats \ {b}
    /\ robot' = [robot EXCEPT ![r].peer =
                   [id |-> b.from, role |-> b.role, term |-> b.term,
                    valid |-> TRUE, age |-> 0]]
    /\ UNCHANGED <<net, due, orders, history, runs, claimed>>

OnRun(r) ==
  LET c == robot[r]
      run == Head(runs[r]).run = "START" IN
  /\ r \in up /\ runs[r] # <<>>
  /\ runs' = [runs EXCEPT ![r] = Tail(@)]
  /\ UNCHANGED <<net, due, beats>>
  /\ IF ~ c.enabled \/ c.running = run
     THEN UNCHANGED <<robot, claimed, orders, history>>
     ELSE /\ Becomes(r, SetRunning(c, run))
          /\ IF run /\ c.role = "Leader" THEN Publish(r, "Cruise") ELSE Silent

RunReplaced(r) ==
  /\ Len(runs[r]) > 1
  /\ runs' = [runs EXCEPT ![r] = Tail(@)]
  /\ UNCHANGED <<robot, net, due, orders, history, beats, claimed>>

\* on_color() up to accept_card(): the debounce has counted the card.
Card(r) ==
  /\ r \in up
  /\ robot[r].enabled /\ robot[r].running
  /\ ~ Busy(robot[r])
  /\ robot[r].calm = CardGap
  /\ UNCHANGED <<net, due, beats, runs>>

Taken(r) == [robot[r] EXCEPT !.calm = 0]

CardRejected(r) ==
  /\ Card(r)
  /\ robot[r].role # "Leader" \/ ~ robot[r].peer.valid
  /\ Becomes(r, Taken(r))
  /\ Silent

BlueCard(r) ==
  /\ Card(r)
  /\ robot[r].role = "Leader" /\ robot[r].peer.valid
  /\ Publish(r, "Handover")
  /\ Becomes(r, BeginSync(robot[r], "GiveLead", robot[r].drive))

RedCard(r) ==
  /\ Card(r)
  /\ robot[r].role = "Leader"
  /\ Publish(r, "Stop")
  /\ Becomes(r, [Taken(r) EXCEPT !.drive = "Stop"])

\* Mutant: the leader speeds up at once and leaves the follower in the pause.
SpeedCardAtOnce(r, cmd) ==
  /\ Card(r)
  /\ robot[r].role = "Leader"
  /\ Publish(r, cmd)
  /\ Becomes(r, [Taken(r) EXCEPT !.drive = cmd])

\* Yellow is Turbo, green is Cruise.
SpeedCard(r, cmd) ==
  /\ Card(r)
  /\ robot[r].role = "Leader"
  /\ Publish(r, cmd)
  /\ Becomes(r, IF cmd = robot[r].drive THEN Taken(r)
                ELSE BeginSync(robot[r], "Speed", cmd))

-----------------------------------------------------------------------------
(* The operator's laptop: /convoy/run and the parameters. *)

PublishRun(run) ==
  /\ runs' = [r \in Robots |->
                IF r \in up \cap online
                THEN Append(runs[r], [run |-> run, age |-> 0]) ELSE runs[r]]
  /\ UNCHANGED <<robot, net, due, orders, history, beats, claimed>>

SetRole(r, role) ==
  /\ r \in up
  /\ Becomes(r, IF role = "Leader" THEN BecomeLeader(robot[r])
                ELSE BecomeFollower(robot[r]))
  /\ UNCHANGED <<net, due, bus>>

SetEnable(r, enable) ==
  /\ r \in up
  /\ Becomes(r, [robot[r] EXCEPT !.enabled = enable])
  /\ UNCHANGED <<net, due, bus>>

-----------------------------------------------------------------------------
(* Failures. *)

\* The Pi loses power: its memory and what it had yet to read are gone with it,
\* and what it had sent may be.
Crash(r) ==
  /\ r \in up
  /\ up' = up \ {r}
  /\ due' = due \ {r}
  /\ \E lost \in BOOLEAN :
       orders' = [p \in Pairs |->
                    IF p[2] = r \/ (lost /\ p[1] = r) THEN <<>> ELSE orders[p]]
  /\ history' = [history EXCEPT ![r] = "None"]
  /\ beats' = {b \in beats : b.to # r}
  /\ runs' = [runs EXCEPT ![r] = <<>>]
  /\ Becomes(r, Boot(BootRole[r]))
  /\ online' = online

\* What the writers that r can now reach send it as a late joiner, and it them.
Rematched(r, again) ==
  [p \in Pairs |->
     IF again /\ p[1] # p[2] /\ r \in {p[1], p[2]} /\ {p[1], p[2]} \subseteq up'
        /\ {p[1], p[2]} \subseteq online' /\ history[p[1]] # "None"
     THEN <<[cmd |-> history[p[1]], age |-> 0]>>
     ELSE IF r \in {p[1], p[2]}
     THEN [i \in DOMAIN orders[p] |-> [orders[p][i] EXCEPT !.age = 0]]
     ELSE orders[p]]

Restart(r) ==
  /\ r \notin up
  /\ up' = up \cup {r}
  /\ online' = online
  /\ orders' = Rematched(r, TRUE)
  /\ UNCHANGED <<robot, due, history, beats, runs, claimed>>

Offline(r) ==
  /\ r \in online
  /\ online' = online \ {r}
  /\ UNCHANGED <<robot, up, due, bus, claimed>>

\* A short outage leaves the samples it held up; after one long enough for
\* discovery to drop the endpoints they match again as late joiners.
Online(r) ==
  /\ r \notin online
  /\ online' = online \cup {r}
  /\ up' = up
  /\ \E again \in BOOLEAN : orders' = Rematched(r, again)
  /\ UNCHANGED <<robot, due, history, beats, runs, claimed>>

\* Nothing repeats a heartbeat that a best effort topic has lost.
BeatLost ==
  /\ \E b \in beats : beats' = beats \ {b}
  /\ UNCHANGED <<robot, net, due, orders, history, runs, claimed>>

-----------------------------------------------------------------------------
(* One period passes, once every timer of it has fired and what had to     *)
(* arrive in it has arrived.                                               *)

Late(q) == \E i \in DOMAIN q : q[i].age = MaxDelay
Aged(q) == [i \in DOMAIN q |-> [q[i] EXCEPT !.age = Smaller(@ + 1, MaxDelay)]]

Elapse ==
  /\ due = {}
  /\ \A w \in Robots, r \in up : Connected(w, r) => ~ Late(orders[<<w, r>>])
  /\ \A r \in up : ~ Late(runs[r])
  /\ \A b \in beats : ~ (b.to \in up /\ Connected(b.from, b.to))
  /\ robot' = [r \in Robots |-> IF r \in up THEN Older(robot[r]) ELSE robot[r]]
  /\ due' = up
  /\ orders' = [p \in Pairs |-> Aged(orders[p])]
  /\ runs' = [r \in Robots |-> Aged(runs[r])]
  /\ beats' = {}
  /\ UNCHANGED <<net, history, claimed>>

-----------------------------------------------------------------------------
\* What the code and its clock do of themselves.
Callback(r) ==
  \/ OnTimer(r)
  \/ SpinEnds(r)
  \/ OnPeer(r)
  \/ OnRun(r)
  \/ RunReplaced(r)
  \/ \E w \in Robots : OnCommand(w, r)

Next ==
  \/ \E r \in Robots :
       \/ Callback(r)
       \/ CardRejected(r)
       \/ BlueCard(r)
       \/ RedCard(r)
       \/ \E cmd \in {"Cruise", "Turbo"} : SpeedCard(r, cmd)
       \/ \E role \in Role : SetRole(r, role)
       \/ \E enable \in BOOLEAN : SetEnable(r, enable)
       \/ Crash(r)
       \/ Restart(r)
       \/ Offline(r)
       \/ Online(r)
  \/ \E run \in RunOrder : PublishRun(run)
  \/ BeatLost
  \/ Elapse

\* The executors run what is ready, and the clock goes on when nothing more has to
\* run in a period.  A period holds finitely many callbacks, so that no robot's need
\* be named.  What the world does, the failures and their ends, the cards and the
\* operator, is owed to nobody.
Fairness == WF_vars(\E r \in Robots : Callback(r)) /\ WF_vars(Elapse)

Spec == Init /\ [][Next]_vars

-----------------------------------------------------------------------------
(* Properties. *)

\* A robot that waits for START, sits out a pause or spins is held off the line,
\* pauses and spins are over once the convoy is stopped, and they exclude each
\* other: whatever order, card, heartbeat, parameter or timer comes in between,
\* none leaves a robot driving on the line while the other counts on its pause.
Parked(c) ==
  /\ ~ c.running \/ Busy(c) => c.hold
  /\ Busy(c) => c.running
  /\ c.sync = "None" \/ ~ Turning(c)

ParkedUnlessDriving == \A r \in Robots : Parked(robot[r])

\* Robots driving on the line at the same time drive at the same speed: the
\* pause of begin_sync() covers the time an order takes to the other robot.
Driving(r) == r \in up /\ ~ robot[r].hold

SameSpeed ==
  \A r, s \in Robots : Driving(r) /\ Driving(s) => robot[r].speed = robot[s].speed

\* The convoy runs, nobody is pausing or spinning and no order is on its way.
AtRest ==
  /\ \A r \in Robots : r \in up /\ robot[r].running /\ ~ Busy(robot[r])
  /\ \A p \in Pairs : orders[p] = <<>>
  /\ \A r \in Robots : runs[r] = <<>>

\* At rest the robots agree on the order in effect and exactly one leads: both
\* took every order, or neither, and a handover moved the lead as a whole.
AgreeAtRest ==
  AtRest => /\ \A r, s \in Robots : robot[r].drive = robot[s].drive
            /\ \E r \in Robots : \A s \in Robots :
                 robot[s].role = "Leader" <=> s = r

\* A robot gives the lead up on a heartbeat only to a robot that has really
\* led with a term, or an id, that outranks its own.
Outranks(s, term, r) == term < claimed[s] \/ (term = claimed[s] /\ s < r)

YieldsToRealClaim ==
  [][\A r \in Robots :
       OnTimer(r) /\ ~ Busy(robot[r])
         /\ robot[r].role = "Leader" /\ robot'[r].role = "Follower"
       => \E s \in Robots \ {r} : Outranks(s, robot[r].term, r)]_vars

-----------------------------------------------------------------------------
(* What the convoy promises about its lead, in the terms of Lead. *)

RoleOf == [r \in Robots |-> robot[r].role]
TermOf == [r \in Robots |-> robot[r].term]

\* A robot's part in a handover: the pause for a new speed is none.
Part(sync) == IF sync = "Speed" THEN "None" ELSE sync
PartOf     == [r \in Robots |-> Part(robot[r].sync)]

Leadership == INSTANCE Lead WITH role <- RoleOf, term <- TermOf, handing <- PartOf

\* The convoy implements Lead: on its own a robot claims, yields or hands over the
\* lead at most once a period and for a reason, and its term falls only when it
\* loses power, whatever tick(), on_command() and the parameters do in between.
ImplementsLead == Leadership!Spec
=============================================================================
