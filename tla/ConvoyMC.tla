------------------------------- MODULE ConvoyMC -------------------------------
(***************************************************************************)
(* Convoy for TLC: what the world around the robots does is budgeted, so   *)
(* that terms stay small, and two ghosts follow the robots for properties  *)
(* the code keeps no state for.                                            *)
(***************************************************************************)
EXTENDS Convoy, FiniteSets

CONSTANTS
  First,    \* the robots that start as leaders
  Cards, RunOrders, Settings, Faults,   \* the budgets
  Hasty     \* may the operator order again before the last order is read?

ASSUME BudgetAssumption ==
  /\ {Cards, RunOrders, Settings, Faults} \subseteq Nat
  /\ Hasty \in BOOLEAN

VARIABLES
  left,     \* what is left of each budget
  heading,  \* which way along the line each robot faces
  silent    \* periods each idle follower has gone without a leader's heartbeat

MCBootRole == [r \in Robots |-> IF r \in First THEN "Leader" ELSE "Follower"]

ghosts == <<heading, silent>>
mcvars == <<vars, left, ghosts>>

MCInit ==
  /\ Init
  /\ left = [cards |-> Cards, runs |-> RunOrders, settings |-> Settings,
             faults |-> Faults]
  /\ heading = [r \in Robots |-> "there"]
  /\ silent = [r \in Robots |-> 0]

Spend(budget) ==
  /\ left[budget] > 0
  /\ left' = [left EXCEPT ![budget] = @ - 1]

Leaders == {r \in up : robot[r].role = "Leader"}

\* A heartbeat lost starts the clock at one period; the code looks at the cached
\* heartbeat for PeerExpiry periods and waits LeaderTimeout more from there.
TakeoverTime == PeerExpiry + LeaderTimeout + 1

\* A setting of the operator's starts the watch anew, as it may the code's clocks.
Awaits(r) ==
  /\ r \in up' /\ left'.settings = left.settings
  /\ robot'[r].enabled /\ ~ Busy(robot'[r])
  /\ robot[r].role = "Follower" /\ robot'[r].role = "Follower"
  /\ ~ (HearsLeader(robot'[r]) /\ robot'[r].peer.age = 0)

Opposite == [there |-> "back", back |-> "there", astray |-> "astray"]

\* A spin is over, but not by the encoders, the line or the deadline: an order
\* that arrived has cancelled it.
Cancelled == due' = due /\ <<orders, runs>>' # <<orders, runs>>

Observe ==
  /\ heading' = [r \in Robots |->
       IF ~ Turning(robot[r]) \/ Turning(robot'[r]) THEN heading[r]
       ELSE IF Cancelled THEN "astray" ELSE Opposite[heading[r]]]
  /\ silent' = [r \in Robots |->
       IF ~ Awaits(r) THEN 0
       ELSE IF due = {} /\ due' # {} THEN Smaller(silent[r] + 1, TakeoverTime + 1)
       ELSE silent[r]]

MCCallback(r) == Callback(r) /\ UNCHANGED left

MCCard(r) ==
  /\ Spend("cards")
  /\ \/ CardRejected(r)
     \/ BlueCard(r)
     \/ RedCard(r)
     \/ \E cmd \in {"Cruise", "Turbo"} : SpeedCard(r, cmd)

MCParameter(r) ==
  /\ Spend("settings")
  /\ \/ \E role \in Role : SetRole(r, role)
     \/ \E enable \in BOOLEAN : SetEnable(r, enable)

MCCrash(r) == Spend("faults") /\ Crash(r)
MCRestart(r) == Restart(r) /\ UNCHANGED left
MCOffline(r) == Spend("faults") /\ Offline(r)
MCOnline(r) == Online(r) /\ UNCHANGED left
MCPublishRun ==
  /\ Hasty \/ \A r \in Robots : runs[r] = <<>>
  /\ Spend("runs")
  /\ \E run \in RunOrder : PublishRun(run)
MCBeatLost == Spend("faults") /\ BeatLost
MCElapse == Elapse /\ UNCHANGED left

MCNext ==
  /\ \/ \E r \in Robots :
          \/ MCCallback(r)
          \/ MCCard(r)
          \/ MCParameter(r)
          \/ MCCrash(r)
          \/ MCRestart(r)
          \/ MCOffline(r)
          \/ MCOnline(r)
     \/ MCPublishRun
     \/ MCBeatLost
     \/ MCElapse
  /\ Observe

MCSpec == MCInit /\ [][MCNext]_mcvars

MCFairSpec == MCSpec /\ Fairness

-----------------------------------------------------------------------------
(* Properties of the budgeted convoy. *)

\* At rest both robots face the same way along the line: a handover turns both
\* around, or neither, and no order leaves one across the line.
HeadingsAgree ==
  AtRest => \A r, s \in Robots : heading[r] = heading[s] /\ heading[r] # "astray"

\* With the network and the robots up, the lead moves only at the end of a
\* handover's pause: no heartbeat gap, pause or spin is taken for a lost leader,
\* and no handover for a clash of leaders.
LeadMovesByHandover ==
  [][\A r \in Robots :
       robot'[r].role # robot[r].role => robot[r].sync \in {"TakeLead", "GiveLead"}]_mcvars

\* Neither robot ends a handover alone: its pause ends in the exchange of its role and
\* in nothing else, then the other robot has made its part or is about to, and the
\* order it takes up again, the code's pending order, is the one the other is under.
HandoverMeets ==
  [][\A r \in Robots : \A s \in Robots \ {r} :
       /\ robot[r].sync = "GiveLead" /\ robot'[r].sync # "GiveLead" =>
            /\ robot'[r].role = "Follower" /\ robot'[r].drive = robot[s].drive
            /\ robot[s].role = "Leader" \/ robot[s].sync = "TakeLead"
       /\ robot[r].sync = "TakeLead" /\ robot'[r].sync # "TakeLead" =>
            /\ robot'[r].role = "Leader" /\ robot'[r].drive = robot[s].drive
            /\ robot[s].role = "Follower" \/ robot[s].sync = "GiveLead"]_mcvars

\* No pause and no spin lasts for ever.
PausesEnd == \A r \in Robots : Busy(robot[r]) ~> ~ Busy(robot[r])

\* A leader that starts to give the lead away ends up following the other robot.
HandoverCompletes ==
  \A r \in Robots : \A s \in Robots \ {r} :
    robot[r].sync = "GiveLead"
      ~> robot[r].role = "Follower" /\ robot[s].role = "Leader"

\* Robots that agree to be led by the one leader they can hear.
Led(r) ==
  Cardinality({s \in Leaders : Connected(r, s)}) = 1

\* Once failures stop, every robot that is up settles under exactly one leader.
LeaderSettles == <>[](\A r \in up : Led(r))

\* A follower that no leader's heartbeat reaches leads after three leader timeouts
\* at the latest: tick() keeps believing the cached heartbeat for two, and counts
\* the third from there.
TakesOver == \A r \in Robots : silent[r] =< TakeoverTime

-----------------------------------------------------------------------------
(* What the readme and a comment say of the code, and the code does not do. *)

\* readme.md: the leader is silent for leader_timeout, and the other takes over
\* (one period more for the tick that notices).
TakesOverInTime == \A r \in Robots : silent[r] =< LeaderTimeout + 1
=============================================================================
