---------------------------- MODULE TakeoverProofs ----------------------------
(***************************************************************************)
(* How long a follower may go without a leader, for any set of robots, any *)
(* timers, any delay and any budget of cards, orders, settings and faults. *)
(* The ghosts and budgets of ConvoyMC only observe and restrict Convoy, so *)
(* what ConvoyProofs proves of the convoy holds here as well.              *)
(***************************************************************************)
EXTENDS ConvoyMC, ConvoyProofs

\* A budgeted step is a step of the convoy.
LEMMA BudgetedStep == [MCNext]_mcvars => [Next]_vars
<1>1. ASSUME NEW r \in Robots, MCCallback(r) \/ MCCard(r) \/ MCParameter(r)
      PROVE  Next
  BY <1>1 DEF MCCallback, MCCard, MCParameter, Next
<1>2. ASSUME NEW r \in Robots,
             MCCrash(r) \/ MCRestart(r) \/ MCOffline(r) \/ MCOnline(r)
      PROVE  Next
  BY <1>2 DEF MCCrash, MCRestart, MCOffline, MCOnline, Next
<1>3. ASSUME MCPublishRun \/ MCBeatLost \/ MCElapse PROVE Next
  BY <1>3 DEF MCPublishRun, MCBeatLost, MCElapse, Next
<1>4. ASSUME UNCHANGED mcvars PROVE UNCHANGED vars
  BY <1>4 DEF mcvars
<1> QED
  BY <1>1, <1>2, <1>3, <1>4 DEF MCNext

\* The convoy with budgets and ghosts implements the convoy: every theorem about Spec
\* is one about what the runs check.
LEMMA BudgetsRefine == MCSpec => Spec
<1>1. MCInit => Init
  BY DEF MCInit
<1> QED
  BY <1>1, BudgetedStep, PTL DEF MCSpec, Spec

\* The type invariant of the convoy holds under budgets.
LEMMA BudgetedTyped == MCSpec => []TypeOK
  BY BudgetsRefine, TypeCorrect

-----------------------------------------------------------------------------
(* The clocks of an election: how old the cached heartbeat is, and how     *)
(* long ago the last leader was noted.                                     *)

SameWatch(c, d) == d.seen = c.seen /\ d.peer = c.peer

\* Every robot's clocks go on as they were, and so does the period.
KeepsWatch == due' = due /\ \A r \in Robots : SameWatch(robot[r], robot'[r])

\* A handler that leaves its own robot's clocks alone leaves everybody's alone.
LEMMA BecomesWatch ==
  ASSUME TypeOK, NEW r \in Robots, NEW c, Becomes(r, c), SameWatch(robot[r], c)
  PROVE  \A s \in Robots : SameWatch(robot[s], robot'[s])
  BY DEF Becomes, TypeOK, SameWatch

\* Pauses, spins, motion and cards have clocks of their own.
LEMMA MotionKeepsWatch ==
  ASSUME NEW c \in Controller
  PROVE  /\ SameWatch(c, FinishTurn(c))
         /\ SameWatch(c, Steer(c))
         /\ \A d \in StepTurn(c) : SameWatch(c, d)
         /\ \A kind \in SyncKind, cmd \in Drive : SameWatch(c, BeginSync(c, kind, cmd))
         /\ \A run \in BOOLEAN : SameWatch(c, SetRunning(c, run))
         /\ SameWatch(c, [c EXCEPT !.calm = 0])
<1>1. SameWatch(c, FinishTurn(c))
  BY DEF Controller, FinishTurn, SameWatch
<1>2. SameWatch(c, Steer(c))
  BY DEF Controller, Steer, ApplyMotion, SameWatch
<1>3. \A d \in StepTurn(c) : SameWatch(c, d)
  BY <1>1 DEF StepTurn, SameWatch
<1>4. \A kind \in SyncKind, cmd \in Drive : SameWatch(c, BeginSync(c, kind, cmd))
  BY DEF Controller, BeginSync, SameWatch
<1>5. ASSUME NEW run \in BOOLEAN PROVE SameWatch(c, SetRunning(c, run))
  BY DEF Controller, SetRunning, FinishTurn, SameWatch
<1>6. SameWatch(c, [c EXCEPT !.calm = 0])
  BY DEF Controller, SameWatch
<1> QED
  BY <1>1, <1>2, <1>3, <1>4, <1>5, <1>6

\* on_command(), on_run() and check_turn_line() touch no election clock.
LEMMA OrdersKeepWatch ==
  ASSUME TypeOK, NEW r \in Robots,
         \/ \E w \in Robots : OnCommand(w, r)
         \/ OnRun(r) \/ RunReplaced(r) \/ SpinEnds(r)
  PROVE  KeepsWatch
<1> DEFINE c == robot[r]
<1>1. c \in Controller /\ c.drive \in Drive
  BY DEF TypeOK, Controller
<1>2. ASSUME UNCHANGED robot, due' = due PROVE KeepsWatch
  BY <1>2 DEF KeepsWatch, SameWatch
<1>3. ASSUME NEW d, Becomes(r, d), SameWatch(c, d), due' = due PROVE KeepsWatch
  BY <1>3, BecomesWatch DEF KeepsWatch
<1>4. ASSUME NEW w \in Robots, OnCommand(w, r) PROVE KeepsWatch
  <2>1. due' = due
    BY <1>4 DEF OnCommand, CommandIgnored, CommandStop, CommandHandover, CommandSpeed,
                OrderReplaced, Receive
  <2>2. CASE CommandIgnored(w, r) \/ OrderReplaced(w, r)
    BY <1>2, <2>1, <2>2 DEF CommandIgnored, OrderReplaced
  <2>3. CASE CommandStop(w, r)
    <3> DEFINE f == FinishTurn(c)
               d == [f EXCEPT !.sync = "None", !.drive = "Stop"]
    <3>1. f \in Controller /\ SameWatch(c, f)
      BY <1>1, FinishTurnTyped, MotionKeepsWatch
    <3>2. Becomes(r, d)
      BY <2>3 DEF CommandStop
    <3> HIDE DEF f
    <3>3. SameWatch(c, d)
      BY <3>1 DEF SameWatch, Controller
    <3> QED
      BY <1>3, <2>1, <3>2, <3>3
  <2>4. CASE CommandHandover(w, r)
    BY <1>1, <1>3, <2>1, <2>4, MotionKeepsWatch DEF CommandHandover, SyncKind
  <2>5. CASE CommandSpeed(w, r)
    BY <1>1, <1>3, <2>1, <2>5, MotionKeepsWatch DEF CommandSpeed, SyncKind, Drive
  <2> QED
    BY <1>4, <2>2, <2>3, <2>4, <2>5 DEF OnCommand
<1>5. CASE OnRun(r)
  <2> DEFINE run == Head(runs[r]).run = "START"
  <2>1. run \in BOOLEAN /\ due' = due
    BY <1>5 DEF OnRun
  <2>2. UNCHANGED robot \/ Becomes(r, SetRunning(c, run))
    BY <1>5 DEF OnRun
  <2> HIDE DEF run
  <2> QED
    BY <1>1, <1>2, <1>3, <2>1, <2>2, MotionKeepsWatch
<1>6. CASE RunReplaced(r)
  BY <1>2, <1>6 DEF RunReplaced
<1>7. CASE SpinEnds(r)
  BY <1>1, <1>3, <1>7, MotionKeepsWatch DEF SpinEnds
<1> QED
  BY <1>4, <1>5, <1>6, <1>7

\* Neither does a card.
LEMMA CardsKeepWatch ==
  ASSUME TypeOK, NEW r \in Robots,
         \/ CardRejected(r) \/ BlueCard(r) \/ RedCard(r)
         \/ \E cmd \in {"Cruise", "Turbo"} : SpeedCard(r, cmd)
  PROVE  KeepsWatch
<1> DEFINE c == robot[r]
<1>1. c \in Controller /\ c.drive \in Drive /\ SameWatch(c, Taken(r))
  BY MotionKeepsWatch DEF TypeOK, Controller, Taken
<1>2. due' = due
  BY DEF CardRejected, BlueCard, RedCard, SpeedCard, Card
<1>3. ASSUME NEW d, Becomes(r, d), SameWatch(c, d) PROVE KeepsWatch
  BY <1>2, <1>3, BecomesWatch DEF KeepsWatch
<1>4. CASE CardRejected(r)
  BY <1>1, <1>3, <1>4 DEF CardRejected
<1>5. CASE BlueCard(r)
  BY <1>1, <1>3, <1>5, MotionKeepsWatch DEF BlueCard, SyncKind
<1>6. CASE RedCard(r)
  <2> DEFINE d == [Taken(r) EXCEPT !.drive = "Stop"]
  <2>1. SameWatch(c, d)
    BY <1>1 DEF SameWatch, Taken, Controller
  <2> QED
    BY <1>3, <1>6, <2>1 DEF RedCard
<1>7. ASSUME NEW cmd \in {"Cruise", "Turbo"}, SpeedCard(r, cmd) PROVE KeepsWatch
  <2>1. Becomes(r, Taken(r)) \/ Becomes(r, BeginSync(c, "Speed", cmd))
    BY <1>7 DEF SpeedCard
  <2>2. SameWatch(c, BeginSync(c, "Speed", cmd))
    BY <1>1, MotionKeepsWatch DEF SyncKind, Drive
  <2> QED
    BY <1>1, <1>3, <2>1, <2>2
<1> QED
  BY <1>4, <1>5, <1>6, <1>7

-----------------------------------------------------------------------------
(* What tick() does to the clocks of a follower that stays one.            *)

\* The first half of tick(): a leader is heard only from a heartbeat the code still
\* believes, and then the clock is reset; the age of the heartbeat stays.
LEMMA HeardWatches ==
  ASSUME NEW c \in Controller
  PROVE  LET h == Heard(c) IN
         /\ h.peer.age = c.peer.age
         /\ HearsLeader(h) => HearsLeader(c) /\ c.peer.age =< PeerExpiry /\ h.seen = 0
         /\ ~ HearsLeader(h) => h.seen = c.seen
<1> DEFINE e == ExpirePeer(c)
<1>1. c.peer.age \in Int /\ PeerExpiry \in Int
  BY TimesAssumption DEF Controller, Peer, PeerExpiry
<1>2. /\ e \in Controller /\ e.peer.age = c.peer.age /\ e.seen = c.seen
      /\ HearsLeader(e) => HearsLeader(c) /\ c.peer.age =< PeerExpiry
  <2>1. e \in Controller
    BY ExpirePeerTyped
  <2>2. CASE c.peer.age > PeerExpiry
    <3>1. e = [c EXCEPT !.peer.valid = FALSE]
      BY <2>2 DEF ExpirePeer
    <3> QED
      BY <2>1, <3>1 DEF Controller, Peer, HearsLeader
  <2>3. CASE ~ (c.peer.age > PeerExpiry)
    BY <1>1, <2>1, <2>3 DEF ExpirePeer
  <2> QED
    BY <2>2, <2>3
<1>3. Heard(c) = NoteLeader(e)
  BY DEF Heard
<1> HIDE DEF e
<1>4. CASE HearsLeader(e)
  <2>1. NoteLeader(e) = [e EXCEPT !.seen = 0]
    BY <1>4 DEF NoteLeader
  <2>2. NoteLeader(e).peer = e.peer /\ NoteLeader(e).seen = 0
    BY <1>2, <2>1 DEF Controller
  <2> QED
    BY <1>2, <1>3, <1>4, <2>2 DEF HearsLeader
<1>5. CASE ~ HearsLeader(e)
  BY <1>2, <1>3, <1>5 DEF NoteLeader
<1> QED
  BY <1>4, <1>5

\* A follower that neither pauses nor spins, and is one after its tick, has settled
\* nothing: it has only looked at its heartbeat and its clock.
LEMMA FollowerSettles ==
  ASSUME NEW r \in Robots, NEW c \in Controller, ~ Busy(c), c.role = "Follower",
         Settled(r, c).role = "Follower"
  PROVE  Settled(r, c) = Heard(c) /\ ~ Elects(Heard(c))
<1> DEFINE h == Heard(c)
<1>1. h \in Controller /\ h.role = "Follower"
  BY HeardTyped
<1>2. Settled(r, c) = ResolveRoles(r, MaybeElect(h))
  BY DEF Settled
<1> HIDE DEF h
<1>3. CASE Elects(h)
  <2> DEFINE m == BecomeLeader(h)
  <2>1. m.role = "Leader" /\ m.peer = h.peer
    BY <1>1 DEF BecomeLeader, Controller
  <2>2. ~ HearsLeader(m)
    BY <1>3, <2>1 DEF Elects, HearsLeader
  <2>3. Settled(r, c) = m
    BY <1>2, <1>3, <2>2 DEF MaybeElect, ResolveRoles, Loses
  <2> QED
    BY <2>1, <2>3
<1>4. CASE ~ Elects(h)
  BY <1>1, <1>2, <1>4 DEF MaybeElect, ResolveRoles, Loses, h
<1> QED
  BY <1>3, <1>4

\* After its tick such a follower has waited for less than a timeout, or believes
\* a leader it has heard and noted just now.
LEMMA TickWatches ==
  ASSUME TypeOK, NEW r \in Robots, OnTimer(r), robot[r].enabled, ~ Busy(robot[r]),
         robot[r].role = "Follower", robot'[r].role = "Follower"
  PROVE  LET c == robot[r]
             d == robot'[r] IN
         /\ d.peer.age = c.peer.age
         /\ d.seen =< LeaderTimeout
         /\ HearsLeader(d) => HearsLeader(c) /\ c.peer.age =< PeerExpiry
         /\ d.seen = c.seen \/ (d.seen = 0 /\ HearsLeader(c) /\ c.peer.age =< PeerExpiry)
<1> DEFINE c == robot[r]
           s == Settled(r, c)
           h == Heard(c)
<1>1. c \in Controller
  BY DEF TypeOK
<1>2. s \in Controller
  BY <1>1, SettledTyped
<1>3. SameWatch(s, robot'[r]) /\ robot'[r].role = s.role
  <2>1. ASSUME NEW x \in Controller, Ticked(r, x)
        PROVE  SameWatch(x, robot'[r]) /\ robot'[r].role = x.role
    <3>1. PICK d \in StepTurn(x) : Becomes(r, d)
      BY <2>1 DEF Ticked
    <3>2. robot'[r] = d
      BY <3>1 DEF Becomes, TypeOK
    <3> QED
      BY <3>2, StepTurnTyped, MotionKeepsWatch
  <2>2. CASE TickWaiting(r)
    <3> DEFINE w == [s EXCEPT !.hold = TRUE]
    <3>1. w \in Controller /\ SameWatch(s, w) /\ w.role = s.role
      BY <1>2 DEF Controller, SameWatch
    <3>2. Ticked(r, w)
      BY <2>2 DEF TickWaiting
    <3> QED
      BY <2>1, <3>1, <3>2 DEF SameWatch
  <2>3. CASE TickDrive(r)
    <3>1. Steer(s) \in Controller /\ SameWatch(s, Steer(s)) /\ Steer(s).role = s.role
      BY <1>2, SteerTyped, MotionKeepsWatch
    <3>2. Ticked(r, Steer(s))
      BY <2>3 DEF TickDrive
    <3> QED
      BY <2>1, <3>1, <3>2 DEF SameWatch
  <2> QED
    BY <2>2, <2>3 DEF OnTimer, TickDisabled, TickCountdown, TickFinish, Busy
<1>4. s = h /\ ~ Elects(h) /\ h.role = "Follower"
  BY <1>1, <1>3, FollowerSettles, HeardTyped
<1>5. /\ h.peer.age = c.peer.age
      /\ HearsLeader(h) => HearsLeader(c) /\ c.peer.age =< PeerExpiry /\ h.seen = 0
      /\ ~ HearsLeader(h) => h.seen = c.seen
  BY <1>1, HeardWatches
<1>6. h.seen \in Int /\ LeaderTimeout \in Nat
  BY <1>1, HeardTyped, TimesAssumption DEF Controller
<1>7. h.seen =< LeaderTimeout
  BY <1>4, <1>5, <1>6 DEF Elects
<1>8. robot'[r].seen = h.seen /\ robot'[r].peer = h.peer
  BY <1>3, <1>4 DEF SameWatch
<1> HIDE DEF h, s
<1> QED
  BY <1>5, <1>7, <1>8 DEF HearsLeader

-----------------------------------------------------------------------------
(* The invariant.  What a follower has gone without is covered by what is  *)
(* left of the cached heartbeat and, once that is forgotten, by its clock. *)

WatchOK(r) ==
  /\ silent[r] \in Nat
  /\ silent[r] > 0 => /\ r \in up /\ robot[r].enabled
                      /\ ~ Busy(robot[r]) /\ robot[r].role = "Follower"
  /\ silent[r] =< PeerExpiry + robot[r].seen
  /\ HearsLeader(robot[r]) => silent[r] =< robot[r].peer.age
  /\ silent[r] > 0 /\ r \notin due =>
       /\ robot[r].seen =< LeaderTimeout
       /\ HearsLeader(robot[r]) => robot[r].peer.age =< PeerExpiry

Watched == \A r \in Robots : WatchOK(r)

\* The clocks are numbers, with the ranges the code's tests tell apart.
LEMMA Clocks ==
  ASSUME TypeOK, NEW r \in Robots
  PROVE  /\ robot[r].seen \in 0 .. LeaderTimeout + 1
         /\ robot[r].peer.age \in 0 .. PeerExpiry + 1
         /\ LeaderTimeout \in Nat /\ PeerExpiry \in Nat
  BY TimesAssumption DEF TypeOK, Controller, Peer, PeerExpiry

\* A watch that starts anew is covered by any clock.
LEMMA FreshWatch ==
  ASSUME TypeOK', NEW r \in Robots, silent'[r] = 0
  PROVE  WatchOK(r)'
<1>1. /\ robot'[r].seen \in 0 .. LeaderTimeout + 1
      /\ robot'[r].peer.age \in 0 .. PeerExpiry + 1
      /\ PeerExpiry \in Nat
  BY TimesAssumption DEF TypeOK, Controller, Peer, PeerExpiry
<1> QED
  BY <1>1 DEF WatchOK, HearsLeader

\* A watch that goes on within a period, by the clock of the step that it goes on in.
LEMMA LastingWatch ==
  ASSUME TypeOK, Watched, NEW r \in Robots, Awaits(r),
         silent'[r] = silent[r], silent[r] > 0,
         silent[r] =< PeerExpiry + robot'[r].seen,
         HearsLeader(robot'[r]) => silent[r] =< robot'[r].peer.age,
         r \notin due' => /\ robot'[r].seen =< LeaderTimeout
                          /\ HearsLeader(robot'[r]) => robot'[r].peer.age =< PeerExpiry
  PROVE  WatchOK(r)'
<1>1. silent[r] \in Nat
  BY DEF Watched, WatchOK
<1> QED
  BY <1>1 DEF WatchOK, Awaits, Busy, Turning, HearsLeader

\* A step that leaves every clock alone leaves every watch as covered as it was.
LEMMA KeptWatch ==
  ASSUME TypeOK, Watched, NEW r \in Robots, Awaits(r),
         silent'[r] = silent[r], silent[r] > 0,
         SameWatch(robot[r], robot'[r]), r \in due => r \in due'
  PROVE  WatchOK(r)'
<1>1. WatchOK(r)
  BY DEF Watched
<1>2. /\ silent[r] =< PeerExpiry + robot'[r].seen
      /\ HearsLeader(robot'[r]) => silent[r] =< robot'[r].peer.age
  BY <1>1 DEF WatchOK, SameWatch, HearsLeader
<1>3. r \notin due' => /\ robot'[r].seen =< LeaderTimeout
                       /\ HearsLeader(robot'[r]) => robot'[r].peer.age =< PeerExpiry
  BY <1>1 DEF WatchOK, SameWatch, HearsLeader
<1> QED
  BY <1>2, <1>3, LastingWatch

\* tick() of the robot itself.
LEMMA TickKeepsWatch ==
  ASSUME TypeOK, Watched, NEW r \in Robots, OnTimer(r), Awaits(r),
         silent'[r] = silent[r], silent[r] > 0
  PROVE  WatchOK(r)'
<1> DEFINE c == robot[r]
           d == robot'[r]
<1>1. WatchOK(r)
  BY DEF Watched
<1>2. /\ c.enabled /\ ~ Busy(c) /\ c.role = "Follower" /\ d.role = "Follower"
  BY <1>1 DEF WatchOK, Awaits
<1>3. /\ d.peer.age = c.peer.age
      /\ d.seen =< LeaderTimeout
      /\ HearsLeader(d) => HearsLeader(c) /\ c.peer.age =< PeerExpiry
      /\ d.seen = c.seen \/ (d.seen = 0 /\ HearsLeader(c) /\ c.peer.age =< PeerExpiry)
  BY <1>2, TickWatches
<1>4. c.peer.age \in Int /\ PeerExpiry \in Nat /\ silent[r] \in Nat
  BY <1>1, Clocks DEF WatchOK
<1>5. silent[r] =< PeerExpiry + d.seen
  BY <1>1, <1>3, <1>4 DEF WatchOK
<1>6. HearsLeader(d) => silent[r] =< d.peer.age /\ d.peer.age =< PeerExpiry
  BY <1>1, <1>3 DEF WatchOK
<1> QED
  BY <1>3, <1>5, <1>6, LastingWatch

\* on_peer(): a leader's heartbeat ends the watch, and a follower's only makes the robot
\* forget that it was led, when its clock is no further back than the heartbeat was.
LEMMA PeerKeepsWatch ==
  ASSUME TypeOK, Watched, NEW r \in Robots, OnPeer(r), Awaits(r),
         silent'[r] = silent[r], silent[r] > 0
  PROVE  WatchOK(r)'
<1>1. PICK b \in beats :
        robot' = [robot EXCEPT ![r].peer =
                    [id |-> b.from, role |-> b.role, term |-> b.term,
                     valid |-> TRUE, age |-> 0]]
  BY DEF OnPeer
<1>2. robot[r] \in Controller
  BY DEF TypeOK
<1>3. robot'[r].seen = robot[r].seen /\ robot'[r].peer.age = 0
  BY <1>1, <1>2 DEF TypeOK, Controller
<1>4. ~ HearsLeader(robot'[r])
  BY <1>3 DEF Awaits
<1>5. WatchOK(r) /\ due' = due
  BY DEF Watched, OnPeer
<1>6. /\ silent[r] =< PeerExpiry + robot'[r].seen
      /\ r \notin due' => robot'[r].seen =< LeaderTimeout
  BY <1>3, <1>5 DEF WatchOK
<1> QED
  BY <1>4, <1>6, LastingWatch

\* A period passes: each clock that covers the watch goes on with it, since a robot
\* whose clock had run out has led or forgotten its leader in its tick.
LEMMA ElapseKeepsWatch ==
  ASSUME TypeOK, Watched, NEW r \in Robots, Elapse, Awaits(r),
         silent'[r] = silent[r] + 1
  PROVE  WatchOK(r)'
<1> DEFINE c == robot[r]
<1>1. r \in up /\ r \in due' /\ r \notin due
  BY DEF Elapse, Awaits, net
<1>2. robot'[r] = Older(c) /\ c \in Controller
  BY <1>1 DEF Elapse, TypeOK
<1>3. /\ c.seen \in 0 .. LeaderTimeout + 1
      /\ c.peer.age \in 0 .. PeerExpiry + 1
      /\ LeaderTimeout \in Nat /\ PeerExpiry \in Nat
  BY Clocks
<1>4. /\ Older(c).seen = Smaller(c.seen + 1, LeaderTimeout + 1)
      /\ Older(c).peer.age = Smaller(c.peer.age + 1, PeerExpiry + 1)
      /\ HearsLeader(Older(c)) => HearsLeader(c)
  <2>1. HearsLeader(Older(c)) => HearsLeader(c)
    BY <1>2, OlderTyped DEF HearsNoMore
  <2>2. Older(c).seen = Smaller(c.seen + 1, LeaderTimeout + 1)
    BY <1>2 DEF Older, Controller
  <2>3. Older(c).peer.age = Smaller(c.peer.age + 1, PeerExpiry + 1)
    BY <1>2 DEF Older, Controller, Peer
  <2> QED
    BY <2>1, <2>2, <2>3
<1>5. WatchOK(r)
  BY DEF Watched
<1>6. silent[r] + 1 =< PeerExpiry + Older(c).seen
  <2>1. CASE silent[r] = 0
    BY <1>3, <1>4, <2>1 DEF Smaller
  <2>2. CASE silent[r] > 0
    BY <1>1, <1>3, <1>4, <1>5, <2>2 DEF Smaller, WatchOK
  <2> QED
    BY <1>5, <2>1, <2>2 DEF WatchOK
<1>7. HearsLeader(Older(c)) => silent[r] + 1 =< Older(c).peer.age
  <2>1. CASE silent[r] = 0
    BY <1>3, <1>4, <2>1 DEF Smaller
  <2>2. CASE silent[r] > 0
    BY <1>1, <1>3, <1>4, <1>5, <2>2 DEF Smaller, WatchOK
  <2> QED
    BY <1>5, <2>1, <2>2 DEF WatchOK
<1>8. silent[r] \in Nat
  BY <1>5 DEF WatchOK
<1> QED
  BY <1>1, <1>2, <1>6, <1>7, <1>8 DEF WatchOK, Awaits, Busy, Turning, HearsLeader

-----------------------------------------------------------------------------
(* The invariant of every step.                                            *)

Budgets == [cards: Nat, runs: Nat, settings: Nat, faults: Nat]

\* A budget is spent by one and never overdrawn.
LEMMA SpendTyped ==
  ASSUME left \in Budgets, NEW budget \in {"cards", "runs", "settings", "faults"},
         Spend(budget)
  PROVE  left' \in Budgets /\ left'[budget] # left[budget]
  BY DEF Budgets, Spend

\* Every step spends from one budget, or from none.
LEMMA BudgetsKept ==
  ASSUME left \in Budgets, [MCNext]_mcvars
  PROVE  left' \in Budgets
<1>1. ASSUME UNCHANGED left PROVE left' \in Budgets
  BY <1>1
<1>2. ASSUME NEW budget \in {"cards", "runs", "settings", "faults"}, Spend(budget)
      PROVE  left' \in Budgets
  BY <1>2, SpendTyped
<1>3. \/ UNCHANGED left
      \/ Spend("cards") \/ Spend("runs") \/ Spend("settings") \/ Spend("faults")
  BY DEF MCNext, MCCallback, MCCard, MCParameter, MCCrash, MCRestart, MCOffline,
         MCOnline, MCPublishRun, MCBeatLost, MCElapse, mcvars
<1> QED
  BY <1>1, <1>2, <1>3

\* Within a period a robot's clocks are touched by its own tick, a heartbeat it reads,
\* the operator or its restart, and by nothing else; nobody's timer becomes due again.
LEMMA StepsWatch ==
  ASSUME TypeOK, MCNext, ~ Elapse, NEW r \in Robots
  PROVE  /\ due' \subseteq due
         /\ \/ SameWatch(robot[r], robot'[r]) /\ (r \in due => r \in due')
            \/ OnTimer(r) \/ OnPeer(r)
            \/ Spend("settings") \/ r \notin up'
<1> DEFINE Kept == SameWatch(robot[r], robot'[r]) /\ (r \in due => r \in due')
<1>1. ASSUME KeepsWatch PROVE due' = due /\ Kept
  BY <1>1 DEF KeepsWatch
<1>2. ASSUME UNCHANGED robot, due' = due PROVE due' = due /\ Kept
  BY <1>2 DEF SameWatch
<1>3. ASSUME NEW s \in Robots, s # r, due' = due \ {s} \/ due' = due,
             \/ \E c : robot' = [robot EXCEPT ![s] = c]
             \/ \E p : robot' = [robot EXCEPT ![s].peer = p]
      PROVE  due' \subseteq due /\ Kept
  BY <1>3 DEF SameWatch, TypeOK
<1>4. ASSUME NEW s \in Robots, OnTimer(s) PROVE due' \subseteq due /\ (s = r \/ Kept)
  <2>1. due' = due \ {s}
    BY <1>4 DEF OnTimer, TickDisabled, TickWaiting, TickCountdown, TickFinish, TickDrive,
                Ticked
  <2>2. \E c : robot' = [robot EXCEPT ![s] = c]
    BY <1>4, TicksHandled DEF Handles, Becomes
  <2> QED
    BY <1>3, <2>1, <2>2
<1>5. ASSUME NEW s \in Robots, OnPeer(s) PROVE due' \subseteq due /\ (s = r \/ Kept)
  <2>1. due' = due /\ \E p : robot' = [robot EXCEPT ![s].peer = p]
    BY <1>5 DEF OnPeer
  <2> QED
    BY <1>3, <2>1
<1>6. ASSUME NEW s \in Robots, MCCallback(s)
      PROVE  due' \subseteq due /\ (Kept \/ OnTimer(r) \/ OnPeer(r))
  BY <1>1, <1>4, <1>5, <1>6, OrdersKeepWatch DEF MCCallback, Callback
<1>7. ASSUME NEW s \in Robots, MCCard(s) PROVE due' = due /\ Kept
  BY <1>1, <1>7, CardsKeepWatch DEF MCCard
<1>8. ASSUME NEW s \in Robots, MCParameter(s) PROVE due' = due /\ Spend("settings")
  BY <1>8 DEF MCParameter, SetRole, SetEnable
<1>9. ASSUME NEW s \in Robots, MCCrash(s) PROVE due' \subseteq due /\ (Kept \/ r \notin up')
  <2>1. /\ due' = due \ {s} /\ up' = up \ {s}
        /\ \E c : robot' = [robot EXCEPT ![s] = c]
    BY <1>9 DEF MCCrash, Crash, Becomes
  <2> QED
    BY <1>3, <2>1
<1>10. ASSUME NEW s \in Robots, MCRestart(s) \/ MCOffline(s) \/ MCOnline(s)
       PROVE  due' = due /\ Kept
  BY <1>2, <1>10 DEF MCRestart, MCOffline, MCOnline, Restart, Offline, Online
<1>11. ASSUME MCPublishRun \/ MCBeatLost PROVE due' = due /\ Kept
  BY <1>2, <1>11 DEF MCPublishRun, MCBeatLost, PublishRun, BeatLost
<1> QED
  BY <1>6, <1>7, <1>8, <1>9, <1>10, <1>11 DEF MCNext, MCElapse

\* A robot's ghost clock starts anew unless the robot awaits a leader; it goes on by one
\* in a step that lets a period pass, and only there.
LEMMA GhostSteps ==
  ASSUME TypeOK, Watched, MCNext, NEW r \in Robots
  PROVE  \/ silent'[r] = 0
         \/ Awaits(r) /\ Elapse /\ silent'[r] = silent[r] + 1
         \/ Awaits(r) /\ ~ Elapse /\ silent'[r] = silent[r]
<1>1. silent'[r] = IF ~ Awaits(r) THEN 0
                   ELSE IF due = {} /\ due' # {}
                   THEN Smaller(silent[r] + 1, TakeoverTime + 1) ELSE silent[r]
  BY DEF MCNext, Observe
<1>2. CASE ~ Awaits(r)
  BY <1>1, <1>2
<1>3. CASE Awaits(r) /\ Elapse
  <2>1. due = {} /\ due' # {}
    BY <1>3 DEF Elapse, Awaits, net
  <2>2. silent[r] \in Nat /\ silent[r] =< PeerExpiry + LeaderTimeout + 1
    BY Clocks DEF Watched, WatchOK
  <2>3. Smaller(silent[r] + 1, TakeoverTime + 1) = silent[r] + 1
    BY <2>2, Clocks DEF Smaller, TakeoverTime
  <2> QED
    BY <1>1, <1>3, <2>1, <2>3
<1>4. CASE Awaits(r) /\ ~ Elapse
  <2>1. due' \subseteq due
    BY <1>4, StepsWatch
  <2> QED
    BY <1>1, <1>4, <2>1
<1> QED
  BY <1>2, <1>3, <1>4

\* Every step keeps every watch covered.
LEMMA NextWatched ==
  ASSUME TypeOK, TypeOK', left \in Budgets, Watched, MCNext
  PROVE  Watched'
<1> SUFFICES ASSUME NEW r \in Robots PROVE WatchOK(r)'
  BY DEF Watched
<1>1. CASE silent'[r] = 0
  BY <1>1, FreshWatch
<1>2. CASE Awaits(r) /\ Elapse /\ silent'[r] = silent[r] + 1
  BY <1>2, ElapseKeepsWatch
<1>3. CASE Awaits(r) /\ ~ Elapse /\ silent'[r] = silent[r]
  <2>1. CASE silent[r] = 0
    BY <1>3, <2>1, FreshWatch
  <2>2. CASE silent[r] # 0
    <3>1. silent[r] > 0
      BY <2>2 DEF Watched, WatchOK
    <3>2. r \in up' /\ left'.settings = left.settings
      BY <1>3 DEF Awaits
    <3>3. ~ Spend("settings")
      BY <3>2, SpendTyped
    <3> QED
      BY <1>3, <3>1, <3>2, <3>3, StepsWatch, KeptWatch, TickKeepsWatch, PeerKeepsWatch
  <2> QED
    BY <2>1, <2>2
<1> QED
  BY <1>1, <1>2, <1>3, GhostSteps

WatchInv == Watched /\ left \in Budgets

\* No follower awaits a leader for longer than the cached heartbeat is believed and a
\* timeout more, whatever else happens: the invariant of all clocks that TakesOver
\* rests on.
THEOREM WatchCorrect == MCSpec => []WatchInv
<1>1. MCInit => WatchInv
  <2>1. ASSUME MCInit PROVE left \in Budgets
    BY <2>1, BudgetAssumption DEF MCInit, Budgets
  <2>2. ASSUME MCInit, NEW r \in Robots PROVE WatchOK(r)
    <3>1. silent[r] = 0 /\ robot[r] = Boot(BootRole[r])
      BY <2>2 DEF MCInit, Init
    <3>2. robot[r].seen = 0 /\ robot[r].peer.age = 0 /\ PeerExpiry \in Nat
      BY <3>1, TimesAssumption DEF Boot, PeerExpiry
    <3> QED
      BY <3>1, <3>2 DEF WatchOK
  <2> QED
    BY <2>1, <2>2 DEF Watched, WatchInv
<1>2. TypeOK /\ TypeOK' /\ WatchInv /\ [MCNext]_mcvars => WatchInv'
  <2>1. ASSUME Watched, UNCHANGED mcvars PROVE Watched'
    BY <2>1
    DEF mcvars, vars, net, bus, ghosts, Watched, WatchOK, Busy, Turning, HearsLeader
  <2>2. ASSUME WatchInv, [MCNext]_mcvars PROVE (left \in Budgets)'
    BY <2>2, BudgetsKept DEF WatchInv, Budgets
  <2> QED
    BY <2>1, <2>2, NextWatched DEF WatchInv
<1> QED
  BY <1>1, <1>2, BudgetedTyped, PTL DEF MCSpec

\* A follower that no leader's heartbeat reaches leads after three leader timeouts and a
\* period at the latest, whatever heartbeats of followers, orders, pauses, cards, resets
\* and outages come in between: tick() believes the cached heartbeat for two timeouts
\* and maybe_elect() counts the third from there.
THEOREM TakesOverCorrect == MCSpec => []TakesOver
<1>1. ASSUME TypeOK, WatchInv, NEW r \in Robots PROVE silent[r] =< TakeoverTime
  <2>1. silent[r] \in Nat /\ silent[r] =< PeerExpiry + robot[r].seen
    BY <1>1 DEF WatchInv, Watched, WatchOK
  <2> QED
    BY <1>1, <2>1, Clocks DEF TakeoverTime
<1>2. TypeOK /\ WatchInv => TakesOver
  BY <1>1 DEF TakesOver
<1> QED
  BY <1>2, WatchCorrect, BudgetedTyped, PTL
=============================================================================
