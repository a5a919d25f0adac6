------------------------------ MODULE StandProofs ------------------------------
(***************************************************************************)
(* The two robots on the line keep together, through any number of cards:  *)
(* one speed while both drive, one order and one leader at rest, one way   *)
(* along the line, and the lead moves by handover only.                    *)
(***************************************************************************)
EXTENDS Stand, TakeoverProofs

-----------------------------------------------------------------------------
(* What tick() does to a robot whose role is not contested.                *)

\* What cards, orders, pauses and spins are made of; the wheels; and the ears.
SamePlan(c, d) ==
  /\ d.role = c.role /\ d.drive = c.drive /\ d.turn = c.turn
  /\ d.sync = c.sync /\ d.syncCmd = c.syncCmd /\ d.syncLeft = c.syncLeft
  /\ d.running = c.running /\ d.enabled = c.enabled /\ d.calm = c.calm

SameWheels(c, d) == d.hold = c.hold /\ d.speed = c.speed

\* A heartbeat in the cache is forgotten when it is too old, and not changed.
SameEars(c, d) ==
  /\ d.peer.role = c.peer.role /\ d.peer.age = c.peer.age
  /\ d.peer.valid => c.peer.valid
  /\ c.peer.valid /\ c.peer.age =< PeerExpiry => d.peer.valid

Believes(c) == HearsLeader(c) /\ c.peer.age =< PeerExpiry

\* The clock of the election after a tick that elects nobody.
Noted(c, d) == d.seen = IF Believes(c) THEN 0 ELSE c.seen

\* The first half of tick() changes the ears and the clock only.
LEMMA HeardKeepsPlan ==
  ASSUME NEW c \in Controller
  PROVE  LET h == Heard(c) IN
         /\ h \in Controller
         /\ SamePlan(c, h) /\ SameWheels(c, h) /\ SameEars(c, h) /\ Noted(c, h)
<1> DEFINE e == ExpirePeer(c)
           h == NoteLeader(e)
<1>1. c.peer.age \in Int /\ PeerExpiry \in Int
  BY TimesAssumption DEF Controller, Peer, PeerExpiry
<1>2. /\ e \in Controller /\ SamePlan(c, e) /\ SameWheels(c, e) /\ e.seen = c.seen
      /\ e.peer.role = c.peer.role /\ e.peer.age = c.peer.age
      /\ e.peer.valid <=> c.peer.valid /\ c.peer.age =< PeerExpiry
  <2>0. e \in Controller
    BY ExpirePeerTyped
  <2>1. CASE c.peer.age > PeerExpiry
    <3>1. e = [c EXCEPT !.peer.valid = FALSE]
      BY <2>1 DEF ExpirePeer
    <3>2. SamePlan(c, e) /\ SameWheels(c, e) /\ e.seen = c.seen
      BY <3>1 DEF Controller, SamePlan, SameWheels
    <3>3. e.peer.role = c.peer.role /\ e.peer.age = c.peer.age /\ e.peer.valid = FALSE
      BY <3>1 DEF Controller, Peer
    <3> QED
      BY <1>1, <2>0, <2>1, <3>2, <3>3
  <2>2. CASE ~ (c.peer.age > PeerExpiry)
    <3>1. e = c
      BY <2>2 DEF ExpirePeer
    <3>2. c.peer.age =< PeerExpiry /\ c.peer.valid \in BOOLEAN
      BY <1>1, <2>2 DEF Controller, Peer
    <3> QED
      BY <2>0, <3>1, <3>2 DEF SamePlan, SameWheels
  <2> QED
    BY <2>1, <2>2
<1> HIDE DEF e
<1>3. h \in Controller
  BY <1>2, NoteLeaderTyped
<1>4. HearsLeader(e) <=> Believes(c)
  BY <1>2 DEF HearsLeader, Believes
<1>5. h = IF HearsLeader(e) THEN [e EXCEPT !.seen = 0] ELSE e
  BY DEF NoteLeader
<1>6. SamePlan(e, h) /\ SameWheels(e, h) /\ h.peer = e.peer
  BY <1>2, <1>5 DEF Controller, SamePlan, SameWheels
<1>7. h.seen = IF HearsLeader(e) THEN 0 ELSE e.seen
  BY <1>2, <1>5 DEF Controller
<1>8. Heard(c) = h
  BY DEF Heard, e
<1> HIDE DEF h
<1>9. SamePlan(c, h) /\ SameWheels(c, h)
  BY <1>2, <1>6 DEF SamePlan, SameWheels
<1>10. SameEars(c, h)
  BY <1>2, <1>6 DEF SameEars
<1>11. Noted(c, h)
  BY <1>2, <1>4, <1>7 DEF Noted
<1> QED
  BY <1>3, <1>8, <1>9, <1>10, <1>11

\* Nothing is settled by this tick: no election and no clash of leaders.
Uncontested(x, c) == ~ Busy(c) => ~ Elects(Heard(c)) /\ ~ Loses(x, Heard(c))

LEMMA UncontestedSettles ==
  ASSUME NEW x \in Robots, NEW c \in Controller, Uncontested(x, c)
  PROVE  Settled(x, c) = Heard(c)
  BY DEF Uncontested, Settled, MaybeElect, ResolveRoles

\* A robot that is not held drives at the speed of its order.
DrivesAsOrdered(d) == ~ d.hold => d.speed = d.drive /\ d.drive # "Stop"

\* Steering keeps the plan; a robot that does not spin is steered by its order.
LEMMA SteerKeepsPlan ==
  ASSUME NEW c \in Controller, Turning(c) => c.hold
  PROVE  /\ SamePlan(c, Steer(c)) /\ Steer(c).peer = c.peer /\ Steer(c).seen = c.seen
         /\ DrivesAsOrdered(Steer(c))
<1>1. CASE Turning(c)
  BY <1>1 DEF Steer, SamePlan, DrivesAsOrdered
<1>2. CASE ~ Turning(c)
  <2>1. Steer(c) = IF c.drive = "Stop" THEN [c EXCEPT !.hold = TRUE]
                   ELSE [c EXCEPT !.hold = FALSE, !.speed = c.drive]
    BY <1>2 DEF Steer, ApplyMotion
  <2> QED
    BY <2>1 DEF Controller, SamePlan, DrivesAsOrdered
<1> QED
  BY <1>1, <1>2

\* A spin goes on or ends: at its deadline it ends, and not in the tick it begins in.
SpinsOn(c, d) ==
  \/ d.turn = c.turn /\ c.turn # 1
  \/ d.turn = 0 /\ 0 < c.turn /\ c.turn < TurnDeadline

\* step_turn() changes nothing else.
LEMMA StepTurnIs ==
  ASSUME NEW c \in Controller, NEW d \in StepTurn(c)
  PROVE  /\ SamePlan(c, [d EXCEPT !.turn = c.turn]) /\ SameWheels(c, d)
         /\ d.peer = c.peer /\ d.seen = c.seen
         /\ SpinsOn(c, d)
<1>1. d = c \/ d = FinishTurn(c)
  BY DEF StepTurn
<1>2. c.turn \in 0 .. TurnDeadline /\ TurnDeadline \in Nat /\ TurnDeadline > 1
  BY TimesAssumption DEF Controller
<1>3. FinishTurn(c) = [c EXCEPT !.turn = 0]
  BY DEF FinishTurn
<1>4. CASE d = c
  <2>1. c.turn # 1 \/ FinishTurn(c).turn = c.turn
    BY <1>4 DEF StepTurn
  <2>2. FinishTurn(c).turn = 0
    BY <1>3 DEF Controller
  <2>3. c.turn # 1
    BY <2>1, <2>2
  <2>4. SpinsOn(c, d)
    BY <1>4, <2>3 DEF SpinsOn
  <2> QED
    BY <1>4, <2>4 DEF SamePlan, SameWheels, Controller
<1>5. CASE d # c
  <2>1. d = [c EXCEPT !.turn = 0] /\ c.turn # TurnDeadline
    BY <1>1, <1>3, <1>5 DEF StepTurn
  <2>2. c.turn # 0
    BY <1>5, <2>1 DEF Controller
  <2>3. d.turn = 0
    BY <2>1 DEF Controller
  <2>4. SpinsOn(c, d)
    BY <1>2, <2>1, <2>2, <2>3 DEF SpinsOn
  <2> QED
    BY <2>1, <2>4 DEF SamePlan, SameWheels, Controller
<1> QED
  BY <1>4, <1>5

\* How a spin of a handover begins, if robots are to spin.
Spin == IF HandoverTurn THEN TurnDeadline ELSE 0

\* A tick that leaves the pause alone, if there is one.
Goes(c, d) ==
  /\ d.role = c.role /\ d.drive = c.drive /\ d.sync = c.sync
  /\ SpinsOn(c, d) /\ Noted(c, d)
  /\ c.running /\ c.sync # "None" => c.syncLeft > 0

\* A tick that ends the pause: for a speed, as the old leader, and as the new one.
Ends(c, d) ==
  /\ c.running /\ c.sync # "None" /\ c.syncLeft = 0 /\ d.sync = "None"
  /\ \/ /\ c.sync = "Speed"
        /\ d.role = c.role /\ d.drive = c.syncCmd /\ d.turn = 0 /\ Noted(c, d)
     \/ /\ c.sync = "GiveLead"
        /\ d.role = "Follower" /\ d.drive = c.drive /\ d.turn = Spin /\ d.seen = 0
     \/ /\ c.sync = "TakeLead"
        /\ d.role = "Leader" /\ d.drive = c.syncCmd /\ d.turn = Spin

\* finish_sync(), by the kind of the pause.
LEMMA FinishSyncIs ==
  ASSUME NEW c \in Controller, c.sync # "None", c.turn = 0
  PROVE  LET f == FinishSync(c) IN
         /\ f \in Controller
         /\ f.sync = "None" /\ f.running = c.running /\ f.enabled = c.enabled
         /\ f.calm = c.calm /\ f.syncLeft = c.syncLeft /\ f.syncCmd = c.syncCmd
         /\ f.peer = c.peer
         /\ Turning(f) => f.hold
         /\ \/ /\ c.sync = "Speed"
               /\ f.role = c.role /\ f.drive = c.syncCmd /\ f.turn = 0 /\ f.seen = c.seen
            \/ /\ c.sync = "GiveLead"
               /\ f.role = "Follower" /\ f.drive = c.drive /\ f.turn = Spin /\ f.seen = 0
            \/ /\ c.sync = "TakeLead"
               /\ f.role = "Leader" /\ f.drive = c.syncCmd /\ f.turn = Spin
<1> DEFINE done == [c EXCEPT !.sync = "None"]
           Kept(d) == /\ d.sync = "None" /\ d.running = c.running /\ d.enabled = c.enabled
                      /\ d.calm = c.calm /\ d.syncLeft = c.syncLeft /\ d.syncCmd = c.syncCmd
                      /\ d.peer = c.peer
<1>0. FinishSync(c) \in Controller /\ done \in Controller
  BY FinishSyncTyped DEF Controller, SyncKind
<1>1. Kept(done) /\ done.role = c.role /\ done.turn = 0 /\ done.drive = c.drive
      /\ done.seen = c.seen
  BY DEF Controller
<1>2. ASSUME NEW d \in Controller, Kept(d), d.turn = 0
      PROVE  LET f == BeginTurnaround(d) IN
             /\ Kept(f) /\ f.role = d.role /\ f.drive = d.drive /\ f.seen = d.seen
             /\ f.turn = Spin /\ (Turning(f) => f.hold)
  <2>1. CASE HandoverTurn
    <3>1. BeginTurnaround(d) = [d EXCEPT !.hold = TRUE, !.turn = TurnDeadline]
      BY <2>1 DEF BeginTurnaround
    <3> QED
      BY <1>2, <2>1, <3>1 DEF Controller, Spin
  <2>2. CASE ~ HandoverTurn
    <3>1. BeginTurnaround(d) = d
      BY <2>2 DEF BeginTurnaround
    <3> QED
      BY <1>2, <2>2, <3>1 DEF Spin, Turning
  <2> QED
    BY <2>1, <2>2
<1> HIDE DEF done
<1>3. CASE c.sync = "TakeLead"
  <2> DEFINE l == BecomeLeader(done)
             d == [l EXCEPT !.drive = c.syncCmd]
  <2>1. l \in Controller /\ c.syncCmd \in Drive
    BY <1>0, LeaderTyped DEF Controller
  <2>2. Kept(l) /\ l.turn = 0 /\ l.role = "Leader"
    BY <1>0, <1>1 DEF BecomeLeader, Controller
  <2> HIDE DEF l
  <2>3. d \in Controller /\ Kept(d) /\ d.turn = 0 /\ d.role = "Leader" /\ d.drive = c.syncCmd
    BY <2>1, <2>2 DEF Controller
  <2>4. FinishSync(c) = BeginTurnaround(d)
    BY <1>3 DEF FinishSync, l, done
  <2> HIDE DEF d
  <2> QED
    BY <1>0, <1>2, <1>3, <2>3, <2>4
<1>4. CASE c.sync = "GiveLead"
  <2> DEFINE d == BecomeFollower(done)
  <2>1. d \in Controller
    BY <1>0, FollowerTyped
  <2>2. Kept(d) /\ d.turn = 0 /\ d.role = "Follower" /\ d.drive = c.drive /\ d.seen = 0
    BY <1>0, <1>1 DEF BecomeFollower, Controller
  <2>3. FinishSync(c) = BeginTurnaround(d)
    BY <1>4 DEF FinishSync, done
  <2> HIDE DEF d
  <2> QED
    BY <1>0, <1>2, <1>4, <2>1, <2>2, <2>3
<1>5. CASE c.sync = "Speed"
  <2> DEFINE d == [done EXCEPT !.drive = c.syncCmd]
  <2>1. FinishSync(c) = d
    BY <1>5 DEF FinishSync, done
  <2>2. Kept(d) /\ d.role = c.role /\ d.drive = c.syncCmd /\ d.turn = 0 /\ d.seen = c.seen
    BY <1>0, <1>1 DEF Controller
  <2> HIDE DEF d
  <2> QED
    BY <1>0, <1>5, <2>1, <2>2 DEF Turning
<1> QED
  BY <1>3, <1>4, <1>5 DEF Controller, SyncKind

\* A tick of a robot whose role is not contested: the pause goes on, or it ends.
TimerStep(x) ==
  LET c == robot[x]
      d == robot'[x] IN
  /\ x \in due /\ due' = due \ {x}
  /\ \A y \in Robots \ {x} : robot'[y] = robot[y]
  /\ UNCHANGED <<up, online, runs>>
  /\ beats' = {b \in beats : b.from # x} \cup BeatsOf(x, d)
  /\ d.running = c.running /\ d.enabled = c.enabled /\ d.calm = c.calm
  /\ d.syncCmd = c.syncCmd /\ d.syncLeft = c.syncLeft
  /\ SameEars(c, d) /\ DrivesAsOrdered(d)
  /\ \/ Goes(c, d) /\ orders' = orders
     \/ Ends(c, d) /\ IF c.sync = "TakeLead" THEN Publish(x, d.drive)
                      ELSE orders' = orders

\* The handler of the timer, of a robot whose role is not contested.
LEMMA TimerIs ==
  ASSUME TypeOK, ParkedUnlessDriving, NEW x \in Robots, OnTimer(x),
         robot[x].enabled, Uncontested(x, robot[x])
  PROVE  TimerStep(x)
<1> USE DEF TimerStep
<1> DEFINE c == robot[x]
           d == robot'[x]
           h == Heard(c)
<1>1. c \in Controller /\ Parked(c)
  BY DEF TypeOK, ParkedUnlessDriving
<1>2. h \in Controller /\ SamePlan(c, h) /\ SameWheels(c, h) /\ SameEars(c, h) /\ Noted(c, h)
  BY <1>1, HeardKeepsPlan
<1>3. Settled(x, c) = h
  BY <1>1, UncontestedSettles
\* What the end of on_timer() makes of what tick() has made.
<1>4. ASSUME NEW e \in Controller, Ticked(x, e)
      PROVE  /\ d.running = e.running /\ d.enabled = e.enabled /\ d.calm = e.calm
             /\ d.syncCmd = e.syncCmd /\ d.syncLeft = e.syncLeft
             /\ d.role = e.role /\ d.drive = e.drive /\ d.sync = e.sync
             /\ d.hold = e.hold /\ d.speed = e.speed
             /\ d.peer = e.peer /\ d.seen = e.seen
             /\ SpinsOn(e, d)
             /\ due' = due \ {x} /\ UNCHANGED <<up, online, runs>>
             /\ \A y \in Robots \ {x} : robot'[y] = robot[y]
             /\ beats' = {b \in beats : b.from # x} \cup BeatsOf(x, d)
  <2>1. PICK f \in StepTurn(e) : Becomes(x, f)
    BY <1>4 DEF Ticked
  <2>2. d = f /\ \A y \in Robots \ {x} : robot'[y] = robot[y]
    BY <2>1 DEF Becomes, TypeOK
  <2>3. /\ SamePlan(e, [f EXCEPT !.turn = e.turn]) /\ SameWheels(e, f)
        /\ f.peer = e.peer /\ f.seen = e.seen /\ SpinsOn(e, f)
    BY <1>4, StepTurnIs
  <2>4. f \in Controller
    BY <1>4, StepTurnTyped
  <2>5. /\ f.running = e.running /\ f.enabled = e.enabled /\ f.calm = e.calm
        /\ f.syncCmd = e.syncCmd /\ f.syncLeft = e.syncLeft
        /\ f.role = e.role /\ f.drive = e.drive /\ f.sync = e.sync
    BY <2>3, <2>4 DEF SamePlan, Controller
  <2>6. beats' = {b \in beats : b.from # x} \cup BeatsOf(x, e)
    BY <1>4 DEF Ticked, Heartbeat
  <2>7. f.term = e.term
    BY <1>4, StepTurnTyped
  <2>8. BeatsOf(x, e) = BeatsOf(x, d)
    BY <2>2, <2>5, <2>7 DEF BeatsOf
  <2>9. due' = due \ {x} /\ UNCHANGED <<up, online, runs>>
    BY <1>4 DEF Ticked
  <2> QED
    BY <2>2, <2>3, <2>5, <2>6, <2>8, <2>9 DEF SameWheels
<1> DEFINE World == /\ x \in due /\ due' = due \ {x}
                    /\ \A y \in Robots \ {x} : robot'[y] = robot[y]
                    /\ UNCHANGED <<up, online, runs>>
                    /\ beats' = {b \in beats : b.from # x} \cup BeatsOf(x, d)
           Kept == /\ d.running = c.running /\ d.enabled = c.enabled /\ d.calm = c.calm
                   /\ d.syncCmd = c.syncCmd /\ d.syncLeft = c.syncLeft
                   /\ SameEars(c, d) /\ DrivesAsOrdered(d)
<1>5. CASE TickWaiting(x)
  <2> DEFINE e == [h EXCEPT !.hold = TRUE]
  <2>1. /\ e \in Controller /\ SamePlan(c, e) /\ SameEars(c, e) /\ Noted(c, e) /\ e.hold
    BY <1>2 DEF Controller, SamePlan, SameEars, Noted
  <2>2. Ticked(x, e) /\ x \in due /\ ~ c.running /\ orders' = orders
    BY <1>3, <1>5 DEF TickWaiting, Silent
  <2> HIDE DEF e
  <2>3. World
    BY <1>4, <2>1, <2>2
  <2>4. Kept
    BY <1>4, <2>1, <2>2 DEF SamePlan, SameEars, DrivesAsOrdered
  <2>5. Goes(c, d)
    BY <1>4, <2>1, <2>2 DEF SamePlan, Noted, Goes, SpinsOn
  <2> QED
    BY <2>2, <2>3, <2>4, <2>5
<1>6. CASE TickCountdown(x)
  <2>1. Ticked(x, h) /\ x \in due /\ c.sync # "None" /\ c.syncLeft > 0 /\ orders' = orders
    BY <1>3, <1>6 DEF TickCountdown, Silent
  <2>2. c.hold
    BY <1>1, <2>1 DEF Parked, Busy
  <2>3. World
    BY <1>2, <1>4, <2>1
  <2>4. Kept
    BY <1>2, <1>4, <2>1, <2>2 DEF SamePlan, SameWheels, SameEars, DrivesAsOrdered
  <2>5. Goes(c, d)
    BY <1>2, <1>4, <2>1 DEF SamePlan, Noted, Goes, SpinsOn
  <2> QED
    BY <2>1, <2>3, <2>4, <2>5
<1>7. CASE TickDrive(x)
  <2>1. /\ Ticked(x, Steer(h)) /\ x \in due /\ c.running /\ c.sync = "None"
        /\ orders' = orders
    <3>1. ~ Busy(c) => ~ Elects(Heard(c))
      BY DEF Uncontested
    <3> QED
      BY <1>3, <1>7, <3>1 DEF TickDrive, Silent
  <2>2. Turning(h) => h.hold
    BY <1>1, <1>2 DEF Parked, Busy, Turning, SamePlan, SameWheels
  <2>3. /\ SamePlan(h, Steer(h)) /\ Steer(h).peer = h.peer /\ Steer(h).seen = h.seen
        /\ DrivesAsOrdered(Steer(h)) /\ Steer(h) \in Controller
    BY <1>2, <2>2, SteerKeepsPlan, SteerTyped
  <2> DEFINE e == Steer(h)
  <2> HIDE DEF e
  <2>4. /\ e \in Controller /\ SamePlan(c, e) /\ SameEars(c, e) /\ Noted(c, e)
        /\ DrivesAsOrdered(e) /\ Ticked(x, e)
    BY <1>2, <2>1, <2>3 DEF SamePlan, SameEars, Noted, e
  <2>5. World
    BY <1>4, <2>1, <2>4
  <2>6. Kept
    BY <1>4, <2>4 DEF SamePlan, SameEars, DrivesAsOrdered
  <2>7. Goes(c, d)
    BY <1>4, <2>1, <2>4 DEF SamePlan, Noted, Goes, SpinsOn
  <2> QED
    BY <2>1, <2>5, <2>6, <2>7
<1>8. CASE TickFinish(x)
  <2> DEFINE f == FinishSync(h)
             e == Steer(f)
  <2>1. /\ Ticked(x, e) /\ x \in due /\ c.running /\ c.sync # "None" /\ c.syncLeft = 0
        /\ IF c.sync = "TakeLead" THEN Publish(x, f.drive) ELSE orders' = orders
    BY <1>3, <1>8 DEF TickFinish, Silent
  <2>2. h.sync # "None" /\ h.turn = 0
    <3>1. c.turn = 0
      BY <1>1, <2>1, TimesAssumption DEF Parked, Turning, Controller
    <3> QED
      BY <1>2, <2>1, <3>1 DEF SamePlan
  <2>3. /\ f \in Controller
        /\ f.sync = "None" /\ f.running = h.running /\ f.enabled = h.enabled
        /\ f.calm = h.calm /\ f.syncLeft = h.syncLeft /\ f.syncCmd = h.syncCmd
        /\ f.peer = h.peer
        /\ Turning(f) => f.hold
        /\ \/ /\ h.sync = "Speed"
              /\ f.role = h.role /\ f.drive = h.syncCmd /\ f.turn = 0 /\ f.seen = h.seen
           \/ /\ h.sync = "GiveLead"
              /\ f.role = "Follower" /\ f.drive = h.drive /\ f.turn = Spin /\ f.seen = 0
           \/ /\ h.sync = "TakeLead"
              /\ f.role = "Leader" /\ f.drive = h.syncCmd /\ f.turn = Spin
    BY <1>2, <2>2, FinishSyncIs
  <2> HIDE DEF f
  <2>4. /\ SamePlan(f, e) /\ e.peer = f.peer /\ e.seen = f.seen
        /\ DrivesAsOrdered(e) /\ e \in Controller
    BY <2>3, SteerKeepsPlan, SteerTyped
  <2> HIDE DEF e
  <2>5. /\ e.sync = "None" /\ e.running = c.running /\ e.enabled = c.enabled
        /\ e.calm = c.calm /\ e.syncLeft = c.syncLeft /\ e.syncCmd = c.syncCmd
        /\ SameEars(c, e)
    BY <1>2, <2>3, <2>4 DEF SamePlan, SameEars
  <2>6. \/ /\ c.sync = "Speed"
           /\ e.role = c.role /\ e.drive = c.syncCmd /\ e.turn = 0 /\ Noted(c, e)
        \/ /\ c.sync = "GiveLead"
           /\ e.role = "Follower" /\ e.drive = c.drive /\ e.turn = Spin /\ e.seen = 0
        \/ /\ c.sync = "TakeLead"
           /\ e.role = "Leader" /\ e.drive = c.syncCmd /\ e.turn = Spin
    BY <1>2, <2>3, <2>4 DEF SamePlan, Noted
  <2>7. d.turn = e.turn
    <3>1. e.turn = 0 \/ e.turn = TurnDeadline
      BY <2>6 DEF Spin
    <3>2. e.turn \in 0 .. TurnDeadline /\ TurnDeadline \in Nat /\ SpinsOn(e, d)
      BY <1>4, <2>1, <2>4, TimesAssumption DEF Controller
    <3> QED
      BY <3>1, <3>2 DEF SpinsOn
  <2>8. World
    BY <1>4, <2>1, <2>4
  <2>9. Kept
    BY <1>4, <2>1, <2>4, <2>5 DEF SameEars, DrivesAsOrdered
  <2>10. Ends(c, d)
    BY <1>4, <2>1, <2>4, <2>5, <2>6, <2>7 DEF Noted, Ends
  <2>11. d.drive = f.drive
    BY <1>4, <2>1, <2>4 DEF SamePlan
  <2> QED
    BY <2>1, <2>8, <2>9, <2>10, <2>11
<1> QED
  BY <1>5, <1>6, <1>7, <1>8 DEF OnTimer, TickDisabled

-----------------------------------------------------------------------------
(* What the other handlers do.                                             *)

\* A handler of x leaves the other robot alone.
Others(x) == \A y \in Robots \ {x} : robot'[y] = robot[y]

\* It moves no clock of the election, no role and no heartbeat.
SameTalk ==
  /\ UNCHANGED <<due, beats, up, online>>
  /\ \A y \in Robots :
       /\ robot'[y].role = robot[y].role /\ robot'[y].enabled = robot[y].enabled
       /\ robot'[y].peer = robot[y].peer /\ robot'[y].seen = robot[y].seen

SameOrders(c, d) ==
  /\ d.drive = c.drive /\ d.sync = c.sync
  /\ d.syncCmd = c.syncCmd /\ d.syncLeft = c.syncLeft

\* What begin_sync() makes of a robot.
Begun(c, d, kind, cmd) ==
  /\ d.sync = kind /\ d.syncCmd = cmd /\ d.syncLeft = SyncPause /\ d.calm = 0
  /\ d.hold /\ d.drive = c.drive /\ d.running = c.running /\ d.turn = c.turn

\* A robot that becomes d, with its role and its ears as they were, lets the talk be.
LEMMA BecomesTalks ==
  ASSUME TypeOK, NEW x \in Robots, NEW d, Becomes(x, d),
         d.role = robot[x].role, d.enabled = robot[x].enabled,
         d.peer = robot[x].peer, d.seen = robot[x].seen,
         UNCHANGED <<due, beats, up, online>>
  PROVE  robot'[x] = d /\ Others(x) /\ SameTalk
<1>1. \A y \in Robots : robot'[y] = IF y = x THEN d ELSE robot[y]
  BY DEF Becomes, TypeOK
<1> QED
  BY <1>1 DEF Others, SameTalk

\* begin_sync(), of a robot of its type.
LEMMA BegunIs ==
  ASSUME NEW c \in Controller, NEW kind \in SyncKind, NEW cmd \in Drive
  PROVE  LET d == BeginSync(c, kind, cmd) IN
         /\ Begun(c, d, kind, cmd)
         /\ d.role = c.role /\ d.enabled = c.enabled /\ d.peer = c.peer /\ d.seen = c.seen
  BY DEF BeginSync, Begun, Controller

\* The end of a spin.
SpinStep(x) ==
  LET c == robot[x]
      d == robot'[x] IN
  /\ Others(x) /\ SameTalk /\ UNCHANGED <<orders, runs>>
  /\ 0 < c.turn /\ c.turn < TurnDeadline /\ d.turn = 0
  /\ SameOrders(c, d) /\ SameWheels(c, d)
  /\ d.running = c.running /\ d.calm = c.calm

\* check_turn_line() ends a spin and changes nothing else.
LEMMA SpinIs ==
  ASSUME TypeOK, NEW x \in Robots, SpinEnds(x)
  PROVE  SpinStep(x)
<1> USE DEF SpinStep
<1> DEFINE c == robot[x]
           f == FinishTurn(c)
<1>1. c \in Controller
  BY DEF TypeOK
<1>2. /\ f.turn = 0 /\ SameOrders(c, f) /\ SameWheels(c, f)
      /\ f.running = c.running /\ f.calm = c.calm
      /\ f.role = c.role /\ f.enabled = c.enabled /\ f.peer = c.peer /\ f.seen = c.seen
  BY <1>1 DEF FinishTurn, Controller, SameOrders, SameWheels
<1>3. /\ Becomes(x, f) /\ UNCHANGED <<due, beats, up, online, orders, runs>>
      /\ 0 < c.turn /\ c.turn < TurnDeadline
  BY DEF SpinEnds, net, bus, Turning
<1> HIDE DEF f
<1>4. robot'[x] = f /\ Others(x) /\ SameTalk
  BY <1>2, <1>3, BecomesTalks
<1> QED
  BY <1>2, <1>3, <1>4

\* An order read: ignored, or taken.
CommandStep(w, x) ==
  LET c == robot[x]
      d == robot'[x]
      cmd == Arriving(w, x) IN
  /\ Receive(w, x) /\ Others(x) /\ SameTalk /\ UNCHANGED runs
  /\ d.running = c.running
  /\ \/ d = c /\ (Heeds(c, cmd) => cmd # "Stop" /\ Busy(c))
     \/ /\ Heeds(c, cmd) /\ cmd = "Stop"
        /\ d.drive = "Stop" /\ d.sync = "None" /\ d.turn = 0
        /\ d.calm = c.calm /\ SameWheels(c, d)
        /\ d.syncLeft = c.syncLeft /\ d.syncCmd = c.syncCmd
     \/ /\ Heeds(c, cmd) /\ cmd = "Handover" /\ ~ Busy(c)
        /\ Begun(c, d, "TakeLead", c.drive)
     \/ /\ Heeds(c, cmd) /\ cmd \in {"Cruise", "Turbo"} /\ ~ Busy(c)
        /\ Begun(c, d, "Speed", cmd)

\* on_command() in full; an order of which there is one only is not replaced.
LEMMA CommandIs ==
  ASSUME TypeOK, NEW w \in Robots, NEW x \in Robots, OnCommand(w, x),
         Len(orders[<<w, x>>]) = 1
  PROVE  CommandStep(w, x)
<1> USE DEF CommandStep
<1> DEFINE c == robot[x]
           cmd == Arriving(w, x)
<1>1. c \in Controller /\ c.drive \in Drive
  BY DEF TypeOK, Controller
<1>2. /\ Receive(w, x)
      /\ UNCHANGED <<due, beats, up, online, runs>>
  BY DEF OnCommand, CommandIgnored, CommandStop, CommandHandover, CommandSpeed,
         OrderReplaced, Receive, net
<1>3. CASE CommandIgnored(w, x)
  <2>1. UNCHANGED robot /\ (Heeds(c, cmd) => cmd # "Stop" /\ Busy(c))
    BY <1>3 DEF CommandIgnored
  <2> QED
    BY <1>2, <2>1 DEF Others, SameTalk
<1>4. CASE CommandStop(w, x)
  <2> DEFINE d == [FinishTurn(c) EXCEPT !.sync = "None", !.drive = "Stop"]
  <2>1. /\ d.drive = "Stop" /\ d.sync = "None" /\ d.turn = 0 /\ d.running = c.running
        /\ d.calm = c.calm /\ SameWheels(c, d)
        /\ d.syncLeft = c.syncLeft /\ d.syncCmd = c.syncCmd
        /\ d.role = c.role /\ d.enabled = c.enabled /\ d.peer = c.peer /\ d.seen = c.seen
    BY <1>1 DEF FinishTurn, Controller, SameWheels
  <2>2. Becomes(x, d) /\ Heeds(c, cmd) /\ cmd = "Stop"
    BY <1>4 DEF CommandStop
  <2> HIDE DEF d
  <2>3. robot'[x] = d /\ Others(x) /\ SameTalk
    BY <1>2, <2>1, <2>2, BecomesTalks
  <2> QED
    BY <1>2, <2>1, <2>2, <2>3
<1>5. ASSUME NEW kind \in SyncKind, NEW new \in Drive, Becomes(x, BeginSync(c, kind, new))
      PROVE  Others(x) /\ SameTalk /\ Begun(c, robot'[x], kind, new)
  <2> DEFINE d == BeginSync(c, kind, new)
  <2>1. /\ Begun(c, d, kind, new)
        /\ d.role = c.role /\ d.enabled = c.enabled /\ d.peer = c.peer /\ d.seen = c.seen
    BY <1>1, BegunIs
  <2>2. Becomes(x, d)
    BY <1>5
  <2> HIDE DEF d
  <2>3. robot'[x] = d /\ Others(x) /\ SameTalk
    BY <1>2, <2>1, <2>2, BecomesTalks
  <2> QED
    BY <2>1, <2>3
<1>6. CASE CommandHandover(w, x)
  <2>1. Heeds(c, cmd) /\ cmd = "Handover" /\ ~ Busy(c)
        /\ Becomes(x, BeginSync(c, "TakeLead", c.drive))
    BY <1>6 DEF CommandHandover
  <2>2. Others(x) /\ SameTalk /\ Begun(c, robot'[x], "TakeLead", c.drive)
    BY <1>1, <1>5, <2>1 DEF SyncKind
  <2> QED
    BY <1>2, <2>1, <2>2 DEF Begun
<1>7. CASE CommandSpeed(w, x)
  <2>1. Heeds(c, cmd) /\ cmd \in {"Cruise", "Turbo"} /\ ~ Busy(c)
        /\ Becomes(x, BeginSync(c, "Speed", cmd))
    BY <1>7 DEF CommandSpeed
  <2>2. Others(x) /\ SameTalk /\ Begun(c, robot'[x], "Speed", cmd)
    BY <1>5, <2>1 DEF SyncKind, Drive
  <2> QED
    BY <1>2, <2>1, <2>2 DEF Begun
<1> QED
  BY <1>3, <1>4, <1>6, <1>7 DEF OnCommand, OrderReplaced

\* What is left of one message is none.
LEMMA TailOfOne ==
  ASSUME NEW S, NEW q \in Seq(S), Len(q) = 1
  PROVE  Tail(q) = <<>> /\ q # <<>>
<1>1. q # <<>>
  BY EmptySeq
<1>2. Tail(q) \in Seq(S) /\ Len(Tail(q)) = 0
  BY <1>1, HeadTailProperties
<1> QED
  BY <1>1, <1>2, EmptySeq

\* A run order read by a robot that waits for START.
RunStep(x) ==
  LET c == robot[x]
      d == robot'[x] IN
  /\ Others(x) /\ SameTalk
  /\ runs'[x] = <<>> /\ \A y \in Robots \ {x} : runs'[y] = runs[y]
  /\ IF Head(runs[x]).run = "START"
     THEN /\ d.running
          /\ d.drive = IF c.role = "Leader" THEN "Cruise" ELSE c.drive
          /\ d.sync = c.sync /\ d.syncCmd = c.syncCmd /\ d.syncLeft = c.syncLeft
          /\ d.turn = c.turn /\ d.calm = c.calm /\ SameWheels(c, d)
          /\ IF c.role = "Leader" THEN Publish(x, "Cruise") ELSE orders' = orders
     ELSE UNCHANGED <<robot, orders>>

\* on_run(), of a robot that waits for START and has one run order to read.
LEMMA RunIs ==
  ASSUME TypeOK, NEW x \in Robots, OnRun(x), robot[x].enabled, ~ robot[x].running,
         Len(runs[x]) = 1
  PROVE  RunStep(x)
<1> USE DEF RunStep
<1> DEFINE c == robot[x]
           run == Head(runs[x]).run = "START"
           d == SetRunning(c, TRUE)
<1>1. c \in Controller /\ runs[x] \in Seq(Run)
  BY DEF TypeOK
<1>2. /\ UNCHANGED <<due, beats, up, online>>
      /\ runs' = [runs EXCEPT ![x] = Tail(runs[x])]
      /\ IF c.running = run THEN UNCHANGED <<robot, claimed, orders, history>>
         ELSE /\ Becomes(x, SetRunning(c, run))
              /\ IF run /\ c.role = "Leader" THEN Publish(x, "Cruise") ELSE Silent
  BY DEF OnRun, net
<1>3. Tail(runs[x]) = <<>>
  BY <1>1, TailOfOne
<1>4. runs'[x] = <<>> /\ \A y \in Robots \ {x} : runs'[y] = runs[y]
  BY <1>2, <1>3 DEF TypeOK
<1>5. CASE run
  <2>1. /\ d.running /\ d.drive = IF c.role = "Leader" THEN "Cruise" ELSE c.drive
        /\ d.sync = c.sync /\ d.syncCmd = c.syncCmd /\ d.syncLeft = c.syncLeft
        /\ d.turn = c.turn /\ d.calm = c.calm /\ SameWheels(c, d)
        /\ d.role = c.role /\ d.enabled = c.enabled /\ d.peer = c.peer /\ d.seen = c.seen
    BY <1>1 DEF SetRunning, Controller, SameWheels
  <2>2. c.running = FALSE /\ run = TRUE
    BY <1>1, <1>5 DEF Controller
  <2>3. /\ Becomes(x, d)
        /\ IF c.role = "Leader" THEN Publish(x, "Cruise") ELSE Silent
    BY <1>2, <2>2
  <2> HIDE DEF d
  <2>4. robot'[x] = d /\ Others(x) /\ SameTalk
    BY <1>2, <2>1, <2>3, BecomesTalks
  <2> QED
    BY <1>4, <1>5, <2>1, <2>3, <2>4 DEF Silent
<1>6. CASE ~ run
  <2>1. c.running = FALSE /\ run = FALSE
    BY <1>1, <1>6 DEF Controller
  <2>2. UNCHANGED <<robot, orders>>
    BY <1>2, <2>1
  <2> QED
    BY <1>2, <1>4, <1>6, <2>2 DEF Others, SameTalk
<1> QED
  BY <1>5, <1>6

\* What a card leaves of a robot that does not begin a pause.
Carded(c, d) ==
  /\ d.calm = 0 /\ d.running = c.running /\ d.turn = c.turn /\ SameWheels(c, d)
  /\ d.sync = c.sync /\ d.syncCmd = c.syncCmd /\ d.syncLeft = c.syncLeft

\* A card taken.
CardStep(x) ==
  LET c == robot[x]
      d == robot'[x] IN
  /\ Others(x) /\ SameTalk /\ UNCHANGED runs
  /\ c.running /\ ~ Busy(c) /\ c.calm = CardGap
  /\ \/ /\ Carded(c, d) /\ d.drive = c.drive
        /\ orders' = orders \/ (c.role = "Leader" /\ Publish(x, c.drive))
     \/ /\ c.role = "Leader"
        /\ Publish(x, "Stop") /\ Carded(c, d) /\ d.drive = "Stop"
     \/ /\ c.role = "Leader"
        /\ Publish(x, "Handover") /\ Begun(c, d, "GiveLead", c.drive)
     \/ /\ c.role = "Leader"
        /\ \E cmd \in {"Cruise", "Turbo"} \ {c.drive} :
             Publish(x, cmd) /\ Begun(c, d, "Speed", cmd)

\* on_color(): a card is rejected or repeats the order in effect, or it is a new order.
LEMMA CardIs ==
  ASSUME TypeOK, NEW x \in Robots,
         \/ CardRejected(x) \/ BlueCard(x) \/ RedCard(x)
         \/ \E cmd \in {"Cruise", "Turbo"} : SpeedCard(x, cmd)
  PROVE  CardStep(x)
<1> USE DEF CardStep
<1> DEFINE c == robot[x]
           t == Taken(x)
<1>1. c \in Controller /\ c.drive \in Drive
  BY DEF TypeOK, Controller
<1>2. /\ UNCHANGED <<due, beats, up, online, runs>>
      /\ c.running /\ ~ Busy(c) /\ c.calm = CardGap
  BY DEF CardRejected, BlueCard, RedCard, SpeedCard, Card, net
<1>3. /\ Carded(c, t) /\ t.drive = c.drive
      /\ t.role = c.role /\ t.enabled = c.enabled /\ t.peer = c.peer /\ t.seen = c.seen
      /\ t \in Controller
  BY <1>1, ZeroTimes DEF Taken, Controller, Carded, SameWheels
<1> HIDE DEF t
<1>5. CASE CardRejected(x)
  <2>1. Becomes(x, t) /\ orders' = orders
    BY <1>5 DEF CardRejected, Silent, t
  <2>2. robot'[x] = t /\ Others(x) /\ SameTalk
    BY <1>2, <1>3, <2>1, BecomesTalks
  <2> QED
    BY <1>2, <1>3, <2>1, <2>2
<1>6. CASE RedCard(x)
  <2> DEFINE d == [t EXCEPT !.drive = "Stop"]
  <2>1. /\ Carded(c, d) /\ d.drive = "Stop"
        /\ d.role = c.role /\ d.enabled = c.enabled /\ d.peer = c.peer /\ d.seen = c.seen
    BY <1>3 DEF Controller, Carded, SameWheels
  <2>2. Becomes(x, d) /\ Publish(x, "Stop") /\ c.role = "Leader"
    BY <1>6 DEF RedCard, t
  <2> HIDE DEF d
  <2>3. robot'[x] = d /\ Others(x) /\ SameTalk
    BY <1>2, <2>1, <2>2, BecomesTalks
  <2> QED
    BY <1>2, <2>1, <2>2, <2>3
<1>7. ASSUME NEW kind \in SyncKind, NEW new \in Drive, Becomes(x, BeginSync(c, kind, new))
      PROVE  Others(x) /\ SameTalk /\ Begun(c, robot'[x], kind, new)
  <2> DEFINE d == BeginSync(c, kind, new)
  <2>1. /\ Begun(c, d, kind, new)
        /\ d.role = c.role /\ d.enabled = c.enabled /\ d.peer = c.peer /\ d.seen = c.seen
    BY <1>1, BegunIs
  <2>2. Becomes(x, d)
    BY <1>7
  <2> HIDE DEF d
  <2>3. robot'[x] = d /\ Others(x) /\ SameTalk
    BY <1>2, <2>1, <2>2, BecomesTalks
  <2> QED
    BY <2>1, <2>3
<1>8. CASE BlueCard(x)
  <2>1. c.role = "Leader" /\ Publish(x, "Handover")
        /\ Becomes(x, BeginSync(c, "GiveLead", c.drive))
    BY <1>8 DEF BlueCard
  <2>2. Others(x) /\ SameTalk /\ Begun(c, robot'[x], "GiveLead", c.drive)
    BY <1>1, <1>7, <2>1 DEF SyncKind
  <2> QED
    BY <1>2, <2>1, <2>2
<1>9. ASSUME NEW cmd \in {"Cruise", "Turbo"}, SpeedCard(x, cmd)
      PROVE  /\ Others(x) /\ SameTalk /\ c.role = "Leader" /\ Publish(x, cmd)
             /\ \/ cmd = c.drive /\ robot'[x] = t
                \/ cmd # c.drive /\ Begun(c, robot'[x], "Speed", cmd)
  <2>1. c.role = "Leader" /\ Publish(x, cmd)
        /\ Becomes(x, IF cmd = c.drive THEN t ELSE BeginSync(c, "Speed", cmd))
    BY <1>9 DEF SpeedCard, t
  <2>2. CASE cmd = c.drive
    <3>1. Becomes(x, t)
      BY <2>1, <2>2
    <3> QED
      BY <1>2, <1>3, <2>1, <2>2, <3>1, BecomesTalks
  <2>3. CASE cmd # c.drive
    <3>1. Becomes(x, BeginSync(c, "Speed", cmd))
      BY <2>1, <2>3
    <3>2. Others(x) /\ SameTalk /\ Begun(c, robot'[x], "Speed", cmd)
      BY <1>7, <3>1 DEF SyncKind, Drive
    <3> QED
      BY <2>1, <2>3, <3>2
  <2> QED
    BY <2>2, <2>3
<1> QED
  BY <1>2, <1>3, <1>5, <1>6, <1>8, <1>9

\* A heartbeat read.
PeerStep(x) ==
  LET c == robot[x]
      d == robot'[x] IN
  /\ Others(x) /\ SamePlan(c, d) /\ SameWheels(c, d) /\ d.seen = c.seen
  /\ UNCHANGED <<due, up, online, orders, runs>>
  /\ \E b \in beats : /\ b.to = x /\ beats' = beats \ {b}
                      /\ d.peer.valid /\ d.peer.age = 0 /\ d.peer.role = b.role

\* on_peer() caches a heartbeat on its way to the robot, and changes nothing else.
LEMMA PeerIs ==
  ASSUME TypeOK, NEW x \in Robots, OnPeer(x)
  PROVE  PeerStep(x)
<1> USE DEF PeerStep
<1> DEFINE c == robot[x]
<1>1. c \in Controller
  BY DEF TypeOK
<1>2. PICK b \in beats :
        /\ b.to = x /\ beats' = beats \ {b}
        /\ robot' = [robot EXCEPT ![x].peer =
                       [id |-> b.from, role |-> b.role, term |-> b.term,
                        valid |-> TRUE, age |-> 0]]
        /\ UNCHANGED <<due, up, online, orders, runs>>
  BY DEF OnPeer, net
<1> DEFINE p == [id |-> b.from, role |-> b.role, term |-> b.term,
                 valid |-> TRUE, age |-> 0]
<1>3. p.valid /\ p.age = 0 /\ p.role = b.role
  OBVIOUS
<1> HIDE DEF p
<1>4. Others(x) /\ robot'[x] = [c EXCEPT !.peer = p]
  BY <1>2 DEF TypeOK, Others, p
<1>5. /\ SamePlan(c, robot'[x]) /\ SameWheels(c, robot'[x])
      /\ robot'[x].seen = c.seen /\ robot'[x].peer = p
  BY <1>1, <1>4 DEF Controller, SamePlan, SameWheels
<1> QED
  BY <1>2, <1>3, <1>4, <1>5

\* One period later a robot's clocks have gone on and the rest is as it was.
Aging(c, d) ==
  /\ d.role = c.role /\ d.enabled = c.enabled /\ d.running = c.running
  /\ d.drive = c.drive /\ d.sync = c.sync /\ d.syncCmd = c.syncCmd /\ SameWheels(c, d)
  /\ d.peer.valid = c.peer.valid /\ d.peer.role = c.peer.role
  /\ d.peer.age =< c.peer.age + 1 /\ d.seen =< c.seen + 1
  /\ d.syncLeft = IF c.syncLeft = 0 THEN 0 ELSE c.syncLeft - 1
  /\ d.turn = IF c.turn > 1 THEN c.turn - 1 ELSE c.turn
  /\ IF Busy(c) THEN d.calm = 0
     ELSE IF c.running THEN d.calm =< c.calm + 1 ELSE d.calm = c.calm

\* Older() ages every clock by at most one.
LEMMA OlderIs ==
  ASSUME NEW c \in Controller
  PROVE  Aging(c, Older(c))
<1>1. /\ c.peer.age \in Int /\ c.seen \in Int /\ c.calm \in Int
      /\ PeerExpiry \in Int /\ LeaderTimeout \in Int /\ CardGap \in Int
      /\ c.peer \in Peer
  BY TimesAssumption DEF Controller, Peer, PeerExpiry
<1>2. \A a, b \in Int : Smaller(a, b) =< a
  BY DEF Smaller
<1> DEFINE age == Smaller(c.peer.age + 1, PeerExpiry + 1)
           seen == Smaller(c.seen + 1, LeaderTimeout + 1)
           syncLeft == IF c.syncLeft = 0 THEN 0 ELSE c.syncLeft - 1
           turn == IF c.turn > 1 THEN c.turn - 1 ELSE c.turn
           calm == IF Busy(c) THEN 0
                   ELSE IF c.enabled /\ c.running THEN Smaller(c.calm + 1, CardGap)
                   ELSE c.calm
           d == Older(c)
<1>3. age =< c.peer.age + 1 /\ seen =< c.seen + 1
  BY <1>1, <1>2
<1>4. IF Busy(c) THEN calm = 0 ELSE IF c.running THEN calm =< c.calm + 1 ELSE calm = c.calm
  BY <1>1, <1>2
<1>5. d = [c EXCEPT !.peer.age = age, !.seen = seen, !.syncLeft = syncLeft,
                    !.turn = turn, !.calm = calm]
  BY DEF Older
<1> HIDE DEF age, seen, calm
<1>6. /\ d.role = c.role /\ d.enabled = c.enabled /\ d.running = c.running
      /\ d.drive = c.drive /\ d.sync = c.sync /\ d.syncCmd = c.syncCmd /\ SameWheels(c, d)
      /\ d.seen = seen /\ d.syncLeft = syncLeft /\ d.turn = turn /\ d.calm = calm
      /\ d.peer = [c.peer EXCEPT !.age = age]
  BY <1>5 DEF Controller, SameWheels
<1>7. d.peer.valid = c.peer.valid /\ d.peer.role = c.peer.role /\ d.peer.age = age
  BY <1>1, <1>6 DEF Peer
<1> QED
  BY <1>3, <1>4, <1>6, <1>7 DEF Aging

-----------------------------------------------------------------------------
(* The invariant: what the two robots know of each other in every step.    *)

\* Nothing fails and nobody sets a parameter.
Healthy ==
  /\ up = Robots /\ online = Robots
  /\ left.settings = 0 /\ left.faults = 0
  /\ \A x \in Robots : robot[x].enabled

\* A countdown that is over is seen by the timer of the period that ends it, and a
\* robot that pauses, spins or waits for START counts no card.
Counted(x) ==
  LET c == robot[x] IN
  /\ c.sync # "None" /\ c.syncLeft = 0 => x \in due
  /\ c.turn = 1 => x \in due
  /\ c.turn > 0 => HandoverTurn
  /\ Busy(c) \/ ~ c.running => c.calm = 0

Counters == \A x \in Robots : Counted(x)

\* The one run order was a STOP or has yet to be given; or it was a START, and no
\* card counts to the end before every robot has read it.
Unstarted ==
  /\ left.runs \in {0, 1}
  /\ \A x \in Robots :
       /\ ~ robot[x].running
       /\ \/ runs[x] = <<>>
          \/ left.runs = 0 /\ Len(runs[x]) = 1 /\ Head(runs[x]).run = "STOP"

Started ==
  /\ left.runs = 0
  /\ \A x \in Robots :
       IF robot[x].running THEN runs[x] = <<>>
       ELSE /\ Len(runs[x]) = 1 /\ Head(runs[x]).run = "START"
            /\ \A y \in Robots : robot[y].calm =< Head(runs[x]).age

\* A robot on the line drives at the speed of its order, or has been told to stop.
OwnSpeed(x) ==
  ~ robot[x].hold => robot[x].speed = robot[x].drive \/ robot[x].drive = "Stop"

Paced == (\A x \in Robots : OwnSpeed(x)) /\ SameSpeed

\* Heartbeats tell the truth, and who has read one of this period knows its writer.
BeatsTrue ==
  \A b \in beats :
    b.from # b.to /\ b.from \notin due /\ b.role = robot[b.from].role

Told(x, y) == y \notin due /\ ~ \E b \in beats : b.from = y /\ b.to = x

Informed(x, y) ==
  Told(x, y) => /\ robot[x].peer.valid /\ robot[x].peer.age = 0
                /\ robot[x].peer.role = robot[y].role

Peers == BeatsTrue /\ \A x, y \in Robots : x # y => Informed(x, y)

\* The order a leader has given last, and how long ago at least.
Word(c) ==
  IF c.sync = "None" THEN c.drive
  ELSE IF c.sync = "Speed" THEN c.syncCmd ELSE "Handover"

Since(c) == IF c.sync = "None" THEN c.calm ELSE SyncPause - c.syncLeft

\* All that a leader has on its way is that order, as old as that.
Sealed(q, cmd, since) ==
  q # <<>> => Len(q) = 1 /\ Head(q).cmd = cmd /\ since =< Head(q).age

Mailed(w) == \A y \in Robots : Sealed(orders[<<w, y>>], Word(robot[w]), Since(robot[w]))
Quiet(w)  == \A y \in Robots : orders[<<w, y>>] = <<>>

Hailed(w, r) == orders[<<w, r>>] # <<>>

\* Which way a robot will face once it does not spin.
Face(x) == IF robot[x].turn > 0 THEN Opposite[heading[x]] ELSE heading[x]
Spun(h) == IF HandoverTurn THEN Opposite[h] ELSE h

Idle(c) == c.running /\ c.sync = "None" /\ c.turn = 0

\* How far the follower r is with the orders of its leader w.
\* At one with it.
Level(w, r) ==
  LET c == robot[w] d == robot[r] IN
  c.sync = "None" /\ d.sync = "None" /\ d.drive = c.drive

\* The order to stop is on its way to it.
Stopping(w, r) ==
  LET c == robot[w] d == robot[r] IN
  /\ c.sync = "None" /\ c.turn = 0 /\ c.drive = "Stop" /\ Idle(d) /\ Hailed(w, r)
  /\ ~ c.hold => c.speed = d.drive \/ d.drive = "Stop"

\* The order to change speed or to hand over is on its way to it.
Hailing(w, r) ==
  LET c == robot[w] d == robot[r] IN
  c.sync # "None" /\ Idle(d) /\ d.drive = c.drive /\ Hailed(w, r)

\* Both sit out the pause; the follower began it later, by what an order takes.
Together(w, r) ==
  LET c == robot[w] d == robot[r] IN
  /\ ~ Hailed(w, r)
  /\ c.syncLeft =< d.syncLeft /\ d.syncLeft =< c.syncLeft + MaxDelay

Shifting(w, r) ==
  LET c == robot[w] d == robot[r] IN
  c.sync = "Speed" /\ d.sync = "Speed" /\ d.syncCmd = c.syncCmd /\ Together(w, r)

Giving(w, r) ==
  LET c == robot[w] d == robot[r] IN
  /\ c.sync = "GiveLead" /\ d.sync = "TakeLead" /\ Together(w, r)
  /\ d.drive = c.drive /\ d.syncCmd = d.drive

\* The leader has ended the pause for a new speed, and the follower has yet to.
Trailing(w, r) ==
  LET c == robot[w] d == robot[r] IN
  /\ c.sync = "None" /\ c.turn = 0 /\ c.running /\ ~ Hailed(w, r)
  /\ d.sync = "Speed" /\ d.syncCmd = c.drive /\ d.syncLeft + c.calm =< MaxDelay

\* The follower has ended it, and the leader will within the period.
Ahead(w, r) ==
  LET c == robot[w] d == robot[r] IN
  /\ c.sync = "Speed" /\ c.syncLeft = 0 /\ ~ Hailed(w, r)
  /\ Idle(d) /\ d.drive = c.syncCmd

Follows(w, r) ==
  \/ Level(w, r) \/ Stopping(w, r) \/ Hailing(w, r) \/ Shifting(w, r)
  \/ Giving(w, r) \/ Trailing(w, r) \/ Ahead(w, r)

\* A leader about to tick has heard of no other, and a follower about to elect has.
Heeding(w, r) ==
  /\ w \in due => ~ HearsLeader(robot[w])
  /\ \/ robot[r].seen =< MaxDelay
     \/ r \in due /\ robot[r].seen =< MaxDelay + 1 /\ Believes(robot[r])

\* w leads and r follows.
Leads(w, r) ==
  LET c == robot[w] d == robot[r] IN
  /\ c.role = "Leader" /\ d.role = "Follower"
  /\ c.running \/ (c.drive = "Cruise" /\ Quiet(w))
  /\ c.sync # "TakeLead"
  /\ c.sync = "Speed" => c.syncCmd # c.drive /\ c.syncCmd # "Stop"
  /\ Mailed(w) /\ Quiet(r)
  /\ Heeding(w, r) /\ Follows(w, r) /\ Face(w) = Face(r)

\* r has given the lead away and w has yet to take it.
Gap(w, r) ==
  LET c == robot[w] d == robot[r] IN
  /\ c.role = "Follower" /\ d.role = "Follower" /\ Quiet(w) /\ Quiet(r)
  /\ c.sync = "TakeLead" /\ c.syncCmd = c.drive
  /\ d.sync = "None" /\ d.drive = c.drive
  /\ d.seen + c.syncLeft =< MaxDelay
  /\ Face(r) = Spun(Face(w))

\* w has taken the lead, and r has yet to give it away within the period.
Clash(w, r) ==
  LET c == robot[w] d == robot[r] IN
  /\ c.role = "Leader" /\ d.role = "Leader" /\ Mailed(w) /\ Quiet(r)
  /\ w \notin due /\ c.running /\ c.sync = "None" /\ c.turn = Spin /\ c.calm = 0
  /\ d.sync = "GiveLead" /\ d.syncLeft = 0 /\ d.drive = c.drive
  /\ Face(w) = Spun(Face(r))

Phase(w, r) == Leads(w, r) \/ Gap(w, r) \/ Clash(w, r)

Facing == heading \in [Robots -> {"there", "back"}]

StandInv ==
  /\ Healthy /\ Counters /\ (Unstarted \/ Started) /\ Paced /\ Peers /\ Facing
  /\ \E w, r \in Robots : w # r /\ Phase(w, r)

-----------------------------------------------------------------------------
(* The orders on their way.                                                *)

\* There are two robots.
LEMMA TwoRobots ==
  ASSUME NEW w \in Robots, NEW r \in Robots, w # r
  PROVE  Robots = {w, r}
  BY StandAssumption

\* What a leader has on its way to one reader.
LEMMA MailIs ==
  ASSUME TypeOK, NEW w \in Robots, NEW y \in Robots, Mailed(w), orders[<<w, y>>] # <<>>
  PROVE  LET q == orders[<<w, y>>] IN
         /\ Len(q) = 1 /\ Head(q).cmd = Word(robot[w]) /\ Since(robot[w]) =< Head(q).age
         /\ Head(q).age \in Nat /\ Head(q).age =< MaxDelay
<1> DEFINE q == orders[<<w, y>>]
<1>1. q \in Seq(Order)
  BY DEF TypeOK, Pairs
<1>2. Head(q) \in Order
  BY <1>1, TailTyped
<1> QED
  BY <1>2, BusAssumption DEF Mailed, Sealed, Order

\* An order older than any delay has arrived.
LEMMA OldMail ==
  ASSUME TypeOK, NEW w \in Robots, Mailed(w), Since(robot[w]) \in Int,
         Since(robot[w]) > MaxDelay
  PROVE  Quiet(w)
<1>1. ASSUME NEW y \in Robots, orders[<<w, y>>] # <<>> PROVE FALSE
  BY <1>1, MailIs, BusAssumption
<1> QED
  BY <1>1 DEF Quiet

\* Orders that stay or arrive, from a leader that says nothing new.
LEMMA MailKept ==
  ASSUME TypeOK, TypeOK', NEW w \in Robots, Mailed(w),
         \A y \in Robots : orders'[<<w, y>>] = orders[<<w, y>>] \/ orders'[<<w, y>>] = <<>>,
         Word(robot'[w]) = Word(robot[w]),
         Since(robot'[w]) \in Int, Since(robot[w]) \in Int,
         Since(robot'[w]) =< Since(robot[w])
  PROVE  Mailed(w)'
<1>1. ASSUME NEW y \in Robots
      PROVE  Sealed(orders'[<<w, y>>], Word(robot'[w]), Since(robot'[w]))
  <2>1. CASE orders'[<<w, y>>] = <<>>
    BY <2>1 DEF Sealed
  <2>2. CASE orders'[<<w, y>>] = orders[<<w, y>>] /\ orders[<<w, y>>] # <<>>
    BY <2>2, MailIs DEF Sealed
  <2> QED
    BY <2>1, <2>2
<1> QED
  BY <1>1 DEF Mailed

\* A first order reaches every robot, and nobody else's.
LEMMA MailSent ==
  ASSUME TypeOK, Healthy, NEW w \in Robots, NEW cmd \in Command, Quiet(w), Publish(w, cmd)
  PROVE  /\ \A y \in Robots : /\ orders'[<<w, y>>] # <<>> /\ Len(orders'[<<w, y>>]) = 1
                              /\ Head(orders'[<<w, y>>]) = [cmd |-> cmd, age |-> 0]
         /\ \A x \in Robots \ {w}, y \in Robots : orders'[<<x, y>>] = orders[<<x, y>>]
<1> DEFINE e == [cmd |-> cmd, age |-> 0]
<1>1. e \in Order
  BY BusAssumption DEF Order
<1> HIDE DEF e
<1>2. ASSUME NEW y \in Robots
      PROVE  orders'[<<w, y>>] # <<>> /\ Len(orders'[<<w, y>>]) = 1
             /\ Head(orders'[<<w, y>>]) = e
  <2>1. orders[<<w, y>>] = <<>> /\ Connected(w, y) /\ y \in up
    BY DEF Quiet, Healthy, Connected
  <2>2. orders'[<<w, y>>] = Sent(orders[<<w, y>>], w, y, cmd)
    BY DEF Publish, Pairs
  <2>3. orders'[<<w, y>>] = Append(<<>>, e)
    BY <2>1, <2>2 DEF Sent, e
  <2> QED
    BY <1>1, <2>3
<1>3. ASSUME NEW x \in Robots \ {w}, NEW y \in Robots
      PROVE  orders'[<<x, y>>] = orders[<<x, y>>]
  BY DEF Publish, Pairs
<1> QED
  BY <1>2, <1>3 DEF e

\* So it is the one order a leader has on its way that has just given it.
LEMMA NewMail ==
  ASSUME TypeOK, Healthy, NEW w \in Robots, NEW cmd \in Command, Quiet(w), Publish(w, cmd),
         Word(robot'[w]) = cmd, Since(robot'[w]) = 0
  PROVE  /\ Mailed(w)' /\ \A y \in Robots : Hailed(w, y)'
         /\ \A x \in Robots \ {w} : Quiet(x) => Quiet(x)'
<1>1. ASSUME NEW y \in Robots
      PROVE  Sealed(orders'[<<w, y>>], Word(robot'[w]), Since(robot'[w]))
  <2>1. Len(orders'[<<w, y>>]) = 1 /\ Head(orders'[<<w, y>>]) = [cmd |-> cmd, age |-> 0]
    BY MailSent
  <2> QED
    BY <2>1 DEF Sealed
<1>2. \A y \in Robots : orders'[<<w, y>>] # <<>>
  BY MailSent
<1>3. \A x \in Robots \ {w}, y \in Robots : orders'[<<x, y>>] = orders[<<x, y>>]
  BY MailSent
<1> QED
  BY <1>1, <1>2, <1>3 DEF Mailed, Hailed, Quiet

\* Reading the only order leaves none, and the others' where they are.
LEMMA MailRead ==
  ASSUME TypeOK, NEW w \in Robots, NEW x \in Robots, Receive(w, x),
         Len(orders[<<w, x>>]) = 1
  PROVE  /\ orders'[<<w, x>>] = <<>>
         /\ \A p \in Pairs \ {<<w, x>>} : orders'[p] = orders[p]
<1>1. orders[<<w, x>>] \in Seq(Order) /\ <<w, x>> \in Pairs
  BY DEF TypeOK, Pairs
<1>2. Tail(orders[<<w, x>>]) = <<>>
  BY <1>1, TailOfOne
<1> QED
  BY <1>1, <1>2 DEF Receive, TypeOK

\* A period ages every order on its way.
LEMMA MailAges ==
  ASSUME TypeOK, Healthy, Elapse, NEW w \in Robots
  PROVE  /\ Quiet(w) => Quiet(w)'
         /\ \A y \in Robots : Hailed(w, y)' <=> Hailed(w, y)
         /\ Mailed(w) /\ Word(robot'[w]) = Word(robot[w])
            /\ Since(robot'[w]) \in Int /\ Since(robot[w]) \in Int
            /\ Since(robot'[w]) =< Since(robot[w]) + 1 => Mailed(w)'
<1>1. ASSUME NEW y \in Robots
      PROVE  LET q == orders[<<w, y>>]
                 p == orders'[<<w, y>>] IN
             /\ p = <<>> <=> q = <<>>
             /\ q # <<>> => /\ Len(p) = Len(q) /\ Head(p).cmd = Head(q).cmd
                            /\ Head(p).age = Head(q).age + 1
  <2> DEFINE q == orders[<<w, y>>]
  <2>1. q \in Seq(Order) /\ orders'[<<w, y>>] = Aged(q) /\ ~ Late(q)
    BY DEF TypeOK, Elapse, Pairs, Healthy, Connected
  <2>2. Len(q) \in Nat /\ DOMAIN q = 1 .. Len(q) /\ q \in [1 .. Len(q) -> Order]
    BY <2>1, LenProperties
  <2> HIDE DEF q
  <2>3. Aged(q) \in Seq(Order) /\ DOMAIN Aged(q) = DOMAIN q
    BY <2>1, AgedTyped DEF Aged
  <2>4. Len(Aged(q)) = Len(q)
    BY <2>2, <2>3, LenProperties
  <2>5. q = <<>> <=> Len(q) = 0
    BY <2>1, EmptySeq
  <2>6. Aged(q) = <<>> <=> Len(Aged(q)) = 0
    BY <2>3, EmptySeq
  <2>7. ASSUME q # <<>>
        PROVE  Head(Aged(q)).cmd = Head(q).cmd /\ Head(Aged(q)).age = Head(q).age + 1
    <3>1. 1 \in DOMAIN q /\ q[1] \in Order
      BY <2>2, <2>5, <2>7
    <3>2. Head(q) = q[1] /\ Head(Aged(q)) = Aged(q)[1]
      BY <2>1, <2>3, <2>4, <2>5, <2>6, <2>7
    <3>3. Aged(q)[1] = [q[1] EXCEPT !.age = Smaller(q[1].age + 1, MaxDelay)]
      BY <3>1 DEF Aged
    <3>4. q[1].age # MaxDelay /\ q[1].age \in 0 .. MaxDelay
      BY <2>1, <3>1 DEF Late, Order
    <3>5. Smaller(q[1].age + 1, MaxDelay) = q[1].age + 1
      BY <3>4, BusAssumption DEF Smaller
    <3> QED
      BY <3>1, <3>2, <3>3, <3>5 DEF Order
  <2> QED
    BY <2>1, <2>4, <2>5, <2>6, <2>7 DEF q
<1>2. Quiet(w) => Quiet(w)'
  BY <1>1 DEF Quiet
<1>3. \A y \in Robots : Hailed(w, y)' <=> Hailed(w, y)
  BY <1>1 DEF Hailed
<1>4. ASSUME Mailed(w), Word(robot'[w]) = Word(robot[w]),
             Since(robot'[w]) \in Int, Since(robot[w]) \in Int,
             Since(robot'[w]) =< Since(robot[w]) + 1
      PROVE  Mailed(w)'
  <2>1. ASSUME NEW y \in Robots
        PROVE  Sealed(orders'[<<w, y>>], Word(robot'[w]), Since(robot'[w]))
    <3>1. CASE orders[<<w, y>>] = <<>>
      BY <1>1, <3>1 DEF Sealed
    <3>2. CASE orders[<<w, y>>] # <<>>
      BY <1>1, <1>4, <3>2, MailIs DEF Sealed
    <3> QED
      BY <3>1, <3>2
  <2> QED
    BY <2>1 DEF Mailed
<1> QED
  BY <1>2, <1>3, <1>4

-----------------------------------------------------------------------------
(* What every step keeps of each robot.                                    *)

\* The numbers of a robot, and what it may be told.
Sane(c) ==
  /\ c \in Controller
  /\ c.syncLeft \in Nat /\ c.syncLeft =< SyncPause
  /\ c.turn \in Nat /\ c.turn =< TurnDeadline
  /\ c.calm \in Nat /\ c.calm =< CardGap
  /\ c.seen \in Nat /\ c.peer.age \in Nat
  /\ c.role \in Role /\ c.sync \in SyncKind
  /\ c.drive \in Drive /\ c.syncCmd \in Drive

\* What the pause, the spin and the wheels of a parked robot exclude.
Still(c) ==
  /\ c.sync # "None" => c.running /\ c.hold /\ c.turn = 0
  /\ c.turn > 0 => c.running /\ c.hold /\ c.sync = "None"
  /\ ~ c.running => c.hold

\* A controller of its type is sane, and one that is parked keeps still.
LEMMA Sanity ==
  ASSUME NEW c \in Controller
  PROVE  Sane(c) /\ (Parked(c) => Still(c))
<1>1. Sane(c)
  BY TimesAssumption DEF Controller, Peer, PeerExpiry, Sane
<1> QED
  BY <1>1 DEF Sane, Still, Parked, Busy, Turning

\* Of every robot, before a step.
LEMMA Ranges ==
  ASSUME TypeOK, NEW x \in Robots
  PROVE  Sane(robot[x])
  BY Sanity DEF TypeOK

\* After a step.
LEMMA NewRanges ==
  ASSUME TypeOK', NEW x \in Robots
  PROVE  Sane(robot'[x])
<1>1. robot'[x] \in Controller
  BY DEF TypeOK
<1> QED
  BY <1>1, Sanity

\* Of every parked robot, before a step.
LEMMA ParkedIs ==
  ASSUME TypeOK, ParkedUnlessDriving, NEW x \in Robots
  PROVE  Still(robot[x])
  BY Sanity DEF TypeOK, ParkedUnlessDriving

\* After a step.
LEMMA NewParkedIs ==
  ASSUME TypeOK', ParkedUnlessDriving', NEW x \in Robots
  PROVE  Still(robot'[x])
<1>1. robot'[x] \in Controller /\ Parked(robot'[x])
  BY DEF TypeOK, ParkedUnlessDriving, Parked, Busy, Turning
<1> QED
  BY <1>1, Sanity

\* The timers, as the convoy on the line sets them.
LEMMA Times ==
  /\ MaxDelay \in Nat /\ SyncPause \in Nat /\ CardGap \in Nat
  /\ TurnDeadline \in Nat /\ TurnDeadline > 1 /\ LeaderTimeout \in Nat
  /\ PeerExpiry \in Nat /\ PeerExpiry > 1
  /\ MaxDelay < SyncPause /\ MaxDelay < CardGap /\ MaxDelay =< LeaderTimeout
  /\ HandoverTurn \in BOOLEAN
  BY StandAssumption, TimesAssumption, BusAssumption, SwitchAssumption DEF PeerExpiry

\* Counters: by a tick.
LEMMA TimerCounts ==
  ASSUME TypeOK, TypeOK', ParkedUnlessDriving, Counters, NEW x \in Robots, TimerStep(x)
  PROVE  Counters'
<1>1. ASSUME NEW y \in Robots \ {x} PROVE Counted(y)'
  <2>1. robot'[y] = robot[y] /\ (y \in due => y \in due')
    BY DEF TimerStep
  <2> QED
    BY <2>1 DEF Counters, Counted, Busy, Turning
<1>2. Counted(x)'
  <2> DEFINE c == robot[x]
             d == robot'[x]
  <2>1. Counted(x) /\ d.calm = c.calm /\ d.syncLeft = c.syncLeft /\ d.running = c.running
    BY DEF Counters, TimerStep
  <2>2. CASE Goes(c, d)
    BY <2>1, <2>2, ParkedIs, Ranges, Times DEF Goes, SpinsOn, Counted, Busy, Turning, Sane, Still
  <2>3. CASE Ends(c, d)
    BY <2>1, <2>3, ParkedIs, Ranges, Times DEF Ends, Spin, Counted, Busy, Turning, Sane, Still
  <2> QED
    BY <2>2, <2>3 DEF TimerStep
<1> QED
  BY <1>1, <1>2 DEF Counters

\* Counters: by a handler that touches one robot's plan.
LEMMA HandlerCounts ==
  ASSUME TypeOK, TypeOK', ParkedUnlessDriving, Counters, NEW x \in Robots,
         \/ SpinStep(x) \/ CardStep(x) \/ \E w \in Robots : CommandStep(w, x)
  PROVE  Counters'
<1> DEFINE c == robot[x]
           d == robot'[x]
<1>0. Others(x) /\ due' = due
  BY DEF SpinStep, CardStep, CommandStep, SameTalk
<1>1. ASSUME NEW y \in Robots \ {x} PROVE Counted(y)'
  BY <1>0 DEF Counters, Counted, Busy, Turning, Others
<1>2. Counted(x)
  BY DEF Counters
<1>3. ASSUME NEW kind \in SyncKind, NEW cmd, Begun(c, d, kind, cmd), ~ Busy(c), c.running
      PROVE  Counted(x)'
  BY <1>3, Ranges, Times DEF Begun, Counted, Busy, Turning, Sane
<1>4. ASSUME SpinStep(x) PROVE Counted(x)'
  BY <1>0, <1>2, <1>4, Ranges DEF SpinStep, SameOrders, Counted, Busy, Turning, Sane
<1>5. ASSUME CardStep(x) PROVE Counted(x)'
  <2>1. ASSUME Carded(c, d) PROVE Counted(x)'
    BY <1>0, <1>2, <2>1 DEF Carded, Counted, Busy, Turning
  <2> QED
    BY <1>3, <1>5, <2>1 DEF CardStep, SyncKind
<1>6. ASSUME NEW w \in Robots, CommandStep(w, x) PROVE Counted(x)'
  <2> DEFINE cmd == Arriving(w, x)
  <2>1. CASE d = c
    BY <1>0, <1>2, <2>1 DEF Counted, Busy, Turning
  <2>2. CASE d.sync = "None" /\ d.turn = 0 /\ d.calm = c.calm /\ d.running = c.running
    BY <1>0, <1>2, <2>2 DEF Counted, Busy, Turning
  <2>3. Heeds(c, cmd) => c.running
    BY DEF Heeds
  <2> QED
    BY <1>3, <1>6, <2>1, <2>2, <2>3 DEF CommandStep, SyncKind
<1> QED
  BY <1>1, <1>4, <1>5, <1>6 DEF Counters

\* Counters: by a START, which finds its robot parked.
LEMMA RunCounts ==
  ASSUME TypeOK, TypeOK', ParkedUnlessDriving, Counters, NEW x \in Robots,
         RunStep(x), ~ robot[x].running
  PROVE  Counters'
<1> DEFINE c == robot[x]
           d == robot'[x]
<1>0. Others(x) /\ due' = due
  BY DEF RunStep, SameTalk
<1>1. ASSUME NEW y \in Robots \ {x} PROVE Counted(y)'
  BY <1>0 DEF Counters, Counted, Busy, Turning, Others
<1>2. d.sync = c.sync /\ d.turn = c.turn /\ d.calm = c.calm /\ d.syncLeft = c.syncLeft
  BY DEF RunStep
<1>3. Counted(x)'
  BY <1>0, <1>2, ParkedIs, Ranges DEF Counters, Counted, Busy, Turning, Sane, Still
<1> QED
  BY <1>1, <1>3 DEF Counters

\* A period in which nothing is left to do, and what it ages.
LEMMA ElapseIs ==
  ASSUME TypeOK, Healthy, Elapse
  PROVE  /\ due = {} /\ due' = Robots /\ up' = up /\ online' = online
         /\ beats = {} /\ beats' = {}
         /\ \A x \in Robots : Aging(robot[x], robot'[x])
<1>1. /\ due = {} /\ due' = Robots /\ up' = up /\ online' = online /\ beats' = {}
      /\ \A x \in Robots : robot'[x] = Older(robot[x])
  BY DEF Elapse, Healthy, net
<1>2. beats = {}
  <2>1. \A b \in beats : b.to \in up /\ Connected(b.from, b.to)
    BY DEF TypeOK, Beat, Healthy, Connected
  <2> QED
    BY <2>1 DEF Elapse
<1> QED
  BY <1>1, <1>2, OlderIs DEF TypeOK

\* Counters: by a period.
LEMMA ElapseCounts ==
  ASSUME TypeOK, TypeOK', Healthy, Counters, Elapse
  PROVE  Counters'
<1> SUFFICES ASSUME NEW x \in Robots PROVE Counted(x)'
  BY DEF Counters
<1>1. Aging(robot[x], robot'[x]) /\ x \in due'
  BY ElapseIs
<1>2. Counted(x)
  BY DEF Counters
<1> QED
  BY <1>1, <1>2, Ranges DEF Aging, Counted, Busy, Turning, Sane

-----------------------------------------------------------------------------
(* The wheels.                                                             *)

\* Speeds: by a handler that lets nobody go that was held.
LEMMA HandlerPaces ==
  ASSUME TypeOK, ParkedUnlessDriving, Paced, NEW x \in Robots, up' = up,
         \/ SpinStep(x) \/ CardStep(x) \/ \E w \in Robots : CommandStep(w, x)
         \/ RunStep(x) /\ ~ robot[x].running
         \/ PeerStep(x)
  PROVE  Paced'
<1> DEFINE c == robot[x]
           d == robot'[x]
           Slower == ~ d.hold => ~ c.hold /\ d.speed = c.speed
           NoFaster == Slower /\ (~ d.hold => d.drive \in {c.drive, "Stop"})
<1>0. Others(x) /\ OwnSpeed(x)
  BY DEF SpinStep, CardStep, CommandStep, RunStep, PeerStep, Paced
<1>1. ASSUME NEW kind, NEW cmd, Begun(c, d, kind, cmd) PROVE NoFaster
  BY <1>1 DEF Begun
<1>2. ASSUME SameWheels(c, d), d.drive \in {c.drive, "Stop"} \/ c.hold PROVE NoFaster
  BY <1>2 DEF SameWheels
<1>3. ASSUME SpinStep(x) \/ PeerStep(x) PROVE NoFaster
  BY <1>2, <1>3 DEF SpinStep, PeerStep, SameOrders, SamePlan
<1>4. ASSUME CardStep(x) PROVE NoFaster
  BY <1>1, <1>2, <1>4 DEF CardStep, Carded
<1>5. ASSUME NEW w \in Robots, CommandStep(w, x) PROVE NoFaster
  BY <1>1, <1>2, <1>5 DEF CommandStep, SameWheels
<1>6. ASSUME RunStep(x), ~ c.running PROVE NoFaster
  <2>1. c.hold
    BY <1>6, ParkedIs DEF Still
  <2>2. SameWheels(c, d)
    BY <1>6 DEF RunStep, SameWheels
  <2> QED
    BY <1>2, <2>1, <2>2
<1>7. NoFaster
  BY <1>3, <1>4, <1>5, <1>6
<1>8. ASSUME NEW y \in Robots PROVE OwnSpeed(y)'
  BY <1>0, <1>7 DEF OwnSpeed, Others, Paced
<1>9. \A y \in Robots : ~ robot'[y].hold => ~ robot[y].hold /\ robot'[y].speed = robot[y].speed
  BY <1>0, <1>7 DEF Others
<1>10. SameSpeed'
  BY <1>9 DEF Paced, SameSpeed, Driving
<1> QED
  BY <1>8, <1>10 DEF Paced

\* Speeds: by a tick, once the orders of the two are seen to agree.
LEMMA TimerPaces ==
  ASSUME TypeOK', ParkedUnlessDriving', Paced, NEW x \in Robots, TimerStep(x),
         NEW w \in Robots, NEW r \in Robots, w # r, Phase(w, r)'
  PROVE  Paced'
<1>0. Robots = {w, r}
  BY TwoRobots
<1>1. DrivesAsOrdered(robot'[x]) /\ \A y \in Robots \ {x} : robot'[y] = robot[y]
  BY DEF TimerStep
<1>2. ASSUME NEW y \in Robots PROVE OwnSpeed(y)'
  BY <1>1 DEF Paced, OwnSpeed, DrivesAsOrdered
<1>3. ASSUME NEW y \in Robots
      PROVE  ~ robot'[y].hold => robot'[y].sync = "None" /\ robot'[y].turn = 0
  BY NewRanges, NewParkedIs DEF Sane, Still
<1>4. ASSUME ~ robot'[w].hold, ~ robot'[r].hold PROVE robot'[w].speed = robot'[r].speed
  <2>1. robot'[w].sync = "None" /\ robot'[r].sync = "None"
    BY <1>3, <1>4
  <2>2. Level(w, r)' \/ Stopping(w, r)'
    BY <2>1 DEF Phase, Leads, Gap, Clash, Follows, Hailing, Shifting, Giving, Trailing,
                Ahead
  <2>3. robot'[x].speed = robot'[x].drive /\ robot'[x].drive # "Stop"
    BY <1>0, <1>1, <1>4 DEF DrivesAsOrdered
  <2>4. CASE Level(w, r)'
    BY <1>0, <1>2, <1>4, <2>3, <2>4 DEF Level, OwnSpeed
  <2>5. CASE Stopping(w, r)'
    BY <1>0, <1>2, <1>4, <2>3, <2>5 DEF Stopping, OwnSpeed
  <2> QED
    BY <2>2, <2>4, <2>5
<1>5. SameSpeed'
  BY <1>0, <1>4 DEF SameSpeed, Driving
<1> QED
  BY <1>2, <1>5 DEF Paced

\* Speeds: by a period.
LEMMA ElapsePaces ==
  ASSUME TypeOK, Healthy, Paced, Elapse
  PROVE  Paced'
<1>1. ASSUME NEW y \in Robots
      PROVE  SameWheels(robot[y], robot'[y]) /\ robot'[y].drive = robot[y].drive
  BY ElapseIs DEF Aging
<1>2. up' = up
  BY ElapseIs
<1> QED
  BY <1>1, <1>2 DEF SameWheels, Paced, OwnSpeed, SameSpeed, Driving

-----------------------------------------------------------------------------
(* The run orders.                                                         *)

Start == Unstarted \/ Started

\* A step that reads no run order, starts nobody and lets no card count further.
LEMMA StartKept ==
  ASSUME TypeOK, TypeOK', Start, UNCHANGED runs, left'.runs = left.runs,
         \A y \in Robots : /\ robot'[y].running = robot[y].running
                           /\ robot'[y].calm =< robot[y].calm
  PROVE  Start'
<1>1. CASE Unstarted
  BY <1>1 DEF Unstarted, Start
<1>2. CASE Started
  <2>1. ASSUME NEW x \in Robots, ~ robot[x].running
        PROVE  \A y \in Robots : robot'[y].calm =< Head(runs[x]).age
    <3>1. runs[x] \in Seq(Run) /\ Len(runs[x]) = 1
      BY <1>2, <2>1 DEF Started, TypeOK
    <3>2. Head(runs[x]) \in Run
      BY <3>1, EmptySeq, TailTyped
    <3>3. Head(runs[x]).age \in Int
      BY <3>2, BusAssumption DEF Run
    <3>4. \A y \in Robots : robot'[y].calm \in Int /\ robot[y].calm \in Int
      BY TimesAssumption DEF TypeOK, Controller
    <3> QED
      BY <1>2, <2>1, <3>3, <3>4 DEF Started
  <2> QED
    BY <1>2, <2>1 DEF Started, Start
<1> QED
  BY <1>1, <1>2 DEF Start

\* The handlers that read no run order.
LEMMA HandlerStarts ==
  ASSUME TypeOK, TypeOK', Start, NEW x \in Robots, left'.runs = left.runs,
         \/ SpinStep(x) \/ CardStep(x) \/ \E w \in Robots : CommandStep(w, x)
         \/ PeerStep(x) \/ TimerStep(x)
  PROVE  Start'
<1> DEFINE c == robot[x]
           d == robot'[x]
<1>0. UNCHANGED runs /\ Others(x)
  BY DEF SpinStep, CardStep, CommandStep, PeerStep, TimerStep, Others
<1>9. c.calm \in Nat /\ d.calm \in Nat
  BY Ranges, NewRanges DEF Sane
<1>1. ASSUME SpinStep(x) \/ PeerStep(x) \/ TimerStep(x)
      PROVE  d.running = c.running /\ d.calm = c.calm
  BY <1>1 DEF SpinStep, PeerStep, TimerStep, SamePlan
<1>2. ASSUME CardStep(x) PROVE d.running = c.running /\ d.calm = 0
  BY <1>2 DEF CardStep, Carded, Begun
<1>3. ASSUME NEW w \in Robots, CommandStep(w, x)
      PROVE  d.running = c.running /\ (d.calm = c.calm \/ d.calm = 0)
  BY <1>3 DEF CommandStep, Begun
<1>4. d.running = c.running /\ d.calm =< c.calm
  BY <1>9, <1>1, <1>2, <1>3
<1>5. ASSUME NEW y \in Robots
      PROVE  robot'[y].running = robot[y].running /\ robot'[y].calm =< robot[y].calm
  <2>1. robot[y].calm \in Nat
    BY Ranges DEF Sane
  <2> QED
    BY <1>0, <1>4, <2>1 DEF Others
<1> QED
  BY <1>0, <1>5, StartKept

\* on_run() reads the STOP before the start, or a robot's START.
LEMMA RunStarts ==
  ASSUME TypeOK, TypeOK', Start, NEW x \in Robots, OnRun(x), robot[x].enabled,
         left'.runs = left.runs
  PROVE  RunStep(x) /\ ~ robot[x].running /\ Start'
         /\ (Head(runs[x]).run = "START" => Started /\ Started')
<1>0. runs[x] # <<>>
  BY DEF OnRun
<1>1. ~ robot[x].running /\ Len(runs[x]) = 1
  BY <1>0 DEF Start, Unstarted, Started
<1>2. RunStep(x)
  BY <1>1, RunIs
<1>3. /\ runs'[x] = <<>> /\ \A y \in Robots \ {x} : runs'[y] = runs[y]
      /\ Others(x)
  BY <1>2 DEF RunStep
<1>4. CASE Unstarted
  <2>1. Head(runs[x]).run = "STOP"
    BY <1>0, <1>4 DEF Unstarted
  <2>2. UNCHANGED robot
    BY <1>2, <2>1 DEF RunStep
  <2> QED
    BY <1>1, <1>2, <1>3, <1>4, <2>1, <2>2 DEF Unstarted, Start
<1>5. CASE Started
  <2>1. Head(runs[x]).run = "START"
    BY <1>1, <1>5 DEF Started
  <2>2. robot'[x].running /\ robot'[x].calm = robot[x].calm
    BY <1>2, <2>1 DEF RunStep
  <2>3. \A y \in Robots : robot'[y].calm = robot[y].calm
    BY <1>3, <2>2 DEF Others
  <2>4. Started'
    BY <1>3, <1>5, <2>2, <2>3 DEF Started, Others
  <2> QED
    BY <1>1, <1>2, <2>4, <1>5 DEF Start
<1> QED
  BY <1>4, <1>5 DEF Start

\* The operator gives the one run order.
LEMMA OrderStarts ==
  ASSUME TypeOK, TypeOK', left \in Budgets, Healthy, Counters, Start, MCPublishRun
  PROVE  Start' /\ UNCHANGED <<robot, due, beats, up, online, orders>>
<1>1. PICK run \in RunOrder : PublishRun(run)
  BY DEF MCPublishRun
<1>2. UNCHANGED <<robot, due, beats, up, online, orders>>
  BY <1>1 DEF PublishRun, net
<1>3. left.runs > 0 /\ left' = [left EXCEPT !.runs = @ - 1]
  BY DEF MCPublishRun, Spend
<1>4. Unstarted /\ left.runs = 1
  BY <1>3 DEF Start, Unstarted, Started
<1>5. left \in Budgets /\ left'.runs = 0
  BY <1>3, <1>4 DEF Budgets
<1>6. ASSUME NEW x \in Robots
      PROVE  ~ robot[x].running /\ Len(runs'[x]) = 1 /\ Head(runs'[x]).run = run
             /\ Head(runs'[x]).age = 0 /\ robot[x].calm = 0
  <2>1. ~ robot[x].running /\ runs[x] = <<>> /\ robot[x].calm = 0
    BY <1>4 DEF Unstarted, Counters, Counted
  <2>2. runs'[x] = Append(<<>>, [run |-> run, age |-> 0])
    BY <1>1, <2>1 DEF PublishRun, Healthy
  <2>3. [run |-> run, age |-> 0] \in Run
    BY BusAssumption DEF Run
  <2> QED
    BY <2>1, <2>2, <2>3
<1>7. CASE run = "START"
  <2>1. Started'
    BY <1>2, <1>5, <1>6, <1>7 DEF Started
  <2> QED
    BY <1>2, <2>1 DEF Start
<1>8. CASE run = "STOP"
  <2>1. Unstarted'
    BY <1>2, <1>5, <1>6, <1>8 DEF Unstarted
  <2> QED
    BY <1>2, <2>1 DEF Start
<1> QED
  BY <1>7, <1>8 DEF RunOrder

-----------------------------------------------------------------------------
(* The heartbeats.                                                         *)

\* Heartbeats: by a tick, which sends the role its robot has settled on.
LEMMA TimerTells ==
  ASSUME TypeOK, Healthy, Peers, NEW x \in Robots, TimerStep(x)
  PROVE  Peers'
<1> DEFINE d == robot'[x]
<1>0. /\ due' = due \ {x} /\ \A y \in Robots \ {x} : robot'[y] = robot[y]
      /\ beats' = {b \in beats : b.from # x} \cup BeatsOf(x, d)
  BY DEF TimerStep
<1>1. \A b \in beats : b.from \in Robots /\ b.to \in Robots
  BY DEF TypeOK, Beat
<1>2. ASSUME NEW b \in beats'
      PROVE  b.from # b.to /\ b.from \notin due' /\ b.role = robot'[b.from].role
  <2>1. CASE b \in beats /\ b.from # x
    BY <1>0, <1>1, <2>1 DEF Peers, BeatsTrue
  <2>2. CASE b \in BeatsOf(x, d)
    <3>1. b.from = x /\ b.to # x /\ b.role = d.role
      BY <2>2 DEF BeatsOf
    <3> QED
      BY <1>0, <3>1
  <2> QED
    BY <1>0, <1>2, <2>1, <2>2
<1>3. ASSUME NEW y \in Robots, NEW z \in Robots, y # z, Told(y, z)'
      PROVE  /\ robot'[y].peer.valid /\ robot'[y].peer.age = 0
             /\ robot'[y].peer.role = robot'[z].role
  <2>1. z \notin due' /\ ~ \E b \in beats' : b.from = z /\ b.to = y
    BY <1>3 DEF Told
  <2>2. z # x
    <3>1. SUFFICES ASSUME z = x PROVE FALSE
      OBVIOUS
    <3>2. [from |-> x, to |-> y, role |-> d.role, term |-> d.term] \in BeatsOf(x, d)
      BY <1>3, <3>1 DEF BeatsOf, Healthy
    <3> QED
      BY <1>0, <2>1, <3>1, <3>2
  <2>3. Told(y, z)
    BY <1>0, <2>1, <2>2 DEF Told
  <2>4. /\ robot[y].peer.valid /\ robot[y].peer.age = 0
        /\ robot[y].peer.role = robot[z].role
    BY <1>3, <2>3 DEF Peers, Informed
  <2>5. robot'[z] = robot[z]
    BY <1>0, <2>2
  <2>6. CASE y = x
    BY <2>4, <2>5, <2>6, Times DEF TimerStep, SameEars
  <2>7. CASE y # x
    BY <1>0, <2>4, <2>5, <2>7
  <2> QED
    BY <2>6, <2>7
<1> QED
  BY <1>2, <1>3 DEF Peers, BeatsTrue, Informed

\* Heartbeats: by the robot that reads one.
LEMMA PeerTells ==
  ASSUME TypeOK, Healthy, Peers, NEW x \in Robots, PeerStep(x)
  PROVE  Peers'
<1> DEFINE d == robot'[x]
<1>0. PICK b \in beats : /\ b.to = x /\ beats' = beats \ {b}
                         /\ d.peer.valid /\ d.peer.age = 0 /\ d.peer.role = b.role
  BY DEF PeerStep
<1>1. /\ due' = due /\ Others(x)
      /\ \A y \in Robots : robot'[y].role = robot[y].role
  BY DEF PeerStep, Others, SamePlan
<1>2. \A e \in beats : e.from \in Robots /\ e.to \in Robots
  BY DEF TypeOK, Beat
<1>3. BeatsTrue'
  BY <1>0, <1>1, <1>2 DEF Peers, BeatsTrue
<1>4. ASSUME NEW y \in Robots, NEW z \in Robots, y # z, Told(y, z)'
      PROVE  /\ robot'[y].peer.valid /\ robot'[y].peer.age = 0
             /\ robot'[y].peer.role = robot'[z].role
  <2>1. CASE y = x
    <3>1. b.from = z
      BY <1>0, <1>2, <1>4, <2>1, TwoRobots DEF Peers, BeatsTrue
    <3> QED
      BY <1>0, <1>1, <2>1, <3>1 DEF Peers, BeatsTrue
  <2>2. CASE y # x
    <3>1. Told(y, z)
      BY <1>0, <1>1, <1>4, <2>2 DEF Told
    <3> QED
      BY <1>1, <1>4, <2>2, <3>1 DEF Peers, Informed, Others
  <2> QED
    BY <2>1, <2>2
<1> QED
  BY <1>3, <1>4 DEF Peers, Informed

\* Heartbeats: by every other step.
LEMMA SameTalkTells ==
  ASSUME TypeOK, Peers, SameTalk
  PROVE  Peers'
<1>1. \A b \in beats : b.from \in Robots
  BY DEF TypeOK, Beat
<1> QED
  BY <1>1 DEF SameTalk, Peers, BeatsTrue, Informed, Told

\* Heartbeats: by a period, when all have been read.
LEMMA ElapseTells ==
  ASSUME TypeOK, Healthy, Peers, Elapse
  PROVE  Peers'
<1>1. due' = Robots /\ beats' = {}
  BY ElapseIs
<1> QED
  BY <1>1 DEF Peers, BeatsTrue, Informed, Told

\* Every robot knows at the end of a period who leads.
LEMMA ElapseInforms ==
  ASSUME TypeOK, Healthy, Peers, Elapse, NEW y \in Robots, NEW z \in Robots, y # z
  PROVE  /\ robot[y].peer.valid /\ robot[y].peer.age = 0
         /\ robot[y].peer.role = robot[z].role
<1>1. Told(y, z)
  BY ElapseIs DEF Told
<1> QED
  BY <1>1 DEF Peers, Informed

-----------------------------------------------------------------------------
(* Which way the robots face.                                              *)

\* A spin that goes on or is completed leaves a robot to face where it would.
LEMMA FaceKept ==
  ASSUME TypeOK, Facing, Observe, NEW y \in Robots,
         robot'[y].turn = robot[y].turn \/ (robot'[y].turn = 0 /\ ~ Cancelled)
           \/ (robot[y].turn > 0 /\ robot'[y].turn > 0)
  PROVE  Face(y)' = Face(y) /\ heading'[y] \in {"there", "back"}
<1>1. heading[y] \in {"there", "back"} /\ robot[y].turn \in Nat
  BY Ranges DEF Facing, Sane
<1>2. heading'[y] = IF ~ (robot[y].turn > 0) \/ robot'[y].turn > 0 THEN heading[y]
                    ELSE IF Cancelled THEN "astray" ELSE Opposite[heading[y]]
  BY DEF Observe, Turning
<1>3. Opposite["there"] = "back" /\ Opposite["back"] = "there"
  BY DEF Opposite
<1> QED
  BY <1>1, <1>2, <1>3 DEF Face

\* A spin that begins turns the robot around.
LEMMA FaceTurned ==
  ASSUME TypeOK, Facing, Observe, NEW y \in Robots,
         robot[y].turn = 0, robot'[y].turn = Spin
  PROVE  Face(y)' = Spun(Face(y)) /\ heading'[y] \in {"there", "back"}
<1>1. heading'[y] = heading[y] /\ heading[y] \in {"there", "back"}
  BY DEF Observe, Turning, Facing
<1> QED
  BY <1>1, Times DEF Face, Spun, Spin

\* A step in which nobody's spin begins, and no order cancels one.
LEMMA AllFacesKept ==
  ASSUME TypeOK, Facing, Observe,
         \A y \in Robots : \/ robot'[y].turn = robot[y].turn
                           \/ robot'[y].turn = 0 /\ ~ Cancelled
                           \/ robot[y].turn > 0 /\ robot'[y].turn > 0
  PROVE  Facing' /\ \A y \in Robots : Face(y)' = Face(y)
<1>1. \A y \in Robots : Face(y)' = Face(y) /\ heading'[y] \in {"there", "back"}
  BY FaceKept
<1>2. heading' = [y \in Robots |-> heading'[y]]
  BY DEF Observe
<1> QED
  BY <1>1, <1>2 DEF Facing

-----------------------------------------------------------------------------
(* The phase of the two robots: by the handlers that change little.        *)

\* How long ago the last order was given is a number.
LEMMA SinceIs ==
  ASSUME NEW c, Sane(c)
  PROVE  Since(c) \in Nat
  BY Times DEF Sane, Since

\* Handlers that let the talk be leave the election alone.
LEMMA HeedingKept ==
  ASSUME SameTalk, NEW w \in Robots, NEW r \in Robots, Heeding(w, r)
  PROVE  Heeding(w, r)'
  BY DEF SameTalk, Heeding, HearsLeader, Believes

\* The phase: by the end of a spin.
LEMMA SpinPhase ==
  ASSUME TypeOK, TypeOK', ParkedUnlessDriving, Counters, Facing, Observe,
         NEW w \in Robots, NEW r \in Robots, w # r, Phase(w, r),
         NEW x \in Robots, SpinStep(x)
  PROVE  Facing' /\ Phase(w, r)'
<1> DEFINE c == robot[x]
           d == robot'[x]
<1>0. Robots = {w, r}
  BY TwoRobots
<1>1. /\ Others(x) /\ SameTalk /\ UNCHANGED <<orders, runs>>
      /\ 0 < c.turn /\ c.turn < TurnDeadline /\ d.turn = 0
      /\ d.sync = c.sync /\ d.drive = c.drive /\ d.syncCmd = c.syncCmd
      /\ d.syncLeft = c.syncLeft /\ d.running = c.running /\ d.calm = c.calm
      /\ SameWheels(c, d)
  BY DEF SpinStep, SameOrders
<1>2. Facing' /\ \A y \in Robots : Face(y)' = Face(y)
  BY <1>1, AllFacesKept DEF Others, Cancelled
<1>3. \A y \in Robots : Quiet(y) => Quiet(y)'
  BY <1>1 DEF Quiet
<1>4. \A y \in Robots :
        /\ robot'[y].role = robot[y].role /\ robot'[y].running = robot[y].running
        /\ robot'[y].sync = robot[y].sync /\ robot'[y].drive = robot[y].drive
        /\ robot'[y].syncCmd = robot[y].syncCmd /\ robot'[y].syncLeft = robot[y].syncLeft
        /\ robot'[y].calm = robot[y].calm /\ robot'[y].seen = robot[y].seen
  BY <1>1 DEF Others, SameTalk
<1>5. ASSUME Mailed(w) PROVE Mailed(w)'
  <2>1. Word(robot'[w]) = Word(robot[w]) /\ Since(robot'[w]) = Since(robot[w])
    BY <1>4 DEF Word, Since
  <2>2. Since(robot[w]) \in Nat
    BY Ranges, SinceIs
  <2> QED
    BY <1>1, <1>5, <2>1, <2>2, MailKept
<1>6. c.sync = "None" /\ c.running /\ c.calm = 0 /\ HandoverTurn /\ c.turn \in Nat
      /\ TurnDeadline \in Nat
  BY <1>1, ParkedIs, Ranges, Times DEF Still, Counters, Counted, Sane, Busy, Turning
<1>7. CASE Leads(w, r)
  <2>1. Level(w, r)
    BY <1>0, <1>1, <1>6, <1>7, ParkedIs
    DEF Leads, Follows, Stopping, Hailing, Shifting, Giving, Trailing, Ahead, Idle, Still
  <2>2. Level(w, r)'
    BY <1>4, <2>1 DEF Level
  <2>3. Heeding(w, r)'
    BY <1>1, <1>7, HeedingKept DEF Leads
  <2>4. Leads(w, r)'
    BY <1>2, <1>3, <1>4, <1>5, <1>7, <2>2, <2>3 DEF Leads, Follows
  <2> QED
    BY <1>2, <2>4 DEF Phase
<1>8. CASE Gap(w, r)
  <2>1. Gap(w, r)'
    BY <1>2, <1>3, <1>4, <1>8 DEF Gap
  <2> QED
    BY <1>2, <2>1 DEF Phase
<1>9. CASE Clash(w, r)
  <2>1. x = w /\ c.turn = Spin
    BY <1>0, <1>6, <1>9 DEF Clash
  <2>2. FALSE
    BY <1>1, <1>6, <2>1 DEF Spin
  <2> QED
    BY <2>2
<1> QED
  BY <1>7, <1>8, <1>9 DEF Phase

\* The phase: by a heartbeat read, which an idle leader or follower may have waited for.
LEMMA PeerPhase ==
  ASSUME TypeOK, TypeOK', Healthy, Peers, Facing, Observe,
         NEW w \in Robots, NEW r \in Robots, w # r, Phase(w, r),
         NEW x \in Robots, PeerStep(x)
  PROVE  Facing' /\ Phase(w, r)'
<1> DEFINE c == robot[x]
           d == robot'[x]
<1>0. Robots = {w, r}
  BY TwoRobots
<1>1. /\ Others(x) /\ UNCHANGED <<due, orders, runs>>
      /\ SamePlan(c, d) /\ SameWheels(c, d) /\ d.seen = c.seen
  BY DEF PeerStep
<1>2. \A y \in Robots : SamePlan(robot[y], robot'[y]) /\ SameWheels(robot[y], robot'[y])
                        /\ robot'[y].seen = robot[y].seen
  BY <1>1 DEF Others, SamePlan, SameWheels
<1>3. Facing' /\ \A y \in Robots : Face(y)' = Face(y)
  BY <1>2, AllFacesKept DEF SamePlan
<1>4. \A y \in Robots : Quiet(y) => Quiet(y)'
  BY <1>1 DEF Quiet
<1>5. ASSUME Mailed(w) PROVE Mailed(w)'
  <2>1. Word(robot'[w]) = Word(robot[w]) /\ Since(robot'[w]) = Since(robot[w])
    BY <1>2 DEF Word, Since, SamePlan
  <2>2. Since(robot[w]) \in Nat
    BY Ranges, SinceIs
  <2> QED
    BY <1>1, <1>5, <2>1, <2>2, MailKept
<1>6. CASE Leads(w, r)
  <2>1. Follows(w, r)'
    BY <1>1, <1>2, <1>6
    DEF Leads, Follows, Level, Stopping, Hailing, Shifting, Giving, Trailing, Ahead,
        Idle, Together, Hailed, SamePlan, SameWheels
  <2>2. Heeding(w, r)'
    <3>1. PICK b \in beats : /\ b.to = x
                             /\ d.peer.valid /\ d.peer.age = 0 /\ d.peer.role = b.role
      BY DEF PeerStep
    <3>2. b.from \in Robots \ {x} /\ b.role = robot[b.from].role
      BY <3>1 DEF TypeOK, Beat, Peers, BeatsTrue
    <3>3. CASE x = w
      <4>1. b.from = r /\ robot'[r] = robot[r]
        BY <1>0, <1>1, <3>2, <3>3 DEF Others
      <4>2. ~ HearsLeader(robot'[w])
        BY <1>6, <3>1, <3>2, <3>3, <4>1 DEF Leads, HearsLeader
      <4> QED
        BY <1>1, <1>6, <4>1, <4>2 DEF Leads, Heeding
    <3>4. CASE x = r
      <4>1. b.from = w /\ robot'[w] = robot[w]
        BY <1>0, <1>1, <3>2, <3>4 DEF Others
      <4>2. Believes(robot'[r])
        BY <1>6, <3>1, <3>2, <3>4, <4>1, Times DEF Leads, Believes, HearsLeader
      <4> QED
        BY <1>1, <1>2, <1>6, <4>1, <4>2 DEF Leads, Heeding
    <3> QED
      BY <1>0, <3>3, <3>4
  <2>3. Leads(w, r)'
    BY <1>2, <1>3, <1>4, <1>5, <1>6, <2>1, <2>2 DEF Leads, SamePlan
  <2> QED
    BY <1>3, <2>3 DEF Phase
<1>7. CASE Gap(w, r)
  <2>1. Gap(w, r)'
    BY <1>2, <1>3, <1>4, <1>7 DEF Gap, SamePlan
  <2> QED
    BY <1>3, <2>1 DEF Phase
<1>8. CASE Clash(w, r)
  <2>1. Clash(w, r)'
    BY <1>1, <1>2, <1>3, <1>4, <1>5, <1>8 DEF Clash, SamePlan
  <2> QED
    BY <1>3, <2>1 DEF Phase
<1> QED
  BY <1>6, <1>7, <1>8 DEF Phase

-----------------------------------------------------------------------------
(* The phase: by orders read.                                              *)

\* All orders on their way are the leader's, and there is one for each reader at most.
LEMMA CommandFrom ==
  ASSUME TypeOK, NEW w \in Robots, NEW r \in Robots, w # r, Phase(w, r),
         NEW y \in Robots, NEW x \in Robots, OnCommand(y, x)
  PROVE  /\ y = w /\ (Leads(w, r) \/ Clash(w, r)) /\ Mailed(w)
         /\ CommandStep(w, x) /\ Arriving(w, x) = Word(robot[w])
         /\ Since(robot[w]) =< MaxDelay
         /\ Hailed(w, x) /\ orders'[<<w, x>>] = <<>>
         /\ \A p \in Pairs \ {<<w, x>>} : orders'[p] = orders[p]
<1>0. Robots = {w, r}
  BY TwoRobots
<1>1. Receive(y, x) /\ orders[<<y, x>>] # <<>>
  BY DEF OnCommand, CommandIgnored, CommandStop, CommandHandover, CommandSpeed,
         OrderReplaced, Receive
<1>2. y = w /\ (Leads(w, r) \/ Clash(w, r)) /\ Mailed(w)
  BY <1>0, <1>1 DEF Phase, Leads, Gap, Clash, Quiet
<1>3. /\ Len(orders[<<w, x>>]) = 1 /\ Head(orders[<<w, x>>]).cmd = Word(robot[w])
      /\ Since(robot[w]) =< Head(orders[<<w, x>>]).age
      /\ Head(orders[<<w, x>>]).age \in Nat /\ Head(orders[<<w, x>>]).age =< MaxDelay
  BY <1>1, <1>2, MailIs
<1>4. Since(robot[w]) \in Nat
  BY Ranges, SinceIs
<1>5. CommandStep(w, x)
  BY <1>2, <1>3, CommandIs
<1>6. Since(robot[w]) =< MaxDelay /\ Arriving(w, x) = Word(robot[w])
  BY <1>3, <1>4, Times DEF Arriving
<1> QED
  BY <1>1, <1>2, <1>3, <1>5, <1>6, MailRead DEF Hailed

\* What the leader says goes on unless it says something new.
LEMMA WordKept ==
  ASSUME TypeOK, TypeOK', NEW w \in Robots, Mailed(w), robot'[w] = robot[w],
         \A y \in Robots : orders'[<<w, y>>] = orders[<<w, y>>] \/ orders'[<<w, y>>] = <<>>
  PROVE  Mailed(w)'
<1>1. Word(robot'[w]) = Word(robot[w]) /\ Since(robot'[w]) = Since(robot[w])
  OBVIOUS
<1>2. Since(robot[w]) \in Nat
  BY Ranges, SinceIs
<1> QED
  BY <1>1, <1>2, MailKept

\* The follower takes the order it is hailed with, in the pause that its leader sits
\* out, or has taken it already.
LEMMA CommandFollows ==
  ASSUME TypeOK, TypeOK', NEW w \in Robots, NEW r \in Robots, w # r, Leads(w, r),
         CommandStep(w, r), Arriving(w, r) = Word(robot[w]),
         Since(robot[w]) =< MaxDelay, Hailed(w, r), orders'[<<w, r>>] = <<>>
  PROVE  Follows(w, r)' /\ robot'[r].turn = robot[r].turn
<1> DEFINE c == robot[w]
           d == robot[r]
           e == robot'[r]
           cmd == Arriving(w, r)
<1>0. /\ robot'[w] = robot[w] /\ ~ Hailed(w, r)' /\ e.running = d.running
      /\ d.role = "Follower" /\ c.sync \in SyncKind \ {"TakeLead"}
      /\ c.drive \in Drive /\ c.syncCmd \in Drive
  BY Ranges DEF CommandStep, Others, Hailed, Leads, Sane
<1>1. \/ e = d /\ (Heeds(d, cmd) => cmd # "Stop" /\ Busy(d))
      \/ /\ Heeds(d, cmd) /\ cmd = "Stop"
         /\ e.drive = "Stop" /\ e.sync = "None" /\ e.turn = 0
      \/ /\ Heeds(d, cmd) /\ cmd = "Handover" /\ ~ Busy(d)
         /\ Begun(d, e, "TakeLead", d.drive)
      \/ /\ Heeds(d, cmd) /\ cmd \in {"Cruise", "Turbo"} /\ ~ Busy(d)
         /\ Begun(d, e, "Speed", cmd)
  BY DEF CommandStep
<1>2. CASE Level(w, r)
  <2>1. cmd = d.drive
    BY <1>2 DEF Level, Word
  <2>2. e = d
    BY <1>1, <2>1 DEF Heeds
  <2>3. Level(w, r)'
    BY <1>0, <1>2, <2>2 DEF Level
  <2> QED
    BY <2>2, <2>3 DEF Follows
<1>3. CASE Stopping(w, r)
  <2>1. cmd = "Stop" /\ Idle(d) /\ c.sync = "None" /\ c.drive = "Stop"
    BY <1>3 DEF Stopping, Word
  <2>2. e.drive = "Stop" /\ e.sync = "None" /\ e.turn = 0
    BY <1>0, <1>1, <2>1 DEF Heeds, Idle
  <2>3. Level(w, r)'
    BY <1>0, <2>1, <2>2 DEF Level
  <2> QED
    BY <2>1, <2>2, <2>3 DEF Follows, Idle
<1>4. CASE Hailing(w, r)
  <2>1. /\ c.sync # "None" /\ d.running /\ ~ Busy(d) /\ d.turn = 0 /\ d.drive = c.drive
    BY <1>4, Ranges DEF Hailing, Idle, Busy, Turning, Sane
  <2>2. /\ c.syncLeft \in Nat /\ c.syncLeft =< SyncPause
        /\ SyncPause - c.syncLeft =< MaxDelay
    BY <2>1, Ranges DEF Sane, Since
  <2>3. Together(w, r)' \/ e.syncLeft # SyncPause
    BY <1>0, <2>2, Times DEF Together
  <2>4. CASE c.sync = "Speed"
    <3>1. cmd = c.syncCmd /\ cmd # d.drive /\ cmd \in {"Cruise", "Turbo"}
      BY <1>0, <2>1, <2>4 DEF Word, Leads, Drive
    <3>2. Begun(d, e, "Speed", cmd)
      BY <1>0, <1>1, <2>1, <3>1 DEF Heeds
    <3>3. Shifting(w, r)'
      BY <1>0, <2>3, <2>4, <3>1, <3>2 DEF Shifting, Begun
    <3> QED
      BY <3>2, <3>3 DEF Follows, Begun
  <2>5. CASE c.sync = "GiveLead"
    <3>1. cmd = "Handover" /\ cmd # d.drive
      BY <1>0, <2>1, <2>5 DEF Word, Drive
    <3>2. Begun(d, e, "TakeLead", d.drive)
      BY <1>0, <1>1, <2>1, <3>1 DEF Heeds
    <3>3. Giving(w, r)'
      BY <1>0, <2>1, <2>3, <2>5, <3>1, <3>2 DEF Giving, Begun
    <3> QED
      BY <3>2, <3>3 DEF Follows, Begun
  <2> QED
    BY <1>0, <2>1, <2>4, <2>5 DEF SyncKind
<1>5. Level(w, r) \/ Stopping(w, r) \/ Hailing(w, r)
  BY DEF Leads, Follows, Shifting, Giving, Trailing, Ahead, Together
<1> QED
  BY <1>2, <1>3, <1>4, <1>5

\* The phase: by an order read.
LEMMA CommandPhase ==
  ASSUME TypeOK, TypeOK', Facing, Observe,
         NEW w \in Robots, NEW r \in Robots, w # r, Phase(w, r),
         NEW y \in Robots, NEW x \in Robots, OnCommand(y, x)
  PROVE  CommandStep(w, x) /\ Facing' /\ Phase(w, r)'
<1>0. Robots = {w, r}
  BY TwoRobots
<1>1. /\ Leads(w, r) \/ Clash(w, r)
      /\ Mailed(w) /\ CommandStep(w, x) /\ Arriving(w, x) = Word(robot[w])
      /\ Since(robot[w]) =< MaxDelay /\ Hailed(w, x) /\ orders'[<<w, x>>] = <<>>
      /\ \A p \in Pairs \ {<<w, x>>} : orders'[p] = orders[p]
  BY CommandFrom
<1>2. Others(x) /\ SameTalk /\ robot'[x].running = robot[x].running
  BY <1>1 DEF CommandStep
<1>3. Leads(w, r) => ~ Quiet(w)
  BY <1>1 DEF Hailed, Quiet
<1>4. Quiet(r) => Quiet(r)'
  BY <1>1 DEF Quiet, Pairs
<1>5. \A z \in Robots : orders'[<<w, z>>] = orders[<<w, z>>] \/ orders'[<<w, z>>] = <<>>
  BY <1>1 DEF Pairs
<1>6. ASSUME robot'[x] = robot[x]
      PROVE  /\ \A z \in Robots : robot'[z] = robot[z]
             /\ Facing' /\ \A z \in Robots : Face(z)' = Face(z)
             /\ Mailed(w)'
  <2>1. \A z \in Robots : robot'[z] = robot[z]
    BY <1>2, <1>6 DEF Others
  <2>2. Facing' /\ \A z \in Robots : Face(z)' = Face(z)
    BY <2>1, AllFacesKept
  <2> QED
    BY <1>1, <1>5, <2>1, <2>2, WordKept
<1>7. CASE Clash(w, r)
  <2>1. robot'[x] = robot[x]
    BY <1>0, <1>1, <1>7 DEF CommandStep, Heeds, Clash
  <2>2. Clash(w, r)'
    BY <1>2, <1>4, <1>6, <1>7, <2>1 DEF Clash, SameTalk
  <2> QED
    BY <1>1, <1>6, <2>1, <2>2 DEF Phase
<1>8. CASE Leads(w, r) /\ x = w
  <2>1. robot'[w] = robot[w]
    BY <1>1, <1>8 DEF CommandStep, Heeds, Leads
  <2>2. orders'[<<w, r>>] = orders[<<w, r>>]
    BY <1>1, <1>8 DEF Pairs
  <2>3. Follows(w, r)'
    BY <1>6, <1>8, <2>1, <2>2
    DEF Leads, Follows, Level, Stopping, Hailing, Shifting, Giving, Trailing, Ahead,
        Together, Hailed
  <2>4. Heeding(w, r)'
    BY <1>2, <1>8, HeedingKept DEF Leads
  <2>5. Leads(w, r)'
    BY <1>3, <1>4, <1>6, <1>8, <2>1, <2>3, <2>4 DEF Leads
  <2> QED
    BY <1>1, <1>6, <1>8, <2>1, <2>5 DEF Phase
<1>9. CASE Leads(w, r) /\ x = r
  <2>1. Follows(w, r)' /\ robot'[r].turn = robot[r].turn
    BY <1>1, <1>9, CommandFollows
  <2>2. robot'[w] = robot[w]
    BY <1>2, <1>9 DEF Others
  <2>3. Facing' /\ \A z \in Robots : Face(z)' = Face(z)
    BY <1>0, <2>1, <2>2, AllFacesKept
  <2>4. Heeding(w, r)' /\ robot'[r].role = robot[r].role
    BY <1>2, <1>9, HeedingKept DEF Leads, SameTalk
  <2>5. Mailed(w)'
    BY <1>1, <1>5, <2>2, WordKept
  <2>6. Leads(w, r)'
    BY <1>3, <1>4, <1>9, <2>1, <2>2, <2>3, <2>4, <2>5 DEF Leads
  <2> QED
    BY <1>1, <2>3, <2>6 DEF Phase
<1> QED
  BY <1>0, <1>1, <1>7, <1>8, <1>9

-----------------------------------------------------------------------------
(* The phase: by run orders and cards.                                     *)

\* The phase: by a step that changes no robot and no order.
LEMMA IdlePhase ==
  ASSUME TypeOK, TypeOK', Facing, Observe, UNCHANGED <<robot, orders, due>>,
         NEW w \in Robots, NEW r \in Robots, w # r, Phase(w, r)
  PROVE  Facing' /\ Phase(w, r)'
<1>1. Facing' /\ \A y \in Robots : Face(y)' = Face(y)
  BY AllFacesKept
<1>2. Mailed(w) => Mailed(w)'
  BY WordKept
<1>3. Quiet(w)' = Quiet(w) /\ Quiet(r)' = Quiet(r)
  BY DEF Quiet
<1>4. Heeding(w, r) => Heeding(w, r)'
  BY DEF Heeding, HearsLeader, Believes
<1>5. Follows(w, r) => Follows(w, r)'
  BY DEF Follows, Level, Stopping, Hailing, Shifting, Giving, Trailing, Ahead,
         Together, Hailed, Idle
<1>6. Leads(w, r) => Leads(w, r)'
  BY <1>1, <1>2, <1>3, <1>4, <1>5 DEF Leads
<1>7. Gap(w, r) => Gap(w, r)'
  BY <1>1, <1>3 DEF Gap
<1>8. Clash(w, r) => Clash(w, r)'
  BY <1>1, <1>2, <1>3 DEF Clash
<1> QED
  BY <1>1, <1>6, <1>7, <1>8 DEF Phase

\* The phase: by a run order read.
LEMMA RunPhase ==
  ASSUME TypeOK, TypeOK', ParkedUnlessDriving, Healthy, Counters, Facing, Observe,
         NEW w \in Robots, NEW r \in Robots, w # r, Phase(w, r),
         NEW x \in Robots, RunStep(x), ~ robot[x].running
  PROVE  Facing' /\ Phase(w, r)'
<1> DEFINE c == robot[x]
           d == robot'[x]
<1>0. Robots = {w, r} /\ Others(x) /\ SameTalk
  BY TwoRobots DEF RunStep
<1>1. CASE UNCHANGED <<robot, orders>>
  BY <1>0, <1>1, IdlePhase DEF SameTalk
<1>2. CASE ~ UNCHANGED <<robot, orders>>
  <2>1. /\ d.running /\ d.drive = IF c.role = "Leader" THEN "Cruise" ELSE c.drive
        /\ d.sync = c.sync /\ d.syncCmd = c.syncCmd /\ d.syncLeft = c.syncLeft
        /\ d.turn = c.turn /\ d.calm = c.calm /\ SameWheels(c, d)
        /\ IF c.role = "Leader" THEN Publish(x, "Cruise") ELSE orders' = orders
    BY <1>2 DEF RunStep
  <2>2. c.sync = "None" /\ c.turn = 0 /\ c.calm = 0
    BY ParkedIs, Ranges DEF Still, Sane, Counters, Counted
  <2>3. Facing' /\ \A y \in Robots : Face(y)' = Face(y)
    BY <1>0, <2>1, AllFacesKept DEF Others
  <2>4. CASE Leads(w, r) /\ x = w
    <3>1. c.role = "Leader" /\ c.drive = "Cruise" /\ Quiet(w) /\ Quiet(r)
      BY <2>4 DEF Leads
    <3>2. Word(d) = "Cruise" /\ Since(d) = 0
      BY <2>1, <2>2, <3>1 DEF Word, Since
    <3>3. Mailed(w)' /\ Quiet(r)'
      BY <1>0, <2>1, <2>4, <3>1, <3>2, NewMail DEF Command, Drive
    <3>4. Level(w, r)
      BY <2>2, <2>4, <3>1
      DEF Leads, Follows, Stopping, Hailing, Shifting, Giving, Trailing, Ahead
    <3>5. Level(w, r)'
      BY <1>0, <2>1, <2>2, <2>4, <3>1, <3>4 DEF Level, Others
    <3>6. Heeding(w, r)'
      BY <1>0, <2>4, HeedingKept DEF Leads
    <3>7. robot'[w].role = robot[w].role /\ robot'[r] = robot[r]
      BY <1>0, <2>4 DEF SameTalk, Others
    <3>8. Leads(w, r)'
      BY <2>1, <2>2, <2>3, <2>4, <3>3, <3>5, <3>6, <3>7 DEF Leads, Follows
    <3> QED
      BY <2>3, <3>8 DEF Phase
  <2>5. CASE Leads(w, r) /\ x = r
    <3>1. c.role = "Follower" /\ robot'[w] = robot[w] /\ d.role = "Follower"
      BY <1>0, <2>5 DEF Leads, Others, SameTalk
    <3>2. orders' = orders /\ d.drive = c.drive
      BY <2>1, <3>1
    <3>3. Level(w, r)
      BY <2>2, <2>5
      DEF Leads, Follows, Stopping, Hailing, Shifting, Giving, Trailing, Ahead, Idle
    <3>4. Level(w, r)'
      BY <2>1, <2>5, <3>1, <3>2, <3>3 DEF Level
    <3>5. Heeding(w, r)' /\ Mailed(w)' /\ Quiet(w)' = Quiet(w) /\ Quiet(r)' = Quiet(r)
      BY <1>0, <2>5, <3>1, <3>2, HeedingKept, WordKept DEF Leads, Quiet
    <3>6. Leads(w, r)'
      BY <2>3, <2>5, <3>1, <3>4, <3>5 DEF Leads, Follows
    <3> QED
      BY <2>3, <3>6 DEF Phase
  <2>6. CASE Gap(w, r)
    <3>1. x = r /\ c.role = "Follower"
      BY <1>0, <2>2, <2>6 DEF Gap
    <3>2. /\ orders' = orders /\ d.drive = c.drive /\ robot'[w] = robot[w]
          /\ d.role = c.role /\ d.seen = c.seen
      BY <1>0, <2>1, <3>1 DEF Others, SameTalk
    <3>3. Gap(w, r)'
      BY <2>1, <2>3, <2>6, <3>1, <3>2 DEF Gap, Quiet
    <3> QED
      BY <2>3, <3>3 DEF Phase
  <2>7. CASE Clash(w, r)
    <3>1. FALSE
      BY <1>0, <2>2, <2>7 DEF Clash
    <3> QED
      BY <3>1
  <2> QED
    BY <1>0, <2>4, <2>5, <2>6, <2>7 DEF Phase
<1> QED
  BY <1>1, <1>2

\* A leader that takes a card has said nothing for longer than an order takes: the
\* follower runs, has its last order and is done with its pause.
LEMMA CardFinds ==
  ASSUME TypeOK, ParkedUnlessDriving, Counters, Start,
         NEW w \in Robots, NEW r \in Robots, w # r, Leads(w, r),
         robot[w].running, ~ Busy(robot[w]), robot[w].calm = CardGap, SpinsOver
  PROVE  /\ Quiet(w) /\ Level(w, r) /\ Idle(robot[r])
         /\ robot[w].sync = "None" /\ robot[w].turn = 0
<1> DEFINE c == robot[w]
           d == robot[r]
<1>1. c.sync = "None" /\ c.turn = 0 /\ c.turn \in Nat
  BY Ranges DEF Busy, Turning, Sane
<1>2. Since(c) = CardGap
  BY <1>1 DEF Since
<1>3. Quiet(w)
  BY <1>2, OldMail, Times DEF Leads
<1>4. Sane(d) /\ Still(d)
  BY Ranges, ParkedIs
<1>5. Level(w, r)
  <2>1. ~ Trailing(w, r)
    BY <1>4, Times DEF Trailing, Sane
  <2>2. ~ Hailed(w, r)
    BY <1>3 DEF Quiet, Hailed
  <2> QED
    BY <1>1, <2>1, <2>2 DEF Leads, Follows, Stopping, Hailing, Shifting, Giving, Ahead
<1>6. d.turn = 0
  BY <1>4 DEF SpinsOver, Turning, Sane
<1>7. d.running
  <2>1. SUFFICES ASSUME ~ d.running PROVE FALSE
    OBVIOUS
  <2>2. Len(runs[r]) = 1 /\ c.calm =< Head(runs[r]).age
    BY <2>1 DEF Start, Started, Unstarted
  <2>3. runs[r] \in Seq(Run)
    BY DEF TypeOK
  <2>4. Head(runs[r]) \in Run
    BY <2>2, <2>3, EmptySeq, TailTyped
  <2> QED
    BY <2>2, <2>4, Times DEF Run
<1> QED
  BY <1>1, <1>3, <1>5, <1>6, <1>7 DEF Level, Idle

\* The leader's card begins a pause, stops the two, or leaves them as they are.
LEMMA CardLeads ==
  ASSUME TypeOK, TypeOK', ParkedUnlessDriving, Healthy, Counters, Start, Paced, Facing, Observe,
         NEW w \in Robots, NEW r \in Robots, w # r, Leads(w, r), CardStep(w), SpinsOver
  PROVE  Leads(w, r)'
<1> DEFINE c == robot[w]
           d == robot[r]
           e == robot'[w]
<1>1. /\ Others(w) /\ SameTalk /\ c.running /\ ~ Busy(c) /\ c.calm = CardGap
      /\ robot'[r] = d /\ e.role = c.role
  BY DEF CardStep, Others, SameTalk
<1>2. /\ Quiet(w) /\ Quiet(r) /\ Level(w, r) /\ Idle(d)
      /\ c.sync = "None" /\ c.turn = 0
  BY <1>1, CardFinds DEF Leads
<1>3. /\ c.role = "Leader" /\ d.role = "Follower" /\ d.drive = c.drive
      /\ c.drive \in Drive
  BY <1>2, Ranges DEF Leads, Level, Sane
<1>4. e.running /\ e.turn = 0
  BY <1>1, <1>2 DEF CardStep, Carded, Begun
<1>5. \A y \in Robots : Face(y)' = Face(y)
  BY <1>1, <1>2, <1>4, AllFacesKept DEF Others
<1>6. Heeding(w, r)'
  BY <1>1, HeedingKept DEF Leads
<1>7. ASSUME Mailed(w)', Quiet(r)', Follows(w, r)', e.sync # "TakeLead",
             e.sync = "Speed" => e.syncCmd # e.drive /\ e.syncCmd # "Stop"
      PROVE  Leads(w, r)'
  BY <1>1, <1>3, <1>4, <1>5, <1>6, <1>7 DEF Leads
<1>8. ASSUME NEW cmd \in Command, Publish(w, cmd), Word(e) = cmd, Since(e) = 0
      PROVE  Mailed(w)' /\ Quiet(r)' /\ Hailed(w, r)'
  BY <1>2, <1>8, NewMail
<1>9. CASE Carded(c, e) /\ e.drive = c.drive
  <2>1. e.sync = "None" /\ e.calm = 0
    BY <1>2, <1>9 DEF Carded
  <2>2. Level(w, r)'
    BY <1>1, <1>2, <1>3, <1>4, <1>9, <2>1 DEF Level, Idle
  <2>3. Word(e) = c.drive /\ Since(e) = 0
    BY <1>9, <2>1 DEF Word, Since
  <2>4. CASE orders' = orders
    <3>1. Mailed(w)' /\ Quiet(r)'
      BY <1>2, <2>4 DEF Quiet, Mailed, Sealed
    <3> QED
      BY <1>7, <2>1, <2>2, <3>1 DEF Follows
  <2>5. CASE Publish(w, c.drive)
    <3>1. Mailed(w)' /\ Quiet(r)'
      BY <1>3, <1>8, <2>3, <2>5 DEF Command
    <3> QED
      BY <1>7, <2>1, <2>2, <3>1 DEF Follows
  <2>6. CASE Publish(w, "Stop") /\ e.drive = "Stop"
    <3>1. Mailed(w)' /\ Quiet(r)'
      BY <1>8, <1>9, <2>3, <2>6 DEF Command, Drive
    <3> QED
      BY <1>7, <2>1, <2>2, <3>1 DEF Follows
  <2> QED
    BY <1>9, <2>1, <2>4, <2>5, <2>6 DEF CardStep, Begun
<1>10. CASE Publish(w, "Stop") /\ Carded(c, e) /\ e.drive = "Stop"
  <2>1. e.sync = "None" /\ e.calm = 0 /\ SameWheels(c, e)
    BY <1>2, <1>10 DEF Carded
  <2>2. Word(e) = "Stop" /\ Since(e) = 0
    BY <1>10, <2>1 DEF Word, Since
  <2>3. Mailed(w)' /\ Quiet(r)' /\ Hailed(w, r)'
    BY <1>8, <1>10, <2>2 DEF Command, Drive
  <2>4. ~ e.hold => e.speed = d.drive \/ d.drive = "Stop"
    BY <1>3, <2>1 DEF SameWheels, Paced, OwnSpeed
  <2>5. Stopping(w, r)'
    BY <1>1, <1>2, <1>4, <1>10, <2>1, <2>3, <2>4 DEF Stopping, Idle
  <2> QED
    BY <1>7, <2>1, <2>3, <2>5 DEF Follows
<1>11. ASSUME NEW kind \in {"Speed", "GiveLead"}, NEW new, NEW cmd \in Command,
              Publish(w, cmd), Begun(c, e, kind, new),
              IF kind = "Speed" THEN cmd = new /\ cmd \notin {"Stop", c.drive}
              ELSE cmd = "Handover"
       PROVE  Leads(w, r)'
  <2>1. /\ e.sync = kind /\ e.syncCmd = new /\ e.syncLeft = SyncPause /\ e.drive = c.drive
    BY <1>11 DEF Begun
  <2>2. Word(e) = cmd /\ Since(e) = 0
    BY <1>11, <2>1, Times DEF Word, Since
  <2>3. Mailed(w)' /\ Quiet(r)' /\ Hailed(w, r)'
    BY <1>8, <1>11, <2>2
  <2>4. Hailing(w, r)'
    BY <1>1, <1>2, <1>3, <2>1, <2>3 DEF Hailing, Idle
  <2> QED
    BY <1>7, <1>11, <2>1, <2>3, <2>4 DEF Follows
<1>12. CASE Publish(w, "Handover") /\ Begun(c, e, "GiveLead", c.drive)
  BY <1>11, <1>12 DEF Command
<1>13. ASSUME NEW cmd \in {"Cruise", "Turbo"} \ {c.drive},
              Publish(w, cmd), Begun(c, e, "Speed", cmd)
       PROVE  Leads(w, r)'
  BY <1>11, <1>13 DEF Command, Drive
<1> QED
  BY <1>9, <1>10, <1>12, <1>13 DEF CardStep

\* The phase: by a card, which only a leader heeds.
LEMMA CardPhase ==
  ASSUME TypeOK, TypeOK', ParkedUnlessDriving, Healthy, Counters, Start, Paced, Facing, Observe,
         NEW w \in Robots, NEW r \in Robots, w # r, Phase(w, r),
         NEW x \in Robots, CardStep(x), SpinsOver
  PROVE  Facing' /\ Phase(w, r)'
<1> DEFINE c == robot[x]
           d == robot'[x]
<1>0. Robots = {w, r} /\ Others(x) /\ SameTalk
  BY TwoRobots DEF CardStep
<1>1. d.turn = c.turn
  BY DEF CardStep, Carded, Begun
<1>2. Facing' /\ \A y \in Robots : Face(y)' = Face(y)
  BY <1>0, <1>1, AllFacesKept DEF Others
<1>3. /\ c.sync = "None" /\ c.calm = CardGap /\ CardGap > 0
  BY Times DEF CardStep, Busy
<1>4. ASSUME x = r, c.role = "Follower"
      PROVE  /\ robot'[w] = robot[w] /\ orders' = orders
             /\ Carded(c, d) /\ d.drive = c.drive /\ d.role = c.role /\ d.seen = c.seen
  BY <1>0, <1>4 DEF CardStep, Others, SameTalk
<1>5. CASE Leads(w, r) /\ x = w
  BY <1>2, <1>5, CardLeads DEF Phase
<1>6. CASE Leads(w, r) /\ x = r
  <2>1. /\ robot'[w] = robot[w] /\ orders' = orders
        /\ Carded(c, d) /\ d.drive = c.drive /\ d.role = c.role
    BY <1>4, <1>6 DEF Leads
  <2>2. Follows(w, r)'
    BY <1>6, <2>1
    DEF Leads, Follows, Level, Stopping, Hailing, Shifting, Giving, Trailing, Ahead,
        Together, Hailed, Idle, Carded
  <2>3. Heeding(w, r)' /\ Mailed(w)' /\ Quiet(w)' = Quiet(w) /\ Quiet(r)' = Quiet(r)
    BY <1>0, <1>6, <2>1, HeedingKept, WordKept DEF Leads, Quiet
  <2>4. Leads(w, r)'
    BY <1>2, <1>6, <2>1, <2>2, <2>3 DEF Leads
  <2> QED
    BY <1>2, <2>4 DEF Phase
<1>7. CASE Gap(w, r)
  <2>1. x = r /\ c.role = "Follower"
    BY <1>0, <1>3, <1>7 DEF Gap
  <2>2. Gap(w, r)'
    BY <1>2, <1>4, <1>7, <2>1 DEF Gap, Carded, Quiet
  <2> QED
    BY <1>2, <2>2 DEF Phase
<1>8. CASE Clash(w, r)
  <2>1. FALSE
    BY <1>0, <1>3, <1>8 DEF Clash
  <2> QED
    BY <2>1
<1> QED
  BY <1>0, <1>5, <1>6, <1>7, <1>8 DEF Phase

-----------------------------------------------------------------------------
(* The phase: by a tick.                                                   *)

\* No tick elects or deposes anybody while both robots and the network are up.
LEMMA TickUncontested ==
  ASSUME TypeOK, NEW w \in Robots, NEW r \in Robots, w # r, Phase(w, r),
         NEW x \in Robots, x \in due
  PROVE  Uncontested(x, robot[x])
<1> DEFINE c == robot[x]
           h == Heard(c)
<1>0. Robots = {w, r}
  BY TwoRobots
<1>1. /\ SamePlan(c, h) /\ SameEars(c, h) /\ Noted(c, h)
  BY HeardKeepsPlan DEF TypeOK
<1> HIDE DEF h
<1>2. h.role = c.role /\ (HearsLeader(h) => HearsLeader(c))
  BY <1>1 DEF SamePlan, SameEars, HearsLeader
<1>3. ASSUME c.role = "Leader", ~ HearsLeader(c) PROVE ~ Elects(h) /\ ~ Loses(x, h)
  BY <1>2, <1>3 DEF Elects, Loses
<1>4. ASSUME c.role = "Follower", c.seen =< MaxDelay \/ Believes(c)
      PROVE  ~ Elects(h) /\ ~ Loses(x, h)
  <2>1. h.seen =< LeaderTimeout /\ h.seen \in Nat
    BY <1>1, <1>4, Ranges, Times DEF Noted, Sane
  <2> QED
    BY <1>2, <1>4, <2>1, Times DEF Elects, Loses
<1>5. CASE Leads(w, r)
  BY <1>0, <1>3, <1>4, <1>5 DEF Leads, Heeding, Uncontested, h
<1>6. CASE Gap(w, r)
  <2>1. x = r => c.seen =< MaxDelay
    BY <1>6, Ranges, Times DEF Gap, Sane
  <2> QED
    BY <1>0, <1>4, <1>6, <2>1 DEF Gap, Uncontested, Busy, h
<1>7. CASE Clash(w, r)
  BY <1>0, <1>7 DEF Clash, Uncontested, Busy
<1> QED
  BY <1>5, <1>6, <1>7 DEF Phase

\* A tick of either robot leaves the leader unchallenged and the follower patient.
LEMMA HeedingTicks ==
  ASSUME TypeOK, TypeOK', NEW w \in Robots, NEW r \in Robots, w # r, Heeding(w, r),
         NEW x \in Robots, TimerStep(x), x = r => Noted(robot[r], robot'[r])
  PROVE  Heeding(w, r)'
<1>0. Robots = {w, r}
  BY TwoRobots
<1>1. due' = due \ {x} /\ \A y \in Robots \ {x} : robot'[y] = robot[y]
  BY DEF TimerStep
<1>2. CASE x = w
  BY <1>1, <1>2 DEF Heeding, Believes, HearsLeader
<1>3. CASE x = r
  <2>1. robot'[r].seen =< MaxDelay
    BY <1>3, Times DEF Heeding, Noted
  <2> QED
    BY <1>1, <1>3, <2>1 DEF Heeding, HearsLeader
<1> QED
  BY <1>0, <1>2, <1>3

\* The follower stays where it is with its leader's orders, or completes its spin.
LEMMA GoesFollows ==
  ASSUME TypeOK, TypeOK', ParkedUnlessDriving, Counters,
         NEW w \in Robots, NEW r \in Robots, w # r, Leads(w, r),
         NEW x \in Robots, TimerStep(x), Goes(robot[x], robot'[x]), orders' = orders
  PROVE  Follows(w, r)'
<1>0. Robots = {w, r}
  BY TwoRobots
<1>1. \A y \in Robots :
        /\ robot'[y].role = robot[y].role /\ robot'[y].running = robot[y].running
        /\ robot'[y].sync = robot[y].sync /\ robot'[y].drive = robot[y].drive
        /\ robot'[y].syncCmd = robot[y].syncCmd /\ robot'[y].syncLeft = robot[y].syncLeft
        /\ robot'[y].calm = robot[y].calm
  BY DEF TimerStep, Goes
<1>2. \A y \in Robots : robot'[y].turn = robot[y].turn \/ SpinsOn(robot[y], robot'[y])
  BY DEF TimerStep, Goes
<1>3. \A y \in Robots : robot[y].turn = 0 => robot'[y].turn = 0
  BY <1>2 DEF SpinsOn
<1>4. Hailed(w, r)' <=> Hailed(w, r)
  BY DEF Hailed
<1>5. CASE Level(w, r)
  BY <1>1, <1>5 DEF Level, Follows
<1>6. CASE Stopping(w, r)
  <2>1. ~ robot'[w].hold => robot'[w].speed = robot'[r].drive \/ robot'[r].drive = "Stop"
    <3>1. CASE x = w
      BY <1>1, <1>6, <3>1 DEF TimerStep, DrivesAsOrdered, Stopping
    <3>2. CASE x = r
      BY <1>1, <1>6, <3>2 DEF TimerStep, Stopping
    <3> QED
      BY <1>0, <3>1, <3>2
  <2>2. Stopping(w, r)'
    BY <1>1, <1>3, <1>4, <1>6, <2>1 DEF Stopping, Idle
  <2> QED
    BY <2>2 DEF Follows
<1>7. CASE Hailing(w, r)
  BY <1>1, <1>3, <1>4, <1>7 DEF Hailing, Idle, Follows
<1>8. CASE Shifting(w, r)
  BY <1>1, <1>4, <1>8 DEF Shifting, Together, Follows
<1>9. CASE Giving(w, r)
  BY <1>1, <1>4, <1>9 DEF Giving, Together, Follows
<1>10. CASE Trailing(w, r)
  BY <1>1, <1>3, <1>4, <1>10 DEF Trailing, Follows
<1>11. CASE Ahead(w, r)
  BY <1>1, <1>3, <1>4, <1>11 DEF Ahead, Idle, Follows
<1> QED
  BY <1>5, <1>6, <1>7, <1>8, <1>9, <1>10, <1>11 DEF Leads, Follows

\* The phase: by a tick that ends no pause.
LEMMA GoesPhase ==
  ASSUME TypeOK, TypeOK', ParkedUnlessDriving, Counters, Facing, Observe,
         NEW w \in Robots, NEW r \in Robots, w # r, Phase(w, r),
         NEW x \in Robots, TimerStep(x), Goes(robot[x], robot'[x]), orders' = orders
  PROVE  Facing' /\ Phase(w, r)'
<1> DEFINE c == robot[x]
           d == robot'[x]
<1>0. Robots = {w, r}
  BY TwoRobots
<1>1. /\ x \in due /\ due' = due \ {x} /\ \A y \in Robots \ {x} : robot'[y] = robot[y]
      /\ SpinsOn(c, d) /\ Noted(c, d)
  BY DEF TimerStep, Goes
<1>2. Facing' /\ \A y \in Robots : Face(y)' = Face(y)
  BY <1>1, AllFacesKept DEF SpinsOn, Cancelled
<1>3. \A y \in Robots :
        /\ robot'[y].role = robot[y].role /\ robot'[y].running = robot[y].running
        /\ robot'[y].sync = robot[y].sync /\ robot'[y].drive = robot[y].drive
        /\ robot'[y].syncCmd = robot[y].syncCmd /\ robot'[y].syncLeft = robot[y].syncLeft
        /\ robot'[y].calm = robot[y].calm
  BY DEF TimerStep, Goes
<1>4. \A y \in Robots : Quiet(y) => Quiet(y)'
  BY DEF Quiet
<1>5. ASSUME Mailed(w) PROVE Mailed(w)'
  <2>1. Word(robot'[w]) = Word(robot[w]) /\ Since(robot'[w]) = Since(robot[w])
    BY <1>3 DEF Word, Since
  <2>2. Since(robot[w]) \in Nat
    BY Ranges, SinceIs
  <2> QED
    BY <1>5, <2>1, <2>2, MailKept
<1>6. CASE Leads(w, r)
  <2>1. Follows(w, r)'
    BY <1>6, GoesFollows
  <2>2. Heeding(w, r)'
    BY <1>1, <1>6, HeedingTicks DEF Leads
  <2>3. Leads(w, r)'
    BY <1>2, <1>3, <1>4, <1>5, <1>6, <2>1, <2>2 DEF Leads
  <2> QED
    BY <1>2, <2>3 DEF Phase
<1>7. CASE Gap(w, r)
  <2>1. robot'[r].seen + robot[w].syncLeft =< MaxDelay
    <3>1. robot[r].seen \in Nat /\ robot[w].syncLeft \in Nat
      BY Ranges DEF Sane
    <3>2. robot'[r].seen = robot[r].seen \/ robot'[r].seen = 0
      BY <1>0, <1>1 DEF Noted
    <3> QED
      BY <1>7, <3>1, <3>2, Times DEF Gap
  <2>2. Gap(w, r)'
    BY <1>2, <1>3, <1>4, <1>7, <2>1 DEF Gap
  <2> QED
    BY <1>2, <2>2 DEF Phase
<1>8. CASE Clash(w, r)
  <2>1. x = r /\ c.sync = "GiveLead" /\ c.syncLeft = 0
    BY <1>0, <1>1, <1>8 DEF Clash
  <2>2. c.running
    BY <2>1, ParkedIs DEF Still
  <2>3. FALSE
    BY <2>1, <2>2 DEF Goes
  <2> QED
    BY <2>3
<1> QED
  BY <1>6, <1>7, <1>8 DEF Phase


\* A tick that ends a pause: what the robot that ticks is left with, and which way
\* the two face.
LEMMA EndsIs ==
  ASSUME TypeOK, ParkedUnlessDriving, Counters, Facing, Observe,
         NEW x \in Robots, TimerStep(x), Ends(robot[x], robot'[x])
  PROVE  LET c == robot[x]
             d == robot'[x] IN
         /\ c.running /\ c.turn = 0 /\ c.calm = 0
         /\ d.running /\ d.calm = 0 /\ d.sync = "None" /\ d.turn \in {0, Spin}
         /\ x \notin due' /\ Since(c) > MaxDelay
         /\ Facing' /\ \A y \in Robots \ {x} : Face(y)' = Face(y)
         /\ d.turn = 0 => Face(x)' = Face(x)
         /\ d.turn = Spin => Face(x)' = Spun(Face(x))
<1> DEFINE c == robot[x]
           d == robot'[x]
<1>1. /\ c.running /\ c.sync # "None" /\ c.syncLeft = 0 /\ d.sync = "None"
      /\ d.turn \in {0, Spin} /\ d.running = c.running /\ d.calm = c.calm
      /\ x \in due /\ due' = due \ {x} /\ \A y \in Robots \ {x} : robot'[y] = robot[y]
  BY DEF TimerStep, Ends
<1>2. c.turn = 0 /\ c.calm = 0
  BY <1>1, ParkedIs DEF Still, Counters, Counted, Busy
<1>3. Since(c) > MaxDelay
  BY <1>1, Times DEF Since
<1>4. ASSUME NEW y \in Robots \ {x}
      PROVE  Face(y)' = Face(y) /\ heading'[y] \in {"there", "back"}
  BY <1>1, FaceKept
<1>5. d.turn = 0 => Face(x)' = Face(x) /\ heading'[x] \in {"there", "back"}
  BY <1>2, FaceKept
<1>6. d.turn = Spin => Face(x)' = Spun(Face(x)) /\ heading'[x] \in {"there", "back"}
  BY <1>2, FaceTurned
<1>7. heading' = [y \in Robots |-> heading'[y]]
  BY DEF Observe
<1>8. Facing'
  BY <1>1, <1>4, <1>5, <1>6, <1>7 DEF Facing
<1> QED
  BY <1>1, <1>2, <1>3, <1>4, <1>5, <1>6, <1>8

\* The leader ends its pause: for the new speed, ahead of the follower or behind it,
\* or to follow.
LEMMA LeaderEnds ==
  ASSUME TypeOK, TypeOK', ParkedUnlessDriving, Counters, Facing, Observe,
         NEW w \in Robots, NEW r \in Robots, w # r, Leads(w, r),
         TimerStep(w), Ends(robot[w], robot'[w])
  PROVE  Leads(w, r)' \/ Gap(r, w)'
<1> DEFINE c == robot[w]
           e == robot'[w]
           d == robot[r]
<1>1. /\ c.running /\ c.turn = 0 /\ c.calm = 0
      /\ e.running /\ e.calm = 0 /\ e.sync = "None" /\ e.turn \in {0, Spin}
      /\ w \notin due' /\ Since(c) > MaxDelay
      /\ Facing' /\ \A y \in Robots \ {w} : Face(y)' = Face(y)
      /\ e.turn = 0 => Face(w)' = Face(w)
      /\ e.turn = Spin => Face(w)' = Spun(Face(w))
  BY EndsIs
<1>2. robot'[r] = d /\ c.sync # "None" /\ c.sync # "TakeLead" /\ c.syncLeft = 0
      /\ c.role = "Leader" /\ d.role = "Follower" /\ Face(w) = Face(r)
  BY DEF TimerStep, Ends, Leads
<1>3. orders' = orders
  BY <1>2 DEF TimerStep, Goes, Ends
<1>4. Quiet(w) /\ Quiet(r) /\ ~ Hailed(w, r)
  <2>1. Since(c) \in Nat
    BY Ranges, SinceIs
  <2>2. Quiet(w)
    BY <1>1, <2>1, OldMail DEF Leads
  <2> QED
    BY <2>2 DEF Leads, Quiet, Hailed
<1>5. Quiet(w)' /\ Quiet(r)' /\ ~ Hailed(w, r)' /\ Mailed(w)'
  BY <1>3, <1>4 DEF Quiet, Hailed, Mailed, Sealed
<1>6. d.syncLeft \in Nat /\ c.drive \in Drive
  BY Ranges DEF Sane
<1>7. CASE c.sync = "Speed"
  <2>1. /\ e.role = c.role /\ e.drive = c.syncCmd /\ e.turn = 0
    BY <1>7 DEF Ends
  <2>2. Shifting(w, r) \/ Ahead(w, r)
    BY <1>4, <1>7 DEF Leads, Follows, Level, Stopping, Hailing, Giving, Trailing
  <2>3. ASSUME Shifting(w, r) PROVE Follows(w, r)'
    <3>1. Trailing(w, r)'
      BY <1>1, <1>2, <1>5, <1>6, <2>1, <2>3, Times DEF Shifting, Together, Trailing
    <3> QED
      BY <3>1 DEF Follows
  <2>4. ASSUME Ahead(w, r) PROVE Follows(w, r)'
    <3>1. Level(w, r)'
      BY <1>1, <1>2, <2>1, <2>4 DEF Ahead, Idle, Level
    <3> QED
      BY <3>1 DEF Follows
  <2>5. Heeding(w, r)'
    BY <1>2, HeedingTicks DEF Leads
  <2>6. Follows(w, r)'
    BY <2>2, <2>3, <2>4 DEF Follows
  <2>7. Leads(w, r)'
    BY <1>1, <1>2, <1>5, <2>1, <2>5, <2>6 DEF Leads
  <2> QED
    BY <2>7
<1>8. CASE c.sync = "GiveLead"
  <2>1. e.role = "Follower" /\ e.drive = c.drive /\ e.turn = Spin /\ e.seen = 0
    BY <1>8 DEF Ends
  <2>2. Giving(w, r)
    BY <1>4, <1>8 DEF Leads, Follows, Level, Stopping, Hailing, Shifting, Trailing, Ahead
  <2>3. e.seen + d.syncLeft =< MaxDelay
    BY <1>2, <1>6, <2>1, <2>2, Times DEF Giving, Together
  <2>4. Gap(r, w)'
    BY <1>1, <1>2, <1>5, <2>1, <2>2, <2>3 DEF Gap, Giving
  <2> QED
    BY <2>4
<1> QED
  BY <1>2, <1>7, <1>8, Ranges DEF Sane, SyncKind

\* The follower ends its pause: for the new speed, ahead of the leader or behind it,
\* or to lead while the other has yet to give the lead away.
LEMMA FollowerEnds ==
  ASSUME TypeOK, TypeOK', ParkedUnlessDriving, Healthy, Counters, Facing, Observe,
         NEW w \in Robots, NEW r \in Robots, w # r, Leads(w, r),
         TimerStep(r), Ends(robot[r], robot'[r])
  PROVE  Leads(w, r)' \/ Clash(r, w)'
<1> DEFINE c == robot[w]
           d == robot[r]
           e == robot'[r]
<1>1. /\ d.running /\ d.turn = 0 /\ d.calm = 0
      /\ e.running /\ e.calm = 0 /\ e.sync = "None" /\ e.turn \in {0, Spin}
      /\ r \notin due' /\ Facing' /\ \A y \in Robots \ {r} : Face(y)' = Face(y)
      /\ e.turn = 0 => Face(r)' = Face(r)
      /\ e.turn = Spin => Face(r)' = Spun(Face(r))
  BY EndsIs
<1>2. robot'[w] = c /\ d.sync # "None" /\ d.syncLeft = 0
      /\ c.role = "Leader" /\ d.role = "Follower" /\ Face(w) = Face(r)
  BY DEF TimerStep, Ends, Leads
<1>3. Shifting(w, r) \/ Giving(w, r) \/ Trailing(w, r)
  BY <1>2 DEF Leads, Follows, Level, Stopping, Hailing, Ahead, Idle
<1>4. CASE d.sync = "Speed"
  <2>1. /\ e.role = d.role /\ e.drive = d.syncCmd /\ e.turn = 0
        /\ Noted(d, e) /\ orders' = orders
    BY <1>2, <1>4 DEF TimerStep, Goes, Ends
  <2>2. ASSUME Shifting(w, r) PROVE Follows(w, r)'
    <3>1. c.syncLeft = 0
      BY <1>2, <2>2, Ranges DEF Shifting, Together, Sane
    <3>2. Ahead(w, r)'
      BY <1>1, <1>2, <2>1, <2>2, <3>1 DEF Shifting, Together, Ahead, Hailed, Idle
    <3> QED
      BY <3>2 DEF Follows
  <2>3. ASSUME Trailing(w, r) PROVE Follows(w, r)'
    <3>1. Level(w, r)'
      BY <1>1, <1>2, <2>1, <2>3 DEF Trailing, Level
    <3> QED
      BY <3>1 DEF Follows
  <2>4. Heeding(w, r)'
    BY <2>1, HeedingTicks DEF Leads
  <2>5. Follows(w, r)'
    BY <1>3, <1>4, <2>2, <2>3 DEF Giving, Follows
  <2>6. Mailed(w)' /\ Quiet(w)' = Quiet(w) /\ Quiet(r)' = Quiet(r)
    BY <1>2, <2>1, WordKept DEF Leads, Quiet
  <2>7. Leads(w, r)'
    BY <1>1, <1>2, <2>1, <2>4, <2>5, <2>6 DEF Leads
  <2> QED
    BY <2>7
<1>5. CASE d.sync # "Speed"
  <2>1. Giving(w, r)
    BY <1>3, <1>5 DEF Shifting, Trailing
  <2>2. /\ d.sync = "TakeLead" /\ d.syncCmd = d.drive /\ d.drive = c.drive
        /\ c.sync = "GiveLead" /\ c.syncLeft = 0
    BY <1>2, <2>1, Ranges DEF Giving, Together, Sane
  <2>3. /\ e.role = "Leader" /\ e.drive = d.drive /\ e.turn = Spin /\ Publish(r, e.drive)
    BY <2>2 DEF TimerStep, Goes, Ends
  <2>4. Since(c) = SyncPause /\ Since(c) > MaxDelay
    BY <2>2, Times DEF Since
  <2>5. Quiet(w) /\ Quiet(r)
    BY <2>4, OldMail, Times DEF Leads
  <2>6. Word(e) = e.drive /\ Since(e) = 0 /\ e.drive \in Command
    BY <1>1, NewRanges DEF Word, Since, Sane, Command
  <2>7. Mailed(r)' /\ Quiet(w)'
    BY <2>3, <2>5, <2>6, NewMail
  <2>8. Clash(r, w)'
    BY <1>1, <1>2, <2>2, <2>3, <2>7 DEF Clash
  <2> QED
    BY <2>8
<1> QED
  BY <1>4, <1>5

\* The robot that is left to lead takes the lead.
LEMMA GapEnds ==
  ASSUME TypeOK, TypeOK', ParkedUnlessDriving, Healthy, Counters, Facing, Observe,
         NEW w \in Robots, NEW r \in Robots, w # r, Gap(w, r),
         NEW x \in Robots, TimerStep(x), Ends(robot[x], robot'[x])
  PROVE  Leads(w, r)'
<1> DEFINE c == robot[w]
           e == robot'[w]
           d == robot[r]
<1>0. x = w
  BY TwoRobots DEF Gap, Ends
<1>1. /\ e.running /\ e.calm = 0 /\ e.sync = "None"
      /\ w \notin due' /\ \A y \in Robots \ {w} : Face(y)' = Face(y)
      /\ e.turn = Spin => Face(w)' = Spun(Face(w))
  BY <1>0, EndsIs
<1>2. /\ robot'[r] = d /\ c.sync = "TakeLead" /\ c.syncCmd = c.drive
      /\ e.role = "Leader" /\ e.drive = c.drive /\ e.turn = Spin /\ Publish(w, e.drive)
  BY <1>0 DEF TimerStep, Goes, Ends, Gap
<1>3. /\ Quiet(w) /\ Quiet(r) /\ d.role = "Follower" /\ d.sync = "None" /\ d.drive = c.drive
      /\ Face(r) = Spun(Face(w))
  BY DEF Gap
<1>4. Word(e) = e.drive /\ Since(e) = 0 /\ e.drive \in Command
  BY <1>1, NewRanges DEF Word, Since, Sane, Command
<1>5. Mailed(w)' /\ Quiet(r)'
  BY <1>2, <1>3, <1>4, NewMail
<1>6. Heeding(w, r)'
  <2>1. d.seen =< MaxDelay
    BY Ranges, Times DEF Gap, Sane
  <2> QED
    BY <1>1, <1>2, <2>1 DEF Heeding
<1>7. Level(w, r)'
  BY <1>1, <1>2, <1>3 DEF Level
<1> QED
  BY <1>1, <1>2, <1>3, <1>5, <1>6, <1>7 DEF Leads, Follows

\* The robot that is left to follow gives the lead away.
LEMMA ClashEnds ==
  ASSUME TypeOK, TypeOK', ParkedUnlessDriving, Healthy, Counters, Facing, Observe,
         NEW w \in Robots, NEW r \in Robots, w # r, Clash(w, r),
         NEW x \in Robots, TimerStep(x), Ends(robot[x], robot'[x])
  PROVE  Leads(w, r)'
<1> DEFINE c == robot[w]
           d == robot[r]
           e == robot'[r]
<1>0. x = r
  BY TwoRobots DEF Clash, Ends
<1>1. /\ e.running /\ e.sync = "None" /\ \A y \in Robots \ {r} : Face(y)' = Face(y)
      /\ e.turn = Spin => Face(r)' = Spun(Face(r))
  BY <1>0, EndsIs
<1>2. /\ robot'[w] = c /\ e.role = "Follower" /\ e.drive = d.drive /\ e.turn = Spin
      /\ e.seen = 0 /\ orders' = orders /\ due' \subseteq due
  BY <1>0 DEF TimerStep, Goes, Ends, Clash
<1>3. /\ Mailed(w) /\ Quiet(r) /\ c.role = "Leader" /\ c.sync = "None" /\ c.turn = Spin
      /\ c.running /\ d.drive = c.drive /\ w \notin due /\ Face(w) = Spun(Face(r))
  BY DEF Clash
<1>4. Mailed(w)' /\ Quiet(r)'
  BY <1>2, <1>3, WordKept DEF Quiet
<1>5. Heeding(w, r)'
  BY <1>2, <1>3, Times DEF Heeding
<1>6. Level(w, r)'
  BY <1>1, <1>2, <1>3 DEF Level
<1> QED
  BY <1>1, <1>2, <1>3, <1>4, <1>5, <1>6 DEF Leads, Follows

\* The phase: by a tick, after which the roles may be exchanged.
LEMMA TimerPhase ==
  ASSUME TypeOK, TypeOK', ParkedUnlessDriving, Healthy, Counters, Facing, Observe,
         NEW w \in Robots, NEW r \in Robots, w # r, Phase(w, r),
         NEW x \in Robots, TimerStep(x)
  PROVE  Facing' /\ (Phase(w, r)' \/ Phase(r, w)')
<1>0. Robots = {w, r}
  BY TwoRobots
<1>1. CASE Goes(robot[x], robot'[x]) /\ orders' = orders
  BY <1>1, GoesPhase
<1>2. CASE Ends(robot[x], robot'[x])
  <2>1. Facing'
    BY <1>2, EndsIs
  <2>2. ASSUME Leads(w, r) PROVE Phase(w, r)' \/ Phase(r, w)'
    BY <1>0, <1>2, <2>2, LeaderEnds, FollowerEnds DEF Phase
  <2>3. ASSUME Gap(w, r) \/ Clash(w, r) PROVE Phase(w, r)'
    BY <1>2, <2>3, GapEnds, ClashEnds DEF Phase
  <2> QED
    BY <2>1, <2>2, <2>3 DEF Phase
<1> QED
  BY <1>1, <1>2 DEF TimerStep


-----------------------------------------------------------------------------
(* The phase: by a period.                                                 *)

\* At the end of a period each robot knows who leads.
LEMMA HeedingAges ==
  ASSUME TypeOK, TypeOK', Healthy, Peers, Elapse,
         NEW w \in Robots, NEW r \in Robots, w # r, Heeding(w, r),
         robot[w].role = "Leader", robot[r].role = "Follower"
  PROVE  Heeding(w, r)'
<1>1. /\ due = {} /\ due' = Robots
      /\ Aging(robot[w], robot'[w]) /\ Aging(robot[r], robot'[r])
  BY ElapseIs
<1>2. robot[w].peer.role = "Follower"
  BY ElapseInforms
<1>3. robot[r].peer.valid /\ robot[r].peer.age = 0 /\ robot[r].peer.role = "Leader"
  BY ElapseInforms
<1>4. ~ HearsLeader(robot'[w])
  BY <1>1, <1>2 DEF Aging, HearsLeader
<1>5. Believes(robot'[r])
  <2>1. robot'[r].peer.age \in Nat
    BY NewRanges DEF Sane
  <2> QED
    BY <1>1, <1>3, <2>1, Times DEF Aging, Believes, HearsLeader
<1>6. robot'[r].seen =< MaxDelay + 1
  BY <1>1, Ranges, NewRanges, Times DEF Aging, Heeding, Sane
<1> QED
  BY <1>1, <1>4, <1>5, <1>6 DEF Heeding

\* Both robots' pauses and spins get shorter by a period.
LEMMA FollowsAges ==
  ASSUME TypeOK, TypeOK', Healthy, Counters, Elapse,
         NEW w \in Robots, NEW r \in Robots, w # r, Leads(w, r)
  PROVE  Follows(w, r)'
<1> DEFINE c == robot[w]
           d == robot[r]
           e == robot'[w]
           f == robot'[r]
<1>1. due = {} /\ Aging(c, e) /\ Aging(d, f)
  BY ElapseIs
<1>2. /\ c.sync # "None" => c.syncLeft > 0
      /\ d.sync # "None" => d.syncLeft > 0
      /\ c.turn # 1 /\ d.turn # 1
  BY <1>1, Ranges DEF Counters, Counted, Sane
<1>3. Sane(c) /\ Sane(d) /\ Sane(e) /\ Sane(f)
  BY Ranges, NewRanges
<1>4. Hailed(w, r)' <=> Hailed(w, r)
  BY MailAges
<1>5. /\ e.running = c.running /\ e.drive = c.drive /\ e.sync = c.sync /\ e.syncCmd = c.syncCmd
      /\ f.running = d.running /\ f.drive = d.drive /\ f.sync = d.sync /\ f.syncCmd = d.syncCmd
      /\ c.turn = 0 => e.turn = 0
      /\ d.turn = 0 => f.turn = 0
      /\ e.hold = c.hold /\ e.speed = c.speed
  BY <1>1 DEF Aging, SameWheels
<1>6. e.calm =< c.calm + 1
  BY <1>1, <1>3 DEF Aging, Sane
<1>7. ASSUME Together(w, r), c.sync # "None", d.sync # "None" PROVE Together(w, r)'
  BY <1>1, <1>2, <1>3, <1>4, <1>7, Times DEF Together, Aging, Sane
<1>8. CASE Level(w, r)
  BY <1>5, <1>8 DEF Level, Follows
<1>9. CASE Stopping(w, r)
  BY <1>4, <1>5, <1>9 DEF Stopping, Idle, Follows
<1>10. CASE Hailing(w, r)
  BY <1>4, <1>5, <1>10 DEF Hailing, Idle, Follows
<1>11. CASE Shifting(w, r)
  BY <1>5, <1>7, <1>11 DEF Shifting, Follows
<1>12. CASE Giving(w, r)
  BY <1>5, <1>7, <1>12 DEF Giving, Follows
<1>13. CASE Trailing(w, r)
  <2>1. f.syncLeft + e.calm =< MaxDelay
    BY <1>1, <1>2, <1>3, <1>6, <1>13, Times DEF Trailing, Aging, Sane
  <2>2. Trailing(w, r)'
    BY <1>4, <1>5, <1>13, <2>1 DEF Trailing
  <2> QED
    BY <2>2 DEF Follows
<1>14. ~ Ahead(w, r)
  BY <1>2 DEF Ahead
<1> QED
  BY <1>8, <1>9, <1>10, <1>11, <1>12, <1>13, <1>14 DEF Leads, Follows

\* The phase: by a period.
LEMMA ElapsePhase ==
  ASSUME TypeOK, TypeOK', Healthy, Counters, Peers, Facing, Observe, Elapse,
         NEW w \in Robots, NEW r \in Robots, w # r, Phase(w, r)
  PROVE  Facing' /\ Phase(w, r)'
<1> DEFINE c == robot[w]
           d == robot[r]
           e == robot'[w]
           f == robot'[r]
<1>1. due = {} /\ \A y \in Robots : Aging(robot[y], robot'[y])
  BY ElapseIs
<1>2. \A y \in Robots : /\ Sane(robot[y]) /\ Sane(robot'[y])
                        /\ robot[y].sync # "None" => robot[y].syncLeft > 0
                        /\ robot[y].turn # 1
  BY <1>1, Ranges, NewRanges DEF Counters, Counted, Sane
<1>3. Facing' /\ \A y \in Robots : Face(y)' = Face(y)
  <2>1. ASSUME NEW y \in Robots
        PROVE  robot'[y].turn = robot[y].turn \/ (robot[y].turn > 0 /\ robot'[y].turn > 0)
    BY <1>1, <1>2 DEF Aging, Sane
  <2> QED
    BY <2>1, AllFacesKept
<1>4. /\ e.role = c.role /\ e.running = c.running /\ e.drive = c.drive /\ e.sync = c.sync
      /\ e.syncCmd = c.syncCmd
      /\ f.role = d.role /\ f.running = d.running /\ f.drive = d.drive /\ f.sync = d.sync
  BY <1>1 DEF Aging
<1>5. (Quiet(w) => Quiet(w)') /\ (Quiet(r) => Quiet(r)')
  BY MailAges
<1>6. ASSUME Mailed(w) PROVE Mailed(w)'
  <2>1. Word(e) = Word(c)
    BY <1>4 DEF Word
  <2>2. Since(c) \in Nat /\ Since(e) \in Nat
    BY <1>2, SinceIs
  <2>3. Since(e) =< Since(c) + 1
    <3>1. e.calm =< c.calm + 1
      BY <1>1, <1>2 DEF Aging, Sane
    <3> QED
      BY <1>1, <1>2, <1>4, <3>1, Times DEF Since, Aging, Sane
  <2> QED
    BY <1>6, <2>1, <2>2, <2>3, MailAges
<1>7. CASE Leads(w, r)
  <2>1. Follows(w, r)'
    BY <1>7, FollowsAges
  <2>2. Heeding(w, r)'
    BY <1>7, HeedingAges DEF Leads
  <2>3. Leads(w, r)'
    BY <1>3, <1>4, <1>5, <1>6, <1>7, <2>1, <2>2 DEF Leads
  <2> QED
    BY <1>3, <2>3 DEF Phase
<1>8. CASE Gap(w, r)
  <2>1. f.seen + e.syncLeft =< MaxDelay
    BY <1>1, <1>2, <1>8, Times DEF Gap, Aging, Sane
  <2>2. Gap(w, r)'
    BY <1>3, <1>4, <1>5, <1>8, <2>1 DEF Gap
  <2> QED
    BY <1>3, <2>2 DEF Phase
<1>9. CASE Clash(w, r)
  <2>1. FALSE
    BY <1>2, <1>9 DEF Clash
  <2> QED
    BY <2>1
<1> QED
  BY <1>7, <1>8, <1>9 DEF Phase


-----------------------------------------------------------------------------
(* Every step.                                                             *)

\* A run order on its way gets older by a period.
LEMMA RunsAge ==
  ASSUME TypeOK, Healthy, Elapse, NEW x \in Robots
  PROVE  /\ runs[x] = <<>> => runs'[x] = <<>>
         /\ Len(runs[x]) = 1 => /\ Len(runs'[x]) = 1
                                /\ Head(runs'[x]).run = Head(runs[x]).run
                                /\ Head(runs'[x]).age = Head(runs[x]).age + 1
<1> DEFINE q == runs[x]
<1>1. q \in Seq(Run) /\ runs'[x] = Aged(q) /\ ~ Late(q)
  BY DEF TypeOK, Elapse, Healthy
<1>2. Len(q) \in Nat /\ DOMAIN q = 1 .. Len(q) /\ q \in [1 .. Len(q) -> Run]
  BY <1>1, LenProperties
<1> HIDE DEF q
<1>3. Aged(q) \in Seq(Run) /\ DOMAIN Aged(q) = DOMAIN q
  BY <1>1, AgedTyped DEF Aged
<1>4. Len(Aged(q)) = Len(q)
  BY <1>2, <1>3, LenProperties
<1>5. q = <<>> => Aged(q) = <<>>
  BY <1>1, <1>3, <1>4, EmptySeq
<1>6. ASSUME Len(q) = 1
      PROVE  Head(Aged(q)).run = Head(q).run /\ Head(Aged(q)).age = Head(q).age + 1
  <2>1. 1 \in DOMAIN q /\ q[1] \in Run
    BY <1>2, <1>6
  <2>2. Head(q) = q[1] /\ Head(Aged(q)) = Aged(q)[1]
    BY <1>1, <1>3, <1>4, <1>6
  <2>3. Aged(q)[1] = [q[1] EXCEPT !.age = Smaller(q[1].age + 1, MaxDelay)]
    BY <2>1 DEF Aged
  <2>4. q[1].age # MaxDelay /\ q[1].age \in 0 .. MaxDelay
    BY <1>1, <2>1 DEF Late, Run
  <2>5. Smaller(q[1].age + 1, MaxDelay) = q[1].age + 1
    BY <2>4, BusAssumption DEF Smaller
  <2> QED
    BY <2>1, <2>2, <2>3, <2>5 DEF Run
<1> QED
  BY <1>1, <1>4, <1>5, <1>6 DEF q

\* The run orders: by a period, in which the debounce counts as far as they age.
LEMMA ElapseStarts ==
  ASSUME TypeOK, TypeOK', Healthy, Start, Elapse, left'.runs = left.runs
  PROVE  Start'
<1>1. \A x \in Robots : robot'[x].running = robot[x].running
                        /\ robot'[x].calm =< robot[x].calm + 1
  BY ElapseIs, Ranges DEF Aging, Sane
<1>2. CASE Unstarted
  <2>1. Unstarted'
    BY <1>1, <1>2, RunsAge DEF Unstarted
  <2> QED
    BY <2>1 DEF Start
<1>3. CASE Started
  <2>1. ASSUME NEW x \in Robots, ~ robot[x].running
        PROVE  \A y \in Robots : robot'[y].calm =< Head(runs'[x]).age
    <3>1. runs[x] \in Seq(Run) /\ Len(runs[x]) = 1
      BY <1>3, <2>1 DEF Started, TypeOK
    <3>2. Head(runs[x]) \in Run
      BY <3>1, EmptySeq, TailTyped
    <3>3. Head(runs[x]).age \in Nat /\ Head(runs'[x]).age = Head(runs[x]).age + 1
      BY <3>1, <3>2, RunsAge, BusAssumption DEF Run
    <3>4. \A y \in Robots : robot[y].calm \in Nat /\ robot'[y].calm \in Nat
      BY Ranges, NewRanges DEF Sane
    <3>5. \A y \in Robots : robot[y].calm =< Head(runs[x]).age
      BY <1>3, <2>1 DEF Started
    <3> QED
      BY <1>1, <3>3, <3>4, <3>5
  <2>2. Started'
    BY <1>1, <1>3, <2>1, RunsAge DEF Started
  <2> QED
    BY <2>2 DEF Start
<1> QED
  BY <1>2, <1>3 DEF Start

\* A robot's role is exchanged in the steps that end the two parts of a handover.
ByHandover ==
  \A x \in Robots :
    robot'[x].role # robot[x].role => robot[x].sync \in {"TakeLead", "GiveLead"}

\* What a step leaves of the operator's and the world's budgets.
SameBudgets ==
  left'.runs = left.runs /\ left'.settings = left.settings /\ left'.faults = left.faults

\* The invariant: by a tick.
LEMMA TimerStands ==
  ASSUME TypeOK, TypeOK', ParkedUnlessDriving, ParkedUnlessDriving', StandInv,
         Observe, SameBudgets, NEW x \in Robots, OnTimer(x)
  PROVE  StandInv' /\ ByHandover
<1>1. PICK w \in Robots, r \in Robots : w # r /\ Phase(w, r)
  BY DEF StandInv
<1>2. /\ Healthy /\ Counters /\ Start /\ Paced /\ Peers /\ Facing /\ robot[x].enabled
  BY DEF StandInv, Start, Healthy
<1>3. x \in due
  BY DEF OnTimer, TickDisabled, TickWaiting, TickCountdown, TickFinish, TickDrive
<1>4. TimerStep(x)
  BY <1>1, <1>2, <1>3, TickUncontested, TimerIs
<1>5. Facing' /\ (Phase(w, r)' \/ Phase(r, w)')
  BY <1>1, <1>2, <1>4, TimerPhase
<1>6. Paced'
  BY <1>1, <1>2, <1>4, <1>5, TimerPaces
<1>7. Counters' /\ Peers'
  BY <1>2, <1>4, TimerCounts, TimerTells
<1>8. Start'
  BY <1>2, <1>4, HandlerStarts DEF SameBudgets
<1>9. Healthy' /\ ByHandover
  BY <1>2, <1>4 DEF TimerStep, Goes, Ends, SameBudgets, Healthy, ByHandover
<1> QED
  BY <1>1, <1>5, <1>6, <1>7, <1>8, <1>9 DEF StandInv, Start

CardTaken(x) ==
  \/ CardRejected(x) \/ BlueCard(x) \/ RedCard(x)
  \/ \E cmd \in {"Cruise", "Turbo"} : SpeedCard(x, cmd)

\* The invariant: by a handler that lets the talk be, or only reads a heartbeat.
LEMMA HandlerStands ==
  ASSUME TypeOK, TypeOK', ParkedUnlessDriving, StandInv,
         Observe, SameBudgets, NEW x \in Robots,
         \/ SpinEnds(x) \/ OnPeer(x) \/ \E y \in Robots : OnCommand(y, x)
         \/ SpinsOver /\ CardTaken(x)
  PROVE  StandInv' /\ ByHandover
<1>1. PICK w \in Robots, r \in Robots : w # r /\ Phase(w, r)
  BY DEF StandInv
<1>2. /\ Healthy /\ Counters /\ Start /\ Paced /\ Peers /\ Facing
  BY DEF StandInv, Start
<1>3. CASE SpinEnds(x)
  <2>1. SpinStep(x)
    BY <1>3, SpinIs
  <2>2. SameTalk
    BY <2>1 DEF SpinStep
  <2>3. Facing' /\ Phase(w, r)'
    BY <1>1, <1>2, <2>1, SpinPhase
  <2>4. Paced' /\ Counters' /\ Start' /\ Peers'
    BY <1>2, <2>1, <2>2, HandlerPaces, HandlerCounts, HandlerStarts, SameTalkTells
    DEF SameBudgets, SameTalk
  <2>5. Healthy' /\ ByHandover
    BY <1>2, <2>2 DEF SameTalk, SameBudgets, Healthy, ByHandover
  <2> QED
    BY <1>1, <2>3, <2>4, <2>5 DEF StandInv, Start
<1>4. CASE OnPeer(x)
  <2>1. PeerStep(x)
    BY <1>4, PeerIs
  <2>2. up' = up /\ online' = online /\ left'.runs = left.runs
    BY <2>1 DEF PeerStep, SameBudgets
  <2>3. Facing' /\ Phase(w, r)'
    BY <1>1, <1>2, <2>1, PeerPhase
  <2>4. Paced' /\ Start' /\ Peers'
    BY <1>2, <2>1, <2>2, HandlerPaces, HandlerStarts, PeerTells
  <2>5. \A y \in Robots : SamePlan(robot[y], robot'[y])
    BY <2>1 DEF PeerStep, Others, SamePlan
  <2>6. Counters'
    BY <1>2, <2>1, <2>5 DEF PeerStep, SamePlan, Counters, Counted, Busy, Turning
  <2>7. Healthy' /\ ByHandover
    BY <1>2, <2>2, <2>5 DEF SamePlan, SameBudgets, Healthy, ByHandover
  <2> QED
    BY <1>1, <2>3, <2>4, <2>6, <2>7 DEF StandInv, Start
<1>5. ASSUME NEW y \in Robots, OnCommand(y, x) PROVE StandInv' /\ ByHandover
  <2>1. CommandStep(w, x) /\ Facing' /\ Phase(w, r)'
    BY <1>1, <1>2, <1>5, CommandPhase
  <2>2. SameTalk
    BY <2>1 DEF CommandStep
  <2>3. Paced' /\ Counters' /\ Start' /\ Peers'
    BY <1>2, <2>1, <2>2, HandlerPaces, HandlerCounts, HandlerStarts, SameTalkTells
    DEF SameBudgets, SameTalk
  <2>4. Healthy' /\ ByHandover
    BY <1>2, <2>2 DEF SameTalk, SameBudgets, Healthy, ByHandover
  <2> QED
    BY <1>1, <2>1, <2>3, <2>4 DEF StandInv, Start
<1>6. CASE SpinsOver /\ CardTaken(x)
  <2>1. CardStep(x)
    BY <1>6, CardIs DEF CardTaken
  <2>2. SameTalk
    BY <2>1 DEF CardStep
  <2>3. Facing' /\ Phase(w, r)'
    BY <1>1, <1>2, <1>6, <2>1, CardPhase
  <2>4. Paced' /\ Counters' /\ Start' /\ Peers'
    BY <1>2, <2>1, <2>2, HandlerPaces, HandlerCounts, HandlerStarts, SameTalkTells
    DEF SameBudgets, SameTalk
  <2>5. Healthy' /\ ByHandover
    BY <1>2, <2>2 DEF SameTalk, SameBudgets, Healthy, ByHandover
  <2> QED
    BY <1>1, <2>3, <2>4, <2>5 DEF StandInv, Start
<1> QED
  BY <1>3, <1>4, <1>5, <1>6

\* The invariant: by a run order read or given.
LEMMA RunStands ==
  ASSUME TypeOK, TypeOK', ParkedUnlessDriving, StandInv, left \in Budgets, Observe,
         \/ SameBudgets /\ \E x \in Robots : OnRun(x)
         \/ MCPublishRun
  PROVE  StandInv' /\ ByHandover
<1>1. PICK w \in Robots, r \in Robots : w # r /\ Phase(w, r)
  BY DEF StandInv
<1>2. /\ Healthy /\ Counters /\ Start /\ Paced /\ Peers /\ Facing
      /\ \A x \in Robots : robot[x].enabled
  BY DEF StandInv, Start, Healthy
<1>3. ASSUME NEW x \in Robots, OnRun(x), SameBudgets PROVE StandInv' /\ ByHandover
  <2>1. RunStep(x) /\ ~ robot[x].running /\ Start'
    BY <1>2, <1>3, RunStarts DEF SameBudgets
  <2>2. SameTalk
    BY <2>1 DEF RunStep
  <2>3. Facing' /\ Phase(w, r)'
    BY <1>1, <1>2, <2>1, RunPhase
  <2>4. Paced' /\ Counters' /\ Peers'
    BY <1>2, <2>1, <2>2, HandlerPaces, RunCounts, SameTalkTells DEF SameTalk
  <2>5. Healthy' /\ ByHandover
    BY <1>2, <1>3, <2>2 DEF SameTalk, SameBudgets, Healthy, ByHandover
  <2> QED
    BY <1>1, <2>1, <2>3, <2>4, <2>5 DEF StandInv, Start
<1>4. CASE MCPublishRun
  <2>1. Start' /\ UNCHANGED <<robot, due, beats, up, online, orders>>
    BY <1>2, <1>4, OrderStarts
  <2>2. SameTalk
    BY <2>1 DEF SameTalk
  <2>3. Facing' /\ Phase(w, r)'
    BY <1>1, <1>2, <2>1, IdlePhase
  <2>4. Peers'
    BY <1>2, <2>2, SameTalkTells
  <2>5. left'.settings = left.settings /\ left'.faults = left.faults
    BY <1>4 DEF MCPublishRun, Spend, Budgets
  <2>6. Healthy' /\ ByHandover
    BY <1>2, <2>1, <2>5 DEF Healthy, ByHandover
  <2>7. Paced' /\ Counters'
    BY <1>2, <2>1 DEF Paced, OwnSpeed, SameSpeed, Driving, Counters, Counted, Busy, Turning
  <2> QED
    BY <1>1, <2>1, <2>3, <2>4, <2>6, <2>7 DEF StandInv, Start
<1> QED
  BY <1>3, <1>4

\* The invariant: by a period.
LEMMA ElapseStands ==
  ASSUME TypeOK, TypeOK', StandInv, Observe, SameBudgets, Elapse
  PROVE  StandInv' /\ ByHandover
<1>1. PICK w \in Robots, r \in Robots : w # r /\ Phase(w, r)
  BY DEF StandInv
<1>2. /\ Healthy /\ Counters /\ Start /\ Paced /\ Peers /\ Facing
  BY DEF StandInv, Start
<1>3. Facing' /\ Phase(w, r)'
  BY <1>1, <1>2, ElapsePhase
<1>4. Paced' /\ Counters' /\ Peers' /\ Start'
  BY <1>2, ElapsePaces, ElapseCounts, ElapseTells, ElapseStarts DEF SameBudgets
<1>5. Healthy' /\ ByHandover
  BY <1>2, ElapseIs DEF Aging, SameBudgets, Healthy, ByHandover
<1> QED
  BY <1>1, <1>3, <1>4, <1>5 DEF StandInv, Start

\* The steps that are left when nothing fails: no run order replaces another, and no
\* card is read while a robot spins.
LEMMA StepsLeft ==
  ASSUME TypeOK, left \in Budgets, StandInv, StandNext
  PROVE  /\ Observe
         /\ \/ MCPublishRun
            \/ SameBudgets /\ Elapse
            \/ SameBudgets /\ \E x \in Robots :
                 \/ OnTimer(x) \/ OnRun(x)
                 \/ SpinEnds(x) \/ OnPeer(x) \/ \E y \in Robots : OnCommand(y, x)
                 \/ SpinsOver /\ CardTaken(x)
<1>1. up = Robots /\ online = Robots /\ left.settings = 0 /\ left.faults = 0
  BY DEF StandInv, Healthy
<1>2. ASSUME NEW x \in Robots PROVE ~ RunReplaced(x)
  <2>1. runs[x] = <<>> \/ Len(runs[x]) = 1
    BY DEF StandInv, Unstarted, Started
  <2>2. Len(runs[x]) \in {0, 1}
    BY <2>1
  <2>3. \A n \in {0, 1} : ~ (n > 1)
    OBVIOUS
  <2> QED
    BY <2>2, <2>3 DEF RunReplaced
<1>3. ASSUME NEW x \in Robots
      PROVE  ~ MCParameter(x) /\ ~ MCCrash(x) /\ ~ MCRestart(x) /\ ~ MCOffline(x)
             /\ ~ MCOnline(x)
  <2>1. ~ Spend("settings") /\ ~ Spend("faults")
    BY <1>1 DEF Spend
  <2>2. ~ Restart(x) /\ ~ Online(x)
    BY <1>1 DEF Restart, Online
  <2> QED
    BY <2>1, <2>2 DEF MCParameter, MCCrash, MCRestart, MCOffline, MCOnline
<1>4. UNCHANGED left => SameBudgets
  BY DEF SameBudgets
<1>5. Spend("cards") => SameBudgets
  BY DEF Spend, SameBudgets, Budgets
<1>6. ASSUME NEW x \in Robots, MCCard(x) PROVE SameBudgets /\ SpinsOver /\ CardTaken(x)
  <2>1. left'["cards"] # left["cards"]
    BY <1>6, SpendTyped DEF MCCard
  <2> QED
    BY <1>5, <1>6, <2>1 DEF MCCard, CardTaken, StandNext, CardsClear
<1>7. ~ MCBeatLost
  BY <1>1 DEF MCBeatLost, Spend
<1> QED
  BY <1>2, <1>3, <1>4, <1>6, <1>7 DEF StandNext, MCNext, MCCallback, Callback, MCElapse

\* Every step keeps the invariant, and moves the lead by handover only.
LEMMA NextStands ==
  ASSUME TypeOK, TypeOK', ParkedUnlessDriving, ParkedUnlessDriving', left \in Budgets,
         StandInv, StandNext
  PROVE  StandInv' /\ ByHandover
  BY StepsLeft, TimerStands, HandlerStands, RunStands, ElapseStands


-----------------------------------------------------------------------------
(* The two halves of a handover.                                           *)

Handing(c) == c.sync \in {"GiveLead", "TakeLead"}

\* How a robot ends its half: in the exchange, under the other's order, and with the
\* other's half done or begun.
Meets(x) ==
  \A y \in Robots \ {x} :
    /\ robot[x].sync = "GiveLead" /\ robot'[x].sync # "GiveLead" =>
         /\ robot'[x].role = "Follower" /\ robot'[x].drive = robot[y].drive
         /\ robot[y].role = "Leader" \/ robot[y].sync = "TakeLead"
    /\ robot[x].sync = "TakeLead" /\ robot'[x].sync # "TakeLead" =>
         /\ robot'[x].role = "Leader" /\ robot'[x].drive = robot[y].drive
         /\ robot[y].role = "Follower" \/ robot[y].sync = "GiveLead"

\* A robot whose pause goes on, or is none of a handover, ends no half.
LEMMA PauseKept ==
  ASSUME NEW x \in Robots, Handing(robot[x]) => robot'[x].sync = robot[x].sync
  PROVE  Meets(x)
  BY DEF Handing, Meets

\* An order cuts no handover short: the leader heeds none, the follower that pauses has
\* read the last one, and none is on its way to the robot that is left to exchange.
LEMMA CommandMeets ==
  ASSUME TypeOK, NEW w \in Robots, NEW r \in Robots, w # r, Phase(w, r),
         NEW y \in Robots, NEW x \in Robots, OnCommand(y, x)
  PROVE  \A z \in Robots : Meets(z)
<1>1. CommandStep(w, x) /\ Hailed(w, x) /\ (Leads(w, r) \/ Clash(w, r))
  BY CommandFrom
<1>2. x = w \/ x = r
  BY TwoRobots
<1>3. ASSUME Handing(robot[x]) PROVE robot'[x] = robot[x]
  <2>1. x = w => ~ Heeds(robot[x], Arriving(w, x))
    BY <1>1 DEF Leads, Clash, Heeds
  <2>2. CASE x = r /\ Clash(w, r)
    <3>1. ~ Heeds(robot[x], Arriving(w, x))
      BY <2>2 DEF Clash, Heeds
    <3> QED
      BY <1>1, <3>1 DEF CommandStep
  <2>3. ~ (x = r /\ Leads(w, r))
    BY <1>1, <1>3
    DEF Handing, Leads, Follows, Level, Stopping, Hailing, Shifting, Giving, Trailing,
        Ahead, Together, Idle
  <2> QED
    BY <1>1, <1>2, <2>1, <2>2, <2>3 DEF CommandStep
<1>4. ASSUME NEW z \in Robots PROVE Handing(robot[z]) => robot'[z].sync = robot[z].sync
  BY <1>1, <1>3 DEF CommandStep, Others
<1> QED
  BY <1>4, PauseKept

\* A tick ends a half when the pause has run out, and by then the other robot sits out
\* the other half or has ended it.
LEMMA TimerMeets ==
  ASSUME TypeOK, ParkedUnlessDriving, Healthy, Counters, Facing, Observe,
         NEW w \in Robots, NEW r \in Robots, w # r, Phase(w, r),
         NEW x \in Robots, TimerStep(x)
  PROVE  \A z \in Robots : Meets(z)
<1>0. Robots = {w, r}
  BY TwoRobots
<1>1. ASSUME NEW z \in Robots, z # x PROVE Meets(z)
  <2>1. robot'[z] = robot[z]
    BY <1>1 DEF TimerStep
  <2> QED
    BY <2>1, PauseKept
<1>2. CASE Goes(robot[x], robot'[x])
  <2>1. Meets(x)
    BY <1>2, PauseKept DEF Goes
  <2> QED
    BY <1>1, <2>1
<1>3. CASE Ends(robot[x], robot'[x])
  <2>1. /\ robot[x].sync = "GiveLead" =>
             robot'[x].role = "Follower" /\ robot'[x].drive = robot[x].drive
        /\ robot[x].sync = "TakeLead" =>
             robot'[x].role = "Leader" /\ robot'[x].drive = robot[x].syncCmd
        /\ robot[x].sync # "None" /\ robot[x].syncLeft = 0
    BY <1>3 DEF Ends
  <2>2. ASSUME NEW y \in Robots \ {x}
        PROVE  /\ robot[x].sync = "GiveLead" =>
                    /\ robot[x].drive = robot[y].drive
                    /\ robot[y].role = "Leader" \/ robot[y].sync = "TakeLead"
               /\ robot[x].sync = "TakeLead" =>
                    /\ robot[x].syncCmd = robot[y].drive
                    /\ robot[y].role = "Follower" \/ robot[y].sync = "GiveLead"
    <3>1. CASE Gap(w, r) \/ Clash(w, r)
      BY <1>0, <3>1 DEF Gap, Clash
    <3>2. CASE Leads(w, r) /\ x = w
      <4>1. ~ Hailed(w, r)
        <5>1. Since(robot[w]) > MaxDelay /\ Since(robot[w]) \in Nat
          BY <1>3, <3>2, EndsIs, Ranges, SinceIs
        <5> QED
          BY <3>2, <5>1, OldMail DEF Leads, Quiet, Hailed
      <4>2. robot[w].sync = "GiveLead" =>
              robot[r].sync = "TakeLead" /\ robot[r].drive = robot[w].drive
        BY <3>2, <4>1
        DEF Leads, Follows, Level, Stopping, Hailing, Shifting, Giving, Trailing, Ahead
      <4> QED
        BY <1>0, <3>2, <4>2 DEF Leads
    <3>3. CASE Leads(w, r) /\ x = r
      <4>1. robot[r].sync \in {"Speed", "TakeLead"}
        BY <2>1, <3>3
        DEF Leads, Follows, Level, Stopping, Hailing, Shifting, Giving, Trailing, Ahead, Idle
      <4>2. robot[r].sync = "TakeLead" =>
              robot[w].sync = "GiveLead" /\ robot[r].syncCmd = robot[w].drive
        BY <3>3
        DEF Leads, Follows, Level, Stopping, Hailing, Shifting, Giving, Trailing, Ahead, Idle
      <4> QED
        BY <1>0, <3>3, <4>1, <4>2
    <3> QED
      BY <1>0, <3>1, <3>2, <3>3 DEF Phase
  <2>3. Meets(x)
    BY <2>1, <2>2 DEF Meets
  <2> QED
    BY <1>1, <2>3
<1> QED
  BY <1>2, <1>3 DEF TimerStep

\* No step ends one half of a handover without the other.
LEMMA NextMeets ==
  ASSUME TypeOK, TypeOK', ParkedUnlessDriving, left \in Budgets, StandInv, StandNext
  PROVE  \A z \in Robots : Meets(z)
<1>1. PICK w \in Robots, r \in Robots : w # r /\ Phase(w, r)
  BY DEF StandInv
<1>2. /\ Healthy /\ Counters /\ Start /\ Facing /\ Observe
  BY StepsLeft DEF StandInv, Start
<1>3. ASSUME NEW x \in Robots, OnTimer(x) PROVE \A z \in Robots : Meets(z)
  <2>1. x \in due
    BY <1>3 DEF OnTimer, TickDisabled, TickWaiting, TickCountdown, TickFinish, TickDrive
  <2>2. TimerStep(x)
    BY <1>1, <1>2, <1>3, <2>1, TickUncontested, TimerIs DEF Healthy
  <2> QED
    BY <1>1, <1>2, <2>2, TimerMeets
<1>4. ASSUME NEW x \in Robots, OnRun(x), left'.runs = left.runs
      PROVE  \A z \in Robots : Meets(z)
  <2>1. RunStep(x)
    BY <1>2, <1>4, RunStarts DEF Healthy
  <2>2. ASSUME NEW z \in Robots PROVE robot'[z].sync = robot[z].sync
    BY <2>1 DEF RunStep, Others
  <2> QED
    BY <2>2, PauseKept
<1>5. ASSUME NEW x \in Robots,
             SpinEnds(x) \/ OnPeer(x) \/ CardTaken(x)
      PROVE  \A z \in Robots : Meets(z)
  <2>1. SpinStep(x) \/ PeerStep(x) \/ CardStep(x)
    BY <1>5, SpinIs, PeerIs, CardIs DEF CardTaken
  <2>2. Others(x) /\ (Handing(robot[x]) => robot'[x].sync = robot[x].sync)
    BY <2>1 DEF SpinStep, PeerStep, CardStep, SameOrders, SamePlan, Handing, Busy
  <2>3. ASSUME NEW z \in Robots PROVE Handing(robot[z]) => robot'[z].sync = robot[z].sync
    BY <2>2 DEF Others
  <2> QED
    BY <2>3, PauseKept
<1>6. CASE Elapse \/ MCPublishRun
  <2>1. ASSUME NEW z \in Robots PROVE robot'[z].sync = robot[z].sync
    BY <1>2, <1>6, ElapseIs DEF Aging, MCPublishRun, PublishRun
  <2> QED
    BY <2>1, PauseKept
<1> QED
  BY <1>1, <1>3, <1>4, <1>5, <1>6, StepsLeft, CommandMeets DEF SameBudgets


-----------------------------------------------------------------------------
(* What the runs check.                                                    *)

\* The convoy before its START.
LEMMA InitStands == MCInit => StandInv
<1> SUFFICES ASSUME MCInit PROVE StandInv
  OBVIOUS
<1>1. PICK w \in Robots, r \in Robots :
        w # r /\ BootRole[w] = "Leader" /\ BootRole[r] = "Follower"
  BY StandAssumption
<1>2. /\ up = Robots /\ online = Robots /\ due = Robots /\ beats = {}
      /\ \A p \in Pairs : orders[p] = <<>>
      /\ \A x \in Robots : /\ robot[x] = Boot(BootRole[x]) /\ runs[x] = <<>>
                           /\ heading[x] = "there"
      /\ heading = [x \in Robots |-> "there"]
      /\ left = [cards |-> Cards, runs |-> RunOrders, settings |-> Settings,
                 faults |-> Faults]
  BY DEF MCInit, Init
<1>3. \A x \in Robots :
        LET c == robot[x] IN
        /\ c.enabled /\ ~ c.running /\ c.hold /\ c.role = BootRole[x] /\ c.drive = "Cruise"
        /\ ~ c.peer.valid /\ c.seen = 0 /\ c.sync = "None" /\ c.turn = 0 /\ c.calm = 0
  <2>1. ASSUME NEW role
        PROVE  LET c == Boot(role) IN
               /\ c.enabled /\ ~ c.running /\ c.hold /\ c.role = role /\ c.drive = "Cruise"
               /\ ~ c.peer.valid /\ c.seen = 0 /\ c.sync = "None" /\ c.turn = 0
               /\ c.calm = 0
    BY DEF Boot
  <2> SUFFICES ASSUME NEW x \in Robots
               PROVE  LET c == robot[x] IN
                      /\ c.enabled /\ ~ c.running /\ c.hold
                      /\ c.role = BootRole[x] /\ c.drive = "Cruise"
                      /\ ~ c.peer.valid /\ c.seen = 0 /\ c.sync = "None" /\ c.turn = 0
                      /\ c.calm = 0
    OBVIOUS
  <2>2. robot[x] = Boot(BootRole[x])
    BY <1>2
  <2> QED
    BY <2>1, <2>2
<1>4. left.settings = 0 /\ left.faults = 0 /\ left.runs \in {0, 1}
  BY <1>2, StandAssumption
<1>5. Healthy
  BY <1>2, <1>3, <1>4 DEF Healthy
<1>6. Counters
  <2>1. \A n : n = 0 => n # 1 /\ ~ (n > 0)
    OBVIOUS
  <2>2. \A x \in Robots : /\ robot[x].sync = "None" /\ robot[x].calm = 0
                         /\ robot[x].turn # 1 /\ ~ (robot[x].turn > 0)
    BY <1>3, <2>1
  <2> QED
    BY <2>2 DEF Counters, Counted
<1>7. Unstarted
  BY <1>2, <1>3, <1>4 DEF Unstarted
<1>8. Paced
  BY <1>3 DEF Paced, OwnSpeed, SameSpeed, Driving
<1>9. Peers
  BY <1>2 DEF Peers, BeatsTrue, Informed, Told
<1>10. Facing
  BY <1>2 DEF Facing
<1>11. Quiet(w) /\ Quiet(r) /\ Mailed(w)
  BY <1>2 DEF Quiet, Mailed, Sealed, Pairs
<1>12. Heeding(w, r)
  BY <1>3, Times DEF Heeding, HearsLeader
<1>13. Level(w, r)
  BY <1>3 DEF Level
<1>14. Face(w) = Face(r)
  BY <1>2, <1>3 DEF Face
<1>15. Leads(w, r)
  BY <1>1, <1>3, <1>11, <1>12, <1>13, <1>14 DEF Leads, Follows
<1> QED
  BY <1>1, <1>5, <1>6, <1>7, <1>8, <1>9, <1>10, <1>15 DEF StandInv, Phase

\* The condition on the cards only restricts the convoy.
LEMMA StandRefines == StandSpec => MCSpec
<1>1. [StandNext]_mcvars => [MCNext]_mcvars
  BY DEF StandNext
<1> QED
  BY <1>1, PTL DEF StandSpec, MCSpec

\* Every step keeps the invariant, a step that changes nothing included.
LEMMA StepKeepsStand ==
  ASSUME TypeOK, TypeOK', ParkedUnlessDriving, ParkedUnlessDriving', left \in Budgets,
         StandInv, [StandNext]_mcvars
  PROVE  StandInv'
<1>1. ASSUME StandInv, UNCHANGED mcvars PROVE StandInv'
  <2>1. /\ UNCHANGED <<robot, up, online, due, orders, beats, runs>>
        /\ UNCHANGED <<left, heading>>
    BY <1>1 DEF mcvars, vars, net, bus, ghosts
  <2>2. Healthy' /\ (Unstarted \/ Started)'
    BY <1>1, <2>1 DEF StandInv, Healthy, Unstarted, Started
  <2>3. Counters' /\ Paced'
    BY <1>1, <2>1 DEF StandInv, Counters, Counted, Busy, Turning, Paced, OwnSpeed,
                      SameSpeed, Driving
  <2>4. Peers' /\ Facing'
    BY <1>1, <2>1 DEF StandInv, Peers, BeatsTrue, Informed, Told, Facing
  <2>5. ASSUME NEW w \in Robots, NEW r \in Robots, Phase(w, r) PROVE Phase(w, r)'
    <3>1. Mailed(w)' = Mailed(w) /\ Quiet(w)' = Quiet(w) /\ Quiet(r)' = Quiet(r)
      BY <2>1 DEF Mailed, Quiet
    <3>2. Heeding(w, r)' = Heeding(w, r) /\ Face(w)' = Face(w) /\ Face(r)' = Face(r)
      BY <2>1 DEF Heeding, HearsLeader, Believes, Face
    <3>3. Follows(w, r) => Follows(w, r)'
      BY <2>1 DEF Follows, Level, Stopping, Hailing, Shifting, Giving, Trailing, Ahead,
                  Together, Hailed, Idle
    <3> QED
      BY <2>1, <2>5, <3>1, <3>2, <3>3 DEF Phase, Leads, Gap, Clash
  <2> QED
    BY <1>1, <2>2, <2>3, <2>4, <2>5 DEF StandInv
<1> QED
  BY <1>1, NextStands

\* The invariant of the two robots on the line, through any number of cards.
THEOREM StandCorrect == StandSpec => []StandInv
<1>1. /\ TypeOK /\ TypeOK' /\ ParkedUnlessDriving /\ ParkedUnlessDriving'
      /\ left \in Budgets /\ StandInv /\ [StandNext]_mcvars
      => StandInv'
  BY StepKeepsStand
<1>2. WatchInv => left \in Budgets
  BY DEF WatchInv
<1> QED
  BY <1>1, <1>2, InitStands, StandRefines, BudgetsRefine, TypeCorrect, ParkedCorrect,
     WatchCorrect, PTL
  DEF StandSpec

\* Without the spin (handover_turn false) the convoy needs nothing of its cards: it may
\* come to one at any time, and all that is proved of StandSpec holds of MCSpec.
THEOREM WithoutSpin ==
  ASSUME ~ HandoverTurn
  PROVE  MCSpec => StandSpec
<1>1. StandInv => SpinsOver
  BY DEF StandInv, Counters, Counted, SpinsOver, Turning
<1>2. StandInv /\ [MCNext]_mcvars => [StandNext]_mcvars
  BY <1>1 DEF StandNext, CardsClear
<1>3. /\ TypeOK /\ TypeOK' /\ ParkedUnlessDriving /\ ParkedUnlessDriving'
      /\ left \in Budgets /\ StandInv /\ [StandNext]_mcvars
      => StandInv'
  BY StepKeepsStand
<1>4. WatchInv => left \in Budgets
  BY DEF WatchInv
<1> QED
  BY <1>2, <1>3, <1>4, InitStands, BudgetsRefine, TypeCorrect, ParkedCorrect,
     WatchCorrect, PTL DEF MCSpec, StandSpec

\* Robots driving on the line at the same time drive at the same speed: the pause that
\* begin_sync() puts before a new speed covers the time the order takes.
THEOREM SameSpeedCorrect == StandSpec => []SameSpeed
<1>1. StandInv => SameSpeed
  BY DEF StandInv, Paced
<1> QED
  BY <1>1, StandCorrect, PTL

\* At rest nothing is left of a pause or a spin, and the follower is level.
LEMMA RestIsLevel ==
  ASSUME TypeOK, StandInv, AtRest
  PROVE  /\ Facing
         /\ \E w, r \in Robots :
              /\ Robots = {w, r} /\ w # r
              /\ robot[w].role = "Leader" /\ robot[r].role = "Follower"
              /\ robot[w].drive = robot[r].drive /\ heading[w] = heading[r]
<1>1. PICK w \in Robots, r \in Robots : w # r /\ Phase(w, r)
  BY DEF StandInv
<1>2. \A x \in Robots : robot[x].sync = "None" /\ ~ (robot[x].turn > 0)
  BY DEF AtRest, Busy, Turning
<1>3. ~ Hailed(w, r)
  BY DEF AtRest, Hailed, Pairs
<1>4. Leads(w, r)
  BY <1>1, <1>2 DEF Phase, Gap, Clash
<1>5. Level(w, r)
  BY <1>2, <1>3, <1>4
  DEF Leads, Follows, Stopping, Hailing, Shifting, Giving, Trailing, Ahead
<1>6. heading[w] = heading[r]
  BY <1>2, <1>4 DEF Leads, Face
<1>7. Robots = {w, r}
  BY <1>1, TwoRobots
<1> QED
  BY <1>1, <1>4, <1>5, <1>6, <1>7 DEF Leads, Level, StandInv

\* At rest the two robots agree on the order in effect and exactly one of them leads,
\* however many cards were taken and however late their orders came.
THEOREM AgreeAtRestCorrect == StandSpec => []AgreeAtRest
<1>1. TypeOK /\ StandInv => AgreeAtRest
  <2> SUFFICES ASSUME TypeOK, StandInv, AtRest
               PROVE  /\ \A x, y \in Robots : robot[x].drive = robot[y].drive
                      /\ \E x \in Robots : \A y \in Robots :
                           robot[y].role = "Leader" <=> y = x
    BY DEF AgreeAtRest
  <2> QED
    BY RestIsLevel
<1> QED
  BY <1>1, StandCorrect, StandRefines, BudgetedTyped, PTL

\* At rest both robots face the same way along the line, and none across it: every
\* handover turned both around, and no order cut a spin short.
THEOREM HeadingsAgreeCorrect == StandSpec => []HeadingsAgree
<1>1. TypeOK /\ StandInv => HeadingsAgree
  <2> SUFFICES ASSUME TypeOK, StandInv, AtRest
               PROVE  \A x, y \in Robots : heading[x] = heading[y] /\ heading[x] # "astray"
    BY DEF HeadingsAgree
  <2>1. \A x \in Robots : heading[x] \in {"there", "back"}
    BY RestIsLevel DEF Facing
  <2> QED
    BY <2>1, RestIsLevel
<1> QED
  BY <1>1, StandCorrect, StandRefines, BudgetedTyped, PTL

\* With the network and the robots up the lead moves at the end of a handover's pause
\* and never else: tick() takes no delay, pause or spin for a lost leader, and no
\* handover for a clash of leaders.
THEOREM LeadMovesCorrect == StandSpec => LeadMovesByHandover
<1> DEFINE Moves(r) ==
      robot'[r].role # robot[r].role => robot[r].sync \in {"TakeLead", "GiveLead"}
<1>1. /\ TypeOK /\ TypeOK' /\ ParkedUnlessDriving /\ ParkedUnlessDriving'
      /\ left \in Budgets /\ StandInv /\ [StandNext]_mcvars
      => [\A r \in Robots : Moves(r)]_mcvars
  <2>1. ASSUME ByHandover PROVE \A r \in Robots : Moves(r)
    BY <2>1 DEF ByHandover
  <2> QED
    BY <2>1, NextStands
<1>2. WatchInv => left \in Budgets
  BY DEF WatchInv
<1> QED
  BY <1>1, <1>2, StandCorrect, StandRefines, BudgetsRefine, TypeCorrect, ParkedCorrect,
     WatchCorrect, PTL
  DEF StandSpec, LeadMovesByHandover

\* Neither robot ends its half of a handover alone: no order, card, tick or period cuts
\* a pause of a handover short, and when one runs out the other half is done or begun.
THEOREM HandoverMeetsCorrect == StandSpec => HandoverMeets
<1> DEFINE Halves(r) ==
      \A s \in Robots \ {r} :
        /\ robot[r].sync = "GiveLead" /\ robot'[r].sync # "GiveLead" =>
             /\ robot'[r].role = "Follower" /\ robot'[r].drive = robot[s].drive
             /\ robot[s].role = "Leader" \/ robot[s].sync = "TakeLead"
        /\ robot[r].sync = "TakeLead" /\ robot'[r].sync # "TakeLead" =>
             /\ robot'[r].role = "Leader" /\ robot'[r].drive = robot[s].drive
             /\ robot[s].role = "Follower" \/ robot[s].sync = "GiveLead"
<1>1. /\ TypeOK /\ TypeOK' /\ ParkedUnlessDriving
      /\ left \in Budgets /\ StandInv /\ [StandNext]_mcvars
      => [\A r \in Robots : Halves(r)]_mcvars
  <2>1. ASSUME \A r \in Robots : Meets(r) PROVE \A r \in Robots : Halves(r)
    BY <2>1 DEF Meets
  <2> QED
    BY <2>1, NextMeets
<1>2. WatchInv => left \in Budgets
  BY DEF WatchInv
<1> QED
  BY <1>1, <1>2, StandCorrect, StandRefines, BudgetsRefine, TypeCorrect, ParkedCorrect,
     WatchCorrect, PTL
  DEF StandSpec, HandoverMeets
=============================================================================
