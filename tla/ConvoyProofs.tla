----------------------------- MODULE ConvoyProofs -----------------------------
(***************************************************************************)
(* Proofs about the convoy, for any set of robots, any timers, any bus     *)
(* delay and any number of cards, orders, parameter changes and failures.  *)
(***************************************************************************)
EXTENDS Convoy, TLAPS, SequenceTheorems

-----------------------------------------------------------------------------
(* What the controller's methods do to its type and to Parked.             *)

\* Zero is a value of every timer.
LEMMA ZeroTimes ==
  /\ 0 \in 0 .. PeerExpiry + 1
  /\ 0 \in 0 .. LeaderTimeout + 1
  /\ 0 \in 0 .. SyncPause
  /\ 0 \in 0 .. TurnDeadline
  /\ 0 \in 0 .. CardGap
  BY TimesAssumption DEF PeerExpiry

\* The constructor leaves a held robot of the controller's type.
LEMMA BootTyped ==
  ASSUME NEW role \in Role
  PROVE  Boot(role) \in Controller /\ Parked(Boot(role))
  BY ZeroTimes
  DEF Boot, Controller, Peer, NoRobot, Drive, SyncKind, PeerExpiry, Role,
      Parked, Busy, Turning

\* become_leader() and become_follower() touch the role, the term and the clock.
LEMMA FollowerTyped ==
  ASSUME NEW c \in Controller
  PROVE  BecomeFollower(c) \in Controller
  BY ZeroTimes DEF BecomeFollower, Controller, Role

\* become_leader() counts a term up from the larger of two, and keeps the type.
LEMMA LeaderTyped ==
  ASSUME NEW c \in Controller
  PROVE  BecomeLeader(c) \in Controller
<1>1. c.term \in Nat /\ c.peer.term \in Nat
  BY DEF Controller, Peer
<1>2. Larger(c.term, c.peer.term) + 1 \in Nat
  BY <1>1 DEF Larger
<1> QED
  BY <1>2 DEF BecomeLeader, Controller, Role

\* Parked reads four members: a step that keeps them keeps it.
SameMotion(c, d) ==
  d.running = c.running /\ d.hold = c.hold /\ d.sync = c.sync /\ d.turn = c.turn

\* A robot whose four members are as they were is as parked as it was.
LEMMA SameMotionParked ==
  ASSUME NEW c, NEW d, SameMotion(c, d), Parked(c)
  PROVE  Parked(d)
  BY DEF SameMotion, Parked, Busy, Turning

\* Of the peer, tick() touches only its validity, and never hears one that was
\* not heard before.
HearsNoMore(c, d) ==
  HearsLeader(d) => HearsLeader(c) /\ d.peer.id = c.peer.id /\ d.peer.term = c.peer.term

\* tick() forgetting a silent peer touches nothing but its validity.
LEMMA ExpirePeerTyped ==
  ASSUME NEW c \in Controller
  PROVE  /\ ExpirePeer(c) \in Controller
         /\ SameMotion(c, ExpirePeer(c)) /\ HearsNoMore(c, ExpirePeer(c))
         /\ ExpirePeer(c).role = c.role /\ ExpirePeer(c).term = c.term
  BY DEF ExpirePeer, Controller, Peer, SameMotion, HearsNoMore, HearsLeader

\* tick() noting a leader resets one clock and nothing else.
LEMMA NoteLeaderTyped ==
  ASSUME NEW c \in Controller
  PROVE  /\ NoteLeader(c) \in Controller
         /\ SameMotion(c, NoteLeader(c)) /\ HearsNoMore(c, NoteLeader(c))
         /\ NoteLeader(c).role = c.role /\ NoteLeader(c).term = c.term
  BY ZeroTimes DEF NoteLeader, Controller, SameMotion, HearsNoMore, HearsLeader

\* The two together, the first half of tick(), keep role, term, motion and peer.
LEMMA HeardTyped ==
  ASSUME NEW c \in Controller
  PROVE  /\ Heard(c) \in Controller
         /\ SameMotion(c, Heard(c)) /\ HearsNoMore(c, Heard(c))
         /\ Heard(c).role = c.role /\ Heard(c).term = c.term
<1> DEFINE e == ExpirePeer(c)
<1>1. /\ e \in Controller /\ SameMotion(c, e) /\ HearsNoMore(c, e)
      /\ e.role = c.role /\ e.term = c.term
  BY ExpirePeerTyped
<1>2. /\ NoteLeader(e) \in Controller /\ SameMotion(e, NoteLeader(e))
      /\ HearsNoMore(e, NoteLeader(e))
      /\ NoteLeader(e).role = e.role /\ NoteLeader(e).term = e.term
  BY <1>1, NoteLeaderTyped
<1>3. Heard(c) = NoteLeader(e)
  BY DEF Heard
<1> HIDE DEF e
<1> QED
  BY <1>1, <1>2, <1>3 DEF SameMotion, HearsNoMore

\* maybe_elect() and resolve_roles() keep the motion and the peer.
LEMMA RolesKeep ==
  ASSUME NEW c \in Controller
  PROVE  /\ SameMotion(c, BecomeLeader(c)) /\ HearsNoMore(c, BecomeLeader(c))
         /\ SameMotion(c, BecomeFollower(c)) /\ HearsNoMore(c, BecomeFollower(c))
  BY DEF Controller, BecomeLeader, BecomeFollower, SameMotion, HearsNoMore, HearsLeader

\* maybe_elect() keeps the type, the motion and the peer, elected or not.
LEMMA MaybeElectTyped ==
  ASSUME NEW c \in Controller
  PROVE  /\ MaybeElect(c) \in Controller
         /\ SameMotion(c, MaybeElect(c)) /\ HearsNoMore(c, MaybeElect(c))
<1>1. CASE Elects(c)
  BY <1>1, LeaderTyped, RolesKeep DEF MaybeElect
<1>2. CASE ~ Elects(c)
  BY <1>2 DEF MaybeElect, SameMotion, HearsNoMore
<1> QED
  BY <1>1, <1>2

\* resolve_roles() keeps the type, the motion and the peer, yielding or not.
LEMMA ResolveRolesTyped ==
  ASSUME NEW r \in Robots, NEW c \in Controller
  PROVE  /\ ResolveRoles(r, c) \in Controller
         /\ SameMotion(c, ResolveRoles(r, c)) /\ HearsNoMore(c, ResolveRoles(r, c))
<1>1. CASE Loses(r, c)
  BY <1>1, FollowerTyped, RolesKeep DEF ResolveRoles
<1>2. CASE ~ Loses(r, c)
  BY <1>2 DEF ResolveRoles, SameMotion, HearsNoMore
<1> QED
  BY <1>1, <1>2

\* So does all that tick() does before it looks at pauses and motion.
LEMMA SettledTyped ==
  ASSUME NEW r \in Robots, NEW c \in Controller
  PROVE  /\ Settled(r, c) \in Controller
         /\ SameMotion(c, Settled(r, c)) /\ HearsNoMore(c, Settled(r, c))
<1> DEFINE h == Heard(c)
           m == MaybeElect(h)
<1>1. h \in Controller /\ SameMotion(c, h) /\ HearsNoMore(c, h)
  BY HeardTyped
<1>2. m \in Controller /\ SameMotion(h, m) /\ HearsNoMore(h, m)
  BY <1>1, MaybeElectTyped
<1>3. /\ ResolveRoles(r, m) \in Controller
      /\ SameMotion(m, ResolveRoles(r, m)) /\ HearsNoMore(m, ResolveRoles(r, m))
  BY <1>2, ResolveRolesTyped
<1>4. Settled(r, c) = h \/ Settled(r, c) = ResolveRoles(r, m)
  BY DEF Settled
<1> HIDE DEF h, m
<1> QED
  BY <1>1, <1>2, <1>3, <1>4 DEF SameMotion, HearsNoMore

\* begin_sync() parks a robot that neither pauses nor spins.
LEMMA BeginSyncTyped ==
  ASSUME NEW c \in Controller, NEW kind \in SyncKind, NEW cmd \in Drive
  PROVE  /\ BeginSync(c, kind, cmd) \in Controller
         /\ HearsNoMore(c, BeginSync(c, kind, cmd))
         /\ BeginSync(c, kind, cmd).role = c.role /\ BeginSync(c, kind, cmd).term = c.term
<1>1. SyncPause \in 0 .. SyncPause
  BY TimesAssumption
<1> QED
  BY <1>1, ZeroTimes DEF BeginSync, Controller, HearsNoMore, HearsLeader

\* A running robot that is not busy sits its pause out off the line.
LEMMA BeginSyncParks ==
  ASSUME NEW c \in Controller, NEW kind \in SyncKind, NEW cmd \in Drive,
         c.running, ~ Busy(c)
  PROVE  Parked(BeginSync(c, kind, cmd))
  BY DEF BeginSync, Controller, Parked, Busy, Turning

\* The end of a spin changes nothing but turn.
LEMMA FinishTurnTyped ==
  ASSUME NEW c \in Controller
  PROVE  /\ FinishTurn(c) \in Controller
         /\ HearsNoMore(c, FinishTurn(c))
         /\ FinishTurn(c).role = c.role /\ FinishTurn(c).term = c.term
         /\ Parked(c) => Parked(FinishTurn(c))
<1>1. c.turn \in Int
  BY TimesAssumption DEF Controller
<1> QED
  BY <1>1, ZeroTimes
  DEF FinishTurn, Controller, HearsNoMore, HearsLeader, Parked, Busy, Turning

\* step_turn() ends a spin or leaves it, and changes nothing else.
LEMMA StepTurnTyped ==
  ASSUME NEW c \in Controller, NEW d \in StepTurn(c)
  PROVE  /\ d \in Controller
         /\ HearsNoMore(c, d) /\ d.role = c.role /\ d.term = c.term
         /\ Parked(c) => Parked(d)
<1>1. d = c \/ d = FinishTurn(c)
  BY DEF StepTurn
<1> QED
  BY <1>1, FinishTurnTyped DEF HearsNoMore

\* begin_turnaround() starts a spin only with the robot held, and keeps the rest.
LEMMA BeginTurnaroundTyped ==
  ASSUME NEW c \in Controller
  PROVE  /\ BeginTurnaround(c) \in Controller
         /\ HearsNoMore(c, BeginTurnaround(c))
         /\ BeginTurnaround(c).role = c.role /\ BeginTurnaround(c).term = c.term
         /\ BeginTurnaround(c).running = c.running
         /\ BeginTurnaround(c).sync = c.sync
         /\ BeginTurnaround(c).hold = c.hold \/ BeginTurnaround(c).hold
         /\ BeginTurnaround(c).turn = c.turn \/ BeginTurnaround(c).hold
<1>1. TurnDeadline \in 0 .. TurnDeadline
  BY TimesAssumption
<1> QED
  BY <1>1 DEF BeginTurnaround, Controller, HearsNoMore, HearsLeader

\* apply_motion() holds a stopped robot and lets any other go.
LEMMA ApplyMotionTyped ==
  ASSUME NEW c \in Controller
  PROVE  /\ ApplyMotion(c) \in Controller
         /\ HearsNoMore(c, ApplyMotion(c))
         /\ ApplyMotion(c).role = c.role /\ ApplyMotion(c).term = c.term
         /\ ApplyMotion(c).running = c.running
         /\ ApplyMotion(c).sync = c.sync /\ ApplyMotion(c).turn = c.turn
  BY DEF ApplyMotion, Controller, HearsNoMore, HearsLeader

\* tick() steering a robot keeps its type, role, term and peer.
LEMMA SteerTyped ==
  ASSUME NEW c \in Controller
  PROVE  /\ Steer(c) \in Controller
         /\ HearsNoMore(c, Steer(c)) /\ Steer(c).role = c.role /\ Steer(c).term = c.term
<1>1. Steer(c) = c \/ Steer(c) = ApplyMotion(c)
  BY DEF Steer
<1> QED
  BY <1>1, ApplyMotionTyped DEF HearsNoMore

\* A running robot that has no pause to sit out steers only if it does not spin.
LEMMA SteerParks ==
  ASSUME NEW c \in Controller, c.running, c.sync = "None", Turning(c) => c.hold
  PROVE  Parked(Steer(c))
<1>1. CASE Turning(c)
  BY <1>1 DEF Steer, Parked, Busy
<1>2. CASE ~ Turning(c)
  <2>1. Steer(c) = ApplyMotion(c)
    BY <1>2 DEF Steer
  <2>2. ~ Busy(ApplyMotion(c)) /\ ApplyMotion(c).running /\ ApplyMotion(c).sync = "None"
    BY <1>2, ApplyMotionTyped DEF Busy, Turning
  <2> QED
    BY <2>1, <2>2 DEF Parked, Busy
<1> QED
  BY <1>1, <1>2

\* finish_sync() ends the pause; what it may start is a spin of a held robot.
LEMMA FinishSyncTyped ==
  ASSUME NEW c \in Controller
  PROVE  /\ FinishSync(c) \in Controller
         /\ HearsNoMore(c, FinishSync(c))
         /\ FinishSync(c).running = c.running
         /\ FinishSync(c).sync = "None"
         /\ ~ Turning(c) => (Turning(FinishSync(c)) => FinishSync(c).hold)
<1> DEFINE done == [c EXCEPT !.sync = "None"]
           lead == [BecomeLeader(done) EXCEPT !.drive = c.syncCmd]
           give == BecomeFollower(done)
           keep == [done EXCEPT !.drive = c.syncCmd]
<1>1. /\ done \in Controller /\ HearsNoMore(c, done)
      /\ done.running = c.running /\ done.sync = "None" /\ done.turn = c.turn
  BY DEF Controller, SyncKind, HearsNoMore, HearsLeader
<1>2. /\ keep \in Controller /\ HearsNoMore(c, keep)
      /\ keep.running = c.running /\ keep.sync = "None" /\ keep.turn = c.turn
  BY DEF Controller, SyncKind, HearsNoMore, HearsLeader
<1>3. BecomeLeader(done) \in Controller /\ c.syncCmd \in Drive
  BY <1>1, LeaderTyped DEF Controller
<1>4. /\ lead \in Controller /\ HearsNoMore(done, lead)
      /\ lead.running = done.running /\ lead.sync = done.sync /\ lead.turn = done.turn
  <2> DEFINE b == BecomeLeader(done)
  <2>1. /\ SameMotion(done, b) /\ HearsNoMore(done, b)
    BY <1>1, RolesKeep
  <2> HIDE DEF b, done
  <2>2. /\ [b EXCEPT !.drive = c.syncCmd] \in Controller
        /\ HearsNoMore(b, [b EXCEPT !.drive = c.syncCmd])
        /\ SameMotion(b, [b EXCEPT !.drive = c.syncCmd])
    BY <1>3 DEF b, Controller, HearsNoMore, HearsLeader, SameMotion
  <2> QED
    BY <2>1, <2>2 DEF SameMotion, HearsNoMore, b
<1>5. /\ give \in Controller /\ SameMotion(done, give) /\ HearsNoMore(done, give)
  BY <1>1, FollowerTyped, RolesKeep
<1>6. \/ FinishSync(c) = BeginTurnaround(lead)
      \/ FinishSync(c) = BeginTurnaround(give)
      \/ FinishSync(c) = keep
  BY DEF FinishSync
<1> HIDE DEF done, lead, give, keep
<1>7. ASSUME NEW d \in Controller, HearsNoMore(c, d),
             d.running = c.running, d.sync = "None", d.turn = c.turn
      PROVE  LET e == BeginTurnaround(d) IN
             /\ e \in Controller /\ HearsNoMore(c, e)
             /\ e.running = c.running /\ e.sync = "None"
             /\ ~ Turning(c) => (Turning(e) => e.hold)
  BY <1>7, BeginTurnaroundTyped DEF HearsNoMore, Turning
<1>8. CASE FinishSync(c) = BeginTurnaround(lead)
  BY <1>1, <1>4, <1>7, <1>8 DEF HearsNoMore
<1>9. CASE FinishSync(c) = BeginTurnaround(give)
  BY <1>1, <1>5, <1>7, <1>9 DEF HearsNoMore, SameMotion
<1>10. CASE FinishSync(c) = keep
  BY <1>2, <1>10 DEF Turning
<1> QED
  BY <1>6, <1>8, <1>9, <1>10

\* set_running() changes neither role nor term.
LEMMA SetRunningTyped ==
  ASSUME NEW c \in Controller, NEW run \in BOOLEAN
  PROVE  /\ SetRunning(c, run) \in Controller
         /\ HearsNoMore(c, SetRunning(c, run))
         /\ SetRunning(c, run).role = c.role /\ SetRunning(c, run).term = c.term
         /\ Parked(c) => Parked(SetRunning(c, run))
<1>1. CASE run
  BY <1>1 DEF SetRunning, Controller, Drive, HearsNoMore, HearsLeader, Parked, Busy, Turning
<1>2. CASE ~ run
  <2> DEFINE f == FinishTurn(c)
  <2>1. f \in Controller /\ HearsNoMore(c, f) /\ f.role = c.role /\ f.term = c.term
        /\ f.turn = 0
    BY FinishTurnTyped DEF FinishTurn, Controller
  <2>2. SetRunning(c, run) =
          [f EXCEPT !.running = FALSE, !.hold = TRUE, !.sync = "None"]
    BY <1>2 DEF SetRunning
  <2> HIDE DEF f
  <2> DEFINE d == [f EXCEPT !.running = FALSE, !.hold = TRUE, !.sync = "None"]
  <2>3. d \in Controller
    BY <2>1 DEF Controller, SyncKind
  <2>4. /\ d.role = f.role /\ d.term = f.term /\ d.peer = f.peer
        /\ d.turn = f.turn /\ d.sync = "None" /\ d.hold
    BY <2>1 DEF Controller
  <2>5. HearsNoMore(c, d) /\ Parked(d)
    BY <2>1, <2>4 DEF HearsNoMore, HearsLeader, Parked, Busy, Turning
  <2> QED
    BY <2>1, <2>2, <2>3, <2>4, <2>5
<1> QED
  BY <1>1, <1>2

\* Time moves the clocks and nothing else; a spin stays one until it is finished.
LEMMA OlderTyped ==
  ASSUME NEW c \in Controller
  PROVE  /\ Older(c) \in Controller
         /\ HearsNoMore(c, Older(c))
         /\ Older(c).role = c.role /\ Older(c).term = c.term
         /\ Parked(c) => Parked(Older(c))
<1> DEFINE age == Smaller(c.peer.age + 1, PeerExpiry + 1)
           seen == Smaller(c.seen + 1, LeaderTimeout + 1)
           syncLeft == IF c.syncLeft = 0 THEN 0 ELSE c.syncLeft - 1
           turn == IF c.turn > 1 THEN c.turn - 1 ELSE c.turn
           calm == IF Busy(c) THEN 0
                   ELSE IF c.enabled /\ c.running THEN Smaller(c.calm + 1, CardGap)
                   ELSE c.calm
<1>1. /\ c.peer.age \in 0 .. PeerExpiry + 1 /\ c.seen \in 0 .. LeaderTimeout + 1
      /\ c.syncLeft \in 0 .. SyncPause /\ c.turn \in 0 .. TurnDeadline
      /\ c.calm \in 0 .. CardGap
  BY DEF Controller, Peer
<1>2. age \in 0 .. PeerExpiry + 1
  BY <1>1, TimesAssumption DEF Smaller, PeerExpiry
<1>3. seen \in 0 .. LeaderTimeout + 1
  BY <1>1, TimesAssumption DEF Smaller
<1>4. syncLeft \in 0 .. SyncPause
  BY <1>1, TimesAssumption
<1>5. turn \in 0 .. TurnDeadline /\ (turn > 0 <=> c.turn > 0)
  BY <1>1, TimesAssumption
<1>6. calm \in 0 .. CardGap
  BY <1>1, TimesAssumption DEF Smaller
<1>7. Older(c) = [c EXCEPT !.peer.age = age, !.seen = seen, !.syncLeft = syncLeft,
                           !.turn = turn, !.calm = calm]
  BY DEF Older
<1> HIDE DEF age, seen, syncLeft, turn, calm
<1> DEFINE peer == [c.peer EXCEPT !.age = age]
<1>8. Older(c) \in Controller
  <2>1. peer \in Peer
    BY <1>2 DEF Controller, Peer
  <2>2. Older(c) = [c EXCEPT !.peer = peer, !.seen = seen, !.syncLeft = syncLeft,
                             !.turn = turn, !.calm = calm]
    BY <1>7 DEF Controller
  <2> HIDE DEF peer
  <2> QED
    BY <1>3, <1>4, <1>5, <1>6, <2>1, <2>2 DEF Controller
<1>9. /\ Older(c).turn = turn /\ Older(c).sync = c.sync /\ Older(c).hold = c.hold
      /\ Older(c).running = c.running
      /\ Older(c).role = c.role /\ Older(c).term = c.term
      /\ HearsNoMore(c, Older(c))
  BY <1>7 DEF Controller, Peer, HearsNoMore, HearsLeader
<1> QED
  BY <1>5, <1>8, <1>9 DEF Parked, Busy, Turning

-----------------------------------------------------------------------------
(* What the steps of the bus do to its type.                               *)

\* Appending a message, or sending it alone, gives a sequence of messages.
LEMMA AppendTyped ==
  ASSUME NEW S, NEW q \in Seq(S), NEW e \in S
  PROVE  Append(q, e) \in Seq(S) /\ <<e>> \in Seq(S)
  BY AppendProperties, EmptySeq

\* A sequence with messages has a first one and a rest, of its type.
LEMMA TailTyped ==
  ASSUME NEW S, NEW q \in Seq(S), q # <<>>
  PROVE  Head(q) \in S /\ Tail(q) \in Seq(S)
  BY HeadTailProperties

\* A sequence with the ages of its messages replaced is one of its type.
LEMMA ReagedTyped ==
  ASSUME NEW S, NEW q \in Seq(S), NEW f \in [DOMAIN q -> S]
  PROVE  f \in Seq(S)
<1>1. Len(q) \in Nat /\ DOMAIN q = 1 .. Len(q)
  BY LenProperties
<1>2. f \in [1 .. Len(q) -> S]
  BY <1>1
<1> QED
  BY <1>1, <1>2, SeqDef

\* One reader of a topic is left a sequence of orders when an order is sent.
LEMMA SentTyped ==
  ASSUME NEW q \in Seq(Order), NEW w \in Robots, NEW r \in Robots, NEW cmd \in Command
  PROVE  Sent(q, w, r, cmd) \in Seq(Order)
<1> DEFINE e == [cmd |-> cmd, age |-> 0]
<1>1. e \in Order
  BY BusAssumption DEF Order
<1>2. Append(q, e) \in Seq(Order) /\ <<e>> \in Seq(Order)
  BY <1>1, AppendTyped
<1> QED
  BY <1>2 DEF Sent

\* publish_command() keeps the topic and its histories of their type.
LEMMA PublishTyped ==
  ASSUME TypeOK, NEW w \in Robots, NEW cmd \in Command, Publish(w, cmd)
  PROVE  /\ orders' \in [Pairs -> Seq(Order)]
         /\ history' \in [Robots -> Command \cup {"None"}]
<1>1. ASSUME NEW p \in Pairs
      PROVE  (IF p[1] = w THEN Sent(orders[p], w, p[2], cmd) ELSE orders[p]) \in Seq(Order)
  <2>1. p[2] \in Robots /\ orders[p] \in Seq(Order)
    BY DEF TypeOK, Pairs
  <2> QED
    BY <2>1, SentTyped
<1>2. orders' \in [Pairs -> Seq(Order)]
  BY <1>1 DEF Publish
<1>3. history' \in [Robots -> Command \cup {"None"}]
  BY DEF Publish, TypeOK
<1> QED
  BY <1>2, <1>3

\* A step that publishes nothing keeps the bus as it was.
LEMMA SilentTyped ==
  ASSUME TypeOK, Silent
  PROVE  /\ orders' \in [Pairs -> Seq(Order)]
         /\ history' \in [Robots -> Command \cup {"None"}]
  BY DEF TypeOK, Silent

\* The order on_command() takes is an order, and so are those it leaves.
LEMMA ReceiveTyped ==
  ASSUME TypeOK, NEW w \in Robots, NEW r \in Robots, Receive(w, r)
  PROVE  /\ orders' \in [Pairs -> Seq(Order)]
         /\ Arriving(w, r) \in Command
<1>1. <<w, r>> \in Pairs /\ orders[<<w, r>>] \in Seq(Order) /\ orders[<<w, r>>] # <<>>
  BY DEF TypeOK, Pairs, Receive
<1>2. Head(orders[<<w, r>>]) \in Order /\ Tail(orders[<<w, r>>]) \in Seq(Order)
  BY <1>1, TailTyped
<1>3. Arriving(w, r) \in Command
  BY <1>2 DEF Arriving, Order
<1>4. orders' \in [Pairs -> Seq(Order)]
  BY <1>1, <1>2 DEF Receive, TypeOK
<1> QED
  BY <1>3, <1>4

\* A robot that becomes a typed controller leaves the rest of the robots typed.
LEMMA BecomesTyped ==
  ASSUME TypeOK, NEW r \in Robots, NEW c \in Controller, Becomes(r, c)
  PROVE  /\ robot' \in [Robots -> Controller]
         /\ robot' = [robot EXCEPT ![r] = c]
         /\ claimed' \in [Robots -> Nat]
<1>1. c.term \in Nat /\ claimed[r] \in Nat
  BY DEF Controller, TypeOK
<1>2. Larger(claimed[r], c.term) \in Nat
  BY <1>1 DEF Larger
<1> QED
  BY <1>2 DEF Becomes, TypeOK

\* Messages a period older are messages: their age stops at MaxDelay.
LEMMA AgedTyped ==
  ASSUME NEW q, q \in Seq(Order) \/ q \in Seq(Run)
  PROVE  /\ q \in Seq(Order) => Aged(q) \in Seq(Order)
         /\ q \in Seq(Run) => Aged(q) \in Seq(Run)
<1>1. ASSUME NEW a \in 0 .. MaxDelay
      PROVE  Smaller(a + 1, MaxDelay) \in 0 .. MaxDelay
  BY BusAssumption DEF Smaller
<1>2. ASSUME q \in Seq(Order) PROVE Aged(q) \in [DOMAIN q -> Order]
  <2>1. \A i \in DOMAIN q : q[i] \in Order
    BY <1>2, ElementOfSeq, LenProperties
  <2> QED
    BY <1>1, <2>1 DEF Aged, Order
<1>3. ASSUME q \in Seq(Run) PROVE Aged(q) \in [DOMAIN q -> Run]
  <2>1. \A i \in DOMAIN q : q[i] \in Run
    BY <1>3, ElementOfSeq, LenProperties
  <2> QED
    BY <1>1, <2>1 DEF Aged, Run
<1> QED
  BY <1>2, <1>3, ReagedTyped

\* What a late joiner is sent, and what an outage held up, are orders.
LEMMA RematchedTyped ==
  ASSUME TypeOK, NEW r \in Robots, NEW again \in BOOLEAN
  PROVE  Rematched(r, again) \in [Pairs -> Seq(Order)]
<1>1. 0 \in 0 .. MaxDelay
  BY BusAssumption
<1>2. ASSUME NEW p \in Pairs
      PROVE  /\ orders[p] \in Seq(Order)
             /\ [i \in DOMAIN orders[p] |-> [orders[p][i] EXCEPT !.age = 0]] \in Seq(Order)
             /\ history[p[1]] # "None" => <<[cmd |-> history[p[1]], age |-> 0]>> \in Seq(Order)
  <2>1. orders[p] \in Seq(Order) /\ history[p[1]] \in Command \cup {"None"}
    BY DEF TypeOK, Pairs
  <2>2. \A i \in DOMAIN orders[p] : orders[p][i] \in Order
    BY <2>1, ElementOfSeq, LenProperties
  <2>3. [i \in DOMAIN orders[p] |-> [orders[p][i] EXCEPT !.age = 0]]
          \in [DOMAIN orders[p] -> Order]
    BY <1>1, <2>2 DEF Order
  <2>4. [i \in DOMAIN orders[p] |-> [orders[p][i] EXCEPT !.age = 0]] \in Seq(Order)
    BY <2>1, <2>3, ReagedTyped
  <2>5. ASSUME history[p[1]] # "None"
        PROVE  <<[cmd |-> history[p[1]], age |-> 0]>> \in Seq(Order)
    <3>1. [cmd |-> history[p[1]], age |-> 0] \in Order
      BY <1>1, <2>1, <2>5 DEF Order
    <3> QED
      BY <2>1, <3>1, AppendTyped
  <2> QED
    BY <2>1, <2>4, <2>5
<1> QED
  BY <1>2 DEF Rematched

-----------------------------------------------------------------------------
(* What every step does to a robot, whichever handler it is.               *)

\* The handlers keep a robot parked and hear no leader that was not heard.
Handled(c, d) == HearsNoMore(c, d) /\ (Parked(c) => Parked(d))

Handles(r) == \E c \in Controller : Becomes(r, c) /\ Handled(robot[r], c)

\* The first half of tick() handles a robot as every handler does.
LEMMA SettledHandled ==
  ASSUME NEW r \in Robots, NEW c \in Controller
  PROVE  Settled(r, c) \in Controller /\ Handled(c, Settled(r, c))
  BY SettledTyped, SameMotionParked DEF Handled

\* tick() and step_turn(), case by case; the heartbeat, if there is one, tells the
\* role and the term the robot ends up with.
LEMMA TicksHandled ==
  ASSUME TypeOK, NEW r \in Robots, OnTimer(r)
  PROVE  Handles(r) /\ beats' \subseteq beats \cup BeatsOf(r, robot'[r])
<1> DEFINE s == Settled(r, robot[r])
<1>0. robot[r] \in Controller
  BY DEF TypeOK
<1>1. s \in Controller /\ Handled(robot[r], s) /\ SameMotion(robot[r], s)
  BY <1>0, SettledHandled, SettledTyped
<1>2. ASSUME NEW c \in Controller, Handled(robot[r], c), Ticked(r, c)
      PROVE  Handles(r) /\ beats' \subseteq beats \cup BeatsOf(r, robot'[r])
  <2>1. PICK d \in StepTurn(c) : Becomes(r, d)
    BY <1>2 DEF Ticked
  <2>2. d \in Controller /\ Handled(robot[r], d) /\ d.role = c.role /\ d.term = c.term
    BY <1>2, <2>1, StepTurnTyped DEF Handled, HearsNoMore
  <2>3. robot'[r] = d
    BY <2>1 DEF Becomes, TypeOK
  <2>4. BeatsOf(r, c) = BeatsOf(r, d)
    BY <2>2 DEF BeatsOf
  <2>5. beats' \subseteq beats \cup BeatsOf(r, c)
    BY <1>2 DEF Ticked, Heartbeat
  <2> QED
    BY <2>1, <2>2, <2>3, <2>4, <2>5 DEF Handles
<1> HIDE DEF s
<1>3. CASE TickDisabled(r)
  BY <1>0, <1>3, StepTurnTyped DEF TickDisabled, Handles, Handled, bus
<1>4. CASE TickWaiting(r)
  <2> DEFINE w == [s EXCEPT !.hold = TRUE]
  <2>1. w \in Controller /\ HearsNoMore(s, w)
    BY <1>1 DEF Controller, HearsNoMore, HearsLeader
  <2>2. w.hold /\ w.running = s.running /\ w.sync = s.sync /\ w.turn = s.turn
    BY <1>1 DEF Controller
  <2>3. Parked(s) => Parked(w)
    BY <2>2 DEF Parked, Busy, Turning
  <2>4. Ticked(r, w)
    BY <1>4 DEF TickWaiting, s
  <2> HIDE DEF w
  <2> QED
    BY <1>1, <1>2, <2>1, <2>3, <2>4 DEF Handled, HearsNoMore
<1>5. CASE TickCountdown(r)
  BY <1>1, <1>2, <1>5 DEF TickCountdown, s
<1>6. CASE TickFinish(r)
  <2> DEFINE f == FinishSync(s)
  <2>1. /\ f \in Controller /\ HearsNoMore(s, f) /\ f.running = s.running
        /\ f.sync = "None"
        /\ ~ Turning(s) => (Turning(f) => f.hold)
    BY <1>1, FinishSyncTyped
  <2>2. Ticked(r, Steer(f)) /\ robot[r].running /\ robot[r].sync # "None"
    BY <1>6 DEF TickFinish, s
  <2> HIDE DEF f
  <2>3. Steer(f) \in Controller /\ HearsNoMore(f, Steer(f))
    BY <2>1, SteerTyped
  <2>4. Parked(robot[r]) => Parked(Steer(f))
    <3>1. SUFFICES ASSUME Parked(robot[r]) PROVE Parked(Steer(f))
      OBVIOUS
    <3>2. ~ Turning(s) /\ s.running
      BY <1>1, <2>2, <3>1 DEF SameMotion, Parked, Turning
    <3> QED
      BY <2>1, <3>2, SteerParks
  <2> QED
    BY <1>1, <1>2, <2>1, <2>2, <2>3, <2>4 DEF Handled, HearsNoMore
<1>7. CASE TickDrive(r)
  <2>1. Ticked(r, Steer(s)) /\ robot[r].running /\ robot[r].sync = "None"
    BY <1>7 DEF TickDrive, s
  <2>2. Steer(s) \in Controller /\ HearsNoMore(s, Steer(s))
    BY <1>1, SteerTyped
  <2>3. Parked(robot[r]) => Parked(Steer(s))
    <3>1. SUFFICES ASSUME Parked(robot[r]) PROVE Parked(Steer(s))
      OBVIOUS
    <3>2. s.running /\ s.sync = "None" /\ (Turning(s) => s.hold)
      BY <1>1, <2>1, <3>1 DEF SameMotion, Parked, Turning, Busy
    <3> QED
      BY <1>1, <3>2, SteerParks
  <2> QED
    BY <1>1, <1>2, <2>1, <2>2, <2>3 DEF Handled, HearsNoMore
<1> QED
  BY <1>3, <1>4, <1>5, <1>6, <1>7 DEF OnTimer

\* on_command(): a heeded order finds a running robot.
LEMMA OrdersHandled ==
  ASSUME TypeOK, NEW w \in Robots, NEW r \in Robots, OnCommand(w, r)
  PROVE  Handles(r) \/ UNCHANGED <<robot, claimed>>
<1> DEFINE c == robot[r]
           cmd == Arriving(w, r)
<1>0. c \in Controller /\ c.drive \in Drive
  BY DEF TypeOK, Controller
<1>1. CASE CommandIgnored(w, r) \/ OrderReplaced(w, r)
  BY <1>1 DEF CommandIgnored, OrderReplaced
<1>2. CASE CommandStop(w, r)
  <2> DEFINE f == FinishTurn(c)
             d == [f EXCEPT !.sync = "None", !.drive = "Stop"]
  <2>1. f \in Controller /\ HearsNoMore(c, f) /\ f.turn = 0 /\ f.running = c.running
    BY <1>0, FinishTurnTyped DEF FinishTurn, Controller
  <2>2. Becomes(r, d) /\ c.running
    BY <1>2 DEF CommandStop, Heeds
  <2> HIDE DEF f, c
  <2>3. /\ d \in Controller /\ HearsNoMore(f, d)
        /\ d.running = f.running /\ d.turn = f.turn /\ d.sync = "None"
    BY <2>1 DEF Controller, SyncKind, Drive, HearsNoMore, HearsLeader
  <2> HIDE DEF d
  <2>4. Parked(d)
    BY <2>1, <2>2, <2>3 DEF Parked, Busy, Turning
  <2>5. Handled(c, d)
    BY <2>1, <2>3, <2>4 DEF Handled, HearsNoMore
  <2> QED
    BY <2>2, <2>3, <2>5 DEF Handles, c
<1>3. CASE CommandHandover(w, r)
  <2>1. Becomes(r, BeginSync(c, "TakeLead", c.drive)) /\ c.running /\ ~ Busy(c)
    BY <1>3 DEF CommandHandover, Heeds
  <2> QED
    BY <1>0, <2>1, BeginSyncTyped, BeginSyncParks DEF Handles, Handled, SyncKind
<1>4. CASE CommandSpeed(w, r)
  <2>1. Becomes(r, BeginSync(c, "Speed", cmd)) /\ c.running /\ ~ Busy(c) /\ cmd \in Drive
    BY <1>4 DEF CommandSpeed, Heeds, Drive
  <2> HIDE DEF cmd
  <2> QED
    BY <1>0, <2>1, BeginSyncTyped, BeginSyncParks DEF Handles, Handled, SyncKind
<1> QED
  BY <1>1, <1>2, <1>3, <1>4 DEF OnCommand

\* on_run() and set_running().
LEMMA RunHandled ==
  ASSUME TypeOK, NEW r \in Robots, OnRun(r)
  PROVE  Handles(r) \/ UNCHANGED <<robot, claimed>>
<1> DEFINE run == Head(runs[r]).run = "START"
<1>1. robot[r] \in Controller /\ run \in BOOLEAN
  BY DEF TypeOK
<1>2. UNCHANGED <<robot, claimed>> \/ Becomes(r, SetRunning(robot[r], run))
  BY DEF OnRun
<1> HIDE DEF run
<1> QED
  BY <1>1, <1>2, SetRunningTyped DEF Handles, Handled

\* on_color(): a card that is taken finds a running robot that is not busy.
LEMMA CardsHandled ==
  ASSUME TypeOK, NEW r \in Robots, NEW cmd \in {"Cruise", "Turbo"},
         CardRejected(r) \/ BlueCard(r) \/ RedCard(r) \/ SpeedCard(r, cmd)
  PROVE  Handles(r)
<1> DEFINE c == robot[r]
           t == Taken(r)
<1>0. c \in Controller /\ c.drive \in Drive
  BY DEF TypeOK, Controller
<1>1. /\ t \in Controller /\ HearsNoMore(c, t)
      /\ Parked(c) => Parked(t)
  BY <1>0, ZeroTimes
  DEF Taken, Controller, HearsNoMore, HearsLeader, Parked, Busy, Turning
<1>2. c.running /\ ~ Busy(c)
  BY DEF CardRejected, BlueCard, RedCard, SpeedCard, Card
<1>3. CASE CardRejected(r)
  BY <1>1, <1>3 DEF CardRejected, Handles, Handled
<1>4. CASE BlueCard(r)
  BY <1>0, <1>2, <1>4, BeginSyncTyped, BeginSyncParks
  DEF BlueCard, Handles, Handled, SyncKind
<1>5. CASE RedCard(r)
  <2> DEFINE d == [t EXCEPT !.drive = "Stop"]
  <2>1. Becomes(r, d)
    BY <1>5 DEF RedCard
  <2> HIDE DEF t
  <2>2. /\ d \in Controller /\ HearsNoMore(t, d)
        /\ Parked(t) => Parked(d)
    BY <1>1 DEF Controller, Drive, HearsNoMore, HearsLeader, Parked, Busy, Turning
  <2> QED
    BY <1>1, <2>1, <2>2 DEF Handles, Handled, HearsNoMore
<1>6. CASE SpeedCard(r, cmd)
  <2>1. Becomes(r, t) \/ Becomes(r, BeginSync(c, "Speed", cmd))
    BY <1>6 DEF SpeedCard
  <2>2. cmd \in Drive
    BY DEF Drive
  <2> QED
    BY <1>0, <1>1, <1>2, <2>1, <2>2, BeginSyncTyped, BeginSyncParks
    DEF Handles, Handled, SyncKind
<1> QED
  BY <1>3, <1>4, <1>5, <1>6

\* apply_parameter(), check_turn_line() and a restart.
LEMMA OthersHandled ==
  ASSUME TypeOK, NEW r \in Robots,
         \/ SpinEnds(r) \/ Crash(r)
         \/ \E role \in Role : SetRole(r, role)
         \/ \E enable \in BOOLEAN : SetEnable(r, enable)
  PROVE  Handles(r)
<1> DEFINE c == robot[r]
<1>0. c \in Controller /\ BootRole[r] \in Role
  BY BusAssumption DEF TypeOK
<1>1. CASE SpinEnds(r)
  BY <1>0, <1>1, FinishTurnTyped DEF SpinEnds, Handles, Handled
<1>2. CASE Crash(r)
  <2>1. ~ HearsLeader(Boot(BootRole[r]))
    BY DEF Boot, HearsLeader
  <2> QED
    BY <1>0, <1>2, <2>1, BootTyped DEF Crash, Handles, Handled, HearsNoMore
<1>3. CASE \E role \in Role : SetRole(r, role)
  <2>1. Becomes(r, BecomeLeader(c)) \/ Becomes(r, BecomeFollower(c))
    BY <1>3 DEF SetRole
  <2> QED
    BY <1>0, <2>1, LeaderTyped, FollowerTyped, RolesKeep, SameMotionParked
    DEF Handles, Handled
<1>4. CASE \E enable \in BOOLEAN : SetEnable(r, enable)
  <2>1. PICK enable \in BOOLEAN : Becomes(r, [c EXCEPT !.enabled = enable])
    BY <1>4 DEF SetEnable
  <2> DEFINE d == [c EXCEPT !.enabled = enable]
  <2>2. /\ d \in Controller /\ HearsNoMore(c, d)
        /\ SameMotion(c, d)
    BY <1>0 DEF Controller, HearsNoMore, HearsLeader, SameMotion
  <2> QED
    BY <2>1, <2>2, SameMotionParked DEF Handles, Handled
<1> QED
  BY <1>1, <1>2, <1>3, <1>4

\* Of all the steps only a heartbeat and the clock are not one robot's handler.
LEMMA StepsHandled ==
  ASSUME TypeOK, Next
  PROVE  \/ \E r \in Robots : Handles(r) \/ OnPeer(r)
         \/ Elapse
         \/ UNCHANGED <<robot, claimed>>
<1>1. CASE Elapse
  BY <1>1
<1>2. CASE (\E run \in RunOrder : PublishRun(run)) \/ BeatLost
  BY <1>2 DEF PublishRun, BeatLost
<1>3. ASSUME NEW r \in Robots, Callback(r)
      PROVE  Handles(r) \/ OnPeer(r) \/ UNCHANGED <<robot, claimed>>
  BY <1>3, TicksHandled, OrdersHandled, RunHandled, OthersHandled
  DEF Callback, RunReplaced
<1>4. ASSUME NEW r \in Robots, Restart(r) \/ Offline(r) \/ Online(r)
      PROVE  UNCHANGED <<robot, claimed>>
  BY <1>4 DEF Restart, Offline, Online
<1>5. ASSUME NEW r \in Robots,
             \/ CardRejected(r) \/ BlueCard(r) \/ RedCard(r)
             \/ \E cmd \in {"Cruise", "Turbo"} : SpeedCard(r, cmd)
      PROVE  Handles(r)
  BY <1>5, CardsHandled
<1> QED
  BY <1>1, <1>2, <1>3, <1>4, <1>5, OthersHandled DEF Next

-----------------------------------------------------------------------------
(* Type correctness.                                                       *)

\* A handler leaves the robot, and what it has claimed, of its type.
LEMMA HandlesTyped ==
  ASSUME TypeOK, NEW r \in Robots, Handles(r)
  PROVE  robot' \in [Robots -> Controller] /\ claimed' \in [Robots -> Nat]
  BY BecomesTyped DEF Handles

\* A timer callback keeps the type of everything it touches.
LEMMA TimerTyped ==
  ASSUME TypeOK, NEW r \in Robots, OnTimer(r)
  PROVE  TypeOK'
<1> DEFINE s == Settled(r, robot[r])
<1>1. Handles(r) /\ beats' \subseteq beats \cup BeatsOf(r, robot'[r])
  BY TicksHandled
<1>2. robot' \in [Robots -> Controller] /\ claimed' \in [Robots -> Nat]
  BY <1>1, HandlesTyped
<1>3. beats' \subseteq Beat
  <2>1. robot'[r].role \in Role /\ robot'[r].term \in Nat
    BY <1>2 DEF Controller
  <2>2. BeatsOf(r, robot'[r]) \subseteq Beat
    BY <2>1 DEF BeatsOf, Beat, TypeOK
  <2> QED
    BY <1>1, <2>2 DEF TypeOK
<1>4. s \in Controller
  BY SettledTyped DEF TypeOK
<1>5. s.drive \in Command /\ FinishSync(s).drive \in Command
  BY <1>4, FinishSyncTyped DEF Controller, Command
<1>6. /\ orders' \in [Pairs -> Seq(Order)]
      /\ history' \in [Robots -> Command \cup {"None"}]
  <2>1. \/ Silent
        \/ Publish(r, s.drive)
        \/ Publish(r, FinishSync(s).drive)
    BY DEF OnTimer, TickDisabled, TickWaiting, TickCountdown, TickFinish, TickDrive,
           Silent, bus, s
  <2> HIDE DEF s
  <2> QED
    BY <1>5, <2>1, PublishTyped, SilentTyped
<1>7. due' = due \ {r} /\ UNCHANGED <<up, online, runs>>
  BY DEF OnTimer, TickDisabled, TickWaiting, TickCountdown, TickFinish, TickDrive,
         Ticked, bus
<1> HIDE DEF s
<1> QED
  BY <1>2, <1>3, <1>6, <1>7 DEF TypeOK

\* The end of a spin and the messages read keep the type.
LEMMA CallbackTyped ==
  ASSUME TypeOK, NEW r \in Robots, Callback(r)
  PROVE  TypeOK'
<1>1. CASE OnTimer(r)
  BY <1>1, TimerTyped
<1>2. CASE SpinEnds(r)
  <2>1. robot' \in [Robots -> Controller] /\ claimed' \in [Robots -> Nat]
    BY <1>2, OthersHandled, HandlesTyped
  <2> QED
    BY <1>2, <2>1 DEF SpinEnds, TypeOK, net, bus
<1>3. CASE OnPeer(r)
  <2>1. PICK b \in beats :
          /\ robot' = [robot EXCEPT ![r].peer =
                         [id |-> b.from, role |-> b.role, term |-> b.term,
                          valid |-> TRUE, age |-> 0]]
          /\ beats' = beats \ {b}
          /\ UNCHANGED <<net, due, orders, history, runs, claimed>>
    BY <1>3 DEF OnPeer
  <2> DEFINE p == [id |-> b.from, role |-> b.role, term |-> b.term,
                   valid |-> TRUE, age |-> 0]
             c == [robot[r] EXCEPT !.peer = p]
  <2>2. p \in Peer
    BY ZeroTimes DEF TypeOK, Beat, Peer
  <2> HIDE DEF p
  <2>3. c \in Controller
    <3>1. robot[r] \in Controller
      BY DEF TypeOK
    <3> QED
      BY <2>2, <3>1 DEF Controller
  <2>4. robot' = [robot EXCEPT ![r] = c]
    BY <2>1 DEF TypeOK, p
  <2> HIDE DEF c
  <2>5. robot' \in [Robots -> Controller]
    BY <2>3, <2>4 DEF TypeOK
  <2> QED
    BY <2>1, <2>5 DEF TypeOK, net
<1>4. CASE OnRun(r)
  <2>1. runs[r] \in Seq(Run) /\ runs[r] # <<>>
    BY <1>4 DEF OnRun, TypeOK
  <2>2. Tail(runs[r]) \in Seq(Run)
    BY <2>1, TailTyped
  <2>3. runs' \in [Robots -> Seq(Run)]
    BY <1>4, <2>2 DEF OnRun, TypeOK
  <2>4. robot' \in [Robots -> Controller] /\ claimed' \in [Robots -> Nat]
    BY <1>4, RunHandled, HandlesTyped DEF TypeOK
  <2>5. Silent \/ Publish(r, "Cruise")
    BY <1>4 DEF OnRun, Silent
  <2>6. "Cruise" \in Command
    BY DEF Command, Drive
  <2>7. /\ orders' \in [Pairs -> Seq(Order)]
        /\ history' \in [Robots -> Command \cup {"None"}]
    BY <2>5, <2>6, PublishTyped, SilentTyped
  <2>8. UNCHANGED <<net, due, beats>>
    BY <1>4 DEF OnRun
  <2> QED
    BY <2>3, <2>4, <2>7, <2>8 DEF TypeOK, net
<1>5. CASE RunReplaced(r)
  <2>1. runs[r] \in Seq(Run) /\ runs[r] # <<>>
    BY <1>5, LenProperties DEF RunReplaced, TypeOK
  <2>2. Tail(runs[r]) \in Seq(Run)
    BY <2>1, TailTyped
  <2> QED
    BY <1>5, <2>2 DEF RunReplaced, TypeOK, net
<1>6. ASSUME NEW w \in Robots, OnCommand(w, r) PROVE TypeOK'
  <2>1. robot' \in [Robots -> Controller] /\ claimed' \in [Robots -> Nat]
    BY <1>6, OrdersHandled, HandlesTyped DEF TypeOK
  <2>2. Receive(w, r)
    BY <1>6 DEF OnCommand, CommandIgnored, CommandStop, CommandHandover,
                CommandSpeed, OrderReplaced
  <2>3. orders' \in [Pairs -> Seq(Order)]
    BY <2>2, ReceiveTyped
  <2>4. UNCHANGED <<net, due, history, beats, runs>>
    BY <2>2 DEF Receive
  <2> QED
    BY <2>1, <2>3, <2>4 DEF TypeOK, net
<1> QED
  BY <1>1, <1>2, <1>3, <1>4, <1>5, <1>6 DEF Callback

\* A card keeps the type: what it publishes is an order.
LEMMA CardTyped ==
  ASSUME TypeOK, NEW r \in Robots, NEW cmd \in {"Cruise", "Turbo"},
         CardRejected(r) \/ BlueCard(r) \/ RedCard(r) \/ SpeedCard(r, cmd)
  PROVE  TypeOK'
<1>1. robot' \in [Robots -> Controller] /\ claimed' \in [Robots -> Nat]
  BY CardsHandled, HandlesTyped
<1>2. Silent \/ \E order \in {"Handover", "Stop", cmd} : Publish(r, order)
  BY DEF CardRejected, BlueCard, RedCard, SpeedCard
<1>3. /\ orders' \in [Pairs -> Seq(Order)]
      /\ history' \in [Robots -> Command \cup {"None"}]
  BY <1>2, PublishTyped, SilentTyped DEF Command, Drive
<1>4. UNCHANGED <<net, due, beats, runs>>
  BY DEF CardRejected, BlueCard, RedCard, SpeedCard, Card
<1> QED
  BY <1>1, <1>3, <1>4 DEF TypeOK, net

\* So do the failures of the robots and of the network.
LEMMA FailureTyped ==
  ASSUME TypeOK, NEW r \in Robots, Crash(r) \/ Restart(r) \/ Offline(r) \/ Online(r)
  PROVE  TypeOK'
<1>1. CASE Crash(r)
  <2>1. robot' \in [Robots -> Controller] /\ claimed' \in [Robots -> Nat]
    BY <1>1, OthersHandled, HandlesTyped
  <2>2. <<>> \in Seq(Order) /\ <<>> \in Seq(Run)
    BY EmptySeq
  <2>3. orders' \in [Pairs -> Seq(Order)] /\ runs' \in [Robots -> Seq(Run)]
    BY <1>1, <2>2 DEF Crash, TypeOK
  <2> QED
    BY <1>1, <2>1, <2>3 DEF Crash, TypeOK
<1>2. CASE Restart(r)
  BY <1>2, RematchedTyped DEF Restart, TypeOK
<1>3. CASE Offline(r)
  BY <1>3 DEF Offline, TypeOK, bus
<1>4. CASE Online(r)
  BY <1>4, RematchedTyped DEF Online, TypeOK
<1> QED
  BY <1>1, <1>2, <1>3, <1>4

\* A period that passes keeps the type: ages stop at their caps.
LEMMA ElapseTyped ==
  ASSUME TypeOK, Elapse
  PROVE  TypeOK'
<1>1. \A r \in Robots : (IF r \in up THEN Older(robot[r]) ELSE robot[r]) \in Controller
  BY OlderTyped DEF TypeOK
<1>2. robot' \in [Robots -> Controller]
  BY <1>1 DEF Elapse
<1>3. orders' \in [Pairs -> Seq(Order)]
  BY AgedTyped DEF Elapse, TypeOK
<1>4. runs' \in [Robots -> Seq(Run)]
  BY AgedTyped DEF Elapse, TypeOK
<1> QED
  BY <1>2, <1>3, <1>4 DEF Elapse, TypeOK, net

\* Every step of the convoy keeps the type.
LEMMA NextTyped ==
  ASSUME TypeOK, Next
  PROVE  TypeOK'
<1>1. ASSUME NEW run \in RunOrder, PublishRun(run) PROVE TypeOK'
  <2>1. [run |-> run, age |-> 0] \in Run
    BY BusAssumption DEF Run
  <2>2. \A r \in Robots : Append(runs[r], [run |-> run, age |-> 0]) \in Seq(Run)
    BY <2>1, AppendTyped DEF TypeOK
  <2>3. runs' \in [Robots -> Seq(Run)]
    BY <1>1, <2>2 DEF PublishRun, TypeOK
  <2> QED
    BY <1>1, <2>3 DEF PublishRun, TypeOK, net
<1>2. ASSUME NEW r \in Robots,
             \/ \E role \in Role : SetRole(r, role)
             \/ \E enable \in BOOLEAN : SetEnable(r, enable)
      PROVE  TypeOK'
  <2>1. robot' \in [Robots -> Controller] /\ claimed' \in [Robots -> Nat]
    BY <1>2, OthersHandled, HandlesTyped
  <2> QED
    BY <1>2, <2>1 DEF SetRole, SetEnable, TypeOK, net, bus
<1>3. ASSUME NEW r \in Robots,
             \/ CardRejected(r) \/ BlueCard(r) \/ RedCard(r)
             \/ \E cmd \in {"Cruise", "Turbo"} : SpeedCard(r, cmd)
      PROVE  TypeOK'
  BY <1>3, CardTyped
<1>4. ASSUME BeatLost PROVE TypeOK'
  BY <1>4 DEF BeatLost, TypeOK, net
<1> QED
  BY <1>1, <1>2, <1>3, <1>4, CallbackTyped, FailureTyped, ElapseTyped DEF Next

\* The variables keep their types: no countdown or age leaves its range, and no
\* topic carries anything but an order of its type.
THEOREM TypeCorrect == Spec => []TypeOK
<1>1. Init => TypeOK
  <2> SUFFICES ASSUME Init PROVE TypeOK
    OBVIOUS
  <2>1. robot \in [Robots -> Controller]
    BY BootTyped, BusAssumption DEF Init
  <2>2. claimed \in [Robots -> Nat]
    BY <2>1 DEF Init, Controller
  <2>3. <<>> \in Seq(Order) /\ <<>> \in Seq(Run)
    BY EmptySeq
  <2> QED
    BY <2>1, <2>2, <2>3 DEF Init, TypeOK
<1>2. TypeOK /\ [Next]_vars => TypeOK'
  BY NextTyped DEF vars, TypeOK
<1> QED
  BY <1>1, <1>2, PTL DEF Spec

-----------------------------------------------------------------------------
(* Robots that do not drive are parked.                                    *)

\* Whatever order, card, heartbeat, parameter, failure or timer comes when, a robot
\* that waits for START, sits out a pause or spins is held off the line.  The
\* invariant is inductive with the type: every handler keeps its own robot parked.
THEOREM ParkedCorrect == Spec => []ParkedUnlessDriving
<1>1. Init => ParkedUnlessDriving
  <2>1. ASSUME Init, NEW r \in Robots PROVE Parked(robot[r])
    <3>1. robot[r] = Boot(BootRole[r]) /\ BootRole[r] \in Role
      BY <2>1, BusAssumption DEF Init
    <3> QED
      BY <3>1, BootTyped
  <2> QED
    BY <2>1 DEF ParkedUnlessDriving
<1>2. ASSUME TypeOK, ParkedUnlessDriving, [Next]_vars
      PROVE  ParkedUnlessDriving'
  <2>1. ASSUME NEW r \in Robots, Handles(r) PROVE ParkedUnlessDriving'
    <3>1. PICK c \in Controller : Becomes(r, c) /\ Handled(robot[r], c)
      BY <2>1 DEF Handles
    <3>2. Parked(c)
      BY <1>2, <3>1 DEF Handled, ParkedUnlessDriving
    <3>3. robot' = [robot EXCEPT ![r] = c]
      BY <3>1 DEF Becomes
    <3>4. ASSUME NEW s \in Robots PROVE Parked(robot'[s])
      <4>1. robot'[s] = IF s = r THEN c ELSE robot[s]
        BY <1>2, <3>3 DEF TypeOK
      <4> QED
        BY <1>2, <3>2, <4>1 DEF ParkedUnlessDriving
    <3> QED
      BY <3>4 DEF ParkedUnlessDriving, Parked, Busy, Turning
  <2>2. ASSUME NEW r \in Robots, OnPeer(r) PROVE ParkedUnlessDriving'
    <3>1. PICK p : robot' = [robot EXCEPT ![r].peer = p]
      BY <2>2 DEF OnPeer
    <3>2. ASSUME NEW s \in Robots PROVE SameMotion(robot[s], robot'[s])
      BY <1>2, <3>1 DEF TypeOK, Controller, SameMotion
    <3>3. \A s \in Robots : Parked(robot'[s])
      BY <1>2, <3>2, SameMotionParked DEF ParkedUnlessDriving
    <3> QED
      BY <3>3 DEF ParkedUnlessDriving, Parked, Busy, Turning
  <2>3. CASE Elapse
    <3>1. ASSUME NEW s \in Robots PROVE Parked(robot'[s])
      <4>1. robot'[s] = Older(robot[s]) \/ robot'[s] = robot[s]
        BY <2>3 DEF Elapse
      <4> QED
        BY <1>2, <4>1, OlderTyped DEF TypeOK, ParkedUnlessDriving
    <3> QED
      BY <3>1 DEF ParkedUnlessDriving, Parked, Busy, Turning
  <2>4. CASE UNCHANGED robot
    BY <1>2, <2>4 DEF ParkedUnlessDriving, Parked, Busy, Turning
  <2> QED
    BY <1>2, <2>1, <2>2, <2>3, <2>4, StepsHandled DEF vars
<1> QED
  BY <1>1, <1>2, TypeCorrect, PTL DEF Spec

-----------------------------------------------------------------------------
(* A robot yields to a real claim only.                                    *)

\* What a robot has led with bounds all that is said of it: its own term, the
\* heartbeats on their way, and the one the other robot has cached.
LeadsAsClaimed(r) == robot[r].role = "Leader" => robot[r].term =< claimed[r]

HearsClaims(r) ==
  HearsLeader(robot[r]) => /\ robot[r].peer.id \in Robots \ {r}
                           /\ robot[r].peer.term =< claimed[robot[r].peer.id]

BeatClaims(b) == b.from # b.to /\ (b.role = "Leader" => b.term =< claimed[b.from])

ClaimsOK ==
  /\ \A r \in Robots : LeadsAsClaimed(r) /\ HearsClaims(r)
  /\ \A b \in beats : BeatClaims(b)

\* A claim is never taken back, and covers the term its robot leads with.
LEMMA BecomesClaims ==
  ASSUME TypeOK, NEW r \in Robots, NEW c \in Controller, Becomes(r, c)
  PROVE  /\ \A s \in Robots : claimed[s] =< claimed'[s]
         /\ c.role = "Leader" => c.term =< claimed'[r]
<1>1. c.term \in Nat /\ \A s \in Robots : claimed[s] \in Nat
  BY DEF Controller, TypeOK
<1>2. CASE c.role = "Leader"
  <2>1. claimed' = [claimed EXCEPT ![r] = Larger(claimed[r], c.term)]
    BY <1>2 DEF Becomes
  <2>2. claimed[r] =< Larger(claimed[r], c.term) /\ c.term =< Larger(claimed[r], c.term)
    BY <1>1 DEF Larger
  <2> QED
    BY <1>1, <2>1, <2>2 DEF TypeOK
<1>3. CASE c.role # "Leader"
  BY <1>1, <1>3 DEF Becomes
<1> QED
  BY <1>2, <1>3

\* The part of ClaimsOK about the robots, for a robot's own handler.
LEMMA HandlesClaims ==
  ASSUME TypeOK, ClaimsOK, NEW r \in Robots, Handles(r)
  PROVE  /\ \A s \in Robots : LeadsAsClaimed(s)' /\ HearsClaims(s)'
         /\ \A s \in Robots : claimed[s] =< claimed'[s]
<1>1. PICK c \in Controller : Becomes(r, c) /\ HearsNoMore(robot[r], c)
  BY DEF Handles, Handled
<1>2. /\ \A s \in Robots : claimed[s] =< claimed'[s]
      /\ c.role = "Leader" => c.term =< claimed'[r]
  BY <1>1, BecomesClaims
<1>3. robot' = [robot EXCEPT ![r] = c]
  BY <1>1 DEF Becomes
<1>4. claimed' \in [Robots -> Nat] /\ claimed \in [Robots -> Nat]
  BY <1>1, BecomesTyped DEF TypeOK
<1>5. ASSUME NEW s \in Robots PROVE LeadsAsClaimed(s)' /\ HearsClaims(s)'
  <2>1. robot'[s] = IF s = r THEN c ELSE robot[s]
    BY <1>3 DEF TypeOK
  <2>2. robot[s].term \in Nat /\ robot[s].peer.term \in Nat
    BY DEF TypeOK, Controller, Peer
  <2>3. /\ LeadsAsClaimed(s) /\ HearsClaims(s)
        /\ HearsNoMore(robot[s], robot'[s])
    BY <1>1, <2>1 DEF ClaimsOK, HearsNoMore
  <2>4. LeadsAsClaimed(s)'
    <3>1. CASE s = r
      BY <1>2, <2>1, <3>1 DEF LeadsAsClaimed
    <3>2. CASE s # r
      BY <1>2, <1>4, <2>1, <2>2, <2>3, <3>2 DEF LeadsAsClaimed
    <3> QED
      BY <3>1, <3>2
  <2>5. HearsClaims(s)'
    <3>1. SUFFICES ASSUME HearsLeader(robot'[s])
                   PROVE  /\ robot'[s].peer.id \in Robots \ {s}
                          /\ robot'[s].peer.term =< claimed'[robot'[s].peer.id]
      BY DEF HearsClaims, HearsLeader
    <3>2. /\ robot'[s].peer.id = robot[s].peer.id
          /\ robot'[s].peer.term = robot[s].peer.term
          /\ HearsLeader(robot[s])
      BY <2>3, <3>1 DEF HearsNoMore
    <3>3. /\ robot[s].peer.id \in Robots \ {s}
          /\ robot[s].peer.term =< claimed[robot[s].peer.id]
      BY <2>3, <3>2 DEF HearsClaims
    <3> QED
      BY <1>2, <1>4, <2>2, <3>2, <3>3
  <2> QED
    BY <2>4, <2>5
<1> QED
  BY <1>2, <1>5

\* The same for a heartbeat, which brings only what the heartbeats claim.
LEMMA OnPeerClaims ==
  ASSUME TypeOK, ClaimsOK, NEW r \in Robots, OnPeer(r)
  PROVE  /\ \A s \in Robots : LeadsAsClaimed(s)' /\ HearsClaims(s)'
         /\ claimed' = claimed
<1>1. PICK b \in beats :
        /\ b.to = r
        /\ robot' = [robot EXCEPT ![r].peer =
                       [id |-> b.from, role |-> b.role, term |-> b.term,
                        valid |-> TRUE, age |-> 0]]
        /\ claimed' = claimed
  BY DEF OnPeer
<1>2. b \in Beat /\ BeatClaims(b)
  BY DEF TypeOK, ClaimsOK
<1>3. ASSUME NEW s \in Robots
      PROVE  /\ robot'[s].role = robot[s].role /\ robot'[s].term = robot[s].term
             /\ s = r => robot'[s].peer = [id |-> b.from, role |-> b.role,
                            term |-> b.term, valid |-> TRUE, age |-> 0]
             /\ s # r => robot'[s] = robot[s]
  <2>1. robot[s] \in Controller
    BY DEF TypeOK
  <2> QED
    BY <1>1, <2>1 DEF TypeOK, Controller
<1>4. ASSUME NEW s \in Robots PROVE LeadsAsClaimed(s)' /\ HearsClaims(s)'
  <2>1. LeadsAsClaimed(s)'
    BY <1>1, <1>3 DEF ClaimsOK, LeadsAsClaimed
  <2>2. CASE s = r
    <3>1. /\ robot'[s].peer.id = b.from /\ robot'[s].peer.term = b.term
          /\ robot'[s].peer.role = b.role
      BY <1>3, <2>2
    <3>2. b.from \in Robots /\ b.from # s
      BY <1>1, <1>2, <2>2 DEF Beat, BeatClaims
    <3> QED
      BY <1>1, <1>2, <2>1, <3>1, <3>2 DEF HearsClaims, HearsLeader, BeatClaims
  <2>3. CASE s # r
    BY <1>1, <1>3, <2>1, <2>3 DEF ClaimsOK, HearsClaims, HearsLeader
  <2> QED
    BY <2>2, <2>3
<1> QED
  BY <1>1, <1>4

\* And for a period that passes.
LEMMA ElapseClaims ==
  ASSUME TypeOK, ClaimsOK, Elapse
  PROVE  /\ \A s \in Robots : LeadsAsClaimed(s)' /\ HearsClaims(s)'
         /\ claimed' = claimed
<1>1. claimed' = claimed
  BY DEF Elapse
<1>2. ASSUME NEW s \in Robots PROVE LeadsAsClaimed(s)' /\ HearsClaims(s)'
  <2>1. robot'[s] = Older(robot[s]) \/ robot'[s] = robot[s]
    BY DEF Elapse
  <2>2. /\ HearsNoMore(robot[s], robot'[s])
        /\ robot'[s].role = robot[s].role /\ robot'[s].term = robot[s].term
    BY <2>1, OlderTyped DEF TypeOK, HearsNoMore
  <2> QED
    BY <1>1, <2>2 DEF ClaimsOK, LeadsAsClaimed, HearsClaims, HearsNoMore, HearsLeader
<1> QED
  BY <1>1, <1>2

\* Only a timer sends heartbeats, its robot's own.
LEMMA BeatsKept ==
  ASSUME TypeOK, Next
  PROVE  \/ beats' \subseteq beats
         \/ \E r \in Robots : beats' \subseteq beats \cup BeatsOf(r, robot'[r])
<1>1. ASSUME NEW r \in Robots, Callback(r), ~ OnTimer(r)
      PROVE  beats' \subseteq beats
  BY <1>1 DEF Callback, SpinEnds, OnPeer, OnRun, RunReplaced, OnCommand, CommandIgnored,
              CommandStop, CommandHandover, CommandSpeed, OrderReplaced, Receive, bus
<1>2. ASSUME NEW r \in Robots,
             \/ CardRejected(r) \/ BlueCard(r) \/ RedCard(r)
             \/ \E cmd \in {"Cruise", "Turbo"} : SpeedCard(r, cmd)
             \/ \E role \in Role : SetRole(r, role)
             \/ \E enable \in BOOLEAN : SetEnable(r, enable)
      PROVE  beats' \subseteq beats
  BY <1>2 DEF CardRejected, BlueCard, RedCard, SpeedCard, Card, SetRole, SetEnable, bus
<1>3. ASSUME NEW r \in Robots, Crash(r) \/ Restart(r) \/ Offline(r) \/ Online(r)
      PROVE  beats' \subseteq beats
  BY <1>3 DEF Crash, Restart, Offline, Online, bus
<1>4. ASSUME (\E run \in RunOrder : PublishRun(run)) \/ BeatLost \/ Elapse
      PROVE  beats' \subseteq beats
  BY <1>4 DEF PublishRun, BeatLost, Elapse
<1> QED
  BY <1>1, <1>2, <1>3, <1>4, TicksHandled DEF Next, Callback

\* Every step keeps the claims honest.
LEMMA NextClaims ==
  ASSUME TypeOK, ClaimsOK, Next
  PROVE  ClaimsOK'
<1>1. /\ \A s \in Robots : LeadsAsClaimed(s)' /\ HearsClaims(s)'
      /\ \A s \in Robots : claimed[s] =< claimed'[s]
  <2>1. CASE UNCHANGED <<robot, claimed>>
    BY <2>1 DEF ClaimsOK, TypeOK, LeadsAsClaimed, HearsClaims, HearsLeader
  <2>2. \A s \in Robots : claimed[s] =< claimed[s]
    BY DEF TypeOK
  <2> QED
    BY <2>1, <2>2, StepsHandled, HandlesClaims, OnPeerClaims, ElapseClaims
<1>2. ASSUME NEW b \in beats' PROVE BeatClaims(b)'
  <2>1. CASE b \in beats
    <3>1. b \in Beat /\ BeatClaims(b)
      BY <2>1 DEF TypeOK, ClaimsOK
    <3>2. /\ b.term \in Nat /\ b.from \in Robots
          /\ claimed[b.from] \in Nat /\ claimed'[b.from] \in Nat
      BY <3>1, NextTyped DEF Beat, TypeOK
    <3> QED
      BY <1>1, <3>1, <3>2 DEF BeatClaims
  <2>2. CASE \E r \in Robots : b \in BeatsOf(r, robot'[r])
    <3>1. PICK r \in Robots : b \in BeatsOf(r, robot'[r])
      BY <2>2
    <3>2. /\ b.from = r /\ b.to # r
          /\ b.role = robot'[r].role /\ b.term = robot'[r].term
      BY <3>1 DEF BeatsOf
    <3> QED
      BY <1>1, <3>2 DEF BeatClaims, LeadsAsClaimed
  <2> QED
    BY <2>1, <2>2, BeatsKept
<1> QED
  BY <1>1, <1>2 DEF ClaimsOK

\* A timer takes the lead from a robot that neither pauses nor spins only on a
\* heartbeat of a leader whose term, or id, wins.
LEMMA TimerYields ==
  ASSUME TypeOK, NEW r \in Robots, OnTimer(r), ~ Busy(robot[r]),
         robot[r].role = "Leader", robot'[r].role = "Follower"
  PROVE  /\ HearsLeader(robot[r])
         /\ \/ robot[r].term < robot[r].peer.term
            \/ robot[r].term = robot[r].peer.term /\ r > robot[r].peer.id
<1> DEFINE c == robot[r]
           h == Heard(c)
           s == Settled(r, c)
<1>1. c \in Controller /\ c.sync = "None"
  BY DEF TypeOK, Busy
<1>2. h \in Controller /\ HearsNoMore(c, h) /\ h.role = c.role /\ h.term = c.term
  BY <1>1, HeardTyped
<1>3. s \in Controller
  BY <1>1, SettledTyped
<1>4. s = ResolveRoles(r, h)
  BY <1>2 DEF Settled, MaybeElect, Elects
<1>5. robot'[r].role = c.role \/ robot'[r].role = s.role
  <2>1. ASSUME NEW d \in Controller, NEW e \in StepTurn(d), Becomes(r, e)
        PROVE  robot'[r].role = d.role
    BY <2>1, StepTurnTyped DEF Becomes, TypeOK
  <2>2. CASE TickDisabled(r)
    BY <1>1, <2>1, <2>2 DEF TickDisabled
  <2>3. CASE TickWaiting(r)
    <3>1. [s EXCEPT !.hold = TRUE] \in Controller
          /\ [s EXCEPT !.hold = TRUE].role = s.role
      BY <1>3 DEF Controller
    <3> QED
      BY <2>1, <2>3, <3>1 DEF TickWaiting, Ticked
  <2>4. CASE TickDrive(r)
    BY <1>3, <2>1, <2>4, SteerTyped DEF TickDrive, Ticked
  <2> QED
    BY <1>1, <2>2, <2>3, <2>4 DEF OnTimer, TickCountdown, TickFinish
<1>6. Loses(r, h)
  BY <1>2, <1>4, <1>5 DEF ResolveRoles
<1> HIDE DEF h
<1> QED
  BY <1>2, <1>6 DEF Loses, HearsNoMore

\* What is said of a robot's lead, by itself, by the heartbeats and by the robot that
\* heard them, it has really claimed: resolve_roles() never compares with a made-up
\* term.  The invariant that Yields and the refinement of Lead rest on.
THEOREM ClaimsCorrect == Spec => []ClaimsOK
<1>1. Init => ClaimsOK
  <2>1. ASSUME Init, NEW r \in Robots PROVE LeadsAsClaimed(r) /\ HearsClaims(r)
    <3>1. robot[r] = Boot(BootRole[r]) /\ claimed[r] = robot[r].term
      BY <2>1 DEF Init
    <3>2. robot[r].term \in Nat /\ ~ HearsLeader(robot[r])
      BY <3>1 DEF Boot, HearsLeader
    <3> QED
      BY <3>1, <3>2 DEF LeadsAsClaimed, HearsClaims
  <2> QED
    BY <2>1 DEF ClaimsOK, Init
<1>2. TypeOK /\ ClaimsOK /\ [Next]_vars => ClaimsOK'
  <2>1. ASSUME ClaimsOK, UNCHANGED vars PROVE ClaimsOK'
    BY <2>1 DEF vars, ClaimsOK, LeadsAsClaimed, HearsClaims, HearsLeader, BeatClaims
  <2> QED
    BY <2>1, NextClaims
<1> QED
  BY <1>1, <1>2, TypeCorrect, PTL DEF Spec

\* A robot gives the lead up on a heartbeat only to a robot that has really led
\* with a term, or an id, that outranks its own: a stale, delayed or lost
\* heartbeat never makes resolve_roles() yield to a claim nobody made.
THEOREM Yields == Spec => YieldsToRealClaim
<1> DEFINE Yield(r) ==
      OnTimer(r) /\ ~ Busy(robot[r])
        /\ robot[r].role = "Leader" /\ robot'[r].role = "Follower"
      => \E s \in Robots \ {r} : Outranks(s, robot[r].term, r)
<1>1. ASSUME TypeOK, ClaimsOK, NEW r \in Robots PROVE Yield(r)
  <2>1. SUFFICES ASSUME OnTimer(r), ~ Busy(robot[r]),
                        robot[r].role = "Leader", robot'[r].role = "Follower"
                 PROVE  \E s \in Robots \ {r} : Outranks(s, robot[r].term, r)
    OBVIOUS
  <2> DEFINE s == robot[r].peer.id
  <2>2. /\ HearsLeader(robot[r])
        /\ \/ robot[r].term < robot[r].peer.term
           \/ robot[r].term = robot[r].peer.term /\ r > s
    BY <1>1, <2>1, TimerYields
  <2>3. s \in Robots \ {r} /\ robot[r].peer.term =< claimed[s]
    BY <1>1, <2>2 DEF ClaimsOK, HearsClaims
  <2>4. /\ robot[r].term \in Nat /\ robot[r].peer.term \in Nat /\ claimed[s] \in Nat
        /\ r \in Nat /\ s \in Nat
    BY <1>1, <2>3, RobotsAssumption DEF TypeOK, Controller, Peer
  <2>5. Outranks(s, robot[r].term, r)
    BY <2>2, <2>3, <2>4 DEF Outranks
  <2> QED
    BY <2>3, <2>5
<1>2. TypeOK /\ ClaimsOK => [\A r \in Robots : Yield(r)]_vars
  BY <1>1
<1> QED
  BY <1>2, TypeCorrect, ClaimsCorrect, PTL DEF Spec, YieldsToRealClaim
=============================================================================
