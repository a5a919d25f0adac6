------------------------------ MODULE LeadProofs ------------------------------
(***************************************************************************)
(* The proof that the convoy implements Lead: every step of every robot,   *)
(* of the bus and of the failures is, seen by the roles, the terms and the *)
(* handovers alone, a step of Lead or none.                                *)
(***************************************************************************)
EXTENDS ConvoyProofs

-----------------------------------------------------------------------------
(* What the controller's methods do to the lead.                           *)

\* The members of a controller that Lead sees.
SameLead(c, d) == d.role = c.role /\ d.term = c.term /\ d.sync = c.sync

\* Leads on with a larger term, or follows with the one it has.
Promoted(c, d) == d.role = "Leader" /\ d.term > c.term
Demoted(c, d)  == d.role = "Follower" /\ d.term = c.term

\* become_leader() and become_follower() do what their names say, and no more.
LEMMA RolesChange ==
  ASSUME NEW c \in Controller
  PROVE  /\ Promoted(c, BecomeLeader(c)) /\ BecomeLeader(c).sync = c.sync
         /\ Demoted(c, BecomeFollower(c)) /\ BecomeFollower(c).sync = c.sync
<1>1. c.term \in Nat /\ c.peer.term \in Nat
  BY DEF Controller, Peer
<1>2. Larger(c.term, c.peer.term) + 1 > c.term
  BY <1>1 DEF Larger
<1> QED
  BY <1>2 DEF BecomeLeader, BecomeFollower, Promoted, Demoted, Controller

\* The methods that steer, hold, spin and look at the encoders leave the lead alone.
LEMMA MotionKeepsLead ==
  ASSUME NEW c \in Controller
  PROVE  /\ SameLead(c, Steer(c))
         /\ SameLead(c, BeginTurnaround(c))
         /\ SameLead(c, FinishTurn(c))
         /\ \A d \in StepTurn(c) : SameLead(c, d)
<1>1. SameLead(c, FinishTurn(c))
  BY DEF FinishTurn, SameLead, Controller
<1>2. SameLead(c, BeginTurnaround(c))
  BY BeginTurnaroundTyped DEF SameLead
<1>3. SameLead(c, Steer(c))
  BY ApplyMotionTyped DEF Steer, SameLead
<1> QED
  BY <1>1, <1>2, <1>3 DEF StepTurn, SameLead

\* What tick() settles: a robot in a pause or a spin keeps its role; else it keeps
\* it, is elected, or loses to the leader it hears.  It is never elected and beaten
\* in one callback, for it is elected only when it hears no leader.
LEMMA SettledMoves ==
  ASSUME NEW r \in Robots, NEW c \in Controller
  PROVE  /\ Settled(r, c).sync = c.sync
         /\ \/ SameLead(c, Settled(r, c))
            \/ /\ ~ Busy(c) /\ c.role = "Follower"
               /\ Promoted(c, Settled(r, c))
            \/ /\ ~ Busy(c) /\ c.role = "Leader" /\ HearsLeader(c)
               /\ \/ c.term < c.peer.term
                  \/ c.term = c.peer.term /\ r > c.peer.id
               /\ Demoted(c, Settled(r, c))
<1> DEFINE h == Heard(c)
           s == Settled(r, c)
<1>1. /\ h \in Controller /\ SameMotion(c, h) /\ HearsNoMore(c, h)
      /\ h.role = c.role /\ h.term = c.term
  BY HeardTyped
<1>2. SameLead(c, h)
  BY <1>1 DEF SameLead, SameMotion
<1> HIDE DEF h
<1>3. s.sync = c.sync
  BY SettledTyped DEF SameMotion
<1>4. CASE Busy(c)
  BY <1>2, <1>3, <1>4 DEF Settled, h
<1>5. CASE ~ Busy(c) /\ Elects(h)
  <2>1. /\ BecomeLeader(h) \in Controller /\ HearsNoMore(h, BecomeLeader(h))
        /\ Promoted(h, BecomeLeader(h)) /\ ~ HearsLeader(h)
    BY <1>1, <1>5, LeaderTyped, RolesKeep, RolesChange DEF Elects
  <2>2. ~ Loses(r, BecomeLeader(h))
    BY <2>1 DEF Loses, HearsNoMore
  <2>3. s = BecomeLeader(h)
    BY <1>5, <2>2 DEF Settled, MaybeElect, ResolveRoles, h
  <2>4. c.role = "Follower"
    BY <1>1, <1>5 DEF Elects
  <2>5. Promoted(c, s)
    BY <1>1, <2>1, <2>3 DEF Promoted
  <2> QED
    BY <1>3, <1>5, <2>4, <2>5
<1>6. CASE ~ Busy(c) /\ ~ Elects(h) /\ Loses(r, h)
  <2>1. s = BecomeFollower(h)
    BY <1>6 DEF Settled, MaybeElect, ResolveRoles, h
  <2>2. Demoted(c, s)
    BY <1>1, <2>1, RolesChange DEF Demoted
  <2> QED
    BY <1>1, <1>3, <1>6, <2>2 DEF Loses, HearsNoMore
<1>7. CASE ~ Busy(c) /\ ~ Elects(h) /\ ~ Loses(r, h)
  <2>1. s = h
    BY <1>7 DEF Settled, MaybeElect, ResolveRoles, h
  <2> QED
    BY <1>2, <1>3, <2>1
<1> QED
  BY <1>4, <1>5, <1>6, <1>7

\* finish_sync() ends the part the robot had in a handover, and nothing but that.
LEMMA FinishSyncMoves ==
  ASSUME NEW c \in Controller, c.sync # "None"
  PROVE  /\ FinishSync(c).sync = "None"
         /\ c.sync = "TakeLead" => Promoted(c, FinishSync(c))
         /\ c.sync = "GiveLead" => Demoted(c, FinishSync(c))
         /\ c.sync = "Speed" => FinishSync(c).role = c.role /\ FinishSync(c).term = c.term
<1> DEFINE done == [c EXCEPT !.sync = "None"]
           led  == BecomeLeader(done)
           lead == [led EXCEPT !.drive = c.syncCmd]
           give == BecomeFollower(done)
<1>1. done \in Controller /\ done.role = c.role /\ done.term = c.term
  BY DEF Controller, SyncKind
<1>2. led \in Controller /\ Promoted(done, led) /\ c.syncCmd \in Drive
  BY <1>1, LeaderTyped, RolesChange DEF Controller
<1>3. give \in Controller /\ Demoted(done, give)
  BY <1>1, FollowerTyped, RolesChange
<1>4. FinishSync(c).sync = "None"
  BY FinishSyncTyped
<1>5. CASE c.sync = "TakeLead"
  <2>1. FinishSync(c) = BeginTurnaround(lead)
    BY <1>5 DEF FinishSync
  <2> HIDE DEF done, led
  <2>2. lead \in Controller /\ Promoted(done, lead)
    BY <1>2 DEF Controller, Promoted
  <2> HIDE DEF lead
  <2> QED
    BY <1>1, <1>4, <1>5, <2>1, <2>2, MotionKeepsLead DEF Promoted, SameLead
<1>6. CASE c.sync = "GiveLead"
  <2>1. FinishSync(c) = BeginTurnaround(give)
    BY <1>6 DEF FinishSync
  <2> HIDE DEF done, give
  <2> QED
    BY <1>1, <1>3, <1>4, <1>6, <2>1, MotionKeepsLead DEF Demoted, SameLead
<1>7. CASE c.sync = "Speed"
  <2>1. FinishSync(c) = [done EXCEPT !.drive = c.syncCmd]
    BY <1>7 DEF FinishSync
  <2> QED
    BY <1>1, <1>4, <1>7, <2>1 DEF Controller
<1> QED
  BY <1>4, <1>5, <1>6, <1>7 DEF Controller, SyncKind

-----------------------------------------------------------------------------
(* A step of one robot, as Lead sees it.                                   *)

\* One robot becomes d: the three functions change at that robot, to what d says.
LEMMA BecomesView ==
  ASSUME TypeOK, NEW r \in Robots, NEW d \in Controller, Becomes(r, d)
  PROVE  /\ RoleOf' = [RoleOf EXCEPT ![r] = d.role]
         /\ TermOf' = [TermOf EXCEPT ![r] = d.term]
         /\ PartOf' = [PartOf EXCEPT ![r] = Part(d.sync)]
         /\ claimed' = IF d.role = "Leader"
                       THEN [claimed EXCEPT ![r] = Larger(claimed[r], d.term)]
                       ELSE claimed
         /\ robot'[r] = d
<1>1. \A s \in Robots : robot'[s] = IF s = r THEN d ELSE robot[s]
  BY DEF Becomes, TypeOK
<1>2. RoleOf' = [RoleOf EXCEPT ![r] = d.role]
  BY <1>1 DEF RoleOf
<1>3. TermOf' = [TermOf EXCEPT ![r] = d.term]
  BY <1>1 DEF TermOf
<1>4. PartOf' = [PartOf EXCEPT ![r] = Part(d.sync)]
  <2>1. PartOf' = [s \in Robots |-> Part(robot'[s].sync)]
    BY DEF PartOf, Part
  <2>2. \A s \in Robots :
          Part(robot'[s].sync) = IF s = r THEN Part(d.sync) ELSE Part(robot[s].sync)
    BY <1>1
  <2> QED
    BY <2>1, <2>2 DEF PartOf
<1> QED
  BY <1>1, <1>2, <1>3, <1>4 DEF Becomes

\* Writing to a function what it holds already leaves it as it is.
LEMMA Rewritten ==
  ASSUME NEW f, f = [s \in Robots |-> f[s]], NEW r \in Robots
  PROVE  [f EXCEPT ![r] = f[r]] = f
  OBVIOUS

\* The three functions are functions of the robots.
LEMMA ViewFunctions ==
  /\ RoleOf = [s \in Robots |-> RoleOf[s]]
  /\ TermOf = [s \in Robots |-> TermOf[s]]
  /\ PartOf = [s \in Robots |-> PartOf[s]]
  BY DEF RoleOf, TermOf, PartOf

\* A robot that keeps its role and its term claims nothing new.
LEMMA KeepsView ==
  ASSUME TypeOK, ClaimsOK, NEW r \in Robots, NEW d \in Controller, Becomes(r, d),
         d.role = robot[r].role, d.term = robot[r].term
  PROVE  /\ UNCHANGED <<RoleOf, TermOf, claimed>>
         /\ PartOf' = [PartOf EXCEPT ![r] = Part(d.sync)]
<1>1. robot[r].role = "Leader" => robot[r].term =< claimed[r]
  BY DEF ClaimsOK, LeadsAsClaimed
<1>2. robot[r].term \in Nat /\ claimed[r] \in Nat
  BY DEF TypeOK, Controller
<1>3. d.role = "Leader" => Larger(claimed[r], d.term) = claimed[r]
  BY <1>1, <1>2 DEF Larger
<1>4. claimed' = claimed
  BY <1>3, BecomesView DEF TypeOK
<1>5. RoleOf[r] = d.role /\ TermOf[r] = d.term
  BY DEF RoleOf, TermOf
<1>6. RoleOf' = RoleOf /\ TermOf' = TermOf
  BY <1>5, BecomesView, Rewritten, ViewFunctions
<1> QED
  BY <1>4, <1>6, BecomesView

\* A robot that is promoted leads, and one that is demoted follows, in Lead's terms.
LEMMA LeadsView ==
  ASSUME TypeOK, NEW r \in Robots, NEW d \in Controller, Becomes(r, d),
         Promoted(robot[r], d)
  PROVE  Leadership!Leads(r)
<1>1. TermOf[r] = robot[r].term /\ (TermOf')[r] = d.term
  <2>1. robot'[r] = d
    BY BecomesView
  <2> QED
    BY <2>1 DEF TermOf
<1>2. d.role = "Leader" /\ d.term > robot[r].term /\ d.term \in Nat
  BY DEF Promoted, Controller
<1>3. claimed' = [claimed EXCEPT ![r] = IF claimed[r] < d.term THEN d.term ELSE claimed[r]]
  BY <1>2, BecomesView DEF Larger
<1>4. /\ RoleOf' = [RoleOf EXCEPT ![r] = "Leader"]
      /\ TermOf' = [TermOf EXCEPT ![r] = (TermOf')[r]]
  BY <1>1, <1>2, BecomesView
<1> QED
  BY <1>1, <1>2, <1>3, <1>4 DEF Leadership!Leads

\* The other way round: a demoted robot keeps its term and claims nothing.
LEMMA FollowsView ==
  ASSUME TypeOK, NEW r \in Robots, NEW d \in Controller, Becomes(r, d),
         Demoted(robot[r], d)
  PROVE  Leadership!Follows(r)
<1>1. TermOf[r] = d.term /\ d.role = "Follower"
  BY DEF TermOf, Demoted
<1>2. TermOf' = TermOf
  BY <1>1, BecomesView, Rewritten, ViewFunctions
<1> QED
  BY <1>1, <1>2, BecomesView DEF Leadership!Follows

-----------------------------------------------------------------------------
(* The steps of the robots.                                                *)

\* What one callback of the timer may do to the lead of robot c.
Moved(r, c, d) ==
  \/ /\ d.role = c.role /\ d.term = c.term
     /\ d.sync = c.sync \/ (c.sync = "Speed" /\ d.sync = "None")
  \/ /\ c.sync = "None" /\ d.sync = "None" /\ c.role = "Follower"
     /\ Promoted(c, d)
  \/ /\ c.sync = "None" /\ d.sync = "None" /\ c.role = "Leader" /\ HearsLeader(c)
     /\ \/ c.term < c.peer.term
        \/ c.term = c.peer.term /\ r > c.peer.id
     /\ Demoted(c, d)
  \/ c.sync = "TakeLead" /\ d.sync = "None" /\ Promoted(c, d)
  \/ c.sync = "GiveLead" /\ d.sync = "None" /\ Demoted(c, d)

\* on_timer(), case by case: elected, beaten, at the end of a handover's pause, or
\* nothing of the kind.
LEMMA TimerMoves ==
  ASSUME TypeOK, NEW r \in Robots, OnTimer(r)
  PROVE  \E d \in Controller : Becomes(r, d) /\ Moved(r, robot[r], d)
<1> DEFINE c == robot[r]
           s == Settled(r, c)
<1>1. c \in Controller /\ s \in Controller /\ c.sync \in SyncKind
  BY SettledTyped DEF TypeOK, Controller
<1>2. /\ s.sync = c.sync
      /\ \/ SameLead(c, s)
         \/ ~ Busy(c) /\ c.role = "Follower" /\ Promoted(c, s)
         \/ /\ ~ Busy(c) /\ c.role = "Leader" /\ HearsLeader(c)
            /\ \/ c.term < c.peer.term
               \/ c.term = c.peer.term /\ r > c.peer.id
            /\ Demoted(c, s)
  BY <1>1, SettledMoves
<1> HIDE DEF s, c
<1>3. Moved(r, c, s)
  BY <1>2 DEF Moved, SameLead, Busy
<1>4. ASSUME NEW d \in Controller, NEW e \in Controller, SameLead(d, e), Moved(r, c, d)
      PROVE  Moved(r, c, e)
  BY <1>4 DEF Moved, SameLead, Promoted, Demoted
<1>5. ASSUME NEW d \in Controller, Moved(r, c, d), \E e \in StepTurn(d) : Becomes(r, e)
      PROVE  \E e \in Controller : Becomes(r, e) /\ Moved(r, c, e)
  <2>1. PICK e \in StepTurn(d) : Becomes(r, e)
    BY <1>5
  <2>2. e \in Controller /\ SameLead(d, e)
    BY <2>1, StepTurnTyped, MotionKeepsLead
  <2> QED
    BY <1>4, <1>5, <2>1, <2>2
<1>6. CASE TickDisabled(r)
  <2>1. Moved(r, c, c)
    BY DEF Moved
  <2> QED
    BY <1>1, <1>5, <1>6, <2>1 DEF TickDisabled, c
<1>7. CASE TickWaiting(r)
  <2> DEFINE w == [s EXCEPT !.hold = TRUE]
  <2>1. w \in Controller /\ SameLead(s, w)
    BY <1>1 DEF Controller, SameLead
  <2>2. \E e \in StepTurn(w) : Becomes(r, e)
    BY <1>7 DEF TickWaiting, Ticked, s, c
  <2> HIDE DEF w
  <2> QED
    BY <1>1, <1>3, <1>4, <1>5, <2>1, <2>2 DEF c
<1>8. CASE TickCountdown(r)
  <2>1. \E e \in StepTurn(s) : Becomes(r, e)
    BY <1>8 DEF TickCountdown, Ticked, s, c
  <2> QED
    BY <1>1, <1>3, <1>5, <2>1 DEF c
<1>9. CASE TickFinish(r)
  <2> DEFINE f == FinishSync(s)
  <2>1. c.sync # "None" /\ \E e \in StepTurn(Steer(f)) : Becomes(r, e)
    BY <1>9 DEF TickFinish, Ticked, s, c
  <2>2. /\ f \in Controller /\ f.sync = "None"
        /\ s.sync = "TakeLead" => Promoted(s, f)
        /\ s.sync = "GiveLead" => Demoted(s, f)
        /\ s.sync = "Speed" => f.role = s.role /\ f.term = s.term
    BY <1>1, <1>2, <2>1, FinishSyncTyped, FinishSyncMoves
  <2>3. Steer(f) \in Controller /\ SameLead(f, Steer(f))
    BY <2>2, SteerTyped, MotionKeepsLead
  <2> HIDE DEF f
  <2>4. SameLead(c, s)
    BY <1>2, <2>1 DEF Busy
  <2>5. Moved(r, c, f)
    BY <1>1, <2>1, <2>2, <2>4 DEF Moved, SameLead, Promoted, Demoted, SyncKind
  <2> QED
    BY <1>4, <1>5, <2>1, <2>2, <2>3, <2>5 DEF c
<1>10. CASE TickDrive(r)
  <2>1. \E e \in StepTurn(Steer(s)) : Becomes(r, e)
    BY <1>10 DEF TickDrive, Ticked, s, c
  <2>2. Steer(s) \in Controller /\ SameLead(s, Steer(s))
    BY <1>1, SteerTyped, MotionKeepsLead
  <2> QED
    BY <1>1, <1>3, <1>4, <1>5, <2>1, <2>2 DEF c
<1> QED
  BY <1>6, <1>7, <1>8, <1>9, <1>10 DEF OnTimer

\* A callback of the timer is one of Lead's moves.
LEMMA TimerImplements ==
  ASSUME TypeOK, ClaimsOK, NEW r \in Robots, OnTimer(r)
  PROVE  Leadership!Move(r)
<1>1. r \in due /\ due' = due \ {r} /\ up' = up
  BY DEF OnTimer, TickDisabled, TickWaiting, TickCountdown, TickFinish, TickDrive, Ticked
<1>2. PICK d \in Controller : Becomes(r, d) /\ Moved(r, robot[r], d)
  BY TimerMoves
<1> DEFINE c == robot[r]
<1>3. /\ c \in Controller
      /\ RoleOf[r] = c.role /\ TermOf[r] = c.term /\ PartOf[r] = Part(c.sync)
  BY DEF TypeOK, RoleOf, TermOf, PartOf
<1>4. PartOf' = [PartOf EXCEPT ![r] = Part(d.sync)]
  BY <1>2, BecomesView
<1>5. Part(d.sync) = Part(c.sync) => PartOf' = PartOf
  BY <1>3, <1>4, Rewritten, ViewFunctions
<1> HIDE DEF c
<1>6. CASE /\ d.role = c.role /\ d.term = c.term
           /\ d.sync = c.sync \/ (c.sync = "Speed" /\ d.sync = "None")
  <2>1. UNCHANGED <<RoleOf, TermOf, claimed>>
    BY <1>2, <1>6, KeepsView DEF c
  <2>2. Part(d.sync) = Part(c.sync)
    BY <1>6 DEF Part
  <2> QED
    BY <1>1, <1>5, <2>1, <2>2 DEF Leadership!Move, Leadership!lead
<1>7. CASE c.sync = "None" /\ d.sync = "None" /\ c.role = "Follower" /\ Promoted(c, d)
  <2>1. Leadership!Leads(r)
    BY <1>2, <1>7, LeadsView DEF c
  <2>2. PartOf[r] = "None" /\ PartOf' = PartOf
    BY <1>3, <1>5, <1>7 DEF Part
  <2> QED
    BY <1>1, <1>3, <1>7, <2>1, <2>2 DEF Leadership!Move, Leadership!Claim
<1>8. CASE /\ c.sync = "None" /\ d.sync = "None" /\ c.role = "Leader" /\ HearsLeader(c)
           /\ \/ c.term < c.peer.term
              \/ c.term = c.peer.term /\ r > c.peer.id
           /\ Demoted(c, d)
  <2> DEFINE s == c.peer.id
  <2>1. Leadership!Follows(r)
    BY <1>2, <1>8, FollowsView DEF c
  <2>2. PartOf[r] = "None" /\ PartOf' = PartOf
    BY <1>3, <1>5, <1>8 DEF Part
  <2>3. s \in Robots \ {r} /\ c.peer.term =< claimed[s]
    BY <1>8 DEF ClaimsOK, HearsClaims, c
  <2>4. /\ c.term \in Nat /\ c.peer.term \in Nat /\ claimed[s] \in Nat
        /\ r \in Nat /\ s \in Nat
    BY <1>3, <2>3, RobotsAssumption DEF TypeOK, Controller, Peer
  <2>5. Leadership!Outranks(s, TermOf[r], r)
    BY <1>3, <1>8, <2>3, <2>4 DEF Leadership!Outranks
  <2> QED
    BY <1>1, <1>3, <1>8, <2>1, <2>2, <2>3, <2>5 DEF Leadership!Move, Leadership!Yield
<1>9. CASE c.sync = "TakeLead" /\ d.sync = "None" /\ Promoted(c, d)
  <2>1. Leadership!Leads(r)
    BY <1>2, <1>9, LeadsView DEF c
  <2>2. PartOf[r] = "TakeLead" /\ PartOf' = [PartOf EXCEPT ![r] = "None"]
    BY <1>3, <1>4, <1>9 DEF Part
  <2> QED
    BY <1>1, <2>1, <2>2 DEF Leadership!Move, Leadership!HandOver
<1>10. CASE c.sync = "GiveLead" /\ d.sync = "None" /\ Demoted(c, d)
  <2>1. Leadership!Follows(r)
    BY <1>2, <1>10, FollowsView DEF c
  <2>2. PartOf[r] = "GiveLead" /\ PartOf' = [PartOf EXCEPT ![r] = "None"]
    BY <1>3, <1>4, <1>10 DEF Part
  <2> QED
    BY <1>1, <2>1, <2>2 DEF Leadership!Move, Leadership!HandOver
<1> QED
  BY <1>2, <1>6, <1>7, <1>8, <1>9, <1>10 DEF Moved, c

\* A handler that keeps role and term and does not touch the handover, or drops it,
\* is a step of Lead or none.
LEMMA KeepsImplements ==
  ASSUME TypeOK, ClaimsOK, NEW r \in Robots, NEW d \in Controller, Becomes(r, d),
         d.role = robot[r].role, d.term = robot[r].term,
         Part(d.sync) \in {"None", Part(robot[r].sync)}, UNCHANGED <<up, due>>
  PROVE  Leadership!CallOff(r) \/ UNCHANGED Leadership!vars
<1>1. UNCHANGED <<RoleOf, TermOf, claimed>> /\ PartOf' = [PartOf EXCEPT ![r] = Part(d.sync)]
  BY KeepsView
<1>2. CASE Part(d.sync) = "None"
  BY <1>1, <1>2 DEF Leadership!CallOff
<1>3. CASE Part(d.sync) = Part(robot[r].sync)
  <2>1. PartOf[r] = Part(d.sync)
    BY <1>3 DEF PartOf
  <2>2. PartOf' = PartOf
    BY <1>1, <2>1, Rewritten, ViewFunctions
  <2> QED
    BY <1>1, <2>2 DEF Leadership!vars, Leadership!lead
<1> QED
  BY <1>2, <1>3

\* begin_sync() for a handover is the agreement on one: the leader's part is to give
\* the lead, the follower's to take it.
LEMMA AgreeImplements ==
  ASSUME TypeOK, ClaimsOK, NEW r \in Robots, r \in up, ~ Busy(robot[r]),
         NEW kind \in {"GiveLead", "TakeLead"},
         kind = "GiveLead" <=> robot[r].role = "Leader",
         Becomes(r, BeginSync(robot[r], kind, robot[r].drive)),
         UNCHANGED <<up, due>>
  PROVE  Leadership!Agree(r)
<1> DEFINE c == robot[r]
           d == BeginSync(c, kind, c.drive)
<1>1. c \in Controller /\ c.drive \in Drive /\ kind \in SyncKind
  BY DEF TypeOK, Controller, SyncKind
<1>2. d \in Controller /\ d.role = c.role /\ d.term = c.term
  BY <1>1, BeginSyncTyped
<1>3. d.sync = kind
  BY <1>1 DEF BeginSync, Controller
<1>4. Part(d.sync) = kind /\ PartOf[r] = "None" /\ RoleOf[r] = c.role
  BY <1>3 DEF Part, PartOf, RoleOf, Busy
<1> HIDE DEF d
<1>5. UNCHANGED <<RoleOf, TermOf, claimed>> /\ PartOf' = [PartOf EXCEPT ![r] = kind]
  BY <1>2, <1>4, KeepsView DEF d
<1>6. kind = IF RoleOf[r] = "Leader" THEN "GiveLead" ELSE "TakeLead"
  BY <1>4
<1> QED
  BY <1>4, <1>5, <1>6 DEF Leadership!Agree

\* A pause for a new speed is no part in a handover.
LEMMA SpeedImplements ==
  ASSUME TypeOK, ClaimsOK, NEW r \in Robots, ~ Busy(robot[r]), NEW cmd \in Drive,
         Becomes(r, BeginSync(robot[r], "Speed", cmd)), UNCHANGED <<up, due>>
  PROVE  Leadership!CallOff(r) \/ UNCHANGED Leadership!vars
<1> DEFINE c == robot[r]
           d == BeginSync(c, "Speed", cmd)
<1>1. c \in Controller /\ "Speed" \in SyncKind
  BY DEF TypeOK, SyncKind
<1>2. d \in Controller /\ d.role = c.role /\ d.term = c.term
  BY <1>1, BeginSyncTyped
<1>3. d.sync = "Speed"
  BY <1>1 DEF BeginSync, Controller
<1>4. Part(d.sync) = "None"
  BY <1>3 DEF Part
<1> HIDE DEF d
<1> QED
  BY <1>2, <1>4, KeepsImplements DEF d

\* on_command(): a handover agreed on, a handover called off, or neither.
LEMMA OrdersImplement ==
  ASSUME TypeOK, ClaimsOK, NEW w \in Robots, NEW r \in Robots, OnCommand(w, r)
  PROVE  Leadership!Agree(r) \/ Leadership!CallOff(r) \/ UNCHANGED Leadership!vars
<1> DEFINE c == robot[r]
<1>1. c \in Controller /\ c.drive \in Drive
  BY DEF TypeOK, Controller
<1>2. r \in up /\ UNCHANGED <<up, due>>
  BY DEF OnCommand, CommandIgnored, CommandStop, CommandHandover, CommandSpeed,
         OrderReplaced, Receive, net
<1>3. CASE CommandIgnored(w, r) \/ OrderReplaced(w, r)
  BY <1>2, <1>3 DEF CommandIgnored, OrderReplaced, RoleOf, TermOf, PartOf, Part,
                    Leadership!vars, Leadership!lead
<1>4. CASE CommandStop(w, r)
  <2> DEFINE f == FinishTurn(c)
             d == [f EXCEPT !.sync = "None", !.drive = "Stop"]
  <2>1. f \in Controller /\ f.role = c.role /\ f.term = c.term
    BY <1>1, FinishTurnTyped
  <2>2. Becomes(r, d)
    BY <1>4 DEF CommandStop
  <2> HIDE DEF f
  <2>3. d \in Controller /\ d.role = f.role /\ d.term = f.term /\ d.sync = "None"
    BY <2>1 DEF Controller, SyncKind, Drive
  <2>4. Part(d.sync) = "None"
    BY <2>3 DEF Part
  <2> HIDE DEF d
  <2> QED
    BY <1>2, <2>1, <2>2, <2>3, <2>4, KeepsImplements
<1>5. CASE CommandHandover(w, r)
  <2>1. /\ Becomes(r, BeginSync(c, "TakeLead", c.drive))
        /\ ~ Busy(c) /\ c.role = "Follower"
    BY <1>5 DEF CommandHandover, Heeds
  <2> QED
    BY <1>2, <2>1, AgreeImplements
<1>6. CASE CommandSpeed(w, r)
  <2>1. PICK cmd \in Drive : Becomes(r, BeginSync(c, "Speed", cmd)) /\ ~ Busy(c)
    BY <1>6 DEF CommandSpeed, Drive
  <2> QED
    BY <1>2, <2>1, SpeedImplements
<1> QED
  BY <1>3, <1>4, <1>5, <1>6 DEF OnCommand

\* on_color(): only the blue card of a leader agrees on a handover.
LEMMA CardsImplement ==
  ASSUME TypeOK, ClaimsOK, NEW r \in Robots, NEW cmd \in {"Cruise", "Turbo"},
         CardRejected(r) \/ BlueCard(r) \/ RedCard(r) \/ SpeedCard(r, cmd)
  PROVE  Leadership!Agree(r) \/ Leadership!CallOff(r) \/ UNCHANGED Leadership!vars
<1> DEFINE c == robot[r]
           t == Taken(r)
<1>1. c \in Controller /\ cmd \in Drive
  BY DEF TypeOK, Drive
<1>2. r \in up /\ ~ Busy(c) /\ UNCHANGED <<up, due>>
  BY DEF CardRejected, BlueCard, RedCard, SpeedCard, Card, net
<1>3. t \in Controller /\ SameLead(c, t)
  BY <1>1, ZeroTimes DEF Taken, Controller, SameLead
<1> HIDE DEF t
<1>4. Becomes(r, t) => Leadership!CallOff(r) \/ UNCHANGED Leadership!vars
  BY <1>2, <1>3, KeepsImplements DEF SameLead
<1>5. CASE CardRejected(r)
  BY <1>4, <1>5 DEF CardRejected, t
<1>6. CASE BlueCard(r)
  <2>1. Becomes(r, BeginSync(c, "GiveLead", c.drive)) /\ c.role = "Leader"
    BY <1>6 DEF BlueCard
  <2> QED
    BY <1>2, <2>1, AgreeImplements
<1>7. CASE RedCard(r)
  <2> DEFINE d == [t EXCEPT !.drive = "Stop"]
  <2>1. d \in Controller /\ SameLead(c, d)
    BY <1>3 DEF Controller, Drive, SameLead
  <2>2. Becomes(r, d)
    BY <1>7 DEF RedCard, t
  <2> HIDE DEF d
  <2> QED
    BY <1>2, <2>1, <2>2, KeepsImplements DEF SameLead
<1>8. CASE SpeedCard(r, cmd)
  <2>1. Becomes(r, t) \/ Becomes(r, BeginSync(c, "Speed", cmd))
    BY <1>8 DEF SpeedCard, t
  <2> QED
    BY <1>1, <1>2, <1>4, <2>1, SpeedImplements
<1> QED
  BY <1>5, <1>6, <1>7, <1>8

\* on_run(), the end of a spin and a heartbeat heard: no claim and no agreement.
LEMMA OthersImplement ==
  ASSUME TypeOK, ClaimsOK, NEW r \in Robots,
         \/ SpinEnds(r) \/ OnPeer(r) \/ OnRun(r) \/ RunReplaced(r)
         \/ \E enable \in BOOLEAN : SetEnable(r, enable)
  PROVE  Leadership!CallOff(r) \/ UNCHANGED Leadership!vars
<1> DEFINE c == robot[r]
<1>1. c \in Controller
  BY DEF TypeOK
<1>2. UNCHANGED <<up, due>>
  BY DEF SpinEnds, OnPeer, OnRun, RunReplaced, SetEnable, net
<1>3. CASE UNCHANGED <<robot, claimed>>
  BY <1>2, <1>3 DEF RoleOf, TermOf, PartOf, Part, Leadership!vars, Leadership!lead
<1>4. CASE SpinEnds(r)
  BY <1>1, <1>2, <1>4, FinishTurnTyped, MotionKeepsLead, KeepsImplements
  DEF SpinEnds, SameLead
<1>5. CASE OnPeer(r)
  <2>1. PICK p : robot' = [robot EXCEPT ![r].peer = p] /\ claimed' = claimed
    BY <1>5 DEF OnPeer
  <2>2. ASSUME NEW s \in Robots PROVE SameLead(robot[s], robot'[s])
    BY <2>1 DEF TypeOK, Controller, SameLead
  <2>3. RoleOf' = RoleOf /\ TermOf' = TermOf
    BY <2>2 DEF RoleOf, TermOf, SameLead
  <2>4. PartOf' = PartOf
    BY <2>2 DEF PartOf, Part, SameLead
  <2> QED
    BY <1>2, <2>1, <2>3, <2>4 DEF Leadership!vars, Leadership!lead
<1>6. CASE OnRun(r)
  <2> DEFINE run == Head(runs[r]).run = "START"
             d == SetRunning(c, run)
  <2>1. run \in BOOLEAN /\ (UNCHANGED <<robot, claimed>> \/ Becomes(r, d))
    BY <1>6 DEF OnRun
  <2> HIDE DEF run
  <2>2. d \in Controller /\ d.role = c.role /\ d.term = c.term
    BY <1>1, <2>1, SetRunningTyped
  <2>3. d.sync \in {"None", c.sync}
    BY <1>1 DEF SetRunning, FinishTurn, Controller
  <2>4. Part(d.sync) \in {"None", Part(c.sync)}
    BY <2>3 DEF Part
  <2> HIDE DEF d
  <2> QED
    BY <1>2, <1>3, <2>1, <2>2, <2>4, KeepsImplements
<1>7. CASE RunReplaced(r)
  BY <1>3, <1>7 DEF RunReplaced
<1>8. CASE \E enable \in BOOLEAN : SetEnable(r, enable)
  <2>1. PICK enable \in BOOLEAN : Becomes(r, [c EXCEPT !.enabled = enable])
    BY <1>8 DEF SetEnable
  <2> DEFINE d == [c EXCEPT !.enabled = enable]
  <2>2. d \in Controller /\ SameLead(c, d)
    BY <1>1 DEF Controller, SameLead
  <2> HIDE DEF d
  <2> QED
    BY <1>2, <2>1, <2>2, KeepsImplements DEF SameLead, d
<1> QED
  BY <1>4, <1>5, <1>6, <1>7, <1>8

\* apply_parameter() with a role, and the power that goes and comes back.
LEMMA OperatorImplements ==
  ASSUME TypeOK, ClaimsOK, NEW r \in Robots,
         Crash(r) \/ Restart(r) \/ \E role \in Role : SetRole(r, role)
  PROVE  Leadership!LosePower(r) \/ Leadership!PowerUp(r) \/ Leadership!Appoint(r)
<1> DEFINE c == robot[r]
<1>1. c \in Controller /\ BootRole[r] \in Role /\ claimed[r] \in Nat
  BY BusAssumption DEF TypeOK
<1>2. CASE Crash(r)
  <2> DEFINE d == Boot(BootRole[r])
  <2>1. /\ d \in Controller /\ d.role = BootRole[r] /\ Part(d.sync) = "None"
        /\ d.term = Leadership!BootTerm(r)
    BY <1>1, BootTyped DEF Boot, Part, Leadership!BootTerm
  <2>2. /\ Becomes(r, d)
        /\ r \in up /\ up' = up \ {r} /\ due' = due \ {r}
    BY <1>2 DEF Crash
  <2> HIDE DEF d
  <2>3. claimed' = [claimed EXCEPT ![r] =
                      IF claimed[r] < d.term THEN d.term ELSE claimed[r]]
    <3>1. CASE d.role = "Leader"
      BY <2>1, <2>2, <3>1, BecomesView DEF Larger
    <3>2. CASE d.role # "Leader"
      <4>1. d.term = 0
        BY <2>1, <3>2 DEF Leadership!BootTerm
      <4>2. (IF claimed[r] < d.term THEN d.term ELSE claimed[r]) = claimed[r]
        BY <1>1, <4>1
      <4>3. claimed = [s \in Robots |-> claimed[s]]
        BY DEF TypeOK
      <4> QED
        BY <2>1, <2>2, <3>2, <4>2, <4>3, BecomesView, Rewritten
    <3> QED
      BY <3>1, <3>2
  <2>4. /\ RoleOf' = [RoleOf EXCEPT ![r] = BootRole[r]]
        /\ TermOf' = [TermOf EXCEPT ![r] = Leadership!BootTerm(r)]
        /\ PartOf' = [PartOf EXCEPT ![r] = "None"]
    BY <2>1, <2>2, BecomesView
  <2>5. claimed' = [claimed EXCEPT ![r] =
                      IF claimed[r] < Leadership!BootTerm(r)
                      THEN Leadership!BootTerm(r) ELSE claimed[r]]
    BY <2>1, <2>3
  <2> QED
    BY <2>2, <2>4, <2>5 DEF Leadership!LosePower
<1>3. CASE Restart(r)
  BY <1>3 DEF Restart, Leadership!PowerUp, Leadership!lead, RoleOf, TermOf, PartOf, Part
<1>4. CASE \E role \in Role : SetRole(r, role)
  <2>1. /\ Becomes(r, BecomeLeader(c)) \/ Becomes(r, BecomeFollower(c))
        /\ r \in up /\ UNCHANGED <<up, due>>
    BY <1>4 DEF SetRole, net
  <2>2. /\ BecomeLeader(c) \in Controller /\ BecomeFollower(c) \in Controller
        /\ Promoted(c, BecomeLeader(c)) /\ BecomeLeader(c).sync = c.sync
        /\ Demoted(c, BecomeFollower(c)) /\ BecomeFollower(c).sync = c.sync
    BY <1>1, LeaderTyped, FollowerTyped, RolesChange
  <2>3. Leadership!Leads(r) \/ Leadership!Follows(r)
    BY <2>1, <2>2, LeadsView, FollowsView
  <2>4. PartOf[r] = Part(c.sync)
    BY DEF PartOf
  <2>5. PartOf' = PartOf
    BY <2>1, <2>2, <2>4, BecomesView, Rewritten, ViewFunctions
  <2> QED
    BY <2>1, <2>3, <2>5 DEF Leadership!Appoint
<1> QED
  BY <1>2, <1>3, <1>4

\* Time and the network leave the lead alone; a new period is a new round.
LEMMA WorldImplements ==
  ASSUME TypeOK,
         \/ Elapse \/ BeatLost
         \/ \E run \in RunOrder : PublishRun(run)
         \/ \E r \in Robots : Offline(r) \/ Online(r)
  PROVE  Leadership!NextRound \/ UNCHANGED Leadership!vars
<1>1. CASE Elapse
  <2>1. ASSUME NEW s \in Robots PROVE SameLead(robot[s], robot'[s])
    <3>1. robot[s] \in Controller
      BY DEF TypeOK
    <3>2. Older(robot[s]).sync = robot[s].sync
      BY <3>1 DEF Older, Controller
    <3>3. robot'[s] = Older(robot[s]) \/ robot'[s] = robot[s]
      BY <1>1 DEF Elapse
    <3> QED
      BY <3>1, <3>2, <3>3, OlderTyped DEF SameLead
  <2>2. RoleOf' = RoleOf /\ TermOf' = TermOf
    BY <2>1 DEF RoleOf, TermOf, SameLead
  <2>3. PartOf' = PartOf
    BY <2>1 DEF PartOf, Part, SameLead
  <2>4. due = {} /\ due' = up /\ UNCHANGED <<claimed, up>>
    BY <1>1 DEF Elapse, net
  <2> QED
    BY <2>2, <2>3, <2>4 DEF Leadership!NextRound, Leadership!lead
<1>2. CASE UNCHANGED <<robot, claimed, up, due>>
  BY <1>2 DEF RoleOf, TermOf, PartOf, Part, Leadership!vars, Leadership!lead
<1>3. ASSUME (\E run \in RunOrder : PublishRun(run)) \/ BeatLost
             \/ \E r \in Robots : Offline(r) \/ Online(r)
      PROVE  UNCHANGED <<robot, claimed, up, due>>
  BY <1>3 DEF PublishRun, BeatLost, Offline, Online, net
<1> QED
  BY <1>1, <1>2, <1>3

\* Every step of the convoy is a step of Lead or leaves all that Lead sees alone.
LEMMA NextImplements ==
  ASSUME TypeOK, ClaimsOK, Next
  PROVE  Leadership!Next \/ UNCHANGED Leadership!vars
<1>1. ASSUME NEW r \in Robots, Callback(r)
      PROVE  Leadership!Next \/ UNCHANGED Leadership!vars
  BY <1>1, TimerImplements, OthersImplement, OrdersImplement DEF Callback, Leadership!Next
<1>2. ASSUME NEW r \in Robots,
             \/ CardRejected(r) \/ BlueCard(r) \/ RedCard(r)
             \/ \E cmd \in {"Cruise", "Turbo"} : SpeedCard(r, cmd)
      PROVE  Leadership!Next \/ UNCHANGED Leadership!vars
  BY <1>2, CardsImplement DEF Leadership!Next
<1>3. ASSUME NEW r \in Robots,
             \/ Crash(r) \/ Restart(r) \/ \E role \in Role : SetRole(r, role)
             \/ \E enable \in BOOLEAN : SetEnable(r, enable)
      PROVE  Leadership!Next \/ UNCHANGED Leadership!vars
  BY <1>3, OperatorImplements, OthersImplement DEF Leadership!Next
<1>4. ASSUME \/ Elapse \/ BeatLost
             \/ \E run \in RunOrder : PublishRun(run)
             \/ \E r \in Robots : Offline(r) \/ Online(r)
      PROVE  Leadership!Next \/ UNCHANGED Leadership!vars
  BY <1>4, WorldImplements DEF Leadership!Next
<1> QED
  BY <1>1, <1>2, <1>3, <1>4 DEF Next

\* The convoy implements Lead, for any robots, timers and faults: a robot changes
\* its role on its own only to claim the lead with a higher term, to yield it to a
\* claim really made, or to do its part of a handover agreed on, once a period at
\* most, and its term falls only when its power goes.
THEOREM LeadImplemented == Spec => ImplementsLead
<1>1. Init => Leadership!Init
  <2> SUFFICES ASSUME Init PROVE Leadership!Init
    OBVIOUS
  <2>1. ASSUME NEW r \in Robots
        PROVE  /\ robot[r].role = BootRole[r] /\ Part(robot[r].sync) = "None"
               /\ robot[r].term = Leadership!BootTerm(r)
    BY DEF Init, Boot, Part, Leadership!BootTerm
  <2>2. RoleOf = BootRole
    BY <2>1, BusAssumption DEF RoleOf
  <2>3. TermOf = [r \in Robots |-> Leadership!BootTerm(r)] /\ claimed = TermOf
    BY <2>1 DEF TermOf, Init
  <2>4. PartOf = [r \in Robots |-> "None"]
    BY <2>1 DEF PartOf
  <2> QED
    BY <2>2, <2>3, <2>4 DEF Init, Leadership!Init
<1>2. TypeOK /\ ClaimsOK /\ [Next]_vars => [Leadership!Next]_(Leadership!vars)
  <2>1. ASSUME UNCHANGED vars PROVE UNCHANGED Leadership!vars
    BY <2>1 DEF vars, RoleOf, TermOf, PartOf, Part, Leadership!vars, Leadership!lead
  <2> QED
    BY <2>1, NextImplements
<1> QED
  BY <1>1, <1>2, TypeCorrect, ClaimsCorrect, PTL DEF Spec, ImplementsLead, Leadership!Spec
=============================================================================
