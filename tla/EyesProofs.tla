------------------------------- MODULE EyesProofs -------------------------------
(***************************************************************************)
(* Proofs about the eyes of one robot, for any pause, blink and flash, and *)
(* any sequence of cards, orders, heartbeats, led topics and missed writes.*)
(***************************************************************************)
EXTENDS Eyes, TLAPS

CardColour  == {"red", "yellow", "green"}
HandoverSync == {"TakeLead", "GiveLead"}

\* What the members that decide on the eyes say of each other: a pause or a spin of a
\* running robot, never both, has the colour of what it is for, a pending flash is never
\* blue, and the two properties.
Agrees(s) ==
  /\ s.sync # "None" \/ s.turning => s.running
  /\ s.turning => s.sync = "None"
  /\ s.sync = "Speed" => s.sign \in SpeedCards
  /\ s.turning \/ s.sync \in HandoverSync => s.sign = "blue"
  /\ s.flashing > 0 => s.flash \in CardColour \cup {"white"}
  /\ s.sync # "None" /\ s.flashing > 0 => s.flash = "white"
  /\ s.lost <=> s.known /\ ~ s.valid

Sound(s) == s \in Robot /\ Agrees(s)

\* The driver's cache is what the board shows, but for an eye that missed a write.
Honest(e) ==
  /\ e \in Board
  /\ \A eye \in Eye \ e.missed : e.cache[eye] \in {Unset, e.board[eye]}

IInv == Sound(robot) /\ Honest(eyes)

-----------------------------------------------------------------------------
(* The driver. *)

LEMMA SetLedHonest ==
  ASSUME NEW e, Honest(e), NEW which \in SUBSET Eye, NEW colour \in Colour,
         NEW f \in SetLed(e, which, colour)
  PROVE  /\ Honest(f)
         /\ \A eye \in which : f.cache[eye] = colour
         /\ \A eye \in Eye \ which : f.cache[eye] = e.cache[eye]
<1> DEFINE sent == [eye \in Eye |-> IF eye \in which THEN colour ELSE e.cache[eye]]
           lit  == [eye \in Eye |-> IF eye \in which THEN colour ELSE e.board[eye]]
<1>1. /\ e.cache \in [Eye -> Colour \cup {Unset}] /\ e.board \in [Eye -> Colour]
      /\ e.missed \in SUBSET Eye
      /\ e = [cache |-> e.cache, board |-> e.board, missed |-> e.missed]
  BY DEF Honest, Board
<1>2. sent \in [Eye -> Colour \cup {Unset}] /\ lit \in [Eye -> Colour]
  BY <1>1
<1>3. /\ \A eye \in which : sent[eye] = colour /\ lit[eye] = colour
      /\ \A eye \in Eye \ which : sent[eye] = e.cache[eye] /\ lit[eye] = e.board[eye]
  OBVIOUS
<1>4. \/ f = [cache |-> sent, board |-> e.board, missed |-> e.missed \cup which]
      \/ f = [cache |-> sent, board |-> lit, missed |-> e.missed \ which]
  BY <1>1 DEF SetLed
<1> HIDE DEF sent, lit
<1>5. CASE f = [cache |-> sent, board |-> e.board, missed |-> e.missed \cup which]
  <2>1. f \in Board
    BY <1>1, <1>2, <1>5 DEF Board
  <2> QED
    BY <1>1, <1>3, <1>5, <2>1 DEF Honest
<1>6. CASE f = [cache |-> sent, board |-> lit, missed |-> e.missed \ which]
  <2>1. f \in Board
    BY <1>1, <1>2, <1>6 DEF Board
  <2> QED
    BY <1>1, <1>3, <1>6, <2>1 DEF Honest
<1> QED
  BY <1>4, <1>5, <1>6

LEMMA SetEyeHonest ==
  ASSUME NEW e, Honest(e), NEW eye \in Eye, NEW colour \in Colour,
         NEW f \in SetEye(e, eye, colour)
  PROVE  /\ Honest(f) /\ f.cache[eye] = colour
         /\ \A other \in Eye \ {eye} : f.cache[other] = e.cache[other]
  BY SetLedHonest DEF SetEye

LEMMA SetEyesHonest ==
  ASSUME NEW e, Honest(e), NEW colour \in Colour, NEW f \in SetEyes(e, colour)
  PROVE  Honest(f) /\ \A eye \in Eye : f.cache[eye] = colour
  BY SetLedHonest DEF SetEyes

-----------------------------------------------------------------------------
(* The controller's methods. *)

LEMMA ColoursKnown ==
  /\ SpeedCards \subseteq CardColour /\ CardColour \subseteq Colour
  /\ "white" \in Colour /\ "off" \in Colour /\ "blue" \in Colour
  /\ "blue" \notin SpeedCards
  BY CardsAssumption DEF CardColour, Colour

LEMMA Ranges ==
  /\ 0 \in 0 .. SyncPause /\ SyncPause \in 0 .. SyncPause
  /\ 0 \in 0 .. Flash /\ Flash \in 0 .. Flash
  /\ \A i \in 0 .. SyncPause : (IF i = 0 THEN 0 ELSE i - 1) \in 0 .. SyncPause
  /\ \A i \in 0 .. Flash : (IF i = 0 THEN 0 ELSE i - 1) \in 0 .. Flash
  BY TimesAssumption

LEMMA FlashSound ==
  ASSUME NEW s, Sound(s), NEW colour \in CardColour \cup {"white"},
         s.sync = "None" \/ colour = "white"
  PROVE  Sound(FlashRgb(s, colour))
<1>1. FlashRgb(s, colour) \in Robot
  BY ColoursKnown, Ranges DEF Sound, Robot, FlashRgb
<1> QED
  BY <1>1 DEF Sound, Agrees, Robot, FlashRgb

LEMMA EndTurnSound ==
  ASSUME NEW s, Sound(s)
  PROVE  Sound(EndTurn(s))
  BY DEF Sound, Agrees, Robot, EndTurn

LEMMA BeginSyncSound ==
  ASSUME NEW s, Sound(s), s.running, ~ Busy(s),
         NEW kind \in {"Speed", "TakeLead", "GiveLead"}, NEW colour \in Colour,
         IF kind = "Speed" THEN colour \in SpeedCards ELSE colour = "blue"
  PROVE  Sound(BeginSync(s, kind, colour))
<1>1. BeginSync(s, kind, colour) \in Robot
  BY Ranges DEF Sound, Robot, BeginSync
<1> QED
  BY <1>1 DEF Sound, Agrees, Robot, BeginSync, Busy, HandoverSync

LEMMA FinishSyncSound ==
  ASSUME NEW s, Sound(s), s.sync # "None"
  PROVE  Sound(FinishSync(s))
  BY SwitchAssumption DEF Sound, Agrees, Robot, FinishSync, HandoverSync

LEMMA ExpireSound ==
  ASSUME NEW s, Sound(s), NEW t \in Expire(s)
  PROVE  /\ Sound(t) /\ t.sync = s.sync /\ t.turning = s.turning
<1>1. CASE t = s
  BY <1>1
<1>2. CASE s.valid /\ t = [s EXCEPT !.valid = FALSE, !.lost = s.known \/ s.lost]
  <2>1. t \in Robot
    BY <1>2 DEF Sound, Robot
  <2>2. s.lost = FALSE /\ t.lost = s.known /\ t.valid = FALSE /\ t.known = s.known
    BY <1>2 DEF Sound, Agrees, Robot
  <2>3. /\ t.sync = s.sync /\ t.turning = s.turning /\ t.running = s.running
        /\ t.sign = s.sign /\ t.flash = s.flash /\ t.flashing = s.flashing
    BY <1>2 DEF Sound, Robot
  <2> QED
    BY <2>1, <2>2, <2>3 DEF Sound, Agrees
<1> QED
  BY <1>1, <1>2 DEF Expire

LEMMA ResolveSound ==
  ASSUME NEW s, Sound(s), NEW t \in Resolve(s)
  PROVE  /\ Sound(t) /\ t.sync = s.sync /\ t.turning = s.turning
<1>1. CASE t = s
  BY <1>1
<1>2. CASE t = [s EXCEPT !.leader = TRUE]
  BY <1>2 DEF Sound, Agrees, Robot
<1>3. CASE ~ Busy(s) /\ t = FlashRgb([s EXCEPT !.leader = FALSE], "white")
  <2> DEFINE u == [s EXCEPT !.leader = FALSE]
  <2>1. Sound(u) /\ u.sync = s.sync /\ u.turning = s.turning
    BY DEF Sound, Agrees, Robot
  <2> HIDE DEF u
  <2>2. Sound(FlashRgb(u, "white"))
    BY <2>1, FlashSound
  <2>3. FlashRgb(u, "white").sync = u.sync /\ FlashRgb(u, "white").turning = u.turning
    BY <2>1 DEF FlashRgb, Sound, Robot
  <2> QED
    BY <1>3, <2>1, <2>2, <2>3 DEF u
<1> QED
  BY <1>1, <1>2, <1>3 DEF Resolve

LEMMA OlderSound ==
  ASSUME NEW s, Sound(s)
  PROVE  Sound(Older(s))
<1>1. Older(s) \in Robot
  <2> DEFINE u == IF s.until = 0 THEN 0 ELSE s.until - 1
             f == IF s.flashing = 0 THEN 0 ELSE s.flashing - 1
  <2>1. u \in 0 .. SyncPause /\ f \in 0 .. Flash
    BY Ranges DEF Sound, Robot
  <2>2. Older(s) = [s EXCEPT !.until = u, !.flashing = f]
    BY DEF Older
  <2> HIDE DEF u, f
  <2> QED
    BY <2>1, <2>2 DEF Sound, Robot
<1> QED
  BY <1>1, TimesAssumption DEF Sound, Agrees, Robot, Older

LEMMA AdvancedSound ==
  ASSUME NEW s, Sound(s)
  PROVE  /\ Sound(Advanced(s))
         /\ Advanced(s).turning => s.turning \/ s.sync \in HandoverSync
<1>1. CASE s.running /\ s.sync # "None" /\ s.until = 0
  <2>1. Sound(FinishSync(s))
    BY <1>1, FinishSyncSound
  <2>2. FinishSync(s).turning => s.turning \/ s.sync \in HandoverSync
    BY <1>1 DEF Sound, Robot, FinishSync, HandoverSync
  <2> QED
    BY <1>1, <2>1, <2>2 DEF Advanced
<1>2. CASE ~ (s.running /\ s.sync # "None" /\ s.until = 0)
  BY <1>2 DEF Advanced
<1> QED
  BY <1>1, <1>2

-----------------------------------------------------------------------------
(* What a tick shows. *)

\* The blink of a countdown is its colour or off, and off only before the last stretch.
LEMMA SyncLedsTell ==
  ASSUME NEW s, Sound(s), s.running, s.sync # "None",
         NEW e, Honest(e), NEW f \in ApplySyncLeds(e, s)
  PROVE  Honest(f) /\ \A eye \in Eye : Means(s, eye, f.cache[eye])
<1> DEFINE on == s.until =< SyncGo \/ (s.until \div SyncBlink) % 2 = 0
           colour == IF on THEN s.sign ELSE "off"
<1>1. colour \in Colour /\ s.sign \in Colour
  BY ColoursKnown DEF Sound, Robot
<1>2. f \in SetEyes(e, colour)
  BY DEF ApplySyncLeds
<1>3. colour = s.sign \/ (colour = "off" /\ s.until > SyncGo)
  BY TimesAssumption DEF Sound, Robot
<1> HIDE DEF on, colour
<1>4. Honest(f) /\ \A eye \in Eye : f.cache[eye] = colour
  BY <1>1, <1>2, SetEyesHonest
<1>5. s.sync \in {"Speed", "TakeLead", "GiveLead"}
  BY DEF Sound, Robot
<1>6. \/ s.sync = "Speed" /\ s.sign \in {"yellow", "green"}
      \/ s.sync \in HandoverSync /\ s.sign = "blue"
  BY <1>5, CardsAssumption DEF Sound, Agrees, HandoverSync
<1>7. \A eye \in Eye : Means(s, eye, colour)
  BY <1>3, <1>5, <1>6 DEF Means, Pauses, HandoverSync
<1> QED
  BY <1>4, <1>7

LEMMA LedsTell ==
  ASSUME NEW s, Sound(s), s.sync = "None", ~ s.turning,
         NEW e, Honest(e), NEW f \in ApplyLeds(e, s)
  PROVE  Honest(f) /\ \A eye \in Eye : Means(s, eye, f.cache[eye])
<1>1. ~ Busy(s) /\ s.flashing \in Nat /\ s.flash \in Colour
  BY TimesAssumption DEF Busy, Sound, Robot
<1>2. CASE s.flashing > 0
  <2>1. f \in SetEyes(e, s.flash)
    BY <1>2 DEF ApplyLeds
  <2>2. s.flash \in {"red", "yellow", "green", "white"}
    BY <1>2 DEF Sound, Agrees, CardColour
  <2>3. Honest(f) /\ \A eye \in Eye : f.cache[eye] = s.flash
    BY <1>1, <2>1, SetEyesHonest
  <2> QED
    BY <1>1, <1>2, <2>2, <2>3 DEF Means, Flashes
<1>3. CASE s.flashing = 0 /\ ~ s.running
  <2>1. f \in SetEyes(e, "off") \/ f \in SetEyes(e, "white")
    BY <1>3 DEF ApplyLeds
  <2>2. \/ Honest(f) /\ \A eye \in Eye : f.cache[eye] = "off"
        \/ Honest(f) /\ \A eye \in Eye : f.cache[eye] = "white"
    BY <2>1, ColoursKnown, SetEyesHonest
  <2> QED
    BY <1>3, <2>2 DEF Means, Waits
<1>4. CASE s.flashing = 0 /\ s.running /\ ~ s.leader
  <2>1. f \in SetEyes(e, "off")
    BY <1>4 DEF ApplyLeds
  <2>2. Honest(f) /\ \A eye \in Eye : f.cache[eye] = "off"
    BY <2>1, ColoursKnown, SetEyesHonest
  <2> QED
    BY <1>1, <1>4, <2>2 DEF Means, Idle
<1>5. CASE s.flashing = 0 /\ s.running /\ s.leader /\ s.valid
  <2>1. f \in SetEyes(e, "white")
    BY <1>5 DEF ApplyLeds
  <2>2. Honest(f) /\ \A eye \in Eye : f.cache[eye] = "white"
    BY <2>1, ColoursKnown, SetEyesHonest
  <2> QED
    BY <1>1, <1>5, <2>2 DEF Means, Idle
<1>6. CASE s.flashing = 0 /\ s.running /\ s.leader /\ ~ s.valid
  <2> DEFINE lone == IF s.lost THEN {"white", "off"} ELSE {"white"}
  <2>1. f \in UNION {SetEye(g, "right", "off") :
                       g \in UNION {SetEye(e, "left", colour) : colour \in lone}}
    BY <1>6 DEF ApplyLeds
  <2>2. PICK colour \in lone : \E g \in SetEye(e, "left", colour) :
          f \in SetEye(g, "right", "off")
    BY <2>1
  <2>3. PICK g \in SetEye(e, "left", colour) : f \in SetEye(g, "right", "off")
    BY <2>2
  <2>4. colour \in Colour /\ (colour = "white" \/ (colour = "off" /\ s.lost))
    BY <2>2, ColoursKnown
  <2>5. Honest(g) /\ g.cache["left"] = colour
    BY <2>4, <2>3, SetEyeHonest DEF Eye
  <2>6. Honest(f) /\ f.cache["right"] = "off" /\ f.cache["left"] = g.cache["left"]
    BY <2>5, <2>3, ColoursKnown, SetEyeHonest DEF Eye
  <2>7. s.lost => s.known
    BY DEF Sound, Agrees
  <2>8. Means(s, "left", f.cache["left"]) /\ Means(s, "right", f.cache["right"])
    BY <1>1, <1>6, <2>4, <2>5, <2>6, <2>7 DEF Means, Idle, Alone
  <2> QED
    BY <2>6, <2>8 DEF Eye
<1> QED
  BY <1>1, <1>2, <1>3, <1>4, <1>5, <1>6

LEMMA PaintedTells ==
  ASSUME NEW s, Sound(s), NEW e, Honest(e), NEW f \in Painted(e, s)
  PROVE  /\ Honest(f) /\ \A eye \in Eye : Means(s, eye, f.cache[eye])
         /\ s.turning => \A eye \in Eye : f.cache[eye] = s.sign
<1>1. CASE s.running /\ s.sync # "None"
  BY <1>1, SyncLedsTell DEF Painted, Sound, Agrees
<1>2. CASE ~ (s.running /\ s.sync # "None") /\ s.turning
  <2>1. s.running /\ s.sign = "blue"
    BY <1>2 DEF Sound, Agrees
  <2>2. f \in SetEyes(e, s.sign)
    BY <1>2, <2>1 DEF Painted
  <2>3. Honest(f) /\ \A eye \in Eye : f.cache[eye] = s.sign
    BY <2>1, <2>2, ColoursKnown, SetEyesHonest
  <2> QED
    BY <1>2, <2>1, <2>3 DEF Means
<1>3. CASE ~ (s.running /\ s.sync # "None") /\ ~ s.turning
  <2>1. s.sync = "None"
    BY <1>3 DEF Sound, Agrees
  <2>2. f \in ApplyLeds(e, s)
    BY <1>3 DEF Painted
  <2> QED
    BY <1>3, <2>1, <2>2, LedsTell
<1> QED
  BY <1>1, <1>2, <1>3

-----------------------------------------------------------------------------
(* The callbacks. *)

\* The tick keeps the invariant, and shows what its colours mean.
LEMMA OnTimerTells ==
  ASSUME IInv, OnTimer
  PROVE  /\ IInv'
         /\ \A eye \in Eye \ eyes'.missed :
              \/ Means(robot', eye, eyes'.board[eye])
              \/ eyes'.board[eye] = robot'.sign /\ robot'.sign = "blue" /\ ~ robot'.turning
                 /\ (robot.turning \/ robot.sync \in HandoverSync)
<1>1. PICK x \in Expire(robot) : \E s \in Resolve(x) :
        /\ robot' \in {Advanced(s), EndTurn(Advanced(s))}
        /\ eyes' \in Painted(eyes, Advanced(s))
  BY DEF OnTimer
<1>2. PICK s \in Resolve(x) :
        /\ robot' \in {Advanced(s), EndTurn(Advanced(s))}
        /\ eyes' \in Painted(eyes, Advanced(s))
  BY <1>1
<1>3. Sound(s) /\ s.sync = robot.sync /\ s.turning = robot.turning
  BY <1>1, <1>2, ExpireSound, ResolveSound DEF IInv
<1> DEFINE t == Advanced(s)
<1>4. /\ Sound(t)
      /\ t.turning => robot.turning \/ robot.sync \in HandoverSync
  BY <1>3, AdvancedSound
<1>5. /\ robot' = t \/ robot' = EndTurn(t)
      /\ eyes' \in Painted(eyes, t)
  BY <1>2
<1> HIDE DEF t
<1>6. /\ Honest(eyes') /\ \A eye \in Eye : Means(t, eye, eyes'.cache[eye])
      /\ t.turning => \A eye \in Eye : eyes'.cache[eye] = t.sign
  BY <1>4, <1>5, PaintedTells DEF IInv
<1>7. Sound(robot')
  BY <1>4, <1>5, EndTurnSound
<1>8. IInv'
  BY <1>6, <1>7 DEF IInv
<1>9. ASSUME NEW eye \in Eye \ eyes'.missed
      PROVE  eyes'.board[eye] = eyes'.cache[eye]
  <2>1. eyes'.cache[eye] \in {Unset, eyes'.board[eye]}
    BY <1>6 DEF Honest
  <2>2. eyes'.cache[eye] # Unset
    BY <1>6 DEF Means, Unset
  <2> QED
    BY <2>1, <2>2
<1>10. CASE robot' = t
  BY <1>6, <1>8, <1>9, <1>10
<1>11. CASE robot' = EndTurn(t) /\ ~ t.turning
  <2>1. EndTurn(t) = t
    BY <1>4, <1>11 DEF EndTurn, Sound, Robot
  <2> QED
    BY <1>6, <1>8, <1>9, <1>11, <2>1
<1>12. CASE robot' = EndTurn(t) /\ t.turning
  <2>1. robot'.sign = t.sign /\ t.sign = "blue" /\ ~ robot'.turning
    BY <1>4, <1>12 DEF EndTurn, Sound, Agrees, Robot
  <2> QED
    BY <1>4, <1>6, <1>8, <1>9, <1>12, <2>1
<1> QED
  BY <1>5, <1>10, <1>11, <1>12

\* A heartbeat: a peer that was lost is back, with a flash.
LEMMA OnPeerSound ==
  ASSUME IInv, OnPeer
  PROVE  IInv'
<1> DEFINE s == IF ~ robot.valid /\ robot.lost THEN FlashRgb(robot, "white") ELSE robot
<1>1. Sound(s) /\ s \in Robot /\ s.valid = robot.valid
  BY FlashSound DEF IInv, Sound, FlashRgb, Robot
<1>2. robot' = [s EXCEPT !.valid = TRUE, !.known = TRUE, !.lost = robot.valid /\ @]
  BY DEF OnPeer
<1> HIDE DEF s
<1>3. Sound(robot')
  BY <1>1, <1>2 DEF Sound, Agrees, Robot
<1> QED
  BY <1>3 DEF IInv, OnPeer

LEMMA OnLedHonest ==
  ASSUME IInv, OnLed
  PROVE  IInv'
  BY ColoursKnown, SetEyeHonest, SetEyesHonest DEF IInv, OnLed

\* Cards and orders: a flash, or a pause that ends it.
LEMMA CardsSound ==
  ASSUME IInv, CardRejected \/ RedCard \/ BlueCard \/ OrderStop \/ OrderHandover
               \/ \E card \in SpeedCards : SpeedCard(card) \/ OrderSpeed(card)
  PROVE  IInv'
<1> USE DEF IInv
<1>1. "red" \in CardColour /\ "white" \in CardColour \cup {"white"}
  BY DEF CardColour
<1>2. ~ Busy(robot) => robot.sync = "None"
  BY DEF Busy
<1>3. CASE CardRejected \/ RedCard
  <2>1. robot' = FlashRgb(robot, "red") /\ robot.sync = "None" /\ eyes' = eyes
    BY <1>2, <1>3 DEF CardRejected, RedCard, Card
  <2> QED
    BY <1>1, <2>1, FlashSound
<1>4. CASE BlueCard
  <2>1. /\ robot' = BeginSync(robot, "GiveLead", "blue") /\ eyes' = eyes
        /\ robot.running /\ ~ Busy(robot)
    BY <1>4 DEF BlueCard, Card
  <2> QED
    BY <2>1, ColoursKnown, BeginSyncSound
<1>5. CASE OrderHandover
  <2>1. /\ robot' = BeginSync(robot, "TakeLead", "blue") /\ eyes' = eyes
        /\ robot.running /\ ~ Busy(robot)
    BY <1>5 DEF OrderHandover, Order
  <2> QED
    BY <2>1, ColoursKnown, BeginSyncSound
<1>6. CASE OrderStop
  <2> DEFINE s == [robot EXCEPT !.sync = "None"]
  <2>1. Sound(s) /\ s.sync = "None"
    BY DEF Sound, Agrees, Robot, HandoverSync
  <2>2. robot' = FlashRgb(EndTurn(s), "red") /\ eyes' = eyes
    BY <1>6 DEF OrderStop, Order
  <2> HIDE DEF s
  <2>3. Sound(EndTurn(s)) /\ EndTurn(s).sync = "None"
    BY <2>1, EndTurnSound DEF EndTurn, Sound, Robot
  <2> QED
    BY <1>1, <2>2, <2>3, FlashSound
<1>7. ASSUME NEW card \in SpeedCards, SpeedCard(card) \/ OrderSpeed(card)
      PROVE  IInv'
  <2>1. /\ robot.running /\ ~ Busy(robot) /\ eyes' = eyes
        /\ robot' \in {BeginSync(robot, "Speed", card), FlashRgb(robot, card)}
    BY <1>7 DEF SpeedCard, OrderSpeed, Card, Order
  <2>2. card \in CardColour /\ card \in Colour
    BY ColoursKnown
  <2>3. Sound(BeginSync(robot, "Speed", card))
    BY <2>1, <2>2, BeginSyncSound
  <2>4. Sound(FlashRgb(robot, card))
    BY <1>2, <2>1, <2>2, FlashSound
  <2> QED
    BY <2>1, <2>3, <2>4
<1> QED
  BY <1>3, <1>4, <1>5, <1>6, <1>7

\* The operator, the end of a spin and the clock.
LEMMA OthersSound ==
  ASSUME IInv, \/ OnTimerDisabled \/ RunStart \/ RunStop \/ SetParameter
               \/ TurnEnds \/ Elapse
  PROVE  IInv'
<1> USE DEF IInv
<1>1. CASE OnTimerDisabled \/ TurnEnds
  BY <1>1, EndTurnSound DEF OnTimerDisabled, TurnEnds
<1>2. CASE RunStart
  <2> DEFINE s == [robot EXCEPT !.running = TRUE]
  <2>1. Sound(s)
    BY DEF Sound, Agrees, Robot
  <2>2. robot' = FlashRgb(s, "white") /\ eyes' = eyes
    BY <1>2 DEF RunStart
  <2> HIDE DEF s
  <2> QED
    BY <2>1, <2>2, FlashSound
<1>3. CASE RunStop
  <2>1. robot' = EndTurn([robot EXCEPT !.running = FALSE, !.sync = "None"])
    BY <1>3 DEF RunStop
  <2>2. Sound(robot')
    BY <2>1 DEF EndTurn, Sound, Agrees, Robot, HandoverSync
  <2> QED
    BY <1>3, <2>2 DEF RunStop
<1>4. CASE SetParameter
  <2>1. Sound(robot')
    BY <1>4 DEF SetParameter, Sound, Agrees, Robot
  <2> QED
    BY <1>4, <2>1 DEF SetParameter
<1>5. CASE Elapse
  BY <1>5, OlderSound DEF Elapse
<1> QED
  BY <1>1, <1>2, <1>3, <1>4, <1>5

-----------------------------------------------------------------------------
(* The theorems. *)

LEMMA InitSound == Init => IInv
<1> SUFFICES ASSUME Init
             PROVE  IInv
  OBVIOUS
<1>1. Sound(robot)
  BY Ranges, ColoursKnown DEF Init, Sound, Agrees, Robot, HandoverSync
<1>2. Honest(eyes)
  BY DEF Init, Honest, Board, Colour
<1> QED
  BY <1>1, <1>2 DEF IInv

LEMMA NextSound == IInv /\ [Next]_vars => IInv'
<1> SUFFICES ASSUME IInv, [Next]_vars
             PROVE  IInv'
  OBVIOUS
<1>1. CASE UNCHANGED vars
  BY <1>1 DEF IInv, vars
<1>2. CASE Next
  BY <1>2, OnTimerTells, OnPeerSound, OnLedHonest, CardsSound, OthersSound DEF Next
<1> QED
  BY <1>1, <1>2

LEMMA Invariant == Spec => []IInv
  BY InitSound, NextSound, PTL DEF Spec

\* Every member that decides on the eyes keeps its type, and so does the driver's cache.
THEOREM EyesTypeCorrect == Spec => []EyesTypeOK
<1>1. IInv => EyesTypeOK
  BY DEF IInv, Sound, Honest, EyesTypeOK
<1> QED
  BY <1>1, Invariant, PTL

\* No flash of a card outlives the pause it came before, for any pause and any flash.
THEOREM PauseOwnsEyesCorrect == Spec => []PauseOwnsEyes
<1>1. IInv => PauseOwnsEyes
  BY DEF IInv, Sound, Agrees, PauseOwnsEyes
<1> QED
  BY <1>1, Invariant, PTL

\* "Peer lost" is remembered exactly while a peer once heard is silent.
THEOREM LostPeerCorrect == Spec => []LostPeerKnown
<1>1. IInv => LostPeerKnown
  BY DEF IInv, Sound, Agrees, LostPeerKnown
<1> QED
  BY <1>1, Invariant, PTL

\* After every tick the eyes tell what the readme says their colour means.
THEOREM EyesTellCorrect == Spec => EyesTell
<1>1. IInv /\ OnTimer
        => \A eye \in Eye \ eyes'.missed :
             \/ Means(robot', eye, eyes'.board[eye])
             \/ eyes'.board[eye] = robot'.sign /\ robot'.sign = "blue" /\ ~ robot'.turning
                /\ (robot.turning \/ robot.sync \in {"TakeLead", "GiveLead"})
  BY OnTimerTells DEF HandoverSync
<1> QED
  BY <1>1, Invariant, PTL DEF EyesTell, Spec
=============================================================================
