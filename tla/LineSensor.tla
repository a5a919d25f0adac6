------------------------------- MODULE LineSensor -------------------------------
(***************************************************************************)
(* What the driver makes of one answer of the line sensor: estimate_line() *)
(* (gopigo3_driver.cpp), which places the line under the board.  Sensors   *)
(* are counted from the left, 0 .. count - 1; their values and the         *)
(* threshold are in units of 1 / White, and the position is the ratio      *)
(* num / den, which the division of blackness by the threshold leaves      *)
(* unchanged.                                                              *)
(***************************************************************************)
EXTENDS Integers

CONSTANTS
  Count,       \* sensors on the board: 6 on the black one, 5 on the red one
  White,       \* what a sensor says on pure white
  Levels,      \* the values a sensor is read with; a red board may answer below 0
  Threshold    \* line_threshold, which nothing checks at start-up

ASSUME BoardAssumption == Count \in {5, 6}
ASSUME LevelsAssumption ==
  /\ White \in Nat \ {0}
  /\ Levels \subseteq Int
  /\ Threshold \in Int

Places == 0 .. 5

\* One answer: the value of each sensor.
Picture == [0 .. Count - 1 -> Levels]

\* std::clamp(white_threshold, 0.05, 1.0), in units of 1 / (20 White).
Limit ==
  IF 20 * Threshold < White THEN White
  ELSE IF Threshold > White THEN 20 * White ELSE 20 * Threshold
Scaled(value) == 20 * value

\* Mutant: bare surface counts against the line.
DarknessUnclamped(picture, i) ==
  IF i >= Count THEN 0 ELSE Limit - Scaled(picture[i])

\* Blackness times the threshold, in units of 1 / (20 White): nothing on bare surface.
Darkness(picture, i) ==
  IF i >= Count \/ Scaled(picture[i]) >= Limit THEN 0
  ELSE IF Scaled(picture[i]) =< 0 THEN Limit
  ELSE Limit - Scaled(picture[i])

Dark(picture) == {i \in Places : Darkness(picture, i) > 0}

Denominator(picture) ==
  Darkness(picture, 0) + Darkness(picture, 1) + Darkness(picture, 2)
  + Darkness(picture, 3) + Darkness(picture, 4) + Darkness(picture, 5)

\* Mutant: the sensors are counted from one.
NumeratorFromOne(picture) ==
  Darkness(picture, 0) + 2 * Darkness(picture, 1) + 3 * Darkness(picture, 2)
  + 4 * Darkness(picture, 3) + 5 * Darkness(picture, 4) + 6 * Darkness(picture, 5)

Numerator(picture) ==
  Darkness(picture, 1) + 2 * Darkness(picture, 2)
  + 3 * Darkness(picture, 3) + 4 * Darkness(picture, 4) + 5 * Darkness(picture, 5)

(***************************************************************************)
(* The estimate: the position num / den, 0 left, 1 right, and lost, which  *)
(* is 0 with the line in sight, 1 on nothing but line and 2 on no line.    *)
(***************************************************************************)
EstimateLine(picture) ==
  LET den == Denominator(picture) * (Count - 1) IN
  [num  |-> IF den > 0 THEN Numerator(picture) ELSE 1,
   den  |-> IF den > 0 THEN den ELSE 2,
   lost |-> CASE Dark(picture) = 0 .. Count - 1 -> 1
              [] Dark(picture) = {} -> 2
              [] OTHER -> 0]

\* The word on line_follower/state.
StateOf(e) ==
  CASE e.lost = 1 -> "black"
    [] e.lost = 2 -> "white"
    [] e.lost = 0 /\ 10 * e.num < 4 * e.den -> "left"
    [] e.lost = 0 /\ 10 * e.num > 6 * e.den -> "right"
    [] OTHER -> "center"

-----------------------------------------------------------------------------
(* Properties of the estimate. *)

\* The estimate lies between the outermost sensors that see the line, so within the
\* board: a line under a single sensor pulls it all the way there.
Between(picture) ==
  LET e == EstimateLine(picture) IN
  /\ e.den > 0 /\ 0 =< e.num /\ e.num =< e.den
  /\ \A i \in Dark(picture) :
       /\ (\A j \in Dark(picture) : i =< j) => i * e.den =< e.num * (Count - 1)
       /\ (\A j \in Dark(picture) : j =< i) => e.num * (Count - 1) =< i * e.den

Mirrored(picture) == [i \in 0 .. Count - 1 |-> picture[Count - 1 - i]]
MirroredState ==
  [left |-> "right", right |-> "left", center |-> "center", black |-> "black",
   white |-> "white"]

\* Left and right are alike: the mirrored line has the mirrored position and state.
Even(picture) ==
  LET e == EstimateLine(picture)
      m == EstimateLine(Mirrored(picture)) IN
  /\ m.num * e.den = (e.den - e.num) * m.den
  /\ StateOf(m) = MirroredState[StateOf(e)]

\* A line that gets darker under a sensor never moves the estimate away from it.
Pulls(picture) ==
  LET e == EstimateLine(picture) IN
  \A i \in 0 .. Count - 1, level \in Levels :
    level < picture[i] =>
      LET f == EstimateLine([picture EXCEPT ![i] = level]) IN
      IF i * e.den >= e.num * (Count - 1)
      THEN f.num * e.den >= e.num * f.den
      ELSE f.num * e.den =< e.num * f.den

\* What follow_line() and check_turn_line() rely on for every answer of either board: the
\* estimate is on the line, on the right side of the middle, and follows the line.
EstimateSound ==
  \A picture \in Picture : Between(picture) /\ Even(picture) /\ Pulls(picture)
=============================================================================
