---------------------------- MODULE LineSensorProofs ----------------------------
(***************************************************************************)
(* The line estimate is sound on either board, whatever the sensors say    *)
(* and whatever line_threshold is: the three parts of EstimateSound.       *)
(***************************************************************************)
EXTENDS LineSensor, TLAPS

-----------------------------------------------------------------------------
(* What one sensor adds to the estimate. *)

LEMMA LimitPositive == Limit \in Nat /\ Limit > 0
BY LevelsAssumption DEF Limit

LEMMA DarknessTyped ==
  ASSUME NEW p \in Picture, NEW i \in Places
  PROVE  /\ Darkness(p, i) \in Nat
         /\ i >= Count => Darkness(p, i) = 0
<1>1. i \in Int /\ Count \in Int
  BY BoardAssumption DEF Places
<1>2. CASE i >= Count
  BY <1>2 DEF Darkness
<1>3. CASE ~ (i >= Count)
  <2>1. i \in 0 .. Count - 1
    BY <1>1, <1>3 DEF Places
  <2>2. p[i] \in Int
    BY <2>1, LevelsAssumption DEF Picture
  <2> QED
    BY <2>2, <1>3, LimitPositive DEF Darkness, Scaled
<1> QED
  BY <1>2, <1>3

\* A value that falls never makes its sensor count for less.
LEMMA DarknessFalls ==
  ASSUME NEW p \in Picture, NEW i \in 0 .. Count - 1, NEW level \in Levels,
         level < p[i]
  PROVE  /\ [p EXCEPT ![i] = level] \in Picture
         /\ Darkness([p EXCEPT ![i] = level], i) >= Darkness(p, i)
         /\ \A j \in Places \ {i} :
              Darkness([p EXCEPT ![i] = level], j) = Darkness(p, j)
<1> DEFINE q == [p EXCEPT ![i] = level]
<1>1. q \in Picture
  BY DEF Picture
<1>2. p[i] \in Int /\ level \in Int /\ q[i] = level
  BY LevelsAssumption DEF Picture
<1>3. i < Count /\ ~ (i >= Count)
  BY BoardAssumption
<1>4. Darkness(q, i) >= Darkness(p, i)
  <2>1. Scaled(level) < Scaled(p[i]) /\ Scaled(level) \in Int /\ Scaled(p[i]) \in Int
    BY <1>2 DEF Scaled
  <2> HIDE DEF q
  <2> QED
    BY <1>2, <1>3, <2>1, LimitPositive DEF Darkness
<1>5. ASSUME NEW j \in Places \ {i}
      PROVE  Darkness(q, j) = Darkness(p, j)
  <2>1. CASE j >= Count
    BY <2>1 DEF Darkness
  <2>2. CASE ~ (j >= Count)
    <3>1. j \in 0 .. Count - 1
      BY <2>2, BoardAssumption DEF Places
    <3>2. q[j] = p[j]
      BY <3>1 DEF Picture
    <3> HIDE DEF q
    <3> QED
      BY <3>2 DEF Darkness
  <2> QED
    BY <2>1, <2>2
<1> QED
  BY <1>1, <1>4, <1>5

LEMMA DarkMeans ==
  ASSUME NEW p \in Picture
  PROVE  /\ Dark(p) \subseteq 0 .. Count - 1
         /\ \A i \in Places : i \in Dark(p) <=> Darkness(p, i) > 0
<1>1. \A i \in Places : i \in Dark(p) <=> Darkness(p, i) > 0
  BY DEF Dark
<1>2. ASSUME NEW i \in Dark(p)
      PROVE  i \in 0 .. Count - 1
  <2>1. i \in Places /\ Darkness(p, i) > 0
    BY DEF Dark
  <2>2. ~ (i >= Count)
    BY <2>1, DarknessTyped
  <2> QED
    BY <2>1, <2>2, BoardAssumption DEF Places
<1> QED
  BY <1>1, <1>2

-----------------------------------------------------------------------------
(* The sums and the estimate. *)

LEMMA DarknessOf ==
  ASSUME NEW p \in Picture
  PROVE  /\ Darkness(p, 0) \in Nat /\ Darkness(p, 1) \in Nat /\ Darkness(p, 2) \in Nat
         /\ Darkness(p, 3) \in Nat /\ Darkness(p, 4) \in Nat /\ Darkness(p, 5) \in Nat
         /\ Count = 5 => Darkness(p, 5) = 0
<1>1. Places = {0, 1, 2, 3, 4, 5}
  BY DEF Places
<1>2. \A i \in Places : Darkness(p, i) \in Nat /\ (i >= Count => Darkness(p, i) = 0)
  BY DarknessTyped
<1> QED
  BY <1>1, <1>2

LEMMA SumsTyped ==
  ASSUME NEW p \in Picture
  PROVE  /\ Denominator(p) \in Nat /\ Numerator(p) \in Nat
         /\ Numerator(p) =< Denominator(p) * (Count - 1)
<1>1. Denominator(p) \in Nat /\ Numerator(p) \in Nat
  BY DarknessOf DEF Denominator, Numerator
<1>2. CASE Count = 5
  BY <1>2, DarknessOf DEF Denominator, Numerator
<1>3. CASE Count = 6
  BY <1>3, DarknessOf DEF Denominator, Numerator
<1> QED
  BY <1>1, <1>2, <1>3, BoardAssumption

LEMMA SumsVanish ==
  ASSUME NEW p \in Picture
  PROVE  Denominator(p) = 0 <=> Dark(p) = {}
<1>1. \A i \in Places : Darkness(p, i) \in Nat
  BY DarknessTyped
<1>2. Places = {0, 1, 2, 3, 4, 5}
  BY DEF Places
<1>3. Denominator(p) = 0 <=> \A i \in Places : Darkness(p, i) = 0
  <2>1. (\A i \in Places : Darkness(p, i) = 0)
          <=> /\ Darkness(p, 0) = 0 /\ Darkness(p, 1) = 0 /\ Darkness(p, 2) = 0
              /\ Darkness(p, 3) = 0 /\ Darkness(p, 4) = 0 /\ Darkness(p, 5) = 0
    BY <1>2
  <2>2. Denominator(p) = 0
          <=> /\ Darkness(p, 0) = 0 /\ Darkness(p, 1) = 0 /\ Darkness(p, 2) = 0
              /\ Darkness(p, 3) = 0 /\ Darkness(p, 4) = 0 /\ Darkness(p, 5) = 0
    BY DarknessOf DEF Denominator
  <2> QED
    BY <2>1, <2>2
<1>4. (\A i \in Places : Darkness(p, i) = 0) <=> Dark(p) = {}
  BY <1>1 DEF Dark
<1> QED
  BY <1>3, <1>4

\* The estimate in terms of the two sums.
LEMMA EstimateIs ==
  ASSUME NEW p \in Picture
  PROVE  /\ Denominator(p) > 0 =>
              /\ EstimateLine(p).num = Numerator(p)
              /\ EstimateLine(p).den = Denominator(p) * (Count - 1)
         /\ Denominator(p) = 0 =>
              EstimateLine(p).num = 1 /\ EstimateLine(p).den = 2
         /\ EstimateLine(p).num \in Nat
         /\ EstimateLine(p).den \in Nat /\ EstimateLine(p).den > 0
         /\ EstimateLine(p).num =< EstimateLine(p).den
<1>1. Denominator(p) > 0 => Denominator(p) * (Count - 1) > 0
  BY SumsTyped, BoardAssumption
<1>2. Denominator(p) = 0 => ~ (Denominator(p) * (Count - 1) > 0)
  BY SumsTyped, BoardAssumption
<1>3. Denominator(p) * (Count - 1) \in Int
  BY SumsTyped, BoardAssumption
<1>4. Denominator(p) > 0 \/ Denominator(p) = 0
  BY SumsTyped
<1> QED
  BY <1>1, <1>2, <1>3, <1>4, SumsTyped DEF EstimateLine

-----------------------------------------------------------------------------
(* Between: the estimate lies between the outermost sensors on the line.   *)

LEMMA MomentAbove ==
  ASSUME NEW p \in Picture, NEW i \in Dark(p), \A j \in Dark(p) : i =< j
  PROVE  i * Denominator(p) =< Numerator(p)
<1>1. \A j \in Places : j < i => Darkness(p, j) = 0
  BY DarkMeans, DarknessTyped DEF Places
<1>2. i \in {0, 1, 2, 3, 4, 5}
  BY DEF Dark, Places
<1>3. Places = {0, 1, 2, 3, 4, 5}
  BY DEF Places
<1>4. CASE i = 0
  BY <1>4, SumsTyped
<1>5. CASE i = 1
  BY <1>1, <1>3, <1>5, DarknessOf DEF Denominator, Numerator
<1>6. CASE i = 2
  BY <1>1, <1>3, <1>6, DarknessOf DEF Denominator, Numerator
<1>7. CASE i = 3
  BY <1>1, <1>3, <1>7, DarknessOf DEF Denominator, Numerator
<1>8. CASE i = 4
  BY <1>1, <1>3, <1>8, DarknessOf DEF Denominator, Numerator
<1>9. CASE i = 5
  BY <1>1, <1>3, <1>9, DarknessOf DEF Denominator, Numerator
<1> QED
  BY <1>2, <1>4, <1>5, <1>6, <1>7, <1>8, <1>9

LEMMA MomentBelow ==
  ASSUME NEW p \in Picture, NEW i \in Dark(p), \A j \in Dark(p) : j =< i
  PROVE  Numerator(p) =< i * Denominator(p)
<1>1. \A j \in Places : j > i => Darkness(p, j) = 0
  BY DarkMeans, DarknessTyped DEF Places
<1>2. i \in {0, 1, 2, 3, 4, 5}
  BY DEF Dark, Places
<1>3. Places = {0, 1, 2, 3, 4, 5}
  BY DEF Places
<1>4. CASE i = 0
  BY <1>1, <1>3, <1>4, DarknessOf DEF Denominator, Numerator
<1>5. CASE i = 1
  BY <1>1, <1>3, <1>5, DarknessOf DEF Denominator, Numerator
<1>6. CASE i = 2
  BY <1>1, <1>3, <1>6, DarknessOf DEF Denominator, Numerator
<1>7. CASE i = 3
  BY <1>1, <1>3, <1>7, DarknessOf DEF Denominator, Numerator
<1>8. CASE i = 4
  BY <1>1, <1>3, <1>8, DarknessOf DEF Denominator, Numerator
<1>9. CASE i = 5
  BY <1>9, DarknessOf DEF Denominator, Numerator
<1> QED
  BY <1>2, <1>4, <1>5, <1>6, <1>7, <1>8, <1>9

\* The estimate lies between the outermost sensors that see the line, so within the board.
THEOREM EstimateBetween == \A picture \in Picture : Between(picture)
<1> SUFFICES ASSUME NEW p \in Picture
             PROVE  Between(p)
  OBVIOUS
<1> DEFINE e == EstimateLine(p)
<1>1. e.den > 0 /\ 0 =< e.num /\ e.num =< e.den
  BY EstimateIs
<1>2. ASSUME NEW i \in Dark(p)
      PROVE  /\ i \in Int /\ Denominator(p) > 0
             /\ e.den = Denominator(p) * (Count - 1) /\ e.num = Numerator(p)
  <2>1. Denominator(p) > 0
    BY SumsVanish, SumsTyped
  <2> QED
    BY <2>1, EstimateIs DEF Dark, Places
<1>3. ASSUME NEW i \in Dark(p), \A j \in Dark(p) : i =< j
      PROVE  i * e.den =< e.num * (Count - 1)
  <2>1. i * Denominator(p) =< Numerator(p)
    BY <1>3, MomentAbove
  <2> HIDE DEF e
  <2>2. CASE Count = 5
    BY <1>2, <2>1, <2>2, SumsTyped
  <2>3. CASE Count = 6
    BY <1>2, <2>1, <2>3, SumsTyped
  <2> QED
    BY <2>2, <2>3, BoardAssumption
<1>4. ASSUME NEW i \in Dark(p), \A j \in Dark(p) : j =< i
      PROVE  e.num * (Count - 1) =< i * e.den
  <2>1. Numerator(p) =< i * Denominator(p)
    BY <1>4, MomentBelow
  <2> HIDE DEF e
  <2>2. CASE Count = 5
    BY <1>2, <2>1, <2>2, SumsTyped
  <2>3. CASE Count = 6
    BY <1>2, <2>1, <2>3, SumsTyped
  <2> QED
    BY <2>2, <2>3, BoardAssumption
<1> QED
  BY <1>1, <1>3, <1>4 DEF Between

-----------------------------------------------------------------------------
(* Even: left and right are alike.                                         *)

LEMMA MirrorDarkness ==
  ASSUME NEW p \in Picture
  PROVE  /\ Mirrored(p) \in Picture
         /\ \A i \in 0 .. Count - 1 :
              Darkness(Mirrored(p), i) = Darkness(p, Count - 1 - i)
<1>1. Mirrored(p) \in Picture
  BY BoardAssumption DEF Mirrored, Picture
<1>2. ASSUME NEW i \in 0 .. Count - 1
      PROVE  Darkness(Mirrored(p), i) = Darkness(p, Count - 1 - i)
  <2>1. Mirrored(p)[i] = p[Count - 1 - i]
    BY DEF Mirrored
  <2>2. ~ (i >= Count) /\ ~ (Count - 1 - i >= Count)
    BY BoardAssumption
  <2> QED
    BY <2>1, <2>2 DEF Darkness
<1> QED
  BY <1>1, <1>2

LEMMA MirrorSums ==
  ASSUME NEW p \in Picture
  PROVE  /\ Denominator(Mirrored(p)) = Denominator(p)
         /\ Numerator(Mirrored(p)) = Denominator(p) * (Count - 1) - Numerator(p)
<1> DEFINE m == Mirrored(p)
<1>1. m \in Picture /\ \A i \in 0 .. Count - 1 : Darkness(m, i) = Darkness(p, Count - 1 - i)
  BY MirrorDarkness
<1> HIDE DEF m
<1>2. CASE Count = 5
  <2>1. /\ Darkness(m, 0) = Darkness(p, 4) /\ Darkness(m, 1) = Darkness(p, 3)
        /\ Darkness(m, 2) = Darkness(p, 2) /\ Darkness(m, 3) = Darkness(p, 1)
        /\ Darkness(m, 4) = Darkness(p, 0)
    BY <1>1, <1>2
  <2>2. Darkness(m, 5) = 0 /\ Darkness(p, 5) = 0
    BY <1>1, <1>2, DarknessOf
  <2> QED
    BY <1>2, <2>1, <2>2, DarknessOf DEF Denominator, Numerator, m
<1>3. CASE Count = 6
  <2>1. /\ Darkness(m, 0) = Darkness(p, 5) /\ Darkness(m, 1) = Darkness(p, 4)
        /\ Darkness(m, 2) = Darkness(p, 3) /\ Darkness(m, 3) = Darkness(p, 2)
        /\ Darkness(m, 4) = Darkness(p, 1) /\ Darkness(m, 5) = Darkness(p, 0)
    BY <1>1, <1>3
  <2> QED
    BY <1>3, <2>1, DarknessOf DEF Denominator, Numerator, m
<1> QED
  BY <1>2, <1>3, BoardAssumption

LEMMA MirrorDark ==
  ASSUME NEW p \in Picture
  PROVE  /\ Dark(Mirrored(p)) = {} <=> Dark(p) = {}
         /\ Dark(Mirrored(p)) = 0 .. Count - 1 <=> Dark(p) = 0 .. Count - 1
<1> DEFINE m == Mirrored(p)
           Other(i) == Count - 1 - i
<1>1. \A i \in 0 .. Count - 1 : Other(i) \in 0 .. Count - 1 /\ Other(Other(i)) = i
  BY BoardAssumption
<1>2. 0 .. Count - 1 \subseteq Places
  BY BoardAssumption DEF Places
<1>3. Dark(m) \subseteq 0 .. Count - 1 /\ Dark(p) \subseteq 0 .. Count - 1
  BY MirrorDarkness, DarkMeans
<1>4. \A i \in 0 .. Count - 1 : i \in Dark(m) <=> Other(i) \in Dark(p)
  BY <1>1, <1>2, MirrorDarkness DEF Dark
<1> HIDE DEF m, Other
<1>5. Dark(m) = {} <=> Dark(p) = {}
  BY <1>1, <1>3, <1>4
<1>6. Dark(m) = 0 .. Count - 1 <=> Dark(p) = 0 .. Count - 1
  BY <1>1, <1>3, <1>4
<1> QED
  BY <1>5, <1>6 DEF m

\* The mirrored line has the mirrored position and the mirrored word.
THEOREM EstimateEven == \A picture \in Picture : Even(picture)
<1> SUFFICES ASSUME NEW p \in Picture
             PROVE  Even(p)
  OBVIOUS
<1> DEFINE e == EstimateLine(p)
           m == EstimateLine(Mirrored(p))
<1>1. m.den = e.den /\ m.num = e.den - e.num
  <2>1. CASE Denominator(p) > 0
    BY <2>1, EstimateIs, MirrorDarkness, MirrorSums
  <2>2. CASE Denominator(p) = 0
    BY <2>2, EstimateIs, MirrorDarkness, MirrorSums
  <2> QED
    BY <2>1, <2>2, SumsTyped
<1>2. e.num \in Nat /\ e.den \in Nat
  BY EstimateIs
<1>3. m.lost = e.lost /\ e.lost \in 0 .. 2
  BY MirrorDark DEF EstimateLine
<1> HIDE DEF e, m
<1>4. m.num * e.den = (e.den - e.num) * m.den
  BY <1>1
<1>5. StateOf(m) = MirroredState[StateOf(e)]
  BY <1>1, <1>2, <1>3 DEF StateOf, MirroredState
<1> QED
  BY <1>4, <1>5 DEF Even, e, m

-----------------------------------------------------------------------------
(* Pulls: a darker line never moves the estimate away.                     *)

LEMMA MomentGrows ==
  ASSUME NEW p \in Picture, NEW i \in 0 .. Count - 1, NEW level \in Levels,
         level < p[i]
  PROVE  LET q == [p EXCEPT ![i] = level] IN
         /\ q \in Picture
         /\ \E d \in Nat : /\ Denominator(q) = Denominator(p) + d
                           /\ Numerator(q) = Numerator(p) + i * d
<1> DEFINE q == [p EXCEPT ![i] = level]
           d == Darkness(q, i) - Darkness(p, i)
<1>1. /\ q \in Picture
      /\ Darkness(q, i) >= Darkness(p, i)
      /\ \A j \in Places \ {i} : Darkness(q, j) = Darkness(p, j)
  BY DarknessFalls
<1> HIDE DEF q
<1>2. i \in {0, 1, 2, 3, 4, 5} /\ Places = {0, 1, 2, 3, 4, 5}
  BY BoardAssumption DEF Places
<1>3. /\ d \in Nat
      /\ Darkness(q, i) = Darkness(p, i) + d
  BY <1>1, <1>2, DarknessOf
<1> HIDE DEF d
<1>4. /\ Denominator(q) = Denominator(p) + d
      /\ Numerator(q) = Numerator(p) + i * d
  <2>1. CASE i = 0
    BY <1>1, <1>2, <1>3, <2>1, DarknessOf DEF Denominator, Numerator
  <2>2. CASE i = 1
    BY <1>1, <1>2, <1>3, <2>2, DarknessOf DEF Denominator, Numerator
  <2>3. CASE i = 2
    BY <1>1, <1>2, <1>3, <2>3, DarknessOf DEF Denominator, Numerator
  <2>4. CASE i = 3
    BY <1>1, <1>2, <1>3, <2>4, DarknessOf DEF Denominator, Numerator
  <2>5. CASE i = 4
    BY <1>1, <1>2, <1>3, <2>5, DarknessOf DEF Denominator, Numerator
  <2>6. CASE i = 5
    BY <1>1, <1>2, <1>3, <2>6, DarknessOf DEF Denominator, Numerator
  <2> QED
    BY <1>2, <2>1, <2>2, <2>3, <2>4, <2>5, <2>6
<1> QED
  BY <1>1, <1>3, <1>4 DEF q

\* Adding weight d at place i moves the mean towards i.
LEMMA MeanMoves ==
  ASSUME NEW D \in Nat, NEW N \in Nat, NEW d \in Nat, NEW i \in 0 .. 5
  PROVE  /\ i * D >= N => (N + i * d) * D >= N * (D + d)
         /\ i * D =< N => (N + i * d) * D =< N * (D + d)
<1>1. (N + i * d) * D - N * (D + d) = d * (i * D - N)
  OBVIOUS
<1>2. i * D - N \in Int
  OBVIOUS
<1>3. \A z \in Int : (z >= 0 => d * z >= 0) /\ (z =< 0 => d * z =< 0)
  OBVIOUS
<1>4. (N + i * d) * D \in Int /\ N * (D + d) \in Int
  OBVIOUS
<1> QED
  BY <1>1, <1>2, <1>3, <1>4

\* The ratio of the estimate moves as the mean does; with no line in sight before, it
\* moves off the middle.
THEOREM EstimatePulls == \A picture \in Picture : Pulls(picture)
<1> SUFFICES ASSUME NEW p \in Picture, NEW i \in 0 .. Count - 1,
                    NEW level \in Levels, level < p[i]
             PROVE  LET e == EstimateLine(p)
                        f == EstimateLine([p EXCEPT ![i] = level]) IN
                    IF i * e.den >= e.num * (Count - 1)
                    THEN f.num * e.den >= e.num * f.den
                    ELSE f.num * e.den =< e.num * f.den
  BY DEF Pulls
<1> DEFINE q == [p EXCEPT ![i] = level]
           e == EstimateLine(p)
           f == EstimateLine(q)
           n == Count - 1
           D == Denominator(p)
           N == Numerator(p)
<1>1. q \in Picture
  BY MomentGrows
<1>2. PICK d \in Nat : Denominator(q) = D + d /\ Numerator(q) = N + i * d
  BY MomentGrows
<1>3. D \in Nat /\ N \in Nat /\ i \in 0 .. 5 /\ n \in {4, 5}
  BY SumsTyped, BoardAssumption
<1>4. /\ D > 0 => e.num = N /\ e.den = D * n
      /\ D = 0 => e.num = 1 /\ e.den = 2 /\ N = 0
  BY EstimateIs, SumsTyped, BoardAssumption
<1>5. /\ D + d > 0 => f.num = N + i * d /\ f.den = (D + d) * n
      /\ D + d = 0 => f.num = 1 /\ f.den = 2
  BY <1>1, <1>2, EstimateIs
<1> HIDE DEF q, e, f, n, D, N
<1>6. CASE D > 0
  <2>1. /\ i * D >= N => (N + i * d) * D >= N * (D + d)
        /\ i * D =< N => (N + i * d) * D =< N * (D + d)
    BY <1>3, MeanMoves
  <2>2. e.num = N /\ e.den = D * n /\ f.num = N + i * d /\ f.den = (D + d) * n
    BY <1>3, <1>4, <1>5, <1>6
  <2> DEFINE A == (N + i * d) * D
             B == N * (D + d)
             I == i * D
  <2>3. A \in Int /\ B \in Int /\ I \in Int
    BY <1>3
  <2>4. f.num * e.den = A * n /\ e.num * f.den = B * n
    BY <1>3, <2>2
  <2>5. i * e.den = I * n /\ e.num * n = N * n
    BY <1>3, <2>2
  <2>6. (I >= N => A >= B) /\ (I =< N => A =< B)
    BY <2>1
  <2> HIDE DEF A, B, I
  <2>7. /\ I * n >= N * n => A * n >= B * n
        /\ ~ (I * n >= N * n) => A * n =< B * n
    <3>1. CASE n = 4
      BY <1>3, <2>3, <2>6, <3>1
    <3>2. CASE n = 5
      BY <1>3, <2>3, <2>6, <3>2
    <3> QED
      BY <1>3, <3>1, <3>2
  <2> QED
    BY <2>4, <2>5, <2>7 DEF e, f, q, n
<1>7. CASE D = 0
  <2>1. e.num = 1 /\ e.den = 2 /\ N = 0
    BY <1>4, <1>7
  <2>2. CASE d = 0
    <3>1. f.num = 1 /\ f.den = 2
      BY <1>5, <1>7, <2>2
    <3> QED
      BY <2>1, <3>1 DEF e, f, q, n
  <2>3. CASE d > 0
    <3>1. f.num = i * d /\ f.den = d * n
      BY <1>3, <1>5, <1>7, <2>1, <2>3
    <3>2. /\ i * 2 >= n => (i * d) * 2 >= d * n
          /\ ~ (i * 2 >= n) => (i * d) * 2 =< d * n
      <4>1. CASE n = 4
        BY <1>3, <4>1
      <4>2. CASE n = 5
        BY <1>3, <4>2
      <4> QED
        BY <1>3, <4>1, <4>2
    <3>3. f.num * e.den = (i * d) * 2 /\ e.num * f.den = d * n
      BY <1>3, <2>1, <3>1
    <3>4. i * e.den = i * 2 /\ e.num * n = n
      BY <1>3, <2>1
    <3> QED
      BY <3>2, <3>3, <3>4 DEF e, f, q, n
  <2> QED
    BY <2>2, <2>3
<1> QED
  BY <1>3, <1>6, <1>7

\* What the driver tells the node of the line is sound on both boards, for every answer of
\* the sensor, every threshold and every scale.
THEOREM EstimateCorrect == EstimateSound
BY EstimateBetween, EstimateEven, EstimatePulls DEF EstimateSound
=============================================================================
