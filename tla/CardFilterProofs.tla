--------------------------- MODULE CardFilterProofs ---------------------------
(***************************************************************************)
(* Proofs about the way from the colour sensor to a card, and about the    *)
(* parameters that may be set meanwhile, for any parameters, any channels, *)
(* any timer of the sensor and any number of failed readings in a row.     *)
(***************************************************************************)
EXTENDS CardFilter, TLAPS

\* The smaller and the larger of two numbers are one of them.
LEMMA LeastOfTwo ==
  ASSUME NEW a \in Int, NEW b \in Int
  PROVE  Least({a, b}) = IF a =< b THEN a ELSE b
<1>1. ASSUME NEW c \in {a, b}, c =< a, c =< b PROVE Least({a, b}) = c
  BY <1>1 DEF Least
<1> QED
  BY <1>1

LEMMA BiggestOfTwo ==
  ASSUME NEW a \in Int, NEW b \in Int
  PROVE  Biggest({a, b}) = IF a =< b THEN b ELSE a
<1>1. ASSUME NEW c \in {a, b}, a =< c, b =< c PROVE Biggest({a, b}) = c
  BY <1>1 DEF Biggest
<1> QED
  BY <1>1

\* The smallest and the largest of some numbers.
LEMMA LeastIs ==
  ASSUME NEW S \in SUBSET Int, NEW m \in S, \A x \in S : m =< x
  PROVE  Least(S) = m
<1> DEFINE P(x) == \A y \in S : x =< y
<1>1. P(m)
  OBVIOUS
<1>2. ASSUME NEW x \in S, P(x) PROVE x = m
  BY <1>1, <1>2
<1> HIDE DEF P
<1>3. (CHOOSE x \in S : P(x)) = m
  BY <1>1, <1>2
<1> QED
  BY <1>3 DEF Least, P

LEMMA BiggestIs ==
  ASSUME NEW S \in SUBSET Int, NEW m \in S, \A x \in S : x =< m
  PROVE  Biggest(S) = m
<1> DEFINE P(x) == \A y \in S : y =< x
<1>1. P(m)
  OBVIOUS
<1>2. ASSUME NEW x \in S, P(x) PROVE x = m
  BY <1>1, <1>2
<1> HIDE DEF P
<1>3. (CHOOSE x \in S : P(x)) = m
  BY <1>1, <1>2
<1> QED
  BY <1>3 DEF Biggest, P

-----------------------------------------------------------------------------
(* read_color() and guess_color().                                         *)

\* The table, row by row.
LEMMA KnownIs ==
  /\ DOMAIN Known = 1 .. 8
  /\ Known[1] = [name |-> "black",   h |-> 0,   s |-> 0, v |-> 0]
  /\ Known[2] = [name |-> "white",   h |-> 0,   s |-> 0, v |-> 1]
  /\ Known[3] = [name |-> "red",     h |-> 0,   s |-> 1, v |-> 1]
  /\ Known[4] = [name |-> "green",   h |-> 120, s |-> 1, v |-> 1]
  /\ Known[5] = [name |-> "blue",    h |-> 240, s |-> 1, v |-> 1]
  /\ Known[6] = [name |-> "yellow",  h |-> 60,  s |-> 1, v |-> 1]
  /\ Known[7] = [name |-> "cyan",    h |-> 180, s |-> 1, v |-> 1]
  /\ Known[8] = [name |-> "fuchsia", h |-> 300, s |-> 1, v |-> 1]
BY DEF Known

\* guess_color() settles on the first row that no other is nearer than.
LEMMA NearestIs ==
  ASSUME NEW dist, NEW i \in 1 .. 8,
         \A j \in 1 .. 8 : dist[j] \in Int,
         \A j \in 1 .. 8 : dist[i] =< dist[j],
         \A j \in 1 .. i - 1 : dist[i] < dist[j]
  PROVE  Nearest(dist) = Known[i].name
<1> DEFINE First(k) == /\ \A j \in 1 .. 8 : dist[k] =< dist[j]
                       /\ \A j \in 1 .. k - 1 : dist[k] < dist[j]
<1>1. First(i)
  OBVIOUS
<1>2. ASSUME NEW k \in 1 .. 8, First(k) PROVE k = i
  <2>1. CASE k < i
    <3>1. k \in 1 .. i - 1
      BY <2>1
    <3>2. dist[i] < dist[k] /\ dist[k] =< dist[i]
      BY <1>2, <3>1
    <3> QED
      BY <3>2
  <2>2. CASE i < k
    <3>1. i \in 1 .. k - 1
      BY <2>2
    <3>2. dist[k] < dist[i] /\ dist[i] =< dist[k]
      BY <1>2, <3>1
    <3> QED
      BY <3>2
  <2> QED
    BY <2>1, <2>2
<1>3. (CHOOSE k \in 1 .. 8 : First(k)) = i
  <2> HIDE DEF First
  <2> QED
    BY <1>1, <1>2
<1>4. Nearest(dist) = Known[CHOOSE k \in 1 .. 8 : First(k)].name
  <2>1. DOMAIN Known = 1 .. 8
    BY KnownIs
  <2> QED
    BY <2>1 DEF Nearest
<1> QED
  BY <1>3, <1>4

-----------------------------------------------------------------------------
(* How far a vivid sample is from the rows of the table.                   *)

\* Products grow with what they are of.
LEMMA Grows ==
  ASSUME NEW x \in Nat, NEW y \in Nat, NEW c \in Nat
  PROVE  /\ x * c \in Nat
         /\ x =< y => x * c =< y * c
         /\ x < y /\ c > 0 => x * c < y * c
<1>1. ASSUME NEW d \in Nat, y = x + d PROVE y * c = x * c + d * c /\ d * c \in Nat
  BY <1>1
<1>2. ASSUME x =< y PROVE y - x \in Nat /\ y = x + (y - x)
  BY <1>2
<1>3. ASSUME NEW d \in Nat, d > 0, c > 0 PROVE d * c > 0
  BY <1>3
<1>4. x * c \in Nat
  OBVIOUS
<1>5. ASSUME x =< y PROVE x * c =< y * c
  <2> DEFINE d == y - x
  <2>1. d \in Nat /\ y = x + d
    BY <1>5
  <2> HIDE DEF d
  <2>2. y * c = x * c + d * c /\ d * c \in Nat
    BY <1>1, <2>1
  <2> DEFINE xc == x * c  yc == y * c  dc == d * c
  <2>3. xc \in Nat /\ yc \in Int /\ dc \in Nat /\ yc = xc + dc
    BY <1>4, <2>2
  <2> HIDE DEF xc, yc, dc
  <2>4. xc =< yc
    BY <2>3
  <2> QED
    BY <2>4 DEF xc, yc
<1>6. ASSUME x < y, c > 0 PROVE x * c < y * c
  <2> DEFINE d == y - x
  <2>1. d \in Nat /\ y = x + d /\ d > 0
    BY <1>6
  <2> HIDE DEF d
  <2>2. y * c = x * c + d * c /\ d * c > 0
    BY <1>1, <1>3, <1>6, <2>1
  <2> DEFINE xc == x * c  yc == y * c  dc == d * c
  <2>3. xc \in Nat /\ yc \in Int /\ dc \in Int /\ yc = xc + dc /\ dc > 0
    BY <1>4, <2>1, <2>2
  <2> HIDE DEF xc, yc, dc
  <2>4. xc < yc
    BY <2>3
  <2> QED
    BY <2>4 DEF xc, yc
<1> QED
  BY <1>4, <1>5, <1>6

\* So do squares.
LEMMA SquareGrows ==
  ASSUME NEW x \in Nat, NEW y \in Nat
  PROVE  /\ Square(x) \in Nat
         /\ x =< y => Square(x) =< Square(y)
         /\ x < y => Square(x) < Square(y)
<1>1. x * x \in Nat /\ y * x \in Nat /\ y * y \in Nat /\ x * y = y * x
  BY Grows
<1>2. x =< y => x * x =< y * x /\ x * y =< y * y
  BY Grows
<1>3. x < y => x * x =< y * x /\ x * y < y * y
  BY Grows
<1> DEFINE xx == x * x  yy == y * y  yx == y * x
<1>4. /\ xx \in Nat /\ yy \in Nat /\ yx \in Nat
      /\ x =< y => xx =< yx /\ yx =< yy
      /\ x < y => xx =< yx /\ yx < yy
  BY <1>1, <1>2, <1>3
<1>5. Square(x) = xx /\ Square(y) = yy
  BY DEF Square
<1> HIDE DEF xx, yy, yx
<1> QED
  BY <1>4, <1>5

\* And so do the squares that Distance() is made of.
LEMMA ScaledSquares ==
  ASSUME NEW x \in Nat, NEW y \in Nat, NEW m \in Nat, NEW c \in Nat
  PROVE  /\ Square(x * m * c) \in Nat
         /\ x =< y => Square(x * m * c) =< Square(y * m * c)
         /\ x < y /\ m > 0 /\ c > 0 => Square(x * m * c) < Square(y * m * c)
<1>1. /\ x * m \in Nat /\ y * m \in Nat
      /\ x =< y => x * m =< y * m
      /\ x < y /\ m > 0 => x * m < y * m
  BY Grows
<1> DEFINE xm == x * m  ym == y * m
<1> HIDE DEF xm, ym
<1>2. /\ xm * c \in Nat /\ ym * c \in Nat
      /\ xm =< ym => xm * c =< ym * c
      /\ xm < ym /\ c > 0 => xm * c < ym * c
  BY <1>1, Grows DEF xm, ym
<1>3. /\ x =< y => xm * c =< ym * c
      /\ x < y /\ m > 0 /\ c > 0 => xm * c < ym * c
  BY <1>1, <1>2 DEF xm, ym
<1>4. /\ Square(xm * c) \in Nat
      /\ xm * c =< ym * c => Square(xm * c) =< Square(ym * c)
      /\ xm * c < ym * c => Square(xm * c) < Square(ym * c)
  BY <1>2, SquareGrows
<1>5. /\ Square(xm * c) \in Nat
      /\ x =< y => Square(xm * c) =< Square(ym * c)
      /\ x < y /\ m > 0 /\ c > 0 => Square(xm * c) < Square(ym * c)
  BY <1>3, <1>4
<1> QED
  BY <1>5 DEF xm, ym

\* What a sample of this saturation and value has besides its hue: the distance in both
\* to a colour (s = v = 1), to white (s = 0) and to black.
Rest(s, v, delta, max, clear) ==
  Square(100 * Gap(delta, s * max) * delta * clear)
  + Square(100 * Gap(max, v * clear) * delta * max)

\* The measures of a vivid sample.
Bright(delta, max, clear) ==
  /\ delta \in Nat /\ max \in Nat /\ clear \in Nat
  /\ 0 < delta /\ delta =< max /\ max =< clear
  /\ 2 * delta > max
  /\ delta * clear + max * max > max * clear

\* A vivid sample is nearer to the colours than to white, but for the hue.
LEMMA FarFromWhite ==
  ASSUME NEW delta, NEW max, NEW clear, Bright(delta, max, clear)
  PROVE  /\ Rest(1, 1, delta, max, clear) \in Nat
         /\ Rest(0, 1, delta, max, clear) \in Nat
         /\ Rest(1, 1, delta, max, clear) < Rest(0, 1, delta, max, clear)
<1>1. /\ delta \in Nat /\ max \in Nat /\ clear \in Nat
      /\ 0 < delta /\ delta =< max /\ max =< clear /\ 2 * delta > max
  BY DEF Bright
<1>2. /\ Gap(delta, 1 * max) = max - delta /\ Gap(delta, 0 * max) = delta
      /\ Gap(max, 1 * clear) = clear - max
  BY <1>1 DEF Gap
<1> DEFINE x == 100 * (max - delta)  y == 100 * delta  z == 100 * (clear - max)
<1>3. x \in Nat /\ y \in Nat /\ z \in Nat /\ x < y
  BY <1>1
<1> HIDE DEF x, y, z
<1>4. /\ Square(x * delta * clear) \in Nat /\ Square(y * delta * clear) \in Nat
      /\ Square(z * delta * max) \in Nat
      /\ Square(x * delta * clear) < Square(y * delta * clear)
  <2>1. Square(x * delta * clear) \in Nat /\ Square(y * delta * clear) \in Nat
    BY <1>1, <1>3, ScaledSquares
  <2>2. Square(z * delta * max) \in Nat
    BY <1>1, <1>3, ScaledSquares
  <2>3. clear > 0
    BY <1>1
  <2>4. Square(x * delta * clear) < Square(y * delta * clear)
    BY <1>1, <1>3, <2>3, ScaledSquares
  <2> QED
    BY <2>1, <2>2, <2>4
<1>5. /\ Rest(1, 1, delta, max, clear) = Square(x * delta * clear) + Square(z * delta * max)
      /\ Rest(0, 1, delta, max, clear) = Square(y * delta * clear) + Square(z * delta * max)
  BY <1>2 DEF Rest, x, y, z
<1> QED
  BY <1>4, <1>5

\* Nor is it as near to black: its saturation and its value add up to more than 1.
LEMMA FarFromBlack ==
  ASSUME NEW delta, NEW max, NEW clear, Bright(delta, max, clear)
  PROVE  /\ Rest(0, 0, delta, max, clear) \in Nat
         /\ Rest(1, 1, delta, max, clear) < Rest(0, 0, delta, max, clear)
<1>1. /\ delta \in Nat /\ max \in Nat /\ clear \in Nat
      /\ 0 < delta /\ delta =< max /\ max =< clear
      /\ delta * clear + max * max > max * clear
  BY DEF Bright
<1>2. /\ Gap(delta, 1 * max) = max - delta /\ Gap(delta, 0 * max) = delta
      /\ Gap(max, 1 * clear) = clear - max /\ Gap(max, 0 * clear) = max
  BY <1>1 DEF Gap
<1> DEFINE a == (max - delta) * clear  b == (clear - max) * max
           dc == delta * clear  mm == max * max
           k == 100 * delta
<1>3. /\ a \in Nat /\ b \in Nat /\ dc \in Nat /\ mm \in Nat /\ k \in Nat /\ k > 0
  <2>1. max - delta \in Nat /\ clear - max \in Nat
    BY <1>1
  <2> QED
    BY <1>1, <2>1, Grows
<1>4. a < mm /\ b < dc
  <2>1. a = max * clear - dc /\ b = max * clear - mm
    BY <1>1
  <2>2. max * clear \in Nat /\ dc + mm > max * clear
    BY <1>1, Grows
  <2> DEFINE mc == max * clear
  <2>3. mc \in Nat /\ dc + mm > mc /\ a = mc - dc /\ b = mc - mm
    BY <2>1, <2>2
  <2> HIDE DEF mc, a, b, dc, mm
  <2> QED
    BY <1>3, <2>3
<1>5. /\ 100 * (max - delta) * delta * clear = a * k
      /\ 100 * (clear - max) * delta * max = b * k
      /\ 100 * delta * delta * clear = dc * k
      /\ 100 * max * delta * max = mm * k
  BY <1>1
<1> HIDE DEF a, b, dc, mm, k
<1>6. /\ a * k \in Nat /\ b * k \in Nat /\ dc * k \in Nat /\ mm * k \in Nat
      /\ a * k < mm * k /\ b * k < dc * k
  BY <1>3, <1>4, Grows
<1>7. /\ Square(a * k) \in Nat /\ Square(b * k) \in Nat
      /\ Square(dc * k) \in Nat /\ Square(mm * k) \in Nat
      /\ Square(a * k) < Square(mm * k) /\ Square(b * k) < Square(dc * k)
  BY <1>6, SquareGrows
<1>8. /\ Rest(1, 1, delta, max, clear) = Square(a * k) + Square(b * k)
      /\ Rest(0, 0, delta, max, clear) = Square(dc * k) + Square(mm * k)
  BY <1>2, <1>5 DEF Rest
<1> QED
  BY <1>7, <1>8

-----------------------------------------------------------------------------
(* The name of a vivid sample is the row whose hue is next to its own.     *)

\* A distance is what the hues are apart and the rest.
LEMMA DistancesAre ==
  ASSUME NEW hue \in Int, NEW delta \in Nat, NEW max \in Nat, NEW clear \in Nat,
         \A j \in DOMAIN Known : HueGap(hue, Known[j].h, delta) \in Nat
  PROVE  \A j \in DOMAIN Known :
           Distance(Known[j], hue, delta, delta, max, clear)
             = Square(HueGap(hue, Known[j].h, delta) * max * clear)
               + Rest(Known[j].s, Known[j].v, delta, max, clear)
<1> TAKE j \in DOMAIN Known
<1> DEFINE k == Known[j]
<1>1. k.s \in {0, 1} /\ k.v \in {0, 1}
  BY KnownIs
<1> DEFINE dh == HueGap(hue, k.h, delta)
           ds == Gap(delta, k.s * max)
           dv == Gap(max, k.v * clear)
<1> HIDE DEF k
<1>0. dh \in Nat
  BY DEF k
<1>2. 100 * ds \in Nat /\ 100 * dv \in Nat
  BY <1>1 DEF Gap
<1> DEFINE a == Square(dh * max * clear)
           b == Square(100 * ds * delta * clear)
           c == Square(100 * dv * delta * max)
<1> HIDE DEF dh, ds, dv
<1>3. a \in Nat
  BY <1>0, <1>2, ScaledSquares
<1>4. b \in Nat
  <2> DEFINE x == 100 * ds
  <2> HIDE DEF x
  <2>1. Square(x * delta * clear) \in Nat
    BY <1>0, <1>2, ScaledSquares DEF x
  <2> QED
    BY <2>1 DEF x
<1>5. c \in Nat
  <2> DEFINE x == 100 * dv
  <2> HIDE DEF x
  <2>1. Square(x * delta * max) \in Nat
    BY <1>0, <1>2, ScaledSquares DEF x
  <2> QED
    BY <2>1 DEF x
<1>6. Distance(k, hue, delta, delta, max, clear) = a + b + c
  BY DEF Distance, dh, ds, dv
<1>7. Rest(k.s, k.v, delta, max, clear) = b + c
  BY DEF Rest, ds, dv
<1> HIDE DEF a, b, c
<1>8. Distance(k, hue, delta, delta, max, clear) = a + Rest(k.s, k.v, delta, max, clear)
  BY <1>3, <1>4, <1>5, <1>6, <1>7
<1> QED
  BY <1>8 DEF a, dh, k

\* guess_color() settles on the row of the nearest hue, the first of two as near.
LEMMA NextHue ==
  ASSUME NEW delta, NEW max, NEW clear, Bright(delta, max, clear), NEW hue \in Int, NEW i \in 3 .. 8,
         \A j \in 1 .. 8 : HueGap(hue, Known[j].h, delta) \in Nat,
         \A j \in 3 .. 8 : HueGap(hue, Known[i].h, delta) =< HueGap(hue, Known[j].h, delta),
         \A j \in 3 .. i - 1 : HueGap(hue, Known[i].h, delta) < HueGap(hue, Known[j].h, delta)
  PROVE  Nearest([j \in DOMAIN Known |-> Distance(Known[j], hue, delta, delta, max, clear)])
           = Known[i].name
<1> DEFINE gap(j)  == HueGap(hue, Known[j].h, delta)
           turn(j) == Square(gap(j) * max * clear)
           rest(j) == Rest(Known[j].s, Known[j].v, delta, max, clear)
           dist    == [j \in DOMAIN Known |->
                         Distance(Known[j], hue, delta, delta, max, clear)]
<1>1. /\ \A j \in 1 .. 8 : gap(j) \in Nat
      /\ \A j \in 3 .. 8 : gap(i) =< gap(j)
      /\ \A j \in 3 .. i - 1 : gap(i) < gap(j)
  OBVIOUS
<1>2. gap(1) = gap(3) /\ gap(2) = gap(3)
  <2>1. Known[1].h = Known[3].h /\ Known[2].h = Known[3].h
    BY KnownIs
  <2> QED
    BY <2>1
<1>3. \A j \in 1 .. 8 : gap(i) =< gap(j)
  BY <1>1, <1>2
<1>4. max \in Nat /\ clear \in Nat /\ max > 0 /\ clear > 0
  BY DEF Bright
<1>5. DOMAIN dist = 1 .. 8 /\ \A j \in 1 .. 8 : dist[j] = turn(j) + rest(j)
  <2>1. DOMAIN Known = 1 .. 8
    BY KnownIs
  <2>2. delta \in Nat /\ max \in Nat /\ clear \in Nat
    BY DEF Bright
  <2>3. \A j \in DOMAIN Known : HueGap(hue, Known[j].h, delta) \in Nat
    BY <2>1, Zenon
  <2>4. \A j \in DOMAIN Known :
          Distance(Known[j], hue, delta, delta, max, clear) = turn(j) + rest(j)
    BY <2>2, <2>3, DistancesAre, Zenon
  <2> QED
    BY <2>1, <2>4, Zenon
<1> HIDE DEF gap
<1>6. /\ \A j \in 1 .. 8 : turn(j) \in Nat /\ turn(i) =< turn(j)
      /\ \A j \in 3 .. i - 1 : turn(i) < turn(j)
  <2>1. ASSUME NEW j \in 1 .. 8 PROVE turn(j) \in Nat /\ turn(i) =< turn(j)
    BY <1>1, <1>3, <1>4, ScaledSquares
  <2>2. ASSUME NEW j \in 3 .. i - 1 PROVE turn(i) < turn(j)
    BY <1>1, <1>4, ScaledSquares
  <2> QED
    BY <2>1, <2>2
<1>7. /\ \A j \in 1 .. 8 : rest(j) \in Nat
      /\ \A j \in 3 .. 8 : rest(j) = rest(i)
      /\ rest(i) < rest(1) /\ rest(i) < rest(2)
  <2>1. /\ \A j \in 3 .. 8 : rest(j) = Rest(1, 1, delta, max, clear)
        /\ rest(1) = Rest(0, 0, delta, max, clear)
        /\ rest(2) = Rest(0, 1, delta, max, clear)
    <3>1. \A j \in 3 .. 8 : Known[j].s = 1 /\ Known[j].v = 1
      BY KnownIs
    <3>2. Known[1].s = 0 /\ Known[1].v = 0 /\ Known[2].s = 0 /\ Known[2].v = 1
      BY KnownIs
    <3> QED
      BY <3>1, <3>2
  <2> HIDE DEF rest
  <2> QED
    BY <2>1, FarFromWhite, FarFromBlack
<1> HIDE DEF turn, rest, dist
<1>8. /\ \A j \in 1 .. 8 : dist[j] \in Int /\ dist[i] =< dist[j]
      /\ \A j \in 1 .. i - 1 : dist[i] < dist[j]
  BY <1>5, <1>6, <1>7
<1>9. Nearest(dist) = Known[i].name
  BY <1>8, NearestIs
<1> QED
  BY <1>9 DEF dist

\* Row i is the one that a hue is next to: what NextHue asks of it.
NextTo(i, hue, delta) ==
  /\ \A j \in 1 .. 8 : HueGap(hue, Known[j].h, delta) \in Nat
  /\ \A j \in 3 .. 8 : HueGap(hue, Known[i].h, delta) =< HueGap(hue, Known[j].h, delta)
  /\ \A j \in 3 .. i - 1 : HueGap(hue, Known[i].h, delta) < HueGap(hue, Known[j].h, delta)

\* Each of the six colours has a sixth of the circle, its bounds go to red, green and blue.
LEMMA Sixths ==
  ASSUME NEW hue \in Int, NEW delta \in Nat, 0 =< hue, hue < 360 * delta
  PROVE  /\ hue =< 30 * delta \/ hue >= 330 * delta => NextTo(3, hue, delta)
         /\ hue >= 90 * delta /\ hue =< 150 * delta => NextTo(4, hue, delta)
         /\ hue >= 210 * delta /\ hue =< 270 * delta => NextTo(5, hue, delta)
         /\ hue > 30 * delta /\ hue < 90 * delta => NextTo(6, hue, delta)
         /\ hue > 150 * delta /\ hue < 210 * delta => NextTo(7, hue, delta)
         /\ hue > 270 * delta /\ hue < 330 * delta => NextTo(8, hue, delta)
<1> DEFINE gap(j) == HueGap(hue, Known[j].h, delta)
           way(h) == LET dh == Gap(hue, h * delta) IN
                     IF dh > 180 * delta THEN 360 * delta - dh ELSE dh
<1>1. /\ gap(1) = way(0) /\ gap(2) = way(0) /\ gap(3) = way(0) /\ gap(4) = way(120)
      /\ gap(5) = way(240) /\ gap(6) = way(60) /\ gap(7) = way(180) /\ gap(8) = way(300)
  BY KnownIs DEF HueGap
<1>2. \A h \in {0, 60, 120, 180, 240, 300} : way(h) \in Nat
  BY DEF Gap
<1>3. /\ hue =< 30 * delta \/ hue >= 330 * delta
           => way(0) =< 30 * delta /\ \A h \in {60, 120, 180, 240, 300} : way(h) >= 30 * delta
      /\ hue >= 90 * delta /\ hue =< 150 * delta
           => /\ way(120) =< 30 * delta
              /\ \A h \in {60, 180} : way(h) >= 30 * delta
              /\ \A h \in {0, 240, 300} : way(h) > 30 * delta
      /\ hue >= 210 * delta /\ hue =< 270 * delta
           => /\ way(240) =< 30 * delta
              /\ \A h \in {180, 300} : way(h) >= 30 * delta
              /\ \A h \in {0, 60, 120} : way(h) > 30 * delta
  BY DEF Gap
<1>4. /\ hue > 30 * delta /\ hue < 90 * delta
           => way(60) < 30 * delta /\ \A h \in {0, 120, 180, 240, 300} : way(h) > 30 * delta
      /\ hue > 150 * delta /\ hue < 210 * delta
           => way(180) < 30 * delta /\ \A h \in {0, 60, 120, 240, 300} : way(h) > 30 * delta
      /\ hue > 270 * delta /\ hue < 330 * delta
           => way(300) < 30 * delta /\ \A h \in {0, 60, 120, 180, 240} : way(h) > 30 * delta
  BY DEF Gap
<1>5. ASSUME NEW i \in 3 .. 8,
             \A j \in 3 .. 8 : gap(i) =< gap(j),
             \A j \in 3 .. i - 1 : gap(i) < gap(j)
      PROVE  NextTo(i, hue, delta)
  <2>1. \A j \in 1 .. 8 : gap(j) \in Nat
    BY <1>1, <1>2
  <2> QED
    BY <1>5, <2>1, Zenon DEF NextTo
<1> HIDE DEF gap, way
<1>6. CASE hue =< 30 * delta \/ hue >= 330 * delta
  BY <1>1, <1>2, <1>3, <1>5, <1>6
<1>7. CASE hue >= 90 * delta /\ hue =< 150 * delta
  BY <1>1, <1>2, <1>3, <1>5, <1>7
<1>8. CASE hue >= 210 * delta /\ hue =< 270 * delta
  BY <1>1, <1>2, <1>3, <1>5, <1>8
<1>9. CASE hue > 30 * delta /\ hue < 90 * delta
  BY <1>1, <1>2, <1>4, <1>5, <1>9
<1>10. CASE hue > 150 * delta /\ hue < 210 * delta
  BY <1>1, <1>2, <1>4, <1>5, <1>10
<1>11. CASE hue > 270 * delta /\ hue < 330 * delta
  BY <1>1, <1>2, <1>4, <1>5, <1>11
<1> QED
  BY <1>6, <1>7, <1>8, <1>9, <1>10, <1>11

\* Channel p leads the other two: it is the largest, and the second is no nearer to it
\* than to the third.  Channel o lags behind the other two: it is the smallest, and the
\* second is nearer to the largest.
Leads(p, q, o) == q =< p /\ o =< p /\ 2 * (q - o) =< p - o /\ 2 * (o - q) =< p - q
Lags(o, p, q)  == o =< p /\ o =< q /\ 2 * (q - o) > p - o /\ 2 * (p - o) > q - o

\* max and delta as guess_color() finds them.
Spans(r, g, b, max, delta) ==
  /\ max \in {r, g, b} /\ r =< max /\ g =< max /\ b =< max
  /\ max - delta \in {r, g, b} /\ max - delta =< r /\ max - delta =< g /\ max - delta =< b

\* One channel leads, or one lags; the hue is in the sixth of the one that leads, or
\* opposite the one that lags.
LEMMA HueIs ==
  ASSUME NEW r \in Nat, NEW g \in Nat, NEW b \in Nat, NEW max \in Nat, NEW delta \in Nat,
         Spans(r, g, b, max, delta), delta > 0, NEW hue, hue = HueOf(r, g, b, max, delta)
  PROVE  /\ hue \in Int /\ 0 =< hue /\ hue < 360 * delta
         /\ Leads(r, g, b) => hue =< 30 * delta \/ hue >= 330 * delta
         /\ Leads(g, r, b) => hue >= 90 * delta /\ hue =< 150 * delta
         /\ Leads(b, r, g) => hue >= 210 * delta /\ hue =< 270 * delta
         /\ Lags(b, r, g) => hue > 30 * delta /\ hue < 90 * delta
         /\ Lags(r, g, b) => hue > 150 * delta /\ hue < 210 * delta
         /\ Lags(g, r, b) => hue > 270 * delta /\ hue < 330 * delta
<1>1. CASE max = r
  <2>1. hue = Wrapped(60 * (g - b), delta)
    BY <1>1 DEF HueOf
  <2> QED
    BY <1>1, <2>1 DEF Wrapped, Spans, Leads, Lags
<1>2. CASE max # r /\ max = g
  <2>1. hue = Wrapped(120 * delta + 60 * (b - r), delta)
    BY <1>2 DEF HueOf
  <2> QED
    BY <1>2, <2>1 DEF Wrapped, Spans, Leads, Lags
<1>3. CASE max # r /\ max # g
  <2>1. hue = Wrapped(240 * delta + 60 * (r - g), delta)
    BY <1>3 DEF HueOf
  <2>2. max = b
    BY <1>3 DEF Spans
  <2> QED
    BY <1>3, <2>1, <2>2 DEF Wrapped, Spans, Leads, Lags
<1> QED
  BY <1>1, <1>2, <1>3

-----------------------------------------------------------------------------
(* guess_color() on vivid samples, and on what becomes of them when two    *)
(* channels are exchanged.                                                 *)

\* fmax and fmin of the three, as Guess() takes them.
Top(r, g, b) == Biggest({r, g, b})
Low(r, g, b) == Least({r, g, b})

\* guess_color() finds the same largest and smallest.
LEMMA Spanned ==
  ASSUME NEW r \in Nat, NEW g \in Nat, NEW b \in Nat, NEW max \in Nat, NEW delta \in Nat,
         Spans(r, g, b, max, delta)
  PROVE  Top(r, g, b) = max /\ Low(r, g, b) = max - delta
<1> DEFINE S == {r, g, b}
<1>1. /\ S \in SUBSET Int /\ max \in S /\ max - delta \in S
      /\ \A x \in S : x =< max /\ max - delta =< x
  BY DEF Spans
<1> HIDE DEF S
<1>2. Biggest(S) = max /\ Least(S) = max - delta
  BY <1>1, BiggestIs, LeastIs
<1> QED
  BY <1>2 DEF S, Top, Low

\* The channel that leads names a vivid sample, or else the one that lags.
LEMMA GuessIs ==
  ASSUME NEW r \in Nat, NEW g \in Nat, NEW b \in Nat, NEW clear \in Nat,
         NEW max \in Nat, NEW delta \in Nat,
         Spans(r, g, b, max, delta), Bright(delta, max, clear)
  PROVE  /\ Leads(r, g, b) => Guess(r, g, b, clear).name = "red"
         /\ Leads(g, r, b) => Guess(r, g, b, clear).name = "green"
         /\ Leads(b, r, g) => Guess(r, g, b, clear).name = "blue"
         /\ Lags(b, r, g) => Guess(r, g, b, clear).name = "yellow"
         /\ Lags(r, g, b) => Guess(r, g, b, clear).name = "cyan"
         /\ Lags(g, r, b) => Guess(r, g, b, clear).name = "fuchsia"
<1> DEFINE hue  == HueOf(r, g, b, max, delta)
           name == Nearest([j \in DOMAIN Known |->
                     Distance(Known[j], hue, delta, delta, max, clear)])
<1>1. delta > 0 /\ max > 0
  BY DEF Bright
<1>2. Top(r, g, b) = max /\ Low(r, g, b) = max - delta
  BY Spanned
<1>3. max - (max - delta) = delta
  OBVIOUS
<1>4. Guess(r, g, b, clear) = [name |-> name, delta |-> delta, max |-> max]
  BY <1>1, <1>2, <1>3 DEF Guess, Top, Low
<1>5. ASSUME NEW i \in 3 .. 8, NextTo(i, hue, delta) PROVE name = Known[i].name
  <2>1. hue \in Int
    BY <1>1, HueIs
  <2> HIDE DEF hue
  <2> QED
    BY <1>5, <2>1, NextHue DEF NextTo
<1>6. /\ hue \in Int /\ 0 =< hue /\ hue < 360 * delta
      /\ Leads(r, g, b) => hue =< 30 * delta \/ hue >= 330 * delta
      /\ Leads(g, r, b) => hue >= 90 * delta /\ hue =< 150 * delta
      /\ Leads(b, r, g) => hue >= 210 * delta /\ hue =< 270 * delta
      /\ Lags(b, r, g) => hue > 30 * delta /\ hue < 90 * delta
      /\ Lags(r, g, b) => hue > 150 * delta /\ hue < 210 * delta
      /\ Lags(g, r, b) => hue > 270 * delta /\ hue < 330 * delta
  BY <1>1, HueIs
<1> HIDE DEF hue
<1>7. /\ Leads(r, g, b) => NextTo(3, hue, delta)
      /\ Leads(g, r, b) => NextTo(4, hue, delta)
      /\ Leads(b, r, g) => NextTo(5, hue, delta)
      /\ Lags(b, r, g) => NextTo(6, hue, delta)
      /\ Lags(r, g, b) => NextTo(7, hue, delta)
      /\ Lags(g, r, b) => NextTo(8, hue, delta)
  BY <1>6, Sixths
<1> HIDE DEF name
<1>8. /\ Known[3].name = "red" /\ Known[4].name = "green" /\ Known[5].name = "blue"
      /\ Known[6].name = "yellow" /\ Known[7].name = "cyan" /\ Known[8].name = "fuchsia"
  BY KnownIs
<1> QED
  BY <1>4, <1>5, <1>7, <1>8

\* Some channel leads or lags, unless all are alike.
LEMMA LeadsOrLags ==
  ASSUME NEW r \in Nat, NEW g \in Nat, NEW b \in Nat
  PROVE  \/ Leads(r, g, b) \/ Leads(g, r, b) \/ Leads(b, r, g)
         \/ Lags(b, r, g) \/ Lags(r, g, b) \/ Lags(g, r, b)
BY DEF Leads, Lags

\* Every three channels have a largest and a smallest.
LEMMA SpanExists ==
  ASSUME NEW r \in Nat, NEW g \in Nat, NEW b \in Nat
  PROVE  \E max \in Nat : \E delta \in Nat : Spans(r, g, b, max, delta)
<1>1. PICK max \in {r, g, b} : r =< max /\ g =< max /\ b =< max
  OBVIOUS
<1>2. PICK min \in {r, g, b} : min =< r /\ min =< g /\ min =< b
  OBVIOUS
<1> DEFINE delta == max - min
<1>3. max \in Nat /\ delta \in Nat /\ max - delta = min
  BY <1>1, <1>2
<1> HIDE DEF delta
<1>4. Spans(r, g, b, max, delta)
  BY <1>1, <1>2, <1>3 DEF Spans
<1> QED
  BY <1>3, <1>4

\* The channels of a sample are its shares of the light.
LEMMA SharesAre ==
  ASSUME NEW c \in Nat, NEW clear \in Nat
  PROVE  Share(c, clear) \in Nat /\ Share(c, clear) =< clear
<1>1. Full \in Nat
  BY ChannelAssumption
<1>2. Channel(c) \in Nat
  BY <1>1, LeastOfTwo DEF Channel
<1> QED
  BY <1>2, LeastOfTwo DEF Share

\* read_color() of a sample that has light.
LEMMA ReadColorIs ==
  ASSUME NEW s \in Sample, NEW clear, clear = Channel(s.clear), clear # 0,
         NEW guess, guess = Guess(Share(s.red, clear), Share(s.green, clear),
                                  Share(s.blue, clear), clear)
  PROVE  ReadColor(s) = [clear |-> clear, name |-> guess.name, delta |-> guess.delta,
                         max |-> guess.max]
BY DEF ReadColor

\* A vivid sample has the measures that FarFromWhite and FarFromBlack ask for.
LEMMA VividIs ==
  ASSUME NEW s \in Sample, Vivid(s), NEW clear, clear = Channel(s.clear),
         NEW r, r = Share(s.red, clear), NEW g, g = Share(s.green, clear),
         NEW b, b = Share(s.blue, clear)
  PROVE  /\ clear \in Nat /\ clear # 0 /\ r \in Nat /\ g \in Nat /\ b \in Nat
         /\ \E max \in Nat : \E delta \in Nat :
              Spans(r, g, b, max, delta) /\ Bright(delta, max, clear)
<1>1. s.clear \in Nat /\ s.red \in Nat /\ s.green \in Nat /\ s.blue \in Nat
  BY ChannelAssumption DEF Sample
<1>2. clear \in Nat
  BY <1>1, ChannelAssumption, LeastOfTwo DEF Channel
<1>3. /\ r \in Nat /\ g \in Nat /\ b \in Nat
      /\ r =< clear /\ g =< clear /\ b =< clear
  BY <1>1, <1>2, SharesAre
<1>4. clear # 0
  <2>1. SUFFICES ASSUME clear = 0 PROVE FALSE
    OBVIOUS
  <2>2. ReadColor(s).clear = 0
    BY <2>1 DEF ReadColor
  <2> QED
    BY <2>2 DEF Vivid
<1>5. PICK max \in Nat, delta \in Nat : Spans(r, g, b, max, delta)
  BY <1>3, SpanExists
<1> DEFINE guess == Guess(r, g, b, clear)
<1>6. ReadColor(s).clear = clear /\ ReadColor(s).delta = guess.delta
        /\ ReadColor(s).max = guess.max
  BY <1>4, ReadColorIs
<1>7. Top(r, g, b) = max /\ Low(r, g, b) = max - delta
  BY <1>3, <1>5, Spanned
<1>8. max - (max - delta) = delta
  OBVIOUS
<1>9. max # 0
  <2>1. SUFFICES ASSUME max = 0 PROVE FALSE
    OBVIOUS
  <2>2. guess = [name |-> "black", delta |-> 0, max |-> 1]
    BY <1>7, <2>1 DEF Guess, Top, Low
  <2>3. ReadColor(s).delta = 0 /\ ReadColor(s).max = 1
    BY <1>6, <2>2
  <2> QED
    BY <2>3 DEF Vivid
<1>10. guess.delta = delta /\ guess.max = max
  BY <1>7, <1>8, <1>9 DEF Guess, Top, Low
<1>11. /\ 2 * delta > max
       /\ delta * clear + max * max > max * clear
  BY <1>6, <1>10 DEF Vivid
<1>12. delta > 0 /\ delta =< max /\ max =< clear
  BY <1>3, <1>5, <1>9, <1>11 DEF Spans
<1>13. Bright(delta, max, clear)
  BY <1>2, <1>11, <1>12 DEF Bright
<1> QED
  BY <1>2, <1>3, <1>4, <1>5, <1>13

\* How the name turns with the channels.
LEMMA NamesTurn ==
  ASSUME NEW r \in Nat, NEW g \in Nat, NEW b \in Nat, NEW clear \in Nat,
         NEW max \in Nat, NEW delta \in Nat,
         Spans(r, g, b, max, delta), Bright(delta, max, clear)
  PROVE  /\ Guess(r, g, b, clear).name \in Hues
         /\ Guess(r, b, g, clear).name = ExchangedName[Guess(r, g, b, clear).name]
         /\ Guess(g, b, r, clear).name = TurnedName[Guess(r, g, b, clear).name]
<1>1. Spans(r, b, g, max, delta) /\ Spans(g, b, r, max, delta)
  BY DEF Spans
<1>5. \A p, q, o : Leads(p, q, o) <=> Leads(p, o, q)
  BY DEF Leads
<1>6. \A p, q, o : Lags(p, q, o) <=> Lags(p, o, q)
  BY DEF Lags
<1> DEFINE name == Guess(r, g, b, clear).name
           exchanged == Guess(r, b, g, clear).name
           turned == Guess(g, b, r, clear).name
<1>7. /\ Leads(r, g, b) => name = "red" /\ exchanged = "red" /\ turned = "blue"
      /\ Leads(g, r, b) => name = "green" /\ exchanged = "blue" /\ turned = "red"
      /\ Leads(b, r, g) => name = "blue" /\ exchanged = "green" /\ turned = "green"
      /\ Lags(b, r, g) => name = "yellow" /\ exchanged = "fuchsia" /\ turned = "fuchsia"
      /\ Lags(r, g, b) => name = "cyan" /\ exchanged = "cyan" /\ turned = "yellow"
      /\ Lags(g, r, b) => name = "fuchsia" /\ exchanged = "yellow" /\ turned = "cyan"
  <2>1. /\ Leads(r, g, b) => name = "red"
        /\ Leads(g, r, b) => name = "green"
        /\ Leads(b, r, g) => name = "blue"
        /\ Lags(b, r, g) => name = "yellow"
        /\ Lags(r, g, b) => name = "cyan"
        /\ Lags(g, r, b) => name = "fuchsia"
    BY GuessIs
  <2>2. /\ Leads(r, b, g) => exchanged = "red"
        /\ Leads(b, r, g) => exchanged = "green"
        /\ Leads(g, r, b) => exchanged = "blue"
        /\ Lags(g, r, b) => exchanged = "yellow"
        /\ Lags(r, b, g) => exchanged = "cyan"
        /\ Lags(b, r, g) => exchanged = "fuchsia"
    BY <1>1, GuessIs
  <2>3. /\ Leads(g, b, r) => turned = "red"
        /\ Leads(b, g, r) => turned = "green"
        /\ Leads(r, g, b) => turned = "blue"
        /\ Lags(r, g, b) => turned = "yellow"
        /\ Lags(g, b, r) => turned = "cyan"
        /\ Lags(b, g, r) => turned = "fuchsia"
    BY <1>1, GuessIs
  <2> QED
    BY <1>5, <1>6, <2>1, <2>2, <2>3, Zenon
<1>8. \/ Leads(r, g, b) \/ Leads(g, r, b) \/ Leads(b, r, g)
      \/ Lags(b, r, g) \/ Lags(r, g, b) \/ Lags(g, r, b)
  BY LeadsOrLags
<1> HIDE DEF name, exchanged, turned
<1>9. /\ name \in Hues /\ exchanged = ExchangedName[name] /\ turned = TurnedName[name]
  BY <1>7, <1>8 DEF Hues, ExchangedName, TurnedName
<1> QED
  BY <1>9 DEF name, exchanged, turned

\* No channel is favoured, whatever the values a channel is read with.
LEMMA Alike == ChannelsAlike
<1> SUFFICES ASSUME NEW s \in Sample, Vivid(s)
             PROVE  LET name == ReadColor(s).name IN
                    /\ name \in Hues
                    /\ ReadColor(Exchanged(s)).name = ExchangedName[name]
                    /\ ReadColor(Turned(s)).name = TurnedName[name]
  BY DEF ChannelsAlike
<1> DEFINE clear == Channel(s.clear)
           r == Share(s.red, clear)
           g == Share(s.green, clear)
           b == Share(s.blue, clear)
<1>1. /\ clear \in Nat /\ clear # 0 /\ r \in Nat /\ g \in Nat /\ b \in Nat
      /\ \E max \in Nat : \E delta \in Nat :
           Spans(r, g, b, max, delta) /\ Bright(delta, max, clear)
  BY VividIs
<1>2. /\ ReadColor(s).name = Guess(r, g, b, clear).name
      /\ ReadColor(Exchanged(s)).name = Guess(r, b, g, clear).name
      /\ ReadColor(Turned(s)).name = Guess(g, b, r, clear).name
  <2>1. ReadColor(s).name = Guess(r, g, b, clear).name
    BY <1>1, ReadColorIs
  <2>2. /\ Exchanged(s).clear = s.clear /\ Exchanged(s).red = s.red
        /\ Exchanged(s).green = s.blue /\ Exchanged(s).blue = s.green
        /\ Exchanged(s) \in Sample
    BY DEF Exchanged, Sample
  <2>3. /\ Turned(s).clear = s.clear /\ Turned(s).red = s.green
        /\ Turned(s).green = s.blue /\ Turned(s).blue = s.red
        /\ Turned(s) \in Sample
    BY DEF Turned, Sample
  <2>4. ReadColor(Exchanged(s)).name = Guess(r, b, g, clear).name
    BY <1>1, <2>2, ReadColorIs
  <2>5. ReadColor(Turned(s)).name = Guess(g, b, r, clear).name
    BY <1>1, <2>3, ReadColorIs
  <2> QED
    BY <2>1, <2>4, <2>5
<1> HIDE DEF clear, r, g, b
<1>3. ASSUME NEW max \in Nat, NEW delta \in Nat,
             Spans(r, g, b, max, delta), Bright(delta, max, clear)
      PROVE  /\ Guess(r, g, b, clear).name \in Hues
             /\ Guess(r, b, g, clear).name = ExchangedName[Guess(r, g, b, clear).name]
             /\ Guess(g, b, r, clear).name = TurnedName[Guess(r, g, b, clear).name]
  <2>1. clear \in Nat /\ r \in Nat /\ g \in Nat /\ b \in Nat
    BY <1>1
  <2> QED
    BY <1>3, <2>1, NamesTurn
<1> QED
  BY <1>1, <1>2, <1>3

\* Whatever is being counted, no channel is favoured (guess_color()): the same readings
\* of another colour, lit alike, count for that colour.
THEOREM AlikeCorrect == Spec => []SightsAlike
<1>1. SightsAlike
  BY Alike DEF SightsAlike
<1>2. []SightsAlike
  BY <1>1, PTL
<1> QED
  BY <1>2

-----------------------------------------------------------------------------
(* on_set_parameters().                                                    *)

\* A set of parameters is a sequence of one or two.
LEMMA SetsShape ==
  ASSUME NEW params \in Sets
  PROVE  /\ params # <<>>
         /\ DOMAIN params \in {{1}, {1, 2}}
         /\ \A i \in DOMAIN params : params[i] \in Param
<1>1. CASE \E p \in Param : params = <<p>>
  BY <1>1
<1>2. CASE \E p, q \in Param : params = <<p, q>>
  BY <1>2
<1> QED
  BY <1>1, <1>2 DEF Sets

\* The last of some positions in the set is one of them.
LEMMA LastGiven ==
  ASSUME NEW given \in SUBSET {1, 2}, given # {}
  PROVE  Max(given) \in given
<1>1. ASSUME NEW m \in given, \A i \in given : m >= i PROVE Max(given) \in given
  BY <1>1, Zenon DEF Max
<1>2. CASE 2 \in given
  BY <1>1, <1>2
<1>3. CASE 2 \notin given
  <2>1. given = {1}
    BY <1>3
  <2> QED
    BY <1>1, <2>1
<1> QED
  BY <1>2, <1>3

\* A setting is what it was, or what one of the applied parameters has stored.
LEMMA AssignedIs ==
  ASSUME NEW old, NEW params \in Sets, NEW applied \in SUBSET DOMAIN params, NEW n \in Setting
  PROVE  \/ Assigned(old, params, applied)[n] = old[n]
         \/ \E i \in DOMAIN params :
              /\ params[i].name = n
              /\ Assigned(old, params, applied)[n] = Stored(params[i])
<1> DEFINE given == {i \in applied : params[i].name = n}
<1>1. given \in SUBSET {1, 2} /\ given \subseteq DOMAIN params
  BY SetsShape
<1>2. Assigned(old, params, applied)[n] =
        IF given = {} THEN old[n] ELSE Stored(params[Max(given)])
  BY DEF Assigned
<1>3. CASE given = {}
  BY <1>2, <1>3
<1>4. CASE given # {}
  <2>1. Max(given) \in given
    BY <1>1, <1>4, LastGiven
  <2> QED
    BY <1>1, <1>2, <1>4, <2>1
<1> QED
  BY <1>3, <1>4

\* A 64-bit value kept as an int is an int, and the same one if it fits.
LEMMA ToIntIs ==
  ASSUME NEW value \in Int
  PROVE  /\ ToInt(value) \in -IntHalf .. IntHalf - 1
         /\ value \in 0 .. IntHalf - 1 => ToInt(value) = value
<1>1. IntHalf \in Nat /\ IntHalf > 0
  BY WidthAssumption
<1>2. (value + IntHalf) % (2 * IntHalf) \in 0 .. 2 * IntHalf - 1
  BY <1>1
<1>3. ASSUME value \in 0 .. IntHalf - 1
      PROVE  (value + IntHalf) % (2 * IntHalf) = value + IntHalf
  BY <1>1, <1>3
<1> QED
  BY <1>1, <1>2, <1>3 DEF ToInt

\* A parameter's value is an integer, or a double that is not a number.
LEMMA ParamIs ==
  ASSUME NEW p \in Param
  PROVE  /\ p.value \in Int \cup {NaN}
         /\ p.name \notin Double => p.value \in Int
  BY ParamAssumption

\* What the second pass refuses, the first pass has refused.
LEMMA CheckedIsNotRefused ==
  ASSUME NEW p \in Param, Checked(p)
  PROVE  ~ (p.name \in ConvoyParam /\ Refused(p))
<1>1. p.name = "color_debounce" => p.value \in Int
  BY ParamIs DEF Double
<1> QED
  BY <1>1 DEF Checked, Refused, StartUpOnly

\* So a set that is applied at all is applied as a whole.
LEMMA AppliedWhole ==
  ASSUME NEW params \in Sets, \A i \in DOMAIN params : Checked(params[i])
  PROVE  Applied(params) = DOMAIN params
<1>1. \A i \in DOMAIN params : 1 .. i \subseteq DOMAIN params
  BY SetsShape
<1> QED
  BY <1>1, SetsShape, CheckedIsNotRefused DEF Applied

\* The outcome of on_set_parameters(): a change as a whole, or none.
LEMMA SetParametersIs ==
  ASSUME NEW old, NEW params \in Sets
  PROVE  \/ SetParameters(old, params) = old
         \/ /\ \A i \in DOMAIN params : Checked(params[i])
            /\ SetParameters(old, params) = Assigned(old, params, DOMAIN params)
  BY AppliedWhole DEF SetParameters

\* What is kept of a parameter has its type.
LEMMA StoredIs ==
  ASSUME NEW p \in Param
  PROVE  /\ Stored(p) \in Int \cup {NaN}
         /\ p.name \notin Double => Stored(p) \in Int
<1>1. CASE p.name = "color_debounce"
  <2>1. p.value \in Int
    BY <1>1, ParamIs DEF Double
  <2>2. ToInt(p.value) \in Int
    BY <2>1, ToIntIs, WidthAssumption
  <2> QED
    BY <1>1, <2>2 DEF Stored
<1>2. CASE p.name # "color_debounce"
  BY <1>2, ParamIs DEF Stored
<1> QED
  BY <1>1, <1>2

\* The settings keep their types.
LEMMA SetParametersTyped ==
  ASSUME NEW old \in Held, NEW params \in Sets
  PROVE  SetParameters(old, params) \in Held
<1> DEFINE new == Assigned(old, params, DOMAIN params)
<1>1. ASSUME NEW n \in Setting
      PROVE  new[n] \in Int \cup {NaN} /\ (n \notin Double => new[n] \in Int)
  <2>1. ASSUME NEW i \in DOMAIN params
        PROVE  /\ Stored(params[i]) \in Int \cup {NaN}
               /\ params[i].name \notin Double => Stored(params[i]) \in Int
    BY SetsShape, StoredIs
  <2>2. old[n] \in Int \cup {NaN} /\ (n \notin Double => old[n] \in Int)
    BY DEF Held
  <2> QED
    BY <2>1, <2>2, AssignedIs
<1>2. new \in [Setting -> Int \cup {NaN}]
  BY <1>1 DEF Assigned
<1>3. new \in Held
  BY <1>1, <1>2 DEF Held
<1> QED
  BY <1>3, SetParametersIs

\* A debounce of at most what an int holds is kept as it is: what the first pass of
\* on_set_parameters() does not look at.
DebouncesFit == \A p \in Param : p.name = "color_debounce" => p.value < IntHalf

\* Whatever set is applied, each number it leaves is within its range.
LEMMA SetParametersUsable ==
  ASSUME DebouncesFit, NEW old, Usable(old), NEW params \in Sets
  PROVE  Usable(SetParameters(old, params))
<1> DEFINE new == Assigned(old, params, DOMAIN params)
<1> SUFFICES ASSUME \A i \in DOMAIN params : Checked(params[i])
             PROVE  Usable(new)
  BY SetParametersIs
<1>1. ASSUME NEW i \in DOMAIN params
      PROVE  LET p == params[i] IN
             /\ Checked(p)
             /\ p.name # "color_debounce" => Stored(p) = p.value
             /\ p.name = "color_debounce" => Stored(p) >= 1
  <2> DEFINE p == params[i]
  <2>1. p \in Param /\ Checked(p)
    BY SetsShape
  <2>2. ASSUME p.name = "color_debounce" PROVE Stored(p) >= 1
    <3>1. p.value \in Int
      BY <2>1, <2>2, ParamIs DEF Double
    <3>2. p.value \in 0 .. IntHalf - 1 /\ p.value >= 1
      BY <2>1, <2>2, <3>1, WidthAssumption DEF DebouncesFit, Checked
    <3> QED
      BY <2>1, <2>2, <3>1, <3>2, ToIntIs DEF Stored
  <2> QED
    BY <2>1, <2>2 DEF Stored
<1>2. ASSUME NEW n \in Setting
      PROVE  \/ new[n] = old[n]
             \/ \E i \in DOMAIN params :
                  params[i].name = n /\ new[n] = Stored(params[i])
  BY AssignedIs
<1> HIDE DEF new
<1>3. Within(new["line_threshold"], 1, Whole)
  BY <1>1, <1>2 DEF Usable, Checked, Setting, Name, StartUpOnly
<1>4. Within(new["line_follow_slowdown"], 0, Whole)
  BY <1>1, <1>2 DEF Usable, Checked, Setting, Name, StartUpOnly
<1>5. new["line_follow"] = 1 => LineFollowerReady
  BY <1>1, <1>2 DEF Usable, Checked, Setting, Name, StartUpOnly
<1>6. new["convoy_role"] \in {0, 1}
  BY <1>1, <1>2 DEF Usable, Checked, Setting, Name, StartUpOnly
<1>7. new["color_debounce"] >= 1
  BY <1>1, <1>2 DEF Usable, Checked, Setting, Name, StartUpOnly
<1>8. ~ Below(new["cmd_timeout"], 0)
  BY <1>1, <1>2 DEF Usable, Checked, Setting, Name, StartUpOnly
<1>9. ~ Below(new["color_cooldown"], 0)
  BY <1>1, <1>2 DEF Usable, Checked, Setting, Name, StartUpOnly
<1> QED
  BY <1>3, <1>4, <1>5, <1>6, <1>7, <1>8, <1>9 DEF Usable

\* Only on_set_parameters() touches the settings, and only its step has a request.
LEMMA SettingsStep ==
  ASSUME [Next]_vars
  PROVE  \/ UNCHANGED settings /\ (request' = <<>> \/ UNCHANGED request)
         \/ \E params \in Sets : request' = params /\ settings' = SetParameters(settings, params)
  BY DEF Next, vars, OnColor, ReadUnheard, ReadBusy, ReadIdle, TakeCard, ReadFails,
         BecomeBusy, BecomeIdle, OnRun, Elapse, Unasked, OnSetParameters

\* Every number the node works with is within its range, whatever sets of parameters the
\* operator sends, in which order, while every debounce sent fits an int: the first pass
\* refuses whatever number the assignments of the second take on trust.  Of a double that
\* is not a number, which passes every comparison, it says nothing.
THEOREM UsableCorrect == DebouncesFit /\ Usable(Start) => (Spec => []SettingsUsable)
<1> SUFFICES ASSUME DebouncesFit, Usable(Start) PROVE Spec => []SettingsUsable
  OBVIOUS
<1>1. Init => SettingsUsable
  BY DEF Init, SettingsUsable
<1>2. SettingsUsable /\ [Next]_vars => SettingsUsable'
  BY SettingsStep, SetParametersUsable DEF SettingsUsable, Usable
<1> QED
  BY <1>1, <1>2, PTL DEF Spec

\* A set of parameters lands as a whole or not at all, whatever its parameters are:
\* apply_parameter() never refuses in the middle of a set.
THEOREM WholeSets == Spec => AllOrNothing
<1>1. ASSUME [Next]_vars, request' # <<>>, ~ UNCHANGED vars
      PROVE  settings' \in {settings, Assigned(settings, request', DOMAIN request')}
  BY <1>1, SettingsStep, SetParametersIs DEF vars
<1>2. [Next]_vars =>
        [request' # <<>>
           => settings' \in {settings, Assigned(settings, request', DOMAIN request')}]_vars
  BY <1>1
<1> QED
  BY <1>2, PTL DEF Spec, AllOrNothing

-----------------------------------------------------------------------------
(* Type correctness.                                                       *)

\* The constants as numbers, and what the bounds leave room for.
LEMMA Sizes ==
  /\ ReadEvery \in Nat /\ ReadEvery > 0 /\ Misses \in Nat
  /\ MaxCount \in Nat /\ MaxCount > 0 /\ MaxAge \in Nat
  /\ Long \in Nat /\ Long >= ReadEvery
  /\ MaxAge >= ReadEvery
  /\ \A n \in Nat : n =< MaxCount => ReadEvery * n =< MaxAge
<1>1. ReadEvery \in Nat /\ ReadEvery > 0 /\ Misses \in Nat /\ MaxCount \in Nat
      /\ MaxCount > 0 /\ MaxAge \in Nat /\ MaxAge >= ReadEvery * MaxCount
  BY FilterAssumption
<1>2. ASSUME NEW m \in Nat, NEW n \in Nat, n =< m PROVE ReadEvery * n =< ReadEvery * m
  BY <1>1, <1>2
<1>3. ReadEvery * 1 = ReadEvery /\ ReadEvery * MaxCount \in Nat
  BY <1>1
<1>4. ReadEvery =< ReadEvery * MaxCount
  BY <1>1, <1>2, <1>3
<1>5. ASSUME NEW n \in Nat, n =< MaxCount PROVE ReadEvery * n =< MaxAge
  <2>1. ReadEvery * n \in Nat /\ ReadEvery * n =< ReadEvery * MaxCount
    BY <1>1, <1>2, <1>5
  <2> QED
    BY <1>1, <1>3, <2>1
<1>6. Misses + 1 \in Nat /\ 1 =< Misses + 1
  BY <1>1
<1>7. Long \in Nat /\ Long >= ReadEvery
  BY <1>1, <1>2, <1>3, <1>6 DEF Long
<1> QED
  BY <1>1, <1>3, <1>4, <1>5, <1>7

\* The members of the filter, of the colour timer and the history, one by one.
LEMMA Members ==
  ASSUME FilterTypeOK
  PROVE  /\ filter.running \in BOOLEAN /\ filter.busy \in BOOLEAN
         /\ filter.spell \in 0 .. Long /\ filter.age \in 0 .. MaxAge
         /\ filter.name \in Card \cup {NoCard} /\ filter.count \in 0 .. MaxCount
         /\ filter.last \in Card \cup {NoCard}
         /\ clock.due \in BOOLEAN /\ clock.next \in 1 .. ReadEvery
         /\ clock.missed \in 0 .. Misses
         /\ calm \in 0 .. MaxAge
         /\ settings \in Held
  BY DEF FilterTypeOK, Filter, Clock

\* One reading shows a card or none.
LEMMA SightsAre == Sights \subseteq Card \cup {NoCard}
  BY DEF Sights, IsCard

\* A counter that stops at its bound.
LEMMA Capped ==
  ASSUME NEW n \in Nat, NEW m \in Nat, n =< m
  PROVE  /\ Least({n + 1, m}) \in 0 .. m /\ Least({n + 1, m}) =< n + 1
         /\ Least({n + 1, m}) = n + 1 \/ Least({n + 1, m}) = m
  BY LeastOfTwo

\* accept_card() counting one reading: what it does to the two members of the debounce.
LEMMA CountedIs ==
  ASSUME FilterTypeOK, NEW sight \in Card \cup {NoCard}
  PROVE  LET f == Counted(filter, sight) IN
         /\ f \in Filter
         /\ f.name = sight
         /\ f.count =< filter.count + 1
         /\ sight # filter.name => f.count =< 1
         /\ sight = NoCard => f.count = 0
         /\ f.running = filter.running /\ f.busy = filter.busy
         /\ f.spell = filter.spell /\ f.last = filter.last /\ f.age = filter.age
<1>1. filter \in Filter /\ filter.count \in Nat /\ filter.count =< MaxCount
  BY Members, Sizes DEF FilterTypeOK
<1> DEFINE n == IF sight = NoCard THEN 0
                ELSE IF sight = filter.name THEN Least({filter.count + 1, MaxCount}) ELSE 1
           f == [filter EXCEPT !.name = sight, !.count = n]
<1>2. n \in 0 .. MaxCount /\ n =< filter.count + 1
  <2>1. /\ Least({filter.count + 1, MaxCount}) \in 0 .. MaxCount
        /\ Least({filter.count + 1, MaxCount}) =< filter.count + 1
    BY <1>1, Sizes, Capped
  <2> QED
    BY <1>1, <2>1, Sizes
<1>3. (sight # filter.name => n =< 1) /\ (sight = NoCard => n = 0)
  OBVIOUS
<1>4. Counted(filter, sight) = f
  BY DEF Counted
<1> HIDE DEF n
<1>5. f \in Filter /\ f.name = sight /\ f.count = n
  BY <1>1, <1>2 DEF Filter
<1>6. /\ f.running = filter.running /\ f.busy = filter.busy
      /\ f.spell = filter.spell /\ f.last = filter.last /\ f.age = filter.age
  BY <1>1 DEF Filter
<1> HIDE DEF f
<1> QED
  BY <1>2, <1>3, <1>4, <1>5, <1>6

\* A reading: the timer is done for now, and no failures are counted any more.
LEMMA ReadIs ==
  ASSUME FilterTypeOK, Read
  PROVE  /\ clock' \in Clock /\ clock.due /\ ~ clock'.due
         /\ clock'.missed = 0 /\ clock'.next = clock.next
<1>1. clock \in Clock /\ clock.due /\ clock' = [clock EXCEPT !.due = FALSE, !.missed = 0]
  BY DEF FilterTypeOK, Read
<1>2. 0 \in 0 .. Misses
  BY Sizes
<1>3. clock'.missed = 0 /\ clock'.next = clock.next /\ clock'.due = FALSE
  BY <1>1 DEF Clock
<1>4. clock' \in Clock
  BY <1>1, <1>2 DEF Clock
<1> QED
  BY <1>1, <1>3, <1>4

\* A card that is taken: the last one, from now on.
LEMMA TakenIs ==
  ASSUME FilterTypeOK, NEW sight \in Card, TakeCard(sight)
  PROVE  /\ filter' \in Filter
         /\ filter'.last = sight /\ filter'.age = 0 /\ filter'.spell = 0
         /\ filter'.name = sight /\ filter'.running = filter.running
         /\ calm' = 0 /\ settings' = settings
<1> DEFINE f == Counted(filter, sight)
<1>1. f \in Filter /\ f.name = sight /\ f.running = filter.running
  BY CountedIs
<1>2. PICK busy \in BOOLEAN :
        filter' = [f EXCEPT !.last = sight, !.age = 0, !.busy = busy, !.spell = 0]
  BY DEF TakeCard
<1> HIDE DEF f
<1>3. calm' = 0 /\ settings' = settings
  BY DEF TakeCard
<1>4. 0 \in 0 .. MaxAge /\ 0 \in 0 .. Long
  BY Sizes
<1>5. filter' \in Filter
  BY <1>1, <1>2, <1>4 DEF Filter
<1>6. /\ filter'.last = sight /\ filter'.age = 0 /\ filter'.spell = 0
      /\ filter'.name = sight /\ filter'.running = filter.running
  BY <1>1, <1>2 DEF Filter
<1> QED
  BY <1>3, <1>5, <1>6

\* Nobody takes what is no card.
LEMMA TakesCards ==
  ASSUME NEW sight, TakeCard(sight), sight \in Sights
  PROVE  sight \in Card
  BY SightsAre DEF TakeCard, Accepts

\* A period: the age and the history grow, and the timer comes due on its turn.
LEMMA ElapseIs ==
  ASSUME FilterTypeOK, Elapse
  PROVE  /\ filter' \in Filter /\ clock' \in Clock /\ calm' \in 0 .. MaxAge
         /\ filter'.age = Least({filter.age + 1, MaxAge})
         /\ filter'.spell = IF filter.busy /\ Heard THEN Least({filter.spell + 1, Long}) ELSE 0
         /\ filter'.running = filter.running /\ filter'.busy = filter.busy
         /\ filter'.name = filter.name /\ filter'.count = filter.count
         /\ filter'.last = filter.last
         /\ ~ clock.due /\ clock'.missed = clock.missed
         /\ \/ clock.next = 1 /\ clock'.due /\ clock'.next = ReadEvery
            \/ clock.next > 1 /\ ~ clock'.due /\ clock'.next = clock.next - 1
<1> DEFINE age == Least({filter.age + 1, MaxAge})
           spell == IF filter.busy /\ Heard THEN Least({filter.spell + 1, Long}) ELSE 0
<1>1. filter \in Filter /\ clock \in Clock
  BY DEF FilterTypeOK
<1>2. age \in 0 .. MaxAge
  BY Members, Sizes, Capped
<1>3. spell \in 0 .. Long
  BY Members, Sizes, Capped
<1>4. filter' = [filter EXCEPT !.age = age, !.spell = spell]
  BY <1>1 DEF Elapse, Filter
<1>5. calm' \in 0 .. MaxAge
  <2>1. Least({calm + 1, MaxAge}) \in 0 .. MaxAge
    BY Members, Sizes, Capped
  <2> QED
    BY <2>1, Sizes DEF Elapse
<1> HIDE DEF age, spell
<1>6. /\ filter' \in Filter /\ filter'.age = age /\ filter'.spell = spell
      /\ filter'.running = filter.running /\ filter'.busy = filter.busy
      /\ filter'.name = filter.name /\ filter'.count = filter.count
      /\ filter'.last = filter.last
  BY <1>1, <1>2, <1>3, <1>4 DEF Filter
<1>7. /\ clock' \in Clock
      /\ ~ clock.due /\ clock'.missed = clock.missed
      /\ \/ clock.next = 1 /\ clock'.due /\ clock'.next = ReadEvery
         \/ clock.next > 1 /\ ~ clock'.due /\ clock'.next = clock.next - 1
  <2>1. /\ ~ clock.due
        /\ clock' = [clock EXCEPT !.due = (clock.next = 1),
                       !.next = IF clock.next = 1 THEN ReadEvery ELSE clock.next - 1]
    BY <1>1 DEF Elapse, Clock
  <2> DEFINE due  == clock.next = 1
             next == IF due THEN ReadEvery ELSE clock.next - 1
  <2>2. due \in BOOLEAN /\ next \in 1 .. ReadEvery
    BY <1>1, Sizes DEF Clock
  <2>3. /\ clock' \in Clock /\ clock'.missed = clock.missed
        /\ clock'.due = due /\ clock'.next = next
    <3> HIDE DEF due, next
    <3>1. clock' = [clock EXCEPT !.due = due, !.next = next]
      BY <2>1 DEF due, next
    <3> QED
      BY <1>1, <2>2, <3>1 DEF Clock
  <2>4. clock.next \in 1 .. ReadEvery
    BY <1>1 DEF Clock
  <2>5. CASE clock.next = 1
    BY <2>1, <2>3, <2>5
  <2>6. CASE clock.next # 1
    <3>1. clock.next > 1
      BY <2>4, <2>6, Sizes
    <3>2. clock'.next = clock.next - 1
      BY <2>3, <2>6
    <3>3. ~ clock'.due
      BY <2>3, <2>6
    <3> QED
      BY <2>1, <2>3, <3>1, <3>2, <3>3
  <2> QED
    BY <2>5, <2>6
<1> QED
  BY <1>5, <1>6, <1>7 DEF age, spell

\* What else moves the filter: a pause, a spin or STOP, and a set of parameters.
LEMMA OthersAre ==
  ASSUME FilterTypeOK
  PROVE  /\ BecomeBusy => /\ filter' \in Filter
                          /\ filter'.busy /\ filter'.running /\ filter'.spell = 0
         /\ BecomeIdle => /\ filter' \in Filter
                          /\ ~ filter'.busy /\ filter'.spell = filter.spell
         /\ OnRun => /\ filter' \in Filter
                     /\ ~ filter'.busy /\ filter'.spell = filter.spell
         /\ BecomeBusy \/ BecomeIdle \/ OnRun =>
              /\ filter'.name = filter.name /\ filter'.count = filter.count
              /\ filter'.last = filter.last /\ filter'.age = filter.age
<1>1. filter \in Filter /\ 0 \in 0 .. Long
  BY Sizes DEF FilterTypeOK
<1>2. ASSUME BecomeBusy
      PROVE  /\ filter' \in Filter /\ filter'.busy /\ filter'.running /\ filter'.spell = 0
             /\ filter'.name = filter.name /\ filter'.count = filter.count
             /\ filter'.last = filter.last /\ filter'.age = filter.age
  <2>1. filter' = [filter EXCEPT !.busy = TRUE, !.spell = 0] /\ filter.running
    BY <1>2 DEF BecomeBusy
  <2>2. filter' \in Filter
    BY <1>1, <2>1 DEF Filter
  <2>3. filter'.busy = TRUE /\ filter'.running = filter.running /\ filter'.spell = 0
    BY <1>1, <2>1 DEF Filter
  <2>4. /\ filter'.name = filter.name /\ filter'.count = filter.count
        /\ filter'.last = filter.last /\ filter'.age = filter.age
    BY <1>1, <2>1 DEF Filter
  <2> QED
    BY <2>1, <2>2, <2>3, <2>4
<1>3. ASSUME BecomeIdle \/ OnRun
      PROVE  /\ filter' \in Filter /\ ~ filter'.busy /\ filter'.spell = filter.spell
             /\ filter'.name = filter.name /\ filter'.count = filter.count
             /\ filter'.last = filter.last /\ filter'.age = filter.age
  <2>1. PICK run \in BOOLEAN : filter' = [filter EXCEPT !.running = run, !.busy = FALSE]
    <3>1. CASE BecomeIdle
      <4>1. filter' = [filter EXCEPT !.running = filter.running, !.busy = FALSE]
        BY <1>1, <3>1 DEF BecomeIdle, Filter
      <4> QED
        BY <1>1, <4>1 DEF Filter
    <3>2. CASE OnRun
      BY <3>2 DEF OnRun
    <3> QED
      BY <1>3, <3>1, <3>2
  <2>2. filter' \in Filter
    BY <1>1, <2>1 DEF Filter
  <2>3. filter'.busy = FALSE /\ filter'.spell = filter.spell
    BY <1>1, <2>1 DEF Filter
  <2>4. /\ filter'.name = filter.name /\ filter'.count = filter.count
        /\ filter'.last = filter.last /\ filter'.age = filter.age
    BY <1>1, <2>1 DEF Filter
  <2> QED
    BY <2>2, <2>3, <2>4
<1> QED
  BY <1>2, <1>3

LEMMA OnSetParametersIs ==
  ASSUME FilterTypeOK, NEW params \in Sets, OnSetParameters(params)
  PROVE  /\ filter' \in Filter
         /\ filter'.busy => filter.busy
         /\ filter'.spell = IF settings'["convoy_enable"] = 1 THEN filter.spell ELSE 0
         /\ filter'.running = filter.running
         /\ filter'.name = filter.name /\ filter'.count = filter.count
         /\ filter'.last = filter.last /\ filter'.age = filter.age
<1> DEFINE spell == IF settings'["convoy_enable"] = 1 THEN filter.spell ELSE 0
<1>1. filter \in Filter /\ spell \in 0 .. Long
  BY Sizes, Members DEF FilterTypeOK
<1>2. PICK busy \in {filter.busy, FALSE} :
        filter' = [filter EXCEPT !.busy = busy,
                     !.spell = IF settings'["convoy_enable"] = 1 THEN @ ELSE 0]
  BY DEF OnSetParameters
<1>3. filter' = [filter EXCEPT !.busy = busy, !.spell = spell]
  BY <1>1, <1>2 DEF Filter
<1> HIDE DEF spell
<1>4. busy \in BOOLEAN /\ (busy => filter.busy)
  BY <1>1, <1>2 DEF Filter
<1>5. filter' \in Filter
  BY <1>1, <1>3, <1>4 DEF Filter
<1>6. /\ filter'.busy = busy /\ filter'.spell = spell /\ filter'.running = filter.running
      /\ filter'.name = filter.name /\ filter'.count = filter.count
      /\ filter'.last = filter.last /\ filter'.age = filter.age
  BY <1>1, <1>3 DEF Filter
<1> QED
  BY <1>4, <1>5, <1>6 DEF spell

\* A pause or a spin that is read in: the cooldown starts again and the count ends.
LEMMA KeepCooldownIs ==
  ASSUME FilterTypeOK
  PROVE  LET f == KeepCooldown(filter) IN
         /\ f \in Filter
         /\ f.age = 0 /\ f.count = 0 /\ f.last = filter.last /\ f.spell = filter.spell
         /\ f.busy = filter.busy /\ f.running = filter.running
<1>1. filter \in Filter /\ 0 \in 0 .. MaxAge /\ 0 \in 0 .. MaxCount
  BY Sizes DEF FilterTypeOK
<1> DEFINE f == KeepCooldown(filter)
<1>2. f \in Filter
  BY <1>1 DEF KeepCooldown, Filter
<1>3. f.age = 0 /\ f.count = 0 /\ f.last = filter.last /\ f.spell = filter.spell
  BY <1>1 DEF KeepCooldown, Filter
<1>4. f.busy = filter.busy /\ f.running = filter.running
  BY <1>1 DEF KeepCooldown, Filter
<1> QED
  BY <1>2, <1>3, <1>4

\* Every step keeps everything of its type.
LEMMA NextTyped ==
  ASSUME FilterTypeOK, Next
  PROVE  FilterTypeOK'
<1>1. asked' \in 0 .. Requests /\ request' \in {<<>>} \cup Sets
  <2>1. \/ asked' = asked /\ request' = <<>>
        \/ asked < Requests /\ asked' = asked + 1 /\ request' \in Sets
    BY DEF Next, OnColor, ReadUnheard, ReadBusy, ReadIdle, TakeCard, ReadFails,
           BecomeBusy, BecomeIdle, OnRun, Elapse, Unasked, OnSetParameters
  <2>2. asked \in 0 .. Requests /\ Requests \in Nat
    BY FilterAssumption DEF FilterTypeOK
  <2>3. asked' \in 0 .. Requests
    BY <2>1, <2>2
  <2> QED
    BY <2>1, <2>3
<1>2. settings' \in Held
  <2>1. settings \in Held
    BY DEF FilterTypeOK
  <2> QED
    BY <2>1, SettingsStep, SetParametersTyped
<1>3. filter' \in Filter /\ clock' \in Clock /\ calm' \in 0 .. MaxAge
  <2>0. filter \in Filter /\ clock \in Clock /\ calm \in 0 .. MaxAge
    BY DEF FilterTypeOK
  <2>1. CASE ReadUnheard
    BY <2>0, <2>1, ReadIs DEF ReadUnheard
  <2>2. CASE ReadBusy
    BY <2>0, <2>2, ReadIs, KeepCooldownIs DEF ReadBusy
  <2>3. ASSUME NEW sight \in Sights, ReadIdle(sight)
        PROVE  filter' \in Filter /\ clock' \in Clock /\ calm' \in 0 .. MaxAge
    BY <2>0, <2>3, ReadIs, CountedIs, SightsAre DEF ReadIdle
  <2>4. ASSUME NEW sight \in Sights, TakeCard(sight)
        PROVE  filter' \in Filter /\ clock' \in Clock /\ calm' \in 0 .. MaxAge
    <3>1. Read
      BY <2>4 DEF TakeCard
    <3> QED
      BY <2>4, <3>1, ReadIs, TakesCards, TakenIs, Sizes
  <2>5. CASE ReadFails
    <3>1. /\ clock' = [clock EXCEPT !.due = FALSE, !.missed = clock.missed + 1]
          /\ clock.missed + 1 \in 0 .. Misses
          /\ filter' = filter /\ calm' = calm
      BY <2>0, <2>5, Sizes DEF ReadFails, Clock
    <3> QED
      BY <2>0, <3>1 DEF Clock
  <2>6. CASE BecomeBusy \/ BecomeIdle \/ OnRun
    <3>1. clock' = clock /\ calm' = calm
      BY <2>6 DEF BecomeBusy, BecomeIdle, OnRun
    <3> QED
      BY <2>0, <2>6, <3>1, OthersAre
  <2>7. ASSUME NEW params \in Sets, OnSetParameters(params)
        PROVE  filter' \in Filter /\ clock' \in Clock /\ calm' \in 0 .. MaxAge
    BY <2>0, <2>7, OnSetParametersIs DEF OnSetParameters
  <2>8. CASE Elapse
    BY <2>8, ElapseIs
  <2> QED
    BY <2>1, <2>2, <2>3, <2>4, <2>5, <2>6, <2>7, <2>8 DEF Next, OnColor
<1> QED
  BY <1>1, <1>2, <1>3 DEF FilterTypeOK

\* The type invariant, for any channels of the colour sensor and any parameters: among
\* it, that no reading, card or pause ever leaves the count of the debounce negative.
THEOREM FilterTypeCorrect == Spec => []FilterTypeOK
<1>1. Init => FilterTypeOK
  <2>1. ASSUME Init PROVE filter \in Filter
    BY <2>1, Sizes DEF Init, Filter
  <2>2. ASSUME Init PROVE clock \in Clock
    BY <2>2, Sizes DEF Init, Clock
  <2>3. ASSUME Init
        PROVE  settings \in Held /\ asked \in 0 .. Requests /\ request = <<>>
               /\ calm \in 0 .. MaxAge
    BY <2>3, Sizes, FilterAssumption DEF Init
  <2> QED
    BY <2>1, <2>2, <2>3 DEF FilterTypeOK
<1>2. FilterTypeOK /\ [Next]_vars => FilterTypeOK'
  BY NextTyped DEF vars, FilterTypeOK
<1> QED
  BY <1>1, <1>2, PTL DEF Spec

-----------------------------------------------------------------------------
(* The pace of the cards.                                                  *)

Enabled == settings["convoy_enable"] = 1

\* Periods since the last reading that did not fail: at least one interval of the timer
\* while a reading is due, and never Long.
Lag ==
  ReadEvery * clock.missed + (ReadEvery - clock.next) + IF clock.due THEN ReadEvery ELSE 0

\* A pause or a spin either began after the last reading, or was read in: then the
\* cooldown began again with that reading, and nothing is counted.
SpellOK ==
  /\ ~ Enabled => filter.spell = 0
  /\ filter.busy /\ Enabled =>
       \/ filter.spell =< Lag
       \/ filter.age =< Lag /\ filter.count = 0

\* What is counted took an interval for each reading but the first, since the last card
\* or long pause; or it is the card taken last, whose cooldown began no earlier.
CountOK ==
  \/ filter.count = 0
  \/ calm = MaxAge
  \/ calm >= ReadEvery * (filter.count - 1) + Lag
  \/ /\ filter.name = filter.last /\ filter.age =< calm
     /\ calm >= Lag \/ calm = MaxAge

Paced ==
  /\ FilterTypeOK
  /\ clock.due => clock.next = ReadEvery
  /\ filter.busy => filter.running
  /\ SpellOK
  /\ filter.last # NoCard => filter.age =< calm + Long
  /\ CountOK

\* The lag is a number, at least an interval when a reading is due, and short of Long
\* when none is.
LEMMA LagIs ==
  ASSUME FilterTypeOK, clock.due => clock.next = ReadEvery
  PROVE  /\ Lag \in Nat
         /\ clock.due => Lag >= ReadEvery
         /\ ~ clock.due => Lag + 1 =< Long
<1>1. /\ ReadEvery \in Nat /\ ReadEvery > 0 /\ Misses \in Nat
      /\ clock.next \in 1 .. ReadEvery /\ clock.missed \in 0 .. Misses /\ clock.due \in BOOLEAN
  BY Members, Sizes
<1>2. ReadEvery * clock.missed \in Nat
  BY <1>1
<1>3. ReadEvery * clock.missed =< ReadEvery * Misses
  BY <1>1
<1>4. Long = ReadEvery * Misses + ReadEvery /\ ReadEvery * Misses \in Nat
  BY <1>1 DEF Long
<1> DEFINE a == ReadEvery * clock.missed
           b == ReadEvery * Misses
<1>5. Lag = a + (ReadEvery - clock.next) + IF clock.due THEN ReadEvery ELSE 0
  BY DEF Lag
<1> HIDE DEF a, b
<1>6. a \in Nat /\ b \in Nat /\ a =< b /\ Long = b + ReadEvery
  BY <1>2, <1>3, <1>4 DEF a, b
<1> QED
  BY <1>1, <1>5, <1>6

\* A reading that does not fail ends the lag.
LEMMA ReadEndsLag ==
  ASSUME Paced, Read
  PROVE  Lag' = 0 /\ Lag >= ReadEvery /\ ~ clock'.due
<1>1. clock.next = ReadEvery /\ clock'.next = ReadEvery /\ clock'.missed = 0 /\ ~ clock'.due
  BY ReadIs DEF Paced
<1>2. ReadEvery * 0 = 0 /\ ReadEvery - ReadEvery = 0
  BY Sizes
<1>3. Lag' = 0
  BY <1>1, <1>2 DEF Lag
<1> QED
  BY <1>1, <1>3, ReadIs, LagIs DEF Paced

\* A reading that fails does not change it.
LEMMA FailureKeepsLag ==
  ASSUME Paced, ReadFails
  PROVE  Lag' = Lag /\ ~ clock'.due
<1>1. /\ clock.due /\ clock \in Clock /\ clock.next = ReadEvery
      /\ clock' = [clock EXCEPT !.due = FALSE, !.missed = clock.missed + 1]
  BY DEF ReadFails, Paced, FilterTypeOK, Clock
<1>2. clock'.due = FALSE /\ clock'.missed = clock.missed + 1 /\ clock'.next = ReadEvery
  BY <1>1 DEF Clock
<1>3. ReadEvery \in Nat /\ clock.missed \in Nat
  BY Members, Sizes DEF Paced
<1>4. ReadEvery * (clock.missed + 1) = ReadEvery * clock.missed + ReadEvery
  BY <1>3
<1>5. ReadEvery * clock.missed \in Nat
  BY <1>3
<1> DEFINE a == ReadEvery * clock.missed
           b == ReadEvery * (clock.missed + 1)
<1>6. Lag = a + (ReadEvery - ReadEvery) + ReadEvery
  BY <1>1 DEF Lag
<1>7. Lag' = b + (ReadEvery - ReadEvery) + 0
  BY <1>2 DEF Lag
<1> HIDE DEF a, b
<1>8. a \in Nat /\ b = a + ReadEvery
  BY <1>4, <1>5 DEF a, b
<1> QED
  BY <1>2, <1>3, <1>6, <1>7, <1>8

\* A period adds to it.
LEMMA ElapseAddsLag ==
  ASSUME Paced, Elapse
  PROVE  Lag' = Lag + 1 /\ Lag + 1 =< Long /\ (clock'.due => clock'.next = ReadEvery)
<1>1. /\ ~ clock.due /\ clock'.missed = clock.missed
      /\ \/ clock.next = 1 /\ clock'.due /\ clock'.next = ReadEvery
         \/ clock.next > 1 /\ ~ clock'.due /\ clock'.next = clock.next - 1
  BY ElapseIs DEF Paced
<1>2. ReadEvery \in Nat /\ clock.missed \in Nat /\ clock.next \in Nat
  BY Members, Sizes DEF Paced
<1>3. ReadEvery * clock.missed \in Nat
  BY <1>2
<1> DEFINE a == ReadEvery * clock.missed
<1>4. Lag = a + (ReadEvery - clock.next) + 0
  BY <1>1 DEF Lag
<1>5. Lag' = a + (ReadEvery - clock'.next) + IF clock'.due THEN ReadEvery ELSE 0
  BY <1>1 DEF Lag
<1> HIDE DEF a
<1>6. a \in Nat
  BY <1>3 DEF a
<1> QED
  BY <1>1, <1>2, <1>4, <1>5, <1>6, LagIs DEF Paced

\* What a counted reading has been through: the intervals of the readings before it, or
\* the cooldown of the card taken last.
LEMMA CountGrows ==
  ASSUME Paced, clock.due, NEW sight \in Card, NEW n \in Nat, n =< filter.count + 1,
         sight # filter.name => n =< 1
  PROVE  \/ calm = MaxAge
         \/ calm >= ReadEvery * (n - 1)
         \/ sight = filter.last /\ filter.age =< calm /\ calm >= ReadEvery
<1>1. /\ ReadEvery \in Nat /\ calm \in Nat /\ filter.count \in Nat /\ filter.age \in Nat
      /\ Lag \in Nat /\ Lag >= ReadEvery
  BY Members, Sizes, LagIs DEF Paced
<1>2. ASSUME n =< 1 PROVE calm >= ReadEvery * (n - 1)
  <2>1. n = 0 \/ n = 1
    BY <1>2
  <2>2. ReadEvery * (0 - 1) = -ReadEvery /\ ReadEvery * (1 - 1) = 0
    BY <1>1
  <2> QED
    BY <1>1, <2>1, <2>2
<1>3. CASE filter.count = 0 \/ sight # filter.name
  <2>1. n =< 1
    BY <1>3
  <2> QED
    BY <1>2, <2>1
<1>4. ASSUME calm >= ReadEvery * (filter.count - 1) + Lag
      PROVE  calm >= ReadEvery * (n - 1)
  <2>1. ReadEvery * (n - 1) =< ReadEvery * filter.count
    BY <1>1
  <2>2. ReadEvery * filter.count = ReadEvery * (filter.count - 1) + ReadEvery
    BY <1>1
  <2> DEFINE a == ReadEvery * (n - 1)
             b == ReadEvery * filter.count
             c == ReadEvery * (filter.count - 1)
  <2>3. a \in Int /\ b \in Int /\ c \in Int
    BY <1>1
  <2>4. calm >= c + Lag /\ a =< b /\ b = c + ReadEvery
    BY <1>4, <2>1, <2>2
  <2> HIDE DEF a, b, c
  <2>5. calm >= a
    BY <1>1, <2>3, <2>4
  <2> QED
    BY <2>5 DEF a
<1>5. CASE filter.count # 0 /\ sight = filter.name
  BY <1>1, <1>4, <1>5 DEF Paced, CountOK
<1> QED
  BY <1>3, <1>5

\* A reading of the sensor, whatever comes of it.
LEMMA OnColorPaced ==
  ASSUME Paced, OnColor
  PROVE  Paced'
<1>0. FilterTypeOK /\ FilterTypeOK'
  BY NextTyped DEF Paced, Next
<1>1. Read
  BY DEF OnColor, ReadUnheard, ReadBusy, ReadIdle, TakeCard
<1>2. Lag' = 0 /\ Lag \in Nat /\ Lag >= ReadEvery /\ ~ clock'.due /\ clock.due
  BY <1>1, ReadEndsLag, LagIs DEF Paced, Read
<1>3. /\ ReadEvery \in Nat /\ ReadEvery > 0 /\ Long \in Nat /\ calm \in Nat
      /\ filter.count \in Nat /\ filter.age \in Nat /\ filter.spell \in Nat
  BY <1>0, Members, Sizes
<1>4. CASE ReadUnheard
  <2>1. UNCHANGED <<settings, filter, calm>> /\ ~ Heard
    BY <1>4 DEF ReadUnheard
  <2>2. SpellOK'
    BY <2>1 DEF SpellOK, Heard, Enabled, Paced
  <2>3. CountOK'
    <3>1. ReadEvery * (filter.count - 1) \in Int
      BY <1>3
    <3> DEFINE a == ReadEvery * (filter.count - 1)
    <3>2. /\ filter.count = 0 \/ calm = MaxAge \/ calm >= a + Lag
             \/ (filter.name = filter.last /\ filter.age =< calm
                 /\ (calm >= Lag \/ calm = MaxAge))
      BY DEF Paced, CountOK
    <3> HIDE DEF a
    <3>3. a \in Int
      BY <3>1 DEF a
    <3>4. /\ filter.count = 0 \/ calm = MaxAge \/ calm >= a + 0
             \/ (filter.name = filter.last /\ filter.age =< calm
                 /\ (calm >= 0 \/ calm = MaxAge))
      BY <1>2, <1>3, <3>2, <3>3
    <3> QED
      BY <1>2, <2>1, <3>4 DEF CountOK, a
  <2> QED
    BY <1>0, <1>2, <2>1, <2>2, <2>3 DEF Paced
<1>5. CASE ReadBusy
  <2>1. filter' = KeepCooldown(filter) /\ UNCHANGED <<settings, calm>> /\ filter.running
        /\ Enabled
    BY <1>5 DEF ReadBusy, Heard, Enabled
  <2>2. /\ filter'.age = 0 /\ filter'.count = 0 /\ filter'.running
    BY <1>0, <2>1, KeepCooldownIs
  <2> QED
    BY <1>0, <1>2, <1>3, <2>1, <2>2 DEF Paced, SpellOK, CountOK, Enabled
<1>6. ASSUME NEW sight \in Sights, ReadIdle(sight) PROVE Paced'
  <2>1. sight \in Card \cup {NoCard}
    BY SightsAre
  <2> DEFINE f == Counted(filter, sight)
  <2>2. /\ filter' = f /\ UNCHANGED <<settings, calm>> /\ ~ filter.busy
    BY <1>6 DEF ReadIdle
  <2>3. /\ f \in Filter /\ f.name = sight /\ f.count =< filter.count + 1
        /\ sight # filter.name => f.count =< 1
        /\ sight = NoCard => f.count = 0
        /\ f.running = filter.running /\ f.busy = filter.busy
        /\ f.spell = filter.spell /\ f.last = filter.last /\ f.age = filter.age
    BY <1>0, <2>1, CountedIs
  <2>4. CountOK'
    <3>1. CASE sight = NoCard
      BY <2>2, <2>3, <3>1 DEF CountOK
    <3>2. CASE sight \in Card
      <4>1. filter'.count \in Nat
        BY <2>2, <2>3, Sizes DEF Filter
      <4>2. \/ calm = MaxAge
            \/ calm >= ReadEvery * (filter'.count - 1)
            \/ sight = filter.last /\ filter.age =< calm /\ calm >= ReadEvery
        BY <1>2, <2>2, <2>3, <3>2, <4>1, CountGrows
      <4> DEFINE a == ReadEvery * (filter'.count - 1)
      <4>3. a \in Int
        BY <1>3, <4>1
      <4> HIDE DEF a
      <4>4. \/ calm = MaxAge
            \/ calm >= a + 0
            \/ sight = filter.last /\ filter.age =< calm /\ calm >= 0
        BY <1>3, <4>2, <4>3 DEF a
      <4> QED
        BY <1>2, <2>2, <2>3, <4>4 DEF CountOK, a
    <3> QED
      BY <2>1, <3>1, <3>2
  <2>5. SpellOK'
    BY <2>2, <2>3 DEF SpellOK, Enabled, Paced
  <2> QED
    BY <1>0, <1>2, <2>2, <2>3, <2>4, <2>5 DEF Paced
<1>7. ASSUME NEW sight \in Sights, TakeCard(sight) PROVE Paced'
  <2>1. sight \in Card
    BY <1>7, TakesCards
  <2>2. /\ filter'.last = sight /\ filter'.age = 0 /\ filter'.spell = 0
        /\ filter'.name = sight /\ filter'.running = filter.running
        /\ calm' = 0 /\ settings' = settings
    BY <1>0, <1>7, <2>1, TakenIs
  <2>3. filter.running
    BY <1>7 DEF TakeCard, Heard
  <2> QED
    BY <1>0, <1>2, <1>3, <2>2, <2>3 DEF Paced, SpellOK, CountOK
<1> QED
  BY <1>4, <1>5, <1>6, <1>7 DEF OnColor

\* A period.
LEMMA ElapsePaced ==
  ASSUME Paced, Elapse
  PROVE  Paced'
<1>0. FilterTypeOK /\ FilterTypeOK'
  BY NextTyped DEF Paced, Next
<1>1. /\ Lag \in Nat /\ Lag' = Lag + 1 /\ Lag + 1 =< Long
      /\ clock'.due => clock'.next = ReadEvery
  BY ElapseAddsLag, LagIs DEF Paced
<1>2. /\ ReadEvery \in Nat /\ Long \in Nat /\ calm \in Nat /\ calm =< MaxAge /\ MaxAge \in Nat
      /\ filter.count \in Nat /\ filter.age \in Nat /\ filter.age =< MaxAge
      /\ filter.spell \in Nat
  BY <1>0, Members, Sizes
<1>3. /\ filter'.age = Least({filter.age + 1, MaxAge})
      /\ filter'.spell = IF filter.busy /\ Heard THEN Least({filter.spell + 1, Long}) ELSE 0
      /\ filter'.running = filter.running /\ filter'.busy = filter.busy
      /\ filter'.name = filter.name /\ filter'.count = filter.count
      /\ filter'.last = filter.last
  BY <1>0, ElapseIs
<1>4. /\ filter'.age \in Nat /\ filter'.age =< filter.age + 1 /\ filter'.age =< MaxAge
  BY <1>2, <1>3, Capped
<1>5. Least({filter.spell + 1, Long}) =< filter.spell + 1
  BY <1>0, Members, Sizes, Capped
<1>6. \/ calm' = 0 /\ filter.busy /\ Heard /\ filter.spell >= Long
      \/ calm' = calm + 1
      \/ calm' = MaxAge
  <2>1. Least({calm + 1, MaxAge}) = calm + 1 \/ Least({calm + 1, MaxAge}) = MaxAge
    BY <1>2, Capped
  <2>2. calm' = IF filter.busy /\ Heard /\ filter.spell >= Long THEN 0
                ELSE Least({calm + 1, MaxAge})
    BY DEF Elapse
  <2> QED
    BY <2>1, <2>2
<1>7. settings' = settings
  BY DEF Elapse
\* A pause that has gone on for Long has been read in.
<1>8. filter.busy /\ Heard /\ filter.spell >= Long => filter.age =< Lag /\ filter.count = 0
  BY <1>1, <1>2 DEF Paced, SpellOK, Heard, Enabled
<1>9. SpellOK'
  <2>1. ASSUME ~ Enabled' PROVE filter'.spell = 0
    BY <1>3, <1>7, <2>1 DEF Enabled, Heard
  <2>2. ASSUME filter'.busy, Enabled'
        PROVE  filter'.spell =< Lag' \/ (filter'.age =< Lag' /\ filter'.count = 0)
    <3>1. filter.busy /\ Enabled /\ Heard
      BY <1>3, <1>7, <2>2 DEF Enabled, Heard, Paced
    <3>2. filter.spell =< Lag \/ (filter.age =< Lag /\ filter.count = 0)
      BY <3>1 DEF Paced, SpellOK
    <3>3. filter'.spell =< filter.spell + 1 /\ filter'.spell \in Nat
      BY <1>0, <1>3, <1>5, <3>1, Sizes DEF FilterTypeOK, Filter
    <3> QED
      BY <1>1, <1>2, <1>3, <1>4, <3>2, <3>3
  <2> QED
    BY <2>1, <2>2 DEF SpellOK
<1>10. ASSUME filter'.last # NoCard PROVE filter'.age =< calm' + Long
  <2>1. filter.age =< calm + Long
    BY <1>3, <1>10 DEF Paced
  <2> QED
    BY <1>1, <1>2, <1>4, <1>6, <1>8, <2>1
<1>11. CountOK'
  <2> DEFINE a == ReadEvery * (filter.count - 1)
  <2>1. a \in Int
    BY <1>2
  <2>2. \/ filter.count = 0
        \/ calm = MaxAge
        \/ calm >= a + Lag
        \/ filter.name = filter.last /\ filter.age =< calm /\ (calm >= Lag \/ calm = MaxAge)
    BY DEF Paced, CountOK
  <2> HIDE DEF a
  <2>3. calm = MaxAge /\ filter.count # 0 => calm' = MaxAge
    BY <1>0, <1>8, Members, Sizes, LeastOfTwo DEF Elapse
  <2>4. \/ filter'.count = 0
        \/ calm' = MaxAge
        \/ calm' >= a + Lag'
        \/ filter'.name = filter'.last /\ filter'.age =< calm'
           /\ (calm' >= Lag' \/ calm' = MaxAge)
    BY <1>1, <1>2, <1>3, <1>4, <1>6, <1>8, <2>1, <2>2, <2>3
  <2> QED
    BY <1>3, <2>4 DEF CountOK, a
<1> QED
  BY <1>0, <1>1, <1>3, <1>9, <1>10, <1>11 DEF Paced

\* The steps that are no reading of the sensor and take no time.
LEMMA OthersPaced ==
  ASSUME Paced, \/ ReadFails \/ BecomeBusy \/ BecomeIdle \/ OnRun
                \/ \E params \in Sets : OnSetParameters(params)
  PROVE  Paced'
<1>0. FilterTypeOK
  BY DEF Paced
<1>9. ASSUME Next PROVE FilterTypeOK'
  BY <1>0, <1>9, NextTyped
<1>1. ASSUME NEW params \in Sets, OnSetParameters(params) PROVE Paced'
  <2>0. FilterTypeOK'
    BY <1>1, <1>9 DEF Next, OnSetParameters
  <2>1. /\ filter'.busy => filter.busy
        /\ filter'.spell = IF settings'["convoy_enable"] = 1 THEN filter.spell ELSE 0
        /\ filter'.running = filter.running
        /\ filter'.name = filter.name /\ filter'.count = filter.count
        /\ filter'.last = filter.last /\ filter'.age = filter.age
    BY <1>0, <1>1, OnSetParametersIs
  <2>2. UNCHANGED <<clock, calm>>
    BY <1>1 DEF OnSetParameters
  <2>3. Lag' = Lag
    BY <2>2 DEF Lag
  <2>4. Lag \in Nat
    BY LagIs DEF Paced
  <2>5. SpellOK'
    BY <2>1, <2>3, <2>4 DEF Paced, SpellOK, Enabled
  <2>6. CountOK'
    BY <2>1, <2>2, <2>3 DEF Paced, CountOK
  <2> QED
    BY <2>0, <2>1, <2>2, <2>5, <2>6 DEF Paced
<1>2. CASE ReadFails
  <2>0. FilterTypeOK'
    BY <1>2, <1>9 DEF Next
  <2>1. UNCHANGED <<settings, filter, calm>>
    BY <1>2 DEF ReadFails
  <2>2. Lag' = Lag /\ ~ clock'.due
    BY <1>2, FailureKeepsLag
  <2>3. SpellOK' /\ CountOK'
    BY <2>1, <2>2 DEF Paced, SpellOK, CountOK, Enabled
  <2> QED
    BY <2>0, <2>1, <2>2, <2>3 DEF Paced
<1>3. CASE BecomeBusy \/ BecomeIdle \/ OnRun
  <2>0. FilterTypeOK'
    BY <1>3, <1>9 DEF Next
  <2>1. UNCHANGED <<settings, clock, calm>>
    BY <1>3 DEF BecomeBusy, BecomeIdle, OnRun
  <2>2. Lag' = Lag /\ Lag \in Nat
    BY <2>1, LagIs DEF Lag, Paced
  <2>3. /\ filter'.name = filter.name /\ filter'.count = filter.count
        /\ filter'.last = filter.last /\ filter'.age = filter.age
    BY <1>0, <1>3, OthersAre
  <2>4. \/ filter'.busy /\ filter'.running /\ filter'.spell = 0
        \/ ~ filter'.busy /\ filter'.spell = filter.spell
    BY <1>0, <1>3, OthersAre
  <2>5. SpellOK' /\ CountOK'
    BY <2>1, <2>2, <2>3, <2>4 DEF Paced, SpellOK, CountOK, Enabled
  <2> QED
    BY <2>0, <2>1, <2>3, <2>4, <2>5 DEF Paced
<1> QED
  BY <1>1, <1>2, <1>3

\* The pace is kept by every step, from the start.
LEMMA PacedInvariant == Spec => []Paced
<1>1. Init => Paced
  <2> SUFFICES ASSUME Init PROVE Paced
    OBVIOUS
  <2>1. FilterTypeOK
    <3>1. filter \in Filter
      BY Sizes DEF Init, Filter
    <3>2. clock \in Clock
      BY Sizes DEF Init, Clock
    <3>3. settings \in Held /\ asked \in 0 .. Requests /\ request = <<>>
          /\ calm \in 0 .. MaxAge
      BY Sizes, FilterAssumption DEF Init
    <3> QED
      BY <3>1, <3>2, <3>3 DEF FilterTypeOK
  <2>2. /\ ~ filter.busy /\ filter.spell = 0 /\ filter.count = 0 /\ filter.last = NoCard
        /\ clock.next = ReadEvery
    BY DEF Init
  <2> QED
    BY <2>1, <2>2 DEF Paced, SpellOK, CountOK
<1>2. Paced /\ [Next]_vars => Paced'
  <2> SUFFICES ASSUME Paced, [Next]_vars PROVE Paced'
    OBVIOUS
  <2>1. CASE OnColor
    BY <2>1, OnColorPaced
  <2>2. CASE Elapse
    BY <2>2, ElapsePaced
  <2>3. CASE \/ ReadFails \/ BecomeBusy \/ BecomeIdle \/ OnRun
             \/ \E params \in Sets : OnSetParameters(params)
    BY <2>3, OthersPaced
  <2>4. CASE UNCHANGED vars
    <3>1. UNCHANGED <<settings, filter, clock, calm, asked, request>>
      BY <2>4 DEF vars
    <3> QED
      BY <3>1 DEF Paced, FilterTypeOK, SpellOK, CountOK, Enabled, Lag
  <2> QED
    BY <2>1, <2>2, <2>3, <2>4 DEF Next
<1> QED
  BY <1>1, <1>2, PTL DEF Spec

\* What is known of the filter when a card is taken.
LEMMA TakenWhen ==
  ASSUME Paced, NEW sight \in Card, TakeCard(sight)
  PROVE  LET n == Counted(filter, sight).count IN
         /\ clock.due
         /\ n \in Nat /\ n =< MaxCount /\ n =< filter.count + 1
         /\ sight # filter.name => n =< 1
         /\ n >= settings["color_debounce"]
         /\ sight = filter.last => filter.age >= Cooldown
         /\ settings["color_debounce"] \in Int /\ Cooldown \in Int
<1>1. FilterTypeOK
  BY DEF Paced
<1> DEFINE f == Counted(filter, sight)
<1>2. /\ f \in Filter /\ f.count =< filter.count + 1 /\ (sight # filter.name => f.count =< 1)
      /\ f.last = filter.last /\ f.age = filter.age
  BY <1>1, CountedIs
<1>3. Accepts(f, sight) /\ clock.due
  BY DEF TakeCard, Read
<1> HIDE DEF f
<1>4. f.count \in Nat /\ f.count =< MaxCount
  BY <1>2, Sizes DEF Filter
<1>5. settings["color_debounce"] \in Int /\ Cooldown \in Int
  <2>1. /\ settings["color_debounce"] \in Int
        /\ settings["color_cooldown"] \in Int \cup {NaN}
    BY <1>1 DEF FilterTypeOK, Held, Setting, Name, StartUpOnly, Double
  <2> QED
    BY <2>1 DEF Cooldown
<1>6. filter.age \in Nat
  BY <1>1, Members, Sizes
<1>7. f.count >= settings["color_debounce"]
      /\ ~ (sight = f.last /\ Above(settings["color_cooldown"], f.age))
  BY <1>3 DEF Accepts
<1>8. sight = filter.last => filter.age >= Cooldown
  BY <1>2, <1>5, <1>6, <1>7 DEF Above, Cooldown
<1> QED
  BY <1>2, <1>3, <1>4, <1>5, <1>7, <1>8 DEF f

\* A card is taken only when the readings of its debounce, or the cooldown, fit in
\* between it and the card or the long pause before it.
LEMMA CardSpaced ==
  ASSUME Paced, NEW sight \in Card, TakeCard(sight)
  PROVE  calm >= Spacing
<1> DEFINE n == Counted(filter, sight).count
           debounce == settings["color_debounce"]
           cooldown == Cooldown
           wait == ReadEvery * (debounce - 1)
           most == Biggest({ReadEvery, cooldown})
<1>1. /\ clock.due
      /\ n \in Nat /\ n =< MaxCount /\ n =< filter.count + 1
      /\ sight # filter.name => n =< 1
      /\ n >= debounce
      /\ sight = filter.last => filter.age >= cooldown
      /\ debounce \in Int /\ cooldown \in Int
  BY TakenWhen
<1> HIDE DEF n
<1>2. \/ calm = MaxAge
      \/ calm >= ReadEvery * (n - 1)
      \/ sight = filter.last /\ filter.age =< calm /\ calm >= ReadEvery
  BY <1>1, CountGrows
<1>3. /\ ReadEvery \in Nat /\ MaxAge \in Nat /\ calm \in Nat /\ filter.age \in Nat
      /\ ReadEvery * n =< MaxAge /\ ReadEvery * n \in Nat
  BY <1>1, Members, Sizes DEF Paced
<1> HIDE DEF debounce, cooldown
<1>4. /\ wait \in Int /\ ReadEvery * (n - 1) \in Int /\ wait =< ReadEvery * (n - 1)
      /\ ReadEvery * (n - 1) =< ReadEvery * n
  BY <1>1, <1>3
<1>5. most = (IF ReadEvery =< cooldown THEN cooldown ELSE ReadEvery) /\ most \in Int
  BY <1>1, <1>3, BiggestOfTwo
<1>6. Spacing = IF wait =< most THEN wait ELSE most
  <2> HIDE DEF wait, most
  <2>1. Least({wait, most}) = IF wait =< most THEN wait ELSE most
    BY <1>4, <1>5, LeastOfTwo DEF wait, most
  <2> QED
    BY <2>1 DEF Spacing, wait, most, debounce, cooldown
<1> DEFINE last == ReadEvery * (n - 1)
           all  == ReadEvery * n
<1>7. last \in Int /\ all \in Nat /\ wait =< last /\ last =< all /\ all =< MaxAge
      /\ (calm = MaxAge \/ calm >= last \/ (filter.age >= cooldown /\ filter.age =< calm
                                            /\ calm >= ReadEvery))
  BY <1>1, <1>2, <1>3, <1>4
<1> HIDE DEF last, all, wait, most
<1> QED
  BY <1>1, <1>3, <1>4, <1>5, <1>6, <1>7

\* After a card, or a pause or spin long enough to be read in, no card is taken too soon,
\* whatever settings the operator changes to in between.
THEOREM SpacingCorrect == Spec => CardsSpaced
<1>1. Paced /\ [Next]_vars => [\A sight \in Card : TakeCard(sight) => calm >= Spacing]_vars
  BY CardSpaced
<1> QED
  BY <1>1, PacedInvariant, PTL DEF Spec, CardsSpaced

\* The card that began a pause does not fire again when the pause ends.
THEOREM EchoCorrect == Spec => NoEcho
<1>1. ASSUME Paced, NEW sight \in Card, TakeCard(sight), sight = filter.last
      PROVE  calm >= Cooldown - Long
  <2>1. filter.age >= Cooldown /\ Cooldown \in Int
    BY <1>1, TakenWhen
  <2>2. filter.last # NoCard
    BY <1>1 DEF Card, NoCard
  <2>3. filter.age =< calm + Long
    BY <1>1, <2>2 DEF Paced
  <2>4. filter.age \in Nat /\ calm \in Nat /\ Long \in Nat
    BY <1>1, Members, Sizes DEF Paced
  <2> QED
    BY <2>1, <2>3, <2>4
<1>2. Paced /\ [Next]_vars =>
        [\A sight \in Card :
           TakeCard(sight) /\ sight = filter.last
             => calm >= Cooldown - Long]_vars
  BY <1>1
<1> QED
  BY <1>2, PacedInvariant, PTL DEF Spec, NoEcho
=============================================================================
