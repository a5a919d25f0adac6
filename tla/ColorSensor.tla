------------------------------ MODULE ColorSensor ------------------------------
(***************************************************************************)
(* What the node makes of one answer of the colour sensor: the channels of *)
(* read_color() and the name guess_color() gives them                      *)
(* (gopigo3_driver.cpp), with every quotient kept as a ratio of integers.  *)
(***************************************************************************)
EXTENDS Integers

CONSTANTS
  Full,       \* what a channel saturates at, (256 - tcs_atime_) * 1024
  Channels    \* the values a channel is read with

ASSUME ChannelAssumption == Full \in Nat \ {0} /\ Channels \subseteq Nat

Biggest(S) == CHOOSE x \in S : \A y \in S : y =< x
Least(S)   == CHOOSE x \in S : \A y \in S : x =< y

\* One answer: the four channels as the chip counts them.
Sample == [clear: Channels, red: Channels, green: Channels, blue: Channels]

\* std::clamp(channel * scale, 0, 1), in units of 1 / Full.
Channel(raw) == Least({raw, Full})

\* std::clamp(c / clear, 0, 1), in units of 1 / clear.
Share(c, clear) == Least({Channel(c), clear})

-----------------------------------------------------------------------------
(* Hue, saturation and value.  With delta = max - min of the three shares, *)
(* the hue is hue / delta degrees, the saturation delta / max and the      *)
(* value max / clear.                                                      *)

Wrapped(hue, delta) == IF hue < 0 THEN hue + 360 * delta ELSE hue

HueOf(r, g, b, max, delta) ==
  Wrapped(CASE delta = 0 -> 0
            [] delta # 0 /\ max = r -> 60 * (g - b)
            [] delta # 0 /\ max # r /\ max = g -> 120 * delta + 60 * (b - r)
            [] OTHER -> 240 * delta + 60 * (r - g),
          delta)

Known == <<[name |-> "black",   h |-> 0,   s |-> 0, v |-> 0],
           [name |-> "white",   h |-> 0,   s |-> 0, v |-> 1],
           [name |-> "red",     h |-> 0,   s |-> 1, v |-> 1],
           [name |-> "green",   h |-> 120, s |-> 1, v |-> 1],
           [name |-> "blue",    h |-> 240, s |-> 1, v |-> 1],
           [name |-> "yellow",  h |-> 60,  s |-> 1, v |-> 1],
           [name |-> "cyan",    h |-> 180, s |-> 1, v |-> 1],
           [name |-> "fuchsia", h |-> 300, s |-> 1, v |-> 1]>>

Square(x) == x * x
Gap(a, b) == IF a < b THEN b - a ELSE a - b

\* Mutant: hues are compared along a line, so that 350 degrees is far from red.
HueGapStraight(hue, known, delta) == Gap(hue, known * delta)

\* The way between two hues around the circle, in degrees / delta.
HueGap(hue, known, delta) ==
  LET dh == Gap(hue, known * delta) IN
  IF dh > 180 * delta THEN 360 * delta - dh ELSE dh

\* dist of guess_color(), times the square of unit * max * clear, where unit is delta
\* or 1 for a grey: all the fractions of one sample share that factor.
Distance(k, hue, unit, delta, max, clear) ==
  Square(HueGap(hue, k.h, unit) * max * clear)
  + Square(100 * Gap(delta, k.s * max) * unit * clear)
  + Square(100 * Gap(max, k.v * clear) * unit * max)

\* The first of the nearest: a later one has to be strictly nearer.
Nearest(dist) ==
  Known[CHOOSE i \in DOMAIN Known :
          /\ \A j \in DOMAIN Known : dist[i] =< dist[j]
          /\ \A j \in 1 .. i - 1 : dist[i] < dist[j]].name

\* guess_color().  A sample without a colour channel has max = 0, saturation 0 and is
\* compared with the factor of max left out.
Guess(r, g, b, clear) ==
  LET max   == Biggest({r, g, b})
      delta == max - Least({r, g, b})
      unit  == IF delta = 0 THEN 1 ELSE delta
      hue   == HueOf(r, g, b, max, delta)
  IN  IF max = 0 THEN [name |-> "black", delta |-> 0, max |-> 1]
      ELSE [name  |-> Nearest([i \in DOMAIN Known |->
                        Distance(Known[i], hue, unit, delta, max, clear)]),
            delta |-> delta, max |-> max]

\* read_color(): clear, name and the saturation delta / max.
ReadColor(sample) ==
  LET clear == Channel(sample.clear) IN
  IF clear = 0
  THEN [clear |-> 0, name |-> "black", delta |-> 0, max |-> 1]
  ELSE LET guess == Guess(Share(sample.red, clear), Share(sample.green, clear),
                          Share(sample.blue, clear), clear)
       IN [clear |-> clear, name |-> guess.name, delta |-> guess.delta,
           max |-> guess.max]

-----------------------------------------------------------------------------
\* A sample with two of its channels exchanged, and what that makes of a name.
Exchanged(s) == [s EXCEPT !.green = s.blue, !.blue = s.green]
Turned(s)    == [s EXCEPT !.red = s.green, !.green = s.blue, !.blue = s.red]

ExchangedName ==
  [black |-> "black", white |-> "white", red |-> "red", green |-> "blue",
   blue |-> "green", yellow |-> "fuchsia", fuchsia |-> "yellow", cyan |-> "cyan"]
TurnedName ==
  [black |-> "black", white |-> "white", green |-> "red", blue |-> "green",
   red |-> "blue", cyan |-> "yellow", fuchsia |-> "cyan", yellow |-> "fuchsia"]

Hues == {"red", "green", "blue", "yellow", "cyan", "fuchsia"}

\* Is the sample saturated and bright enough to be no nearer to white or black than to
\* the red it may be?  Both are placed at the hue of red.
Vivid(s) ==
  LET read == ReadColor(s) IN
  /\ read.clear > 0
  /\ 2 * read.delta > read.max
  /\ read.delta * read.clear + read.max * read.max > read.max * read.clear

\* Among vivid samples the guess knows no favourite channel: a card of another colour
\* that is lit alike is named alike, around the whole circle of hues (guess_color(), whose
\* three branches for the hue and whose wrap at 360 degrees have to fit together).
ChannelsAlike ==
  \A s \in Sample :
    Vivid(s) =>
      LET name == ReadColor(s).name IN
      /\ name \in Hues
      /\ ReadColor(Exchanged(s)).name = ExchangedName[name]
      /\ ReadColor(Turned(s)).name = TurnedName[name]
=============================================================================
