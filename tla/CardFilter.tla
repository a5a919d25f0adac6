------------------------------- MODULE CardFilter -------------------------------
(***************************************************************************)
(* From the colour sensor to a card the controller acts on: publish_color()*)
(* on its 100 ms timer (gopigo3_ros_node.cpp), on_color(), accept_card()   *)
(* and is_card() (convoy_controller.cpp), under the settings of Settings,  *)
(* which the operator changes at any time.                                 *)
(*                                                                         *)
(* What the controller does with a card is left out: it may begin a pause, *)
(* and a pause or a spin may begin and end for reasons of its own.         *)
(***************************************************************************)
EXTENDS ColorSensor, Settings

CONSTANTS
  ReadEvery,       \* periods of 50 ms between two colour readings
  Misses,          \* readings in a row that may fail
  Start,           \* the settings the node starts with
  MinSaturation,   \* color_min_saturation, in hundredths
  MinClear,        \* color_min_clear, in units of 1 / Full
  Requests,        \* sets of parameters the operator sends: a bound
  MaxCount, MaxAge \* bounds on debounce_count_ and on ages

ASSUME FilterAssumption ==
  /\ ReadEvery \in Nat \ {0} /\ Misses \in Nat
  /\ Start \in Held /\ Requests \in Nat
  /\ MaxCount \in Nat \ {0} /\ MaxAge \in Nat /\ MaxAge >= ReadEvery * MaxCount

VARIABLES
  settings,   \* the members of the node and of its controller that parameters set
  filter,     \* the members of the controller that decide on a card
  clock,      \* the colour timer
  asked,      \* sets of parameters the operator has sent
  request,    \* the set this step answered, if it answered one (history)
  calm        \* periods since the last card or the last long pause or spin (history)

vars == <<settings, filter, clock, asked, request, calm>>

Card == {"red", "yellow", "green", "blue"}
NoCard == "none"

\* is_card()
IsCard(read) ==
  /\ read.clear >= MinClear
  /\ 100 * read.delta >= MinSaturation * read.max
  /\ read.name \in Card

\* What one reading may show: a card, or none.
Sights ==
  {IF IsCard(read) THEN read.name ELSE NoCard : read \in {ReadColor(s) : s \in Sample}}

\* One parameter, or two in one set.
Sets == {<<p>> : p \in Param} \cup (Param \X Param)

\* A pause or a spin this long has had a reading that did not fail.
Long == ReadEvery * (Misses + 1)

(***************************************************************************)
(* name, count are debounce_name_ and debounce_count_, last and age are    *)
(* last_card_ and the age of last_card_time_, busy is a pause or a spin.   *)
(* spell is how long it has gone on, and on_color() been enabled in it.    *)
(***************************************************************************)
Filter ==
  [running: BOOLEAN, busy: BOOLEAN, spell: 0 .. Long,
   name: Card \cup {NoCard}, count: 0 .. MaxCount,
   last: Card \cup {NoCard}, age: 0 .. MaxAge]

Clock == [due: BOOLEAN, next: 1 .. ReadEvery, missed: 0 .. Misses]

FilterTypeOK ==
  /\ settings \in Held
  /\ filter \in Filter
  /\ clock \in Clock
  /\ asked \in 0 .. Requests
  /\ request \in {<<>>} \cup Sets
  /\ calm \in 0 .. MaxAge

Init ==
  /\ settings = Start
  /\ filter = [running |-> FALSE, busy |-> FALSE, spell |-> 0,
               name |-> NoCard, count |-> 0, last |-> NoCard, age |-> MaxAge]
  /\ clock = [due |-> TRUE, next |-> ReadEvery, missed |-> 0]
  /\ asked = 0
  /\ request = <<>>
  /\ calm = 0

-----------------------------------------------------------------------------
(* publish_color(), on_color() *)

Unasked == asked' = asked /\ request' = <<>>

Read == clock.due /\ clock' = [clock EXCEPT !.due = FALSE, !.missed = 0]

Heard == settings["convoy_enable"] = 1 /\ filter.running

\* read_color() fails: the reading is skipped.
ReadFails ==
  /\ clock.due /\ clock.missed < Misses
  /\ clock' = [clock EXCEPT !.due = FALSE, !.missed = @ + 1]
  /\ Unasked /\ UNCHANGED <<settings, filter, calm>>

ReadUnheard ==
  /\ Read
  /\ ~ Heard
  /\ Unasked /\ UNCHANGED <<settings, filter, calm>>

\* Mutant: the cooldown is left to run out in the pause.
BusyClearsOnly(f) == [f EXCEPT !.name = NoCard, !.count = 0]

\* Mutant: a pause keeps the count of the card in front of the sensor.
BusyKeepsCount(f) == [f EXCEPT !.age = 0]

\* Mutant: the first reading after a pause is not to count.
BusySkipsOne(f) == [f EXCEPT !.age = 0, !.name = NoCard, !.count = -1]

\* on_color() in a pause or a spin: the cooldown starts again, the count ends.
KeepCooldown(f) == [f EXCEPT !.age = 0, !.name = NoCard, !.count = 0]

ReadBusy ==
  /\ Read
  /\ Heard /\ filter.busy
  /\ filter' = KeepCooldown(filter)
  /\ Unasked /\ UNCHANGED <<settings, calm>>

\* accept_card() up to the debounce: one reading counted.
Counted(f, sight) ==
  IF sight = NoCard THEN [f EXCEPT !.name = NoCard, !.count = 0]
  ELSE [f EXCEPT !.name = sight,
                 !.count = IF sight = f.name THEN Least({@ + 1, MaxCount}) ELSE 1]

Accepts(f, sight) ==
  /\ sight # NoCard
  /\ f.count >= settings["color_debounce"]
  /\ ~ (sight = f.last /\ Above(settings["color_cooldown"], f.age))

ReadIdle(sight) ==
  /\ Read
  /\ Heard /\ ~ filter.busy
  /\ ~ Accepts(Counted(filter, sight), sight)
  /\ filter' = Counted(filter, sight)
  /\ Unasked /\ UNCHANGED <<settings, calm>>

\* The card is taken; a leader may begin a pause for it.
TakeCard(sight) ==
  /\ Read
  /\ Heard /\ ~ filter.busy
  /\ Accepts(Counted(filter, sight), sight)
  /\ \E busy \in BOOLEAN :
       filter' = [Counted(filter, sight) EXCEPT
                    !.last = sight, !.age = 0, !.busy = busy, !.spell = 0]
  /\ calm' = 0
  /\ Unasked /\ UNCHANGED settings

OnColor ==
  \/ ReadUnheard
  \/ ReadBusy
  \/ \E sight \in Sights : ReadIdle(sight) \/ TakeCard(sight)

-----------------------------------------------------------------------------
(* What else moves these members. *)

\* on_command() begins a pause, on_timer() a spin.
BecomeBusy ==
  /\ filter.running /\ ~ filter.busy
  /\ filter' = [filter EXCEPT !.busy = TRUE, !.spell = 0]
  /\ Unasked /\ UNCHANGED <<settings, clock, calm>>

\* on_timer(), a STOP on the bus or a key end the pause or the spin.
BecomeIdle ==
  /\ filter.busy
  /\ filter' = [filter EXCEPT !.busy = FALSE]
  /\ Unasked /\ UNCHANGED <<settings, clock, calm>>

\* set_running()
OnRun ==
  /\ settings["convoy_enable"] = 1
  /\ filter' = [filter EXCEPT !.running = ~ @, !.busy = FALSE]
  /\ Unasked /\ UNCHANGED <<settings, clock, calm>>

CancelsSpin(params) ==
  /\ \A i \in DOMAIN params : Checked(params[i])
  /\ [name |-> "line_follow", value |-> 0] \in Range(params)

\* on_set_parameters(); a set with line_follow off that lands cancels a spin.
OnSetParameters(params) ==
  /\ asked < Requests
  /\ asked' = asked + 1
  /\ request' = params
  /\ settings' = SetParameters(settings, params)
  /\ \E busy \in {filter.busy, FALSE} :
       /\ busy # filter.busy => CancelsSpin(params)
       /\ filter' = [filter EXCEPT
                       !.busy = busy,
                       !.spell = IF settings'["convoy_enable"] = 1 THEN @ ELSE 0]
  /\ UNCHANGED <<clock, calm>>

Elapse ==
  /\ ~ clock.due
  /\ LET tick == clock.next = 1 IN
     clock' = [clock EXCEPT !.due = tick, !.next = IF tick THEN ReadEvery ELSE @ - 1]
  /\ filter' = [filter EXCEPT !.age = Least({@ + 1, MaxAge}),
                              !.spell = IF filter.busy /\ Heard THEN Least({@ + 1, Long})
                                         ELSE 0]
  /\ calm' = IF filter.busy /\ Heard /\ filter.spell >= Long THEN 0
             ELSE Least({calm + 1, MaxAge})
  /\ Unasked /\ UNCHANGED settings

Next ==
  \/ OnColor
  \/ ReadFails
  \/ BecomeBusy
  \/ BecomeIdle
  \/ OnRun
  \/ asked < Requests /\ \E params \in Sets : OnSetParameters(params)
  \/ Elapse

Spec == Init /\ [][Next]_vars

-----------------------------------------------------------------------------
(* Properties. *)

\* Every number the node works with is within its range, whatever sets of parameters the
\* operator sends (as long as a debounce fits an int): the node's own members are assigned
\* without a check, on the word of the first pass of on_set_parameters().  A double that
\* is not a number passes that, so nothing is promised of one.
SettingsUsable == Usable(settings)

\* A set of parameters lands as a whole or not at all: whatever apply_parameter() would
\* refuse, the first pass has refused before anything was applied.
AllOrNothing ==
  [][request' # <<>>
       => settings' \in {settings, Assigned(settings, request', DOMAIN request')}]_vars

\* Cards are spaced: after a card, or a pause or spin long enough to be read in, no card
\* is taken before the sensor has had the time for all but one of the readings of the
\* debounce, or for the cooldown if the operator has set it shorter, and never before the
\* next reading; a cooldown that is not a number is none.  Convoy counts on this gap
\* (CardGap) between a leader's orders.
Cooldown == IF settings["color_cooldown"] = NaN THEN 0 ELSE settings["color_cooldown"]

Spacing ==
  Least({ReadEvery * (settings["color_debounce"] - 1), Biggest({ReadEvery, Cooldown})})

CardsSpaced == [][\A sight \in Card : TakeCard(sight) => calm >= Spacing]_vars

\* A card that began a pause and still lies in front of the sensor after it does not
\* fire again until color_cooldown has gone by, the readings that may have failed at
\* the end of the pause aside, while no other card is taken.
NoEcho ==
  [][\A sight \in Card :
       TakeCard(sight) /\ sight = filter.last
         => calm >= Cooldown - Long]_vars

\* Whatever the filter is counting, the same count of readings of another colour, lit
\* alike, would have been as good: no channel is favoured among vivid samples.
SightsAlike == filter.count > 0 => ChannelsAlike
=============================================================================
