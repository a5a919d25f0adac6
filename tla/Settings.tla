-------------------------------- MODULE Settings --------------------------------
(***************************************************************************)
(* Parameters set while the node runs: on_set_parameters()                 *)
(* (gopigo3_ros_node.cpp), which checks a whole set before it applies any  *)
(* of it, and apply_parameter() (convoy_controller.cpp), which checks the  *)
(* convoy's own once more.                                                 *)
(*                                                                         *)
(* One name stands for each group of parameters the code treats alike:     *)
(* cmd_timeout for the node's numbers, color_cooldown for the convoy's,    *)
(* color_led for what is wired up at start-up.  A value is an integer: 0   *)
(* and 1 for a boolean or a role; a double, in units of which a one holds  *)
(* Whole, may also be no number at all.                                    *)
(***************************************************************************)
EXTENDS Integers, SequencesExt

CONSTANTS
  LineFollowerReady,   \* did a line sensor answer at start-up?
  Param,               \* the parameters that may be set, [name, value]
  Whole,               \* the units in a double of 1.0
  NaN,                 \* the double that is not a number
  IntHalf              \* an int holds -IntHalf .. IntHalf - 1

Name == {"line_follow", "line_follow_slowdown", "line_threshold", "cmd_timeout",
         "robot_id", "convoy_role", "convoy_enable", "handover_turn",
         "color_debounce", "color_cooldown", "color_led"}

Double       == {"line_follow_slowdown", "line_threshold", "cmd_timeout", "color_cooldown"}
StartUpOnly  == {"robot_id", "color_led"}
Setting      == Name \ StartUpOnly
ConvoyParam  == {"robot_id", "convoy_role", "convoy_enable", "handover_turn",
                 "color_debounce", "color_cooldown"}

ASSUME ReadyAssumption == LineFollowerReady \in BOOLEAN
ASSUME NumberAssumption == NaN \notin Int /\ Whole \in Nat \ {0}
ASSUME ParamAssumption ==
  Param \subseteq [name: Name \ Double, value: Int] \cup [name: Double, value: Int \cup {NaN}]
ASSUME WidthAssumption == IntHalf \in Nat \ {0}

\* What the node's members may hold.
Held == {s \in [Setting -> Int \cup {NaN}] : \A n \in Setting \ Double : s[n] \in Int}

\* No comparison holds of a NaN: it passes every check below.
Below(value, bound) == value # NaN /\ value < bound
Above(value, bound) == value # NaN /\ value > bound

\* The range a value is kept in, or none.
Within(value, least, most) == ~ Below(value, least) /\ ~ Above(value, most)

-----------------------------------------------------------------------------
(* The first pass: no parameter of the set may be refused. *)

\* Mutant: a debounce of no readings at all passes.
CheckedButDebounce(p) ==
  /\ p.name \notin StartUpOnly
  /\ p.name = "line_follow" /\ p.value = 1 => LineFollowerReady
  /\ p.name = "line_follow_slowdown" => Within(p.value, 0, Whole)
  /\ p.name = "line_threshold" => Within(p.value, 1, Whole)
  /\ p.name = "convoy_role" => p.value \in {0, 1}
  /\ p.name \in {"cmd_timeout", "color_cooldown"} => ~ Below(p.value, 0)

\* Mutant: the threshold is checked like the slowdown.
CheckedLoosely(p) ==
  /\ p.name \notin StartUpOnly
  /\ p.name = "line_follow" /\ p.value = 1 => LineFollowerReady
  /\ p.name \in {"line_follow_slowdown", "line_threshold"} => Within(p.value, 0, Whole)
  /\ p.name = "convoy_role" => p.value \in {0, 1}
  /\ p.name = "color_debounce" => p.value >= 1
  /\ p.name \in {"cmd_timeout", "color_cooldown"} => ~ Below(p.value, 0)

Checked(p) ==
  /\ p.name \notin StartUpOnly
  /\ p.name = "line_follow" /\ p.value = 1 => LineFollowerReady
  /\ p.name = "line_follow_slowdown" => Within(p.value, 0, Whole)
  /\ p.name = "line_threshold" => Within(p.value, 1, Whole)
  /\ p.name = "convoy_role" => p.value \in {0, 1}
  /\ p.name = "color_debounce" => p.value >= 1
  /\ p.name \in {"cmd_timeout", "color_cooldown"} => ~ Below(p.value, 0)

(* The second pass: each is applied in turn, until apply_parameter() refuses one. *)

\* What apply_parameter() refuses by itself.
Refused(p) ==
  \/ p.name = "robot_id"
  \/ p.name = "convoy_role" /\ p.value \notin {0, 1}
  \/ p.name = "color_debounce" /\ p.value < 1
  \/ p.name = "color_cooldown" /\ Below(p.value, 0)

\* static_cast<int> of a 64-bit value.
ToInt(value) == ((value + IntHalf) % (2 * IntHalf)) - IntHalf

Stored(p) == IF p.name = "color_debounce" THEN ToInt(p.value) ELSE p.value

\* The settings with some parameters of the set in effect, in the order of the set: the
\* last of two values for one name stays.
Assigned(settings, params, applied) ==
  [n \in Setting |->
     LET given == {i \in applied : params[i].name = n} IN
     IF given = {} THEN settings[n] ELSE Stored(params[Max(given)])]

\* The parameters that on_set_parameters() gets to: it stops at the first of the convoy's
\* that apply_parameter() refuses.
Applied(params) ==
  {i \in DOMAIN params :
     \A j \in 1 .. i : ~ (params[j].name \in ConvoyParam /\ Refused(params[j]))}

\* on_set_parameters()
SetParameters(settings, params) ==
  IF \A i \in DOMAIN params : Checked(params[i])
  THEN Assigned(settings, params, Applied(params)) ELSE settings

-----------------------------------------------------------------------------
\* The range of each number that the readme gives; a NaN is out of none.
Usable(settings) ==
  /\ Within(settings["line_threshold"], 1, Whole)
  /\ Within(settings["line_follow_slowdown"], 0, Whole)
  /\ settings["line_follow"] = 1 => LineFollowerReady
  /\ settings["convoy_role"] \in {0, 1}
  /\ settings["color_debounce"] >= 1
  /\ ~ Below(settings["cmd_timeout"], 0) /\ ~ Below(settings["color_cooldown"], 0)
=============================================================================
