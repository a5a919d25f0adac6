------------------------------ MODULE CardFilterMC ------------------------------
(***************************************************************************)
(* CardFilter for TLC: the settings of a robot at start-up, and values on  *)
(* both sides of every bound that on_set_parameters() checks.              *)
(***************************************************************************)
EXTENDS CardFilter

MCStart ==
  [n \in Setting |->
     CASE n = "line_follow_slowdown" -> 35
       [] n = "line_threshold" -> 10
       [] n = "cmd_timeout" -> 10
       [] n = "color_debounce" -> 3
       [] n = "color_cooldown" -> 6
       [] n \in {"convoy_enable", "handover_turn"} -> 1
       [] OTHER -> 0]

MCParam ==
  [name: {"line_follow"}, value: {0, 1}]
  \cup [name: {"line_follow_slowdown"}, value: {101}]
  \cup [name: {"line_threshold"}, value: {0, NaN}]
  \cup [name: {"color_cooldown"}, value: {-1, NaN}]
  \cup [name: {"convoy_role"}, value: {2}]
  \cup [name: {"convoy_enable"}, value: {0}]
  \cup [name: {"color_debounce"}, value: {0, 1}]
  \cup [name: {"robot_id"}, value: {0}]
=============================================================================
