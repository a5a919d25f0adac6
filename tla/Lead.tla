--------------------------------- MODULE Lead ---------------------------------
(***************************************************************************)
(* What the convoy promises about its lead, whatever cards, orders,        *)
(* heartbeats and outages it is made of: Convoy.tla implements this.       *)
(*                                                                         *)
(* Time is cut into rounds in which every robot that is up may move once.  *)
(* Of itself a robot changes its role in three ways only, one a move: it   *)
(* claims the lead with a term it has never led with, it yields the lead   *)
(* to a robot that has really claimed it with a term or an id that         *)
(* outranks its own, or it does its part of a handover that was agreed     *)
(* on.  The lead is handed over by the one that has it and taken by one    *)
(* that has not, and a term falls only with the power.                     *)
(***************************************************************************)
EXTENDS Integers

CONSTANTS Robots, BootRole

VARIABLES
  role,      \* each robot's role
  term,      \* the term it leads or last led with
  handing,   \* its part in a handover: "GiveLead", "TakeLead" or "None"
  claimed,   \* the highest term it has led with
  up,        \* the robots that have power
  due        \* the robots yet to move in this round

lead == <<role, term, handing, claimed>>
vars == <<lead, up, due>>

BootTerm(r) == IF BootRole[r] = "Leader" THEN 1 ELSE 0

Init ==
  /\ role = BootRole
  /\ term = [r \in Robots |-> BootTerm(r)]
  /\ handing = [r \in Robots |-> "None"]
  /\ claimed = term
  /\ up = Robots
  /\ due = Robots

Outranks(s, t, r) == t < claimed[s] \/ (t = claimed[s] /\ s < r)

\* r leads from now on, with a term above its own.
Leads(r) ==
  /\ role' = [role EXCEPT ![r] = "Leader"]
  /\ term'[r] > term[r]
  /\ term' = [term EXCEPT ![r] = term'[r]]
  /\ claimed' = [claimed EXCEPT ![r] = IF @ < term'[r] THEN term'[r] ELSE @]

Follows(r) ==
  /\ role' = [role EXCEPT ![r] = "Follower"]
  /\ UNCHANGED <<term, claimed>>

-----------------------------------------------------------------------------
(* A robot's move. *)

Claim(r) ==
  /\ handing[r] = "None" /\ role[r] = "Follower"
  /\ Leads(r)
  /\ handing' = handing

Yield(r) ==
  /\ handing[r] = "None" /\ role[r] = "Leader"
  /\ \E s \in Robots \ {r} : Outranks(s, term[r], r)
  /\ Follows(r)
  /\ handing' = handing

HandOver(r) ==
  /\ handing[r] # "None"
  /\ IF handing[r] = "TakeLead" THEN Leads(r) ELSE Follows(r)
  /\ handing' = [handing EXCEPT ![r] = "None"]

Move(r) ==
  /\ r \in due
  /\ due' = due \ {r}
  /\ up' = up
  /\ UNCHANGED lead \/ Claim(r) \/ Yield(r) \/ HandOver(r)

-----------------------------------------------------------------------------
(* What is done to a robot between its moves. *)

Agree(r) ==
  /\ r \in up
  /\ handing[r] = "None"
  /\ handing' = [handing EXCEPT ![r] =
                   IF role[r] = "Leader" THEN "GiveLead" ELSE "TakeLead"]
  /\ UNCHANGED <<role, term, claimed, up, due>>

CallOff(r) ==
  /\ handing' = [handing EXCEPT ![r] = "None"]
  /\ UNCHANGED <<role, term, claimed, up, due>>

\* The operator sets the role of a robot.
Appoint(r) ==
  /\ r \in up
  /\ Leads(r) \/ Follows(r)
  /\ UNCHANGED <<handing, up, due>>

LosePower(r) ==
  /\ r \in up
  /\ up' = up \ {r}
  /\ due' = due \ {r}
  /\ role' = [role EXCEPT ![r] = BootRole[r]]
  /\ term' = [term EXCEPT ![r] = BootTerm(r)]
  /\ handing' = [handing EXCEPT ![r] = "None"]
  /\ claimed' = [claimed EXCEPT ![r] =
                   IF @ < BootTerm(r) THEN BootTerm(r) ELSE @]

PowerUp(r) ==
  /\ up' = up \cup {r}
  /\ UNCHANGED <<lead, due>>

NextRound ==
  /\ due = {}
  /\ due' = up
  /\ UNCHANGED <<lead, up>>

Next ==
  \/ \E r \in Robots :
       Move(r) \/ Agree(r) \/ CallOff(r) \/ Appoint(r) \/ LosePower(r) \/ PowerUp(r)
  \/ NextRound

Spec == Init /\ [][Next]_vars
=============================================================================
