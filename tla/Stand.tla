--------------------------------- MODULE Stand ---------------------------------
(***************************************************************************)
(* The convoy as it stands on the line: two robots, one of which starts as *)
(* the leader, one START, any number of cards, and neither a failure nor a *)
(* parameter set meanwhile.  Cards lie where the convoy has turned around  *)
(* before it comes to one: no robot reads a card while the other spins.    *)
(***************************************************************************)
EXTENDS ConvoyMC

\* An order takes less than a pause and less than the debounce of the next card, and no
\* longer than a follower waits for its leader.
ASSUME StandAssumption ==
  /\ \E w, r \in Robots :
       /\ w # r /\ Robots = {w, r}
       /\ BootRole[w] = "Leader" /\ BootRole[r] = "Follower"
  /\ RunOrders \in {0, 1} /\ Settings = 0 /\ Faults = 0
  /\ MaxDelay < SyncPause /\ MaxDelay < CardGap /\ MaxDelay =< LeaderTimeout
  /\ LeaderTimeout > 0

\* Nothing in the code sees to this: a robot whose own spin was short is off again, and
\* may read a card, while the other still searches for the line.
SpinsOver  == \A r \in Robots : ~ Turning(robot[r])
CardsClear == left'.cards # left.cards => SpinsOver

StandNext == MCNext /\ CardsClear

StandSpec == MCInit /\ [][StandNext]_mcvars

StandFairSpec == StandSpec /\ Fairness
=============================================================================
