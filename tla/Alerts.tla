------------------------------- MODULE Alerts -------------------------------
(***************************************************************************)
(* What the repeated-failure notification promises, with no document, no   *)
(* file and no run in sight: per project, the number of the current outage *)
(* and how far its one alert has come.                                     *)
(*                                                                         *)
(*   "up"     no outage is open                                            *)
(*   "quiet"  an outage is open, below the threshold                       *)
(*   "due"    the outage reached the threshold: its alert must be sent     *)
(*   "told"   the receiver has it: silence until the project is up again   *)
(*                                                                         *)
(* An alert that became due stays due until it is told or the project      *)
(* recovers, an outage is told at most once, and outage numbers never      *)
(* repeat or run backwards.                                                *)
(***************************************************************************)
EXTENDS Naturals

CONSTANT Projects

VARIABLES outage, phase

vars == <<outage, phase>>

Phases == {"up", "quiet", "due", "told"}

Init ==
  /\ outage = [p \in Projects |-> 0]
  /\ phase  = [p \in Projects |-> "up"]

Recovers(p) == phase'[p] = "up" /\ outage'[p] = outage[p]

Breaks(p) ==
  /\ phase[p] = "up"
  /\ phase'[p] \in {"quiet", "due"}
  /\ outage'[p] = outage[p] + 1

StaysDown(p) ==
  /\ phase[p] # "up"
  /\ \/ phase[p] = "quiet" /\ phase'[p] = "due"
     \/ phase'[p] = phase[p]
  /\ outage'[p] = outage[p]

(* One run observes any of the projects, all in one step. *)
Check ==
  /\ outage' \in [Projects -> Nat]
  /\ phase'  \in [Projects -> Phases]
  /\ \A p \in Projects : Recovers(p) \/ Breaks(p) \/ StaysDown(p)

Tell(p) ==
  /\ phase[p] = "due"
  /\ phase' = [phase EXCEPT ![p] = "told"]
  /\ UNCHANGED outage

Next == Check \/ \E p \in Projects : Tell(p)

Spec == Init /\ [][Next]_vars

=============================================================================
