------------------------------ MODULE JobTimeout ------------------------------
(***************************************************************************)
(* workflowTimeoutMinutes (internal/scheduler/github.go): the timeout the  *)
(* generated workflow gives its job, against what the job's run command    *)
(* takes: the pool's run, and with notifications the delivery of the       *)
(* alerts it leads to, one after another.                                  *)
(***************************************************************************)
EXTENDS HeartbeatRunner

CONSTANTS
  Notifications,    \* whether the workflow delivers alerts
  DeliveryTimeout,  \* of one delivery, 10 seconds
  Allowance,        \* 30 seconds, for the restoring and saving of the state
  Minute            \* 60 seconds

ASSUME JobAssumption ==
  /\ Notifications \in BOOLEAN
  /\ DeliveryTimeout \in Nat /\ Allowance \in Nat /\ Minute \in Nat \ {0}

VARIABLES
  alerts,  \* events to be delivered, once Advance has told
  spent    \* the time deliveries took

jobVars == <<vars, alerts, spent>>

Unknown == -1

-----------------------------------------------------------------------------
(* workflowTimeoutMinutes *)

NotificationTimeWithoutDeliveries == IF Notifications THEN Allowance ELSE 0
NotificationTime ==
  IF Notifications THEN N * DeliveryTimeout + Allowance ELSE 0

SpareMinutes == 2
LeastMinutes == 5
MostMinutes  == 360

(* Rounded up to whole minutes, before its limits. *)
Minutes ==
  (ConfiguredWorstCase + NotificationTime + Minute - 1) \div Minute + SpareMinutes

Greater(a, b) == IF a < b THEN b ELSE a
WorkflowTimeoutMinutes == Greater(LeastMinutes, Lesser(Minutes, MostMinutes))

-----------------------------------------------------------------------------
(* The rest of the run command *)

JobInit == Init /\ alerts = Unknown /\ spent = 0

(* History, metrics and the state are written, in no time; Advance returns *)
(* at most one event per project.                                          *)
Advance ==
  /\ returned /\ alerts = Unknown
  /\ alerts' \in IF Notifications THEN 0..N ELSE {0}
  /\ UNCHANGED <<vars, spent>>

(* Deliver and MarkDelivered; the first delivery that fails is the last.   *)
Deliver ==
  /\ alerts > 0
  /\ \E d \in 0..DeliveryTimeout : spent' = spent + d
  /\ alerts' \in {alerts - 1, 0}
  /\ UNCHANGED vars

JobNext == (Next /\ UNCHANGED <<alerts, spent>>) \/ Advance \/ Deliver

JobSpec == JobInit /\ [][JobNext]_jobVars

(* The pool's goroutines are scheduled; the rest of the command may stop.  *)
FairJobSpec == JobSpec /\ Fairness

-----------------------------------------------------------------------------
(* Properties *)

(* No more than one delivery per project, none of them longer than its     *)
(* timeout.                                                                *)
JobTypeOK ==
  /\ alerts \in Unknown..N
  /\ spent \in 0..(N * DeliveryTimeout)

(* The job is not cancelled before it has saved its state: as long as no   *)
(* Retry-After is longer than the backoff it replaces, and the timeout was *)
(* not cut at 360 minutes, the run with its deliveries leaves the other    *)
(* steps of the job their two minutes, and the allowance.  Nothing limits  *)
(* the configuration to what fits into 360 minutes; beyond, the timeout    *)
(* covers no worst case.                                                   *)
Reserve == SpareMinutes * Minute + (IF Notifications THEN Allowance ELSE 0)
WithinJobTimeout ==
  ~delayed /\ Minutes <= MostMinutes =>
    clock + spent + Reserve <= WorkflowTimeoutMinutes * Minute

=============================================================================
