------------------------- MODULE NotificationDocument -------------------------
(***************************************************************************)
(* The notification state document (internal/notification/state.go): what  *)
(* it holds, when it is valid, and what one run's results and one          *)
(* acknowledgement make of it, as functions of the document.               *)
(*                                                                         *)
(* The document is a function from every project name to its state; a      *)
(* project that has no entry has the zero state, as a missing key of the   *)
(* Go map does.  Sorting and the JSON text are abstracted away.            *)
(***************************************************************************)
EXTENDS Integers, FiniteSets

CONSTANTS
  Projects,     \* project names that ever occur
  FailStatus,   \* the stable statuses other than "healthy"
  Times,        \* observation instants
  Thresholds,   \* values --notify-after takes in different runs
  MaxProjects,  \* entries a document may hold (MaxProjects, MaxFileBytes)
  MaxEpisode,   \* largest uint64
  MaxInt        \* largest int, where consecutive_failures saturates

Healthy  == "healthy"
NoStatus == ""
NoTime   == 0
Status   == FailStatus \union {Healthy}

ASSUME NotificationAssumption ==
  /\ IsFiniteSet(Projects)
  /\ FailStatus \intersect {Healthy, NoStatus} = {}
  /\ Times \subseteq Nat \ {NoTime}
  /\ MaxProjects \in Nat /\ MaxEpisode \in Nat /\ MaxInt \in Nat
  /\ Thresholds \subseteq 1..MaxInt

-----------------------------------------------------------------------------
(* Documents *)
(* A definition whose name ends in a word for a bug (...Unbounded,         *)
(* ...DueOnce) is a variant: nothing uses it but the mutation runs, which  *)
(* put it in the place of the definition below it.                         *)

ProjectState ==
  [episode  : 0..MaxEpisode,  failures : 0..MaxInt,
   last     : Status \union {NoStatus},
   observed : Times \union {NoTime},
   pending  : BOOLEAN,        notified : BOOLEAN]

Document == [Projects -> ProjectState]

ZeroState ==
  [episode |-> 0, failures |-> 0, last |-> NoStatus, observed |-> NoTime,
   pending |-> FALSE, notified |-> FALSE]

EmptyDocument == [p \in Projects |-> ZeroState]

Known(d) == {p \in Projects : d[p].last # NoStatus}

(* What validateDocument demands of one entry. *)
ValidState(s) ==
  /\ ~(s.pending /\ s.notified)
  /\ s.last = Healthy => s.failures = 0 /\ ~s.pending /\ ~s.notified
  /\ s.last # Healthy => s.failures >= 1 /\ s.episode # 0

ValidEntries(d) == \A p \in Known(d) : ValidState(d[p])

FitsBounds(d) == Cardinality(Known(d)) <= MaxProjects

ValidDocument(d) == FitsBounds(d) /\ ValidEntries(d)

-----------------------------------------------------------------------------
(* One result *)

(* A failure opens an episode when the project was healthy or unknown. *)
OpensOnAnyChange(s, status) == s.last # status
Opens(s, status) == status # Healthy /\ s.last \in {NoStatus, Healthy}

StreakUnbounded(s) == s.failures + 1
Streak(s) == IF s.failures < MaxInt THEN s.failures + 1 ELSE s.failures

RecoveredStillNotified(s, t) ==
  [s EXCEPT !.failures = 0, !.pending = FALSE, !.last = Healthy, !.observed = t]
Recovered(s, t) ==
  [episode |-> s.episode, failures |-> 0, last |-> Healthy, observed |-> t,
   pending |-> FALSE, notified |-> FALSE]

DueAboveThreshold(s, threshold) == Streak(s) > threshold /\ ~s.notified
Due(s, threshold) == Streak(s) >= threshold /\ ~s.notified

FailedDueOnce(s, status, t, threshold) ==
  [episode  |-> IF Opens(s, status) THEN s.episode + 1 ELSE s.episode,
   failures |-> Streak(s), last |-> status, observed |-> t,
   pending  |-> Streak(s) = threshold, notified |-> s.notified]
Failed(s, status, t, threshold) ==
  [episode  |-> IF Opens(s, status) THEN s.episode + 1 ELSE s.episode,
   failures |-> Streak(s), last |-> status, observed |-> t,
   pending  |-> s.pending \/ Due(s, threshold), notified |-> s.notified]

Observed(s, status, t, threshold) ==
  IF status = Healthy THEN Recovered(s, t) ELSE Failed(s, status, t, threshold)

-----------------------------------------------------------------------------
(* Advance and MarkDelivered as functions of the document *)

(* The results of one run: a status for each project it selected. *)
Results == UNION {[S -> Status] : S \in (SUBSET Projects) \ {{}}}

EpisodesExhausted(d, results) ==
  \E p \in DOMAIN results :
    Opens(d[p], results[p]) /\ d[p].episode = MaxEpisode

Advanced(d, t, results, threshold) ==
  [p \in Projects |->
    IF p \in DOMAIN results THEN Observed(d[p], results[p], t, threshold)
                            ELSE d[p]]

Event ==
  [project : Projects, status : FailStatus, episode : 1..MaxEpisode,
   failures : 1..MaxInt, observed : Times]

EventOf(d, p) ==
  [project |-> p, status |-> d[p].last, episode |-> d[p].episode,
   failures |-> d[p].failures, observed |-> d[p].observed]

(* The entry an acknowledgement is for: pending, and every field equal. *)
MatchesByProject(d, e) == d[e.project].pending
Matches(d, e) == d[e.project].pending /\ EventOf(d, e.project) = e

Acknowledged(d, p) ==
  [d EXCEPT ![p].pending = FALSE, ![p].notified = TRUE]

=============================================================================
