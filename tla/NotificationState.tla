-------------------------- MODULE NotificationState --------------------------
(***************************************************************************)
(* The notification state file as an atomic object: its two operations,    *)
(* Advance and MarkDelivered, each taken in one step.  RunCommand splits    *)
(* them into the read and the write they really are and interleaves them   *)
(* with crashes and other runs.                                            *)
(***************************************************************************)
EXTENDS NotificationDocument

VARIABLE disk

FileInit == disk = EmptyDocument

Advance(t, results, threshold) ==
  LET next == Advanced(disk, t, results, threshold) IN
  /\ ~EpisodesExhausted(disk, results)
  /\ ValidDocument(next)
  /\ disk' = next

(* An exhausted episode counter, or a document the write would refuse:     *)
(* the call returns an error and the file keeps its old content.           *)
AdvanceExhausted(results) == EpisodesExhausted(disk, results) /\ UNCHANGED disk

AdvanceRefused(t, results, threshold) ==
  /\ ~EpisodesExhausted(disk, results)
  /\ ~ValidDocument(Advanced(disk, t, results, threshold))
  /\ UNCHANGED disk

(* Any event may be acknowledged, one of an earlier run too. *)
MarkDelivered(e) ==
  /\ Matches(disk, e)
  /\ ValidDocument(Acknowledged(disk, e.project))
  /\ disk' = Acknowledged(disk, e.project)

MarkStale(e) == ~Matches(disk, e) /\ UNCHANGED disk

FileNext ==
  \/ \E e \in Event : MarkDelivered(e) \/ MarkStale(e)
  \/ \E results \in Results : AdvanceExhausted(results)
  \/ \E t \in Times, results \in Results, threshold \in Thresholds :
       \/ Advance(t, results, threshold)
       \/ AdvanceRefused(t, results, threshold)

FileSpec == FileInit /\ [][FileNext]_disk

-----------------------------------------------------------------------------
(* Properties *)

(* Counters stay in the ranges of their Go types: the episode counter      *)
(* stops with an error instead of wrapping, the failure count saturates.   *)
FileTypeOK == disk \in Document

(* No self-lockout.  read refuses a document validateDocument rejects, and *)
(* write refuses to store one, so a decision that produced an inconsistent *)
(* entry would fail every later run of every project.  Whatever a run      *)
(* observes, and whichever pending event is acknowledged, the entries that *)
(* result are valid; only the size bound can refuse the write.             *)
NoSelfLockout ==
  /\ ValidDocument(disk)
  /\ \A t \in Times, results \in Results, threshold \in Thresholds :
       EpisodesExhausted(disk, results)
         \/ ValidEntries(Advanced(disk, t, results, threshold))
  /\ \A p \in Projects : disk[p].pending => ValidDocument(Acknowledged(disk, p))

(* What the alert machine of a project makes of its entry. *)
Phase(s) ==
  CASE s.notified                            -> "told"
    [] s.pending /\ ~s.notified              -> "due"
    [] s.last \in FailStatus /\ ~s.pending /\ ~s.notified -> "quiet"
    [] OTHER                                 -> "up"

Abstract == INSTANCE Alerts WITH
  outage <- [p \in Projects |-> disk[p].episode],
  phase  <- [p \in Projects |-> Phase(disk[p])]

(* The document keeps the promise of Alerts: one alert per outage, due     *)
(* until it is told or the project recovers, with outage numbers (the      *)
(* receiver's deduplication key) that never repeat.                        *)
AlertsSpec == Abstract!Spec

=============================================================================
