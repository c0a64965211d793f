------------------------ MODULE NotificationStateProofs ------------------------
(***************************************************************************)
(* Theorems about the notification state file, for every set of projects   *)
(* and every value of the bounds: the counters keep their ranges, no       *)
(* decision locks the file, and the document implements Alerts.            *)
(***************************************************************************)
EXTENDS NotificationState, FiniteSetTheorems, TLAPS

(* An entry is either absent, and then all zero, or what validateDocument  *)
(* accepts.                                                                *)
GoodEntry(s) == IF s.last = NoStatus THEN s = ZeroState ELSE ValidState(s)

(* The ranges alone are not inductive: the next decision builds on the     *)
(* flags of the entry it finds.                                            *)
DocumentInv ==
  /\ FileTypeOK
  /\ \A p \in Projects : GoodEntry(disk[p])
  /\ FitsBounds(disk)

-----------------------------------------------------------------------------
(* The decision about one result *)

(* Every status is either healthy or a failure, and never the mark of an   *)
(* absent entry.                                                           *)
LEMMA StatusCases ==
  /\ Healthy \in Status /\ Healthy # NoStatus /\ Healthy \notin FailStatus
  /\ NoStatus \notin Status /\ FailStatus \subseteq Status
  /\ \A x \in Status : x = Healthy \/ x \in FailStatus
BY NotificationAssumption DEF Status, Healthy, NoStatus

(* One observation keeps an entry in its ranges, as long as it does not    *)
(* open an episode beyond the last number.                                 *)
LEMMA ObservedType ==
  ASSUME NEW s \in ProjectState, NEW x \in Status, NEW t \in Times,
         NEW h \in Thresholds, ~(Opens(s, x) /\ s.episode = MaxEpisode)
  PROVE  Observed(s, x, t, h) \in ProjectState
<1>1. s.episode \in 0..MaxEpisode /\ s.failures \in 0..MaxInt
      /\ s.pending \in BOOLEAN /\ s.notified \in BOOLEAN
  BY DEF ProjectState
<1>2. MaxEpisode \in Nat /\ MaxInt \in Nat
  BY NotificationAssumption
<1>3. CASE x = Healthy
  BY <1>1, <1>2, <1>3 DEF Observed, Recovered, ProjectState, Status
<1>4. CASE x # Healthy
  <2>1. (IF Opens(s, x) THEN s.episode + 1 ELSE s.episode) \in 0..MaxEpisode
    BY <1>1, <1>2
  <2>2. Streak(s) \in 0..MaxInt
    BY <1>1, <1>2 DEF Streak
  <2>3. (s.pending \/ Due(s, h)) \in BOOLEAN
    BY <1>1
  <2>4. QED
    BY <1>1, <1>4, <2>1, <2>2, <2>3 DEF Observed, Failed, ProjectState, Status
<1>5. QED
  BY <1>3, <1>4

(* One observation turns a good entry into a valid one: a recovery clears  *)
(* the count and both flags, a failure never makes a notified entry due.   *)
LEMMA ObservedGood ==
  ASSUME NEW s \in ProjectState, GoodEntry(s), NEW x \in Status,
         NEW t \in Times, NEW h \in Thresholds
  PROVE  /\ ValidState(Observed(s, x, t, h))
         /\ Observed(s, x, t, h).last = x
<1>1. s.episode \in 0..MaxEpisode /\ s.failures \in 0..MaxInt
      /\ s.pending \in BOOLEAN /\ s.notified \in BOOLEAN
  BY DEF ProjectState
<1>2. MaxEpisode \in Nat /\ MaxInt \in Nat /\ h \in 1..MaxInt
  BY NotificationAssumption
<1>3. CASE x = Healthy
  BY <1>3 DEF Observed, Recovered, ValidState
<1>4. CASE x # Healthy
  <2>1. Streak(s) >= 1
    BY <1>1, <1>2 DEF Streak
  <2>2. (IF Opens(s, x) THEN s.episode + 1 ELSE s.episode) # 0
    <3>1. CASE Opens(s, x)
      BY <1>1, <1>2, <3>1
    <3>2. CASE ~Opens(s, x)
      BY <1>1, <1>2, <1>4, <3>2 DEF Opens, GoodEntry, ValidState
    <3>3. QED
      BY <3>1, <3>2
  <2>3. ~((s.pending \/ Due(s, h)) /\ s.notified)
    BY <1>1 DEF Due, GoodEntry, ValidState, ZeroState
  <2>4. QED
    BY <1>4, <2>1, <2>2, <2>3 DEF Observed, Failed, ValidState
<1>5. QED
  BY <1>3, <1>4

-----------------------------------------------------------------------------
(* The two operations *)

(* Results name projects and give each a status. *)
LEMMA ResultsShape ==
  ASSUME NEW r \in Results
  PROVE  DOMAIN r \subseteq Projects /\ \A p \in DOMAIN r : r[p] \in Status
BY DEF Results

(* Advance keeps the document in its ranges and its entries good. *)
LEMMA AdvancedGood ==
  ASSUME NEW d \in Document, \A p \in Projects : GoodEntry(d[p]),
         NEW t \in Times, NEW r \in Results, NEW h \in Thresholds,
         ~EpisodesExhausted(d, r)
  PROVE  /\ Advanced(d, t, r, h) \in Document
         /\ \A p \in Projects : GoodEntry(Advanced(d, t, r, h)[p])
<1>1. SUFFICES ASSUME NEW p \in Projects
               PROVE  /\ Advanced(d, t, r, h)[p] \in ProjectState
                      /\ GoodEntry(Advanced(d, t, r, h)[p])
  BY DEF Advanced, Document
<1>2. d[p] \in ProjectState /\ GoodEntry(d[p])
  BY DEF Document
<1>3. CASE p \in DOMAIN r
  <2>1. r[p] \in Status /\ ~(Opens(d[p], r[p]) /\ d[p].episode = MaxEpisode)
    BY <1>3, ResultsShape DEF EpisodesExhausted
  <2>2. Advanced(d, t, r, h)[p] = Observed(d[p], r[p], t, h)
    BY <1>3 DEF Advanced
  <2>3. Observed(d[p], r[p], t, h) \in ProjectState
    BY <1>2, <2>1, ObservedType
  <2>4. /\ ValidState(Observed(d[p], r[p], t, h))
        /\ Observed(d[p], r[p], t, h).last = r[p]
    BY <1>2, <2>1, ObservedGood
  <2>5. QED
    BY <2>1, <2>2, <2>3, <2>4, StatusCases DEF GoodEntry
<1>4. CASE p \notin DOMAIN r
  BY <1>2, <1>4 DEF Advanced
<1>5. QED
  BY <1>3, <1>4

(* Good entries are what validateDocument checks of a document. *)
LEMMA GoodIsValid ==
  ASSUME NEW d, \A p \in Projects : GoodEntry(d[p])
  PROVE  ValidEntries(d)
BY DEF GoodEntry, ValidEntries, Known

(* A pending entry belongs to an open outage nobody was told about. *)
LEMMA PendingEntry ==
  ASSUME NEW s \in ProjectState, GoodEntry(s), s.pending
  PROVE  s.last \in FailStatus /\ ~s.notified
BY StatusCases DEF GoodEntry, ValidState, ZeroState, ProjectState

(* An acknowledgement keeps the document good and knows the same projects. *)
LEMMA AcknowledgedGood ==
  ASSUME NEW d \in Document, \A p \in Projects : GoodEntry(d[p]),
         NEW q \in Projects, d[q].pending
  PROVE  /\ Acknowledged(d, q) \in Document
         /\ \A p \in Projects : GoodEntry(Acknowledged(d, q)[p])
         /\ Known(Acknowledged(d, q)) = Known(d)
<1> DEFINE a == Acknowledged(d, q)
<1>1. d[q] \in ProjectState /\ GoodEntry(d[q])
  BY DEF Document
<1>2. d[q].last \in FailStatus /\ d[q].last # NoStatus
  BY <1>1, PendingEntry, StatusCases
<1>3. \A p \in Projects : a[p] = IF p = q
        THEN [d[q] EXCEPT !.pending = FALSE, !.notified = TRUE] ELSE d[p]
  BY DEF Acknowledged, Document
<1>4. a[q] \in ProjectState /\ a[q].last = d[q].last
      /\ a[q].failures = d[q].failures /\ a[q].episode = d[q].episode
      /\ a[q].pending = FALSE
  BY <1>1, <1>3 DEF ProjectState
<1>5. GoodEntry(a[q])
  BY <1>1, <1>2, <1>4, StatusCases DEF GoodEntry, ValidState
<1>6. a \in Document
  BY <1>3, <1>4 DEF Acknowledged, Document
<1>7. Known(a) = Known(d)
  BY <1>3, <1>4 DEF Known
<1>8. QED
  BY <1>3, <1>5, <1>6, <1>7

-----------------------------------------------------------------------------
(* The empty document *)

(* A file that does not exist is a good document.                          *)
LEMMA EmptyGood ==
  /\ EmptyDocument \in Document
  /\ \A p \in Projects : EmptyDocument[p] = ZeroState
  /\ GoodEntry(ZeroState)
  /\ FitsBounds(EmptyDocument)
<1>1. ZeroState \in ProjectState
  BY NotificationAssumption DEF ZeroState, ProjectState
<1>2. /\ EmptyDocument \in Document
      /\ \A p \in Projects : EmptyDocument[p] = ZeroState
  BY <1>1 DEF EmptyDocument, Document
<1>3. Known(EmptyDocument) = {}
  BY <1>2 DEF Known, ZeroState
<1>4. FitsBounds(EmptyDocument)
  BY <1>3, FS_EmptySet, NotificationAssumption DEF FitsBounds
<1>5. GoodEntry(ZeroState)
  BY DEF GoodEntry, ZeroState
<1>6. QED
  BY <1>2, <1>4, <1>5

-----------------------------------------------------------------------------
(* The invariant *)

(* The first run finds no file.                                            *)
LEMMA InitDocumentInv == FileInit => DocumentInv
BY EmptyGood DEF FileInit, DocumentInv, FileTypeOK

(* Each of the two operations keeps the invariant.                         *)
LEMMA NextDocumentInv == DocumentInv /\ [FileNext]_disk => DocumentInv'
<1> SUFFICES ASSUME DocumentInv, [FileNext]_disk PROVE DocumentInv'
  OBVIOUS
<1>1. disk \in Document /\ (\A p \in Projects : GoodEntry(disk[p])) /\ FitsBounds(disk)
  BY DEF DocumentInv, FileTypeOK
<1>2. ASSUME NEW t \in Times, NEW r \in Results, NEW h \in Thresholds,
             Advance(t, r, h)
      PROVE  DocumentInv'
  <2>1. disk' = Advanced(disk, t, r, h) /\ FitsBounds(disk')
    BY <1>2 DEF Advance, ValidDocument
  <2>2. /\ Advanced(disk, t, r, h) \in Document
        /\ \A p \in Projects : GoodEntry(Advanced(disk, t, r, h)[p])
    BY <1>1, <1>2, AdvancedGood DEF Advance
  <2>3. QED
    BY <2>1, <2>2 DEF DocumentInv, FileTypeOK
<1>3. ASSUME NEW e \in Event, MarkDelivered(e)
      PROVE  DocumentInv'
  <2>1. e.project \in Projects /\ disk[e.project].pending
    BY <1>3 DEF MarkDelivered, Matches, Event
  <2>2. disk' = Acknowledged(disk, e.project) /\ FitsBounds(disk')
    BY <1>3 DEF MarkDelivered, ValidDocument
  <2>3. /\ Acknowledged(disk, e.project) \in Document
        /\ \A p \in Projects : GoodEntry(Acknowledged(disk, e.project)[p])
    BY <1>1, <2>1, AcknowledgedGood
  <2>4. QED
    BY <2>2, <2>3 DEF DocumentInv, FileTypeOK
<1>4. CASE UNCHANGED disk
  BY <1>1, <1>4 DEF DocumentInv, FileTypeOK, FitsBounds, Known
<1>5. QED
  BY <1>2, <1>3, <1>4
     DEF FileNext, AdvanceRefused, AdvanceExhausted, MarkStale

(* The inductive invariant holds in every reachable state. *)
THEOREM DocumentInvariant == FileSpec => []DocumentInv
BY InitDocumentInv, NextDocumentInv, PTL DEF FileSpec

(* The episode counter and the failure count never leave the ranges of     *)
(* their Go types, whatever the sequence of runs.                          *)
THEOREM FileTypeCorrect == FileSpec => []FileTypeOK
<1>1. DocumentInv => FileTypeOK
  BY DEF DocumentInv
<1>2. QED
  BY <1>1, DocumentInvariant, PTL

(* No run's results and no acknowledgement ever make an entry that the     *)
(* next read would refuse.                                                 *)
THEOREM NeverLockedOut == FileSpec => []NoSelfLockout
<1>1. ASSUME DocumentInv PROVE NoSelfLockout
  <2>1. disk \in Document /\ (\A p \in Projects : GoodEntry(disk[p])) /\ FitsBounds(disk)
    BY <1>1 DEF DocumentInv, FileTypeOK
  <2>2. ValidDocument(disk)
    BY <2>1, GoodIsValid DEF ValidDocument
  <2>3. ASSUME NEW t \in Times, NEW r \in Results, NEW h \in Thresholds,
               ~EpisodesExhausted(disk, r)
        PROVE  ValidEntries(Advanced(disk, t, r, h))
    BY <2>1, <2>3, AdvancedGood, GoodIsValid
  <2>4. ASSUME NEW p \in Projects, disk[p].pending
        PROVE  ValidDocument(Acknowledged(disk, p))
    <3>1. /\ \A q \in Projects : GoodEntry(Acknowledged(disk, p)[q])
          /\ Known(Acknowledged(disk, p)) = Known(disk)
      BY <2>1, <2>4, AcknowledgedGood
    <3>2. QED
      BY <2>1, <3>1, GoodIsValid DEF ValidDocument, FitsBounds
  <2>5. QED
    BY <2>2, <2>3, <2>4 DEF NoSelfLockout
<1>2. QED
  BY <1>1, DocumentInvariant, PTL

-----------------------------------------------------------------------------
(* The document implements Alerts *)

(* The refinement mapping, entry by entry. *)
LEMMA PhaseCases ==
  ASSUME NEW s \in ProjectState, GoodEntry(s)
  PROVE  /\ s.notified <=> Phase(s) = "told"
         /\ s.pending <=> Phase(s) = "due"
         /\ s.last \in {NoStatus, Healthy} <=> Phase(s) = "up"
         /\ Phase(s) \in {"up", "quiet", "due", "told"}
<1>1. s.pending \in BOOLEAN /\ s.notified \in BOOLEAN
      /\ (s.last = NoStatus \/ s.last = Healthy \/ s.last \in FailStatus)
  BY StatusCases DEF ProjectState
<1>2. ~(s.pending /\ s.notified)
  BY DEF GoodEntry, ValidState, ZeroState
<1>3. s.last \in {NoStatus, Healthy} => ~s.pending /\ ~s.notified
  BY StatusCases DEF GoodEntry, ValidState, ZeroState
<1>4. CASE s.notified
  BY <1>1, <1>2, <1>3, <1>4 DEF Phase
<1>5. CASE s.pending
  BY <1>1, <1>2, <1>3, <1>5 DEF Phase
<1>6. CASE ~s.notified /\ ~s.pending
  <2>1. CASE s.last \in FailStatus
    BY <1>6, <2>1, StatusCases DEF Phase
  <2>2. CASE s.last \in {NoStatus, Healthy}
    BY <1>6, <2>2, StatusCases, NotificationAssumption DEF Phase
  <2>3. QED
    BY <1>1, <2>1, <2>2
<1>7. QED
  BY <1>1, <1>4, <1>5, <1>6

(* One observation is one of the three moves Alerts allows a project. *)
LEMMA ObservedMoves ==
  ASSUME NEW s \in ProjectState, GoodEntry(s), NEW x \in Status,
         NEW t \in Times, NEW h \in Thresholds,
         ~(Opens(s, x) /\ s.episode = MaxEpisode)
  PROVE  LET o == Observed(s, x, t, h) IN
         \/ Phase(o) = "up" /\ o.episode = s.episode
         \/ /\ Phase(s) = "up" /\ Phase(o) \in {"quiet", "due"}
            /\ o.episode = s.episode + 1
         \/ /\ Phase(s) # "up" /\ o.episode = s.episode
            /\ (Phase(s) = "quiet" /\ Phase(o) = "due") \/ Phase(o) = Phase(s)
<1> DEFINE o == Observed(s, x, t, h)
<1>1. o \in ProjectState /\ ValidState(o) /\ o.last = x
  BY ObservedType, ObservedGood
<1>2. GoodEntry(o)
  BY <1>1, StatusCases DEF GoodEntry
<1>3. CASE x = Healthy
  <2>1. o.episode = s.episode
    BY <1>3 DEF Observed, Recovered
  <2>2. QED
    BY <1>1, <1>2, <1>3, <2>1, PhaseCases
<1>4. CASE x # Healthy
  <2>1. /\ o.notified = s.notified
        /\ s.pending => o.pending
        /\ o.episode = IF Opens(s, x) THEN s.episode + 1 ELSE s.episode
    BY <1>4 DEF Observed, Failed
  <2>2. Phase(o) # "up"
    BY <1>1, <1>2, <1>4, PhaseCases, StatusCases
  <2>3. Opens(s, x) <=> Phase(s) = "up"
    BY <1>4, PhaseCases DEF Opens
  <2>4. /\ Phase(o) = "told" <=> Phase(s) = "told"
        /\ Phase(s) = "due" => Phase(o) = "due"
    <3>1. (s.notified <=> Phase(s) = "told") /\ (s.pending <=> Phase(s) = "due")
      BY PhaseCases
    <3>2. (o.notified <=> Phase(o) = "told") /\ (o.pending <=> Phase(o) = "due")
      BY <1>1, <1>2, PhaseCases
    <3>3. QED
      BY <2>1, <3>1, <3>2
  <2>5. Phase(o) \in {"quiet", "due", "told"} /\ Phase(s) \in {"up", "quiet", "due", "told"}
    BY <1>1, <1>2, <2>2, PhaseCases
  <2>6. QED
    BY <2>1, <2>3, <2>4, <2>5
<1>5. QED
  BY <1>3, <1>4

(* Every behaviour of the document is a behaviour of Alerts: an outage is  *)
(* told at most once, a due alert stays due until it is told or the        *)
(* project recovers, and outage numbers never repeat or decrease.          *)
THEOREM ImplementsAlerts == FileSpec => AlertsSpec
<1>1. FileInit => Abstract!Init
  <2> SUFFICES ASSUME FileInit PROVE Abstract!Init
    OBVIOUS
  <2>1. \A p \in Projects : disk[p] = ZeroState
    BY DEF FileInit, EmptyDocument
  <2>2. Phase(ZeroState) = "up" /\ ZeroState.episode = 0
    BY NotificationAssumption DEF Phase, ZeroState
  <2>3. QED
    BY <2>1, <2>2 DEF Abstract!Init
<1>2. DocumentInv /\ DocumentInv' /\ [FileNext]_disk => [Abstract!Next]_(Abstract!vars)
  <2> SUFFICES ASSUME DocumentInv, DocumentInv', [FileNext]_disk
               PROVE  [Abstract!Next]_(Abstract!vars)
    OBVIOUS
  <2>1. /\ disk \in Document /\ \A p \in Projects : GoodEntry(disk[p])
        /\ disk' \in Document /\ \A p \in Projects : GoodEntry(disk'[p])
    BY DEF DocumentInv, FileTypeOK
  <2>2. \A p \in Projects : disk[p] \in ProjectState /\ disk'[p] \in ProjectState
    BY <2>1 DEF Document
  <2>3. ASSUME NEW t \in Times, NEW r \in Results, NEW h \in Thresholds,
               Advance(t, r, h)
        PROVE  Abstract!Check
    <3>1. [p \in Projects |-> disk'[p].episode] \in [Projects -> Nat]
      BY <2>2, NotificationAssumption DEF ProjectState
    <3>2. [p \in Projects |-> Phase(disk'[p])] \in [Projects -> Abstract!Phases]
      BY <2>1, <2>2, PhaseCases DEF Abstract!Phases
    <3>3. ASSUME NEW p \in Projects
          PROVE  \/ Phase(disk'[p]) = "up" /\ disk'[p].episode = disk[p].episode
                 \/ /\ Phase(disk[p]) = "up" /\ Phase(disk'[p]) \in {"quiet", "due"}
                    /\ disk'[p].episode = disk[p].episode + 1
                 \/ /\ Phase(disk[p]) # "up" /\ disk'[p].episode = disk[p].episode
                    /\ \/ Phase(disk[p]) = "quiet" /\ Phase(disk'[p]) = "due"
                       \/ Phase(disk'[p]) = Phase(disk[p])
      <4>1. CASE p \in DOMAIN r
        <5>1. disk'[p] = Observed(disk[p], r[p], t, h)
          BY <2>3, <3>3, <4>1 DEF Advance, Advanced
        <5>2. r[p] \in Status /\ ~(Opens(disk[p], r[p]) /\ disk[p].episode = MaxEpisode)
          BY <2>3, <4>1, ResultsShape DEF Advance, EpisodesExhausted
        <5>3. QED
          BY <2>1, <2>2, <3>3, <5>1, <5>2, ObservedMoves
      <4>2. CASE p \notin DOMAIN r
        BY <2>3, <3>3, <4>2 DEF Advance, Advanced
      <4>3. QED
        BY <4>1, <4>2
    <3>4. QED
      BY <3>1, <3>2, <3>3
         DEF Abstract!Check, Abstract!Recovers, Abstract!Breaks, Abstract!StaysDown
  <2>4. ASSUME NEW e \in Event, MarkDelivered(e)
        PROVE  \E p \in Projects : Abstract!Tell(p)
    <3> DEFINE q == e.project
    <3>1. q \in Projects /\ disk[q].pending /\ disk' = Acknowledged(disk, q)
      BY <2>4 DEF MarkDelivered, Matches, Event
    <3>2. \A p \in Projects : disk'[p] = IF p = q
            THEN [disk[q] EXCEPT !.pending = FALSE, !.notified = TRUE] ELSE disk[p]
      BY <2>1, <3>1 DEF Acknowledged, Document
    <3>3. disk'[q].notified /\ disk'[q].episode = disk[q].episode
      BY <2>2, <3>1, <3>2 DEF ProjectState
    <3>4. Phase(disk[q]) = "due" /\ Phase(disk'[q]) = "told"
      BY <2>1, <2>2, <3>1, <3>3, PhaseCases
    <3>5. [p \in Projects |-> Phase(disk'[p])]
            = [[p \in Projects |-> Phase(disk[p])] EXCEPT ![q] = "told"]
      BY <3>1, <3>2, <3>4
    <3>6. [p \in Projects |-> disk'[p].episode] = [p \in Projects |-> disk[p].episode]
      BY <3>2, <3>3
    <3>7. Abstract!Tell(q)
      BY <3>1, <3>4, <3>5, <3>6 DEF Abstract!Tell
    <3>8. QED
      BY <3>1, <3>7
  <2>5. CASE UNCHANGED disk
    BY <2>5 DEF Abstract!vars
  <2>6. QED
    BY <2>3, <2>4, <2>5
       DEF FileNext, AdvanceRefused, AdvanceExhausted, MarkStale, Abstract!Next
<1>3. QED
  BY <1>1, <1>2, DocumentInvariant, PTL DEF FileSpec, AlertsSpec, Abstract!Spec

=============================================================================
