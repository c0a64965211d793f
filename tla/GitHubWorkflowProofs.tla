------------------------- MODULE GitHubWorkflowProofs -------------------------
(***************************************************************************)
(* Theorems about the generated workflow, for any number of runs, reruns   *)
(* and projects: notification state is rolled back by a rerun and a loss   *)
(* together only, is continued while nothing goes wrong, and a success     *)
(* says what it seems to say.                                              *)
(***************************************************************************)
EXTENDS GitHubWorkflow, SequenceTheorems, TLAPS

Fresh == {"resolve", "restore"}
Early == {"resolve", "restore", "accept", "heartbeat"}
Late  == {"observe", "upload", "propagate"}

(* A job has a key, a document that is empty until it is restored, and     *)
(* saves under its own run number.  Runs are created in order.             *)
Types ==
  /\ TypeOK /\ cache \in Seq(Entry)
  /\ ~At("none") => job.key \in Keys /\ Run \in Created
  /\ job.step \in Fresh => job.sequence = NoRun /\ job.doc = EmptyDocument
  /\ At("save") => job.sequence = Run
  /\ waiting # Nobody => waiting[1] \in Created
  /\ \A r \in Created : \A q \in 1..r : q \in Created

-----------------------------------------------------------------------------
(* Helpers *)

LEMMA Bounds ==
  /\ MaxRuns \in Nat /\ MaxAttempts \in Nat \ {0} /\ MaxOutages \in 0..MaxEpisode
  /\ Threshold \in Thresholds /\ MaxInt \in Nat /\ Threshold \in 1..MaxInt
  /\ MaxEpisode \in Nat
BY WorkflowAssumption, NotificationAssumption

(* One observation keeps an entry in its ranges, as long as it does not    *)
(* open an episode beyond the last number.                                 *)
LEMMA ObservedType ==
  ASSUME NEW s \in ProjectState, NEW x \in Status, NEW t \in Times,
         NEW h \in Thresholds, ~(Opens(s, x) /\ s.episode = MaxEpisode)
  PROVE  Observed(s, x, t, h) \in ProjectState
<1>1. s.episode \in 0..MaxEpisode /\ s.failures \in 0..MaxInt
      /\ s.pending \in BOOLEAN /\ s.notified \in BOOLEAN
  BY DEF ProjectState
<1>2. MaxEpisode \in Nat /\ MaxInt \in Nat
  BY NotificationAssumption
<1>3. CASE x = Healthy
  BY <1>1, <1>2, <1>3 DEF Observed, Recovered, ProjectState, Status
<1>4. CASE x # Healthy
  <2>1. (IF Opens(s, x) THEN s.episode + 1 ELSE s.episode) \in 0..MaxEpisode
    BY <1>1, <1>2
  <2>2. Streak(s) \in 0..MaxInt
    BY <1>1, <1>2 DEF Streak
  <2>3. (s.pending \/ Due(s, h)) \in BOOLEAN
    BY <1>1
  <2>4. QED
    BY <1>1, <1>4, <2>1, <2>2, <2>3 DEF Observed, Failed, ProjectState, Status
<1>5. QED
  BY <1>3, <1>4

(* Restored state that is missing is the document without entries.         *)
LEMMA EmptyGood ==
  EmptyDocument \in Document /\ \A p \in Projects : EmptyDocument[p] = ZeroState
<1>1. ZeroState \in ProjectState
  BY NotificationAssumption DEF ZeroState, ProjectState
<1>2. QED
  BY <1>1 DEF EmptyDocument, Document

LEMMA JobFields ==
  ASSUME NEW j \in Job
  PROVE  /\ j.step \in {"none", "resolve", "restore", "accept", "heartbeat", "save",
                        "observe", "upload", "propagate"}
         /\ j.key \in Keys \union {Nobody} /\ j.expected \in Runs \union {NoRun}
         /\ j.sequence \in Runs \union {NoRun} /\ j.doc \in Document
         /\ j.changed \in BOOLEAN /\ j.status \in {NoExit, 0, 1, 2, 3}
         /\ j.failed \in BOOLEAN
BY DEF Job

LEMMA KeyFields ==
  ASSUME NEW k \in Keys
  PROVE  /\ k[1] \in Runs /\ k[2] \in 1..MaxAttempts /\ k # Nobody /\ k[1] # NoRun
         /\ k = <<k[1], k[2]>>
BY Bounds DEF Keys, Runs, Nobody, NoRun

LEMMA JobAtType ==
  ASSUME NEW step \in {"none", "resolve"}, NEW key \in Keys \union {Nobody}
  PROVE  LET j == JobAt(step, key) IN
         /\ j \in Job /\ j.step = step /\ j.key = key /\ j.sequence = NoRun
         /\ j.doc = EmptyDocument /\ j.status = NoExit /\ ~j.failed
BY EmptyGood DEF JobAt, Job

(* What may be due for a project after a run, and what it is once some of  *)
(* it is marked.                                                           *)
After(d, t, results, marked) ==
  LET next == Advanced(d, t, results, Threshold) IN
  [p \in Projects |-> IF p \in marked THEN Acknowledged(next, p)[p] ELSE next[p]]

LEMMA AdvancedType ==
  ASSUME NEW d \in Document, NEW t \in Times, NEW results \in [Projects -> Status],
         \A p \in Projects : Opens(d[p], results[p]) => d[p].episode < MaxOutages
  PROVE  /\ Advanced(d, t, results, Threshold) \in Document
         /\ \A p \in Projects :
              Advanced(d, t, results, Threshold)[p] = Observed(d[p], results[p], t, Threshold)
<1>1. ASSUME NEW p \in Projects
      PROVE  /\ Observed(d[p], results[p], t, Threshold) \in ProjectState
             /\ Advanced(d, t, results, Threshold)[p]
                  = Observed(d[p], results[p], t, Threshold)
  <2>1. d[p] \in ProjectState /\ results[p] \in Status /\ d[p].episode \in 0..MaxEpisode
    BY DEF Document, ProjectState
  <2>2. ~(Opens(d[p], results[p]) /\ d[p].episode = MaxEpisode)
    BY <2>1, Bounds
  <2>3. Observed(d[p], results[p], t, Threshold) \in ProjectState
    BY <2>1, <2>2, ObservedType, Bounds
  <2>4. QED
    BY <2>3 DEF Advanced
<1>2. QED
  BY <1>1 DEF Advanced, Document

LEMMA AfterType ==
  ASSUME NEW d \in Document, NEW t \in Times, NEW results \in [Projects -> Status],
         \A p \in Projects : Opens(d[p], results[p]) => d[p].episode < MaxOutages,
         NEW marked \in SUBSET Projects
  PROVE  /\ After(d, t, results, marked) \in Document
         /\ \A p \in Projects :
              LET seen == Observed(d[p], results[p], t, Threshold)
                  left == After(d, t, results, marked)[p] IN
              /\ left.failures = seen.failures
              /\ left.pending = (seen.pending /\ p \notin marked)
              /\ left.notified = (seen.notified \/ p \in marked)
<1> DEFINE next == Advanced(d, t, results, Threshold)
<1>1. next \in Document
      /\ \A p \in Projects : next[p] = Observed(d[p], results[p], t, Threshold)
  BY AdvancedType
<1> HIDE DEF next
<1>2. ASSUME NEW p \in Projects
      PROVE  LET left == IF p \in marked THEN Acknowledged(next, p)[p] ELSE next[p] IN
             /\ left \in ProjectState /\ left.failures = next[p].failures
             /\ left.pending = (next[p].pending /\ p \notin marked)
             /\ left.notified = (next[p].notified \/ p \in marked)
  <2>1. next[p] \in ProjectState /\ next[p].pending \in BOOLEAN /\ next[p].notified \in BOOLEAN
    BY <1>1 DEF Document, ProjectState
  <2>2. CASE p \in marked
    <3>1. Acknowledged(next, p)[p] = [next[p] EXCEPT !.pending = FALSE, !.notified = TRUE]
      BY <1>1 DEF Acknowledged, Document
    <3>2. QED
      BY <2>1, <2>2, <3>1 DEF ProjectState
  <2>3. CASE p \notin marked
    BY <2>1, <2>3
  <2>4. QED
    BY <2>2, <2>3
<1>3. After(d, t, results, marked)
        = [p \in Projects |-> IF p \in marked THEN Acknowledged(next, p)[p] ELSE next[p]]
  BY DEF After, next
<1>4. QED
  BY <1>1, <1>2, <1>3 DEF Document

LEMMA PartOf ==
  ASSUME NEW S, NEW s \in Seq(S), NEW m \in Int, NEW n \in Int, 1 <= m, n <= Len(s)
  PROVE  LET part == SubSeq(s, m, n) IN
         /\ part \in Seq(S) /\ Len(part) = IF m <= n THEN n - m + 1 ELSE 0
         /\ \A i \in 1..(n - m + 1) : part[i] = s[m + i - 1]
<1>1. \A i \in m..n : s[i] \in S
  BY ElementOfSeq, LenProperties
<1>2. QED
  BY <1>1, SubSeqProperties

LEMMA RemoveAtType ==
  ASSUME NEW S, NEW s \in Seq(S), NEW i \in 1..Len(s)
  PROVE  /\ RemoveAt(s, i) \in Seq(S)
         /\ \A j \in 1..Len(RemoveAt(s, i)) : \E k \in 1..Len(s) : RemoveAt(s, i)[j] = s[k]
<1> DEFINE a == SubSeq(s, 1, i - 1)
           b == SubSeq(s, i + 1, Len(s))
<1>1. Len(s) \in Nat /\ i \in Int /\ 1 <= i /\ i <= Len(s)
  BY LenProperties
<1>2. /\ a \in Seq(S) /\ Len(a) = IF 1 <= i - 1 THEN i - 1 - 1 + 1 ELSE 0
      /\ \A j \in 1..(i - 1 - 1 + 1) : a[j] = s[1 + j - 1]
  <2>1. i - 1 \in Int /\ i - 1 <= Len(s) /\ 1 \in Int
    BY <1>1
  <2>2. QED
    BY <2>1, PartOf
<1>3. /\ b \in Seq(S) /\ Len(b) = IF i + 1 <= Len(s) THEN Len(s) - (i + 1) + 1 ELSE 0
      /\ \A j \in 1..(Len(s) - (i + 1) + 1) : b[j] = s[i + 1 + j - 1]
  <2>1. i + 1 \in Int /\ 1 <= i + 1 /\ Len(s) \in Int /\ Len(s) <= Len(s)
    BY <1>1
  <2>2. QED
    BY <2>1, PartOf
<1> HIDE DEF a, b
<1>4. /\ a \o b \in Seq(S) /\ Len(a \o b) = Len(a) + Len(b)
      /\ \A j \in 1..Len(a) + Len(b) :
           (a \o b)[j] = IF j <= Len(a) THEN a[j] ELSE b[j - Len(a)]
  BY <1>2, <1>3, ConcatProperties
<1>5. Len(a) = i - 1 /\ Len(b) = Len(s) - i
  BY <1>1, <1>2, <1>3
<1>6. ASSUME NEW j \in Int, 1 <= j, j <= Len(s) - 1
      PROVE  \E k \in 1..Len(s) : (a \o b)[j] = s[k]
  <2>1. (a \o b)[j] = IF j <= Len(a) THEN a[j] ELSE b[j - Len(a)]
    BY <1>1, <1>4, <1>5, <1>6
  <2>2. CASE j <= i - 1
    <3>1. (a \o b)[j] = s[j]
      BY <1>1, <1>2, <1>5, <1>6, <2>1, <2>2
    <3>2. QED
      BY <1>1, <1>6, <3>1
  <2>3. CASE j > i - 1
    <3> DEFINE k == j - (i - 1)
    <3>1. (a \o b)[j] = b[k] /\ k \in 1..(Len(s) - (i + 1) + 1)
      BY <1>1, <1>5, <1>6, <2>1, <2>3
    <3>2. k \in Int /\ i + 1 + k - 1 \in 1..Len(s)
      BY <1>1, <3>1
    <3> HIDE DEF k
    <3>3. b[k] = s[i + 1 + k - 1]
      BY <1>3, <3>1
    <3>4. QED
      BY <3>1, <3>2, <3>3
  <2>4. j <= i - 1 \/ j > i - 1
    BY <1>1, <1>6
  <2>5. QED
    BY <2>2, <2>3, <2>4, Zenon
<1>7. RemoveAt(s, i) = a \o b
  BY DEF RemoveAt, a, b
<1>8. Len(a \o b) = Len(s) - 1
  BY <1>1, <1>4, <1>5
<1>9. \A j \in 1..Len(a \o b) : j \in Int /\ 1 <= j /\ j <= Len(s) - 1
  BY <1>1, <1>8
<1>10. QED
  BY <1>4, <1>6, <1>7, <1>9

LEMMA TypesInit == Init => Types
<1> SUFFICES ASSUME Init PROVE Types
  OBVIOUS
<1>1. job \in Job /\ job.step = "none"
  BY JobAtType DEF Init, NoJob
<1>a. attempts \in [Runs -> 0..MaxAttempts] /\ streak \in [Projects -> Nat]
  BY Bounds DEF Init
<1>2. cache \in Seq(Entry) /\ Len(cache) = 0
  BY EmptySeq DEF Init
<1>3. Created = {}
  BY DEF Init, Created
<1>4. /\ waiting = Nobody /\ conclusion \in {"none", "success", "failure"}
      /\ told \subseteq Projects /\ lost \in BOOLEAN /\ calm \in BOOLEAN
  BY DEF Init
<1>5. TypeOK
  BY <1>1, <1>2, <1>4, <1>a DEF TypeOK
<1>6. QED
  BY <1>1, <1>2, <1>3, <1>5 DEF Init, Types, At, Fresh

(* Only the job changes, and it stays with its run. *)
LEMMA JobStep ==
  ASSUME Types, UNCHANGED <<attempts, waiting, cache>>, ~At("none"),
         job' \in Job, job'.key = job.key, job'.step # "none",
         job'.step \in Fresh => job'.sequence = NoRun /\ job'.doc = EmptyDocument,
         job'.step = "save" => job'.sequence = job'.key[1],
         conclusion' \in {"none", "success", "failure"},
         streak' \in [Projects -> Nat], told' \subseteq Projects,
         lost' \in BOOLEAN, calm' \in BOOLEAN
  PROVE  Types'
<1>1. Created' = Created
  BY DEF Created
<1>2. TypeOK'
  BY DEF Types, TypeOK
<1>3. job'.key[1] = job.key[1]
  OBVIOUS
<1>4. QED
  BY <1>1, <1>2, <1>3 DEF Types, At, Run

(* The job is over. *)
LEMMA NoJobStep ==
  ASSUME Types, UNCHANGED <<attempts, waiting, cache>>, job' = NoJob,
         conclusion' \in {"none", "success", "failure"},
         UNCHANGED <<streak, told>>, lost' \in BOOLEAN, calm' \in BOOLEAN
  PROVE  Types'
<1>1. job' \in Job /\ job'.step = "none"
  BY JobAtType DEF NoJob
<1>2. Created' = Created
  BY DEF Created
<1>3. TypeOK'
  BY <1>1 DEF Types, TypeOK
<1>4. QED
  BY <1>1, <1>2, <1>3 DEF Types, At, Fresh

LEMMA EnqueueTypes ==
  ASSUME Types, NEW r \in Runs, Enqueue(r), attempts[r] < MaxAttempts,
         \A q \in 1..(r - 1) : q \in Created, calm' \in BOOLEAN
  PROVE  /\ Types' /\ Created' = Created \union {r}
         /\ waiting' = <<r, attempts[r] + 1>> /\ waiting' \in Keys
<1>1. /\ attempts \in [Runs -> 0..MaxAttempts]
      /\ attempts' = [attempts EXCEPT ![r] = @ + 1]
      /\ waiting' = <<r, attempts[r] + 1>>
      /\ UNCHANGED <<job, cache, conclusion, streak, told, lost>>
  BY DEF Enqueue, facts, Types, TypeOK
<1>2. attempts[r] + 1 \in 1..MaxAttempts
  BY <1>1, Bounds
<1>3. waiting' \in Keys
  BY <1>1, <1>2 DEF Keys
<1>4. Created' = Created \union {r}
  BY <1>1, <1>2 DEF Created
<1>5. attempts' \in [Runs -> 0..MaxAttempts]
  BY <1>1, <1>2
<1>6. TypeOK'
  BY <1>1, <1>3, <1>5 DEF Types, TypeOK
<1>7. Types'
  <2>1. \A k \in Created' : \A q \in 1..k : q \in Created'
    BY <1>4, Bounds DEF Types, Runs
  <2>2. waiting'[1] = r
    BY <1>1
  <2>3. QED
    BY <1>1, <1>4, <1>6, <2>1, <2>2 DEF Types, At, Run
<1>8. QED
  BY <1>1, <1>3, <1>4, <1>7

-----------------------------------------------------------------------------
(* The steps, and what they do to the types *)

(* What a run of sb-heartbeat does: it observes, tells the receiver of     *)
(* some that are due, marks some of those, and leaves outputs or not.      *)
Observes(t, results, taken, marked, outputs) ==
  LET due == {p \in Projects : Observed(job.doc[p], results[p], t, Threshold).pending}
      healthy == {p \in Projects : results[p] = Healthy}
  IN
  /\ At("heartbeat") /\ taken \subseteq due /\ marked \subseteq taken
  /\ job' \in Job /\ job'.key = job.key /\ job'.sequence = Run
  /\ job'.doc = After(job.doc, t, results, marked)
  /\ job'.step = IF outputs THEN "save" ELSE "observe"
  /\ job'.status = 0 => outputs /\ healthy = Projects
  /\ told' = (told \ healthy) \union taken
  /\ streak' = [p \in Projects |-> IF p \in healthy THEN 0 ELSE streak[p] + 1]
  /\ lost' = (lost \/ ~outputs) /\ calm' = (calm /\ outputs)
  /\ UNCHANGED <<attempts, waiting, cache, conclusion>>

LEMMA HeartbeatObserves ==
  ASSUME Types, NEW t \in Times, NEW results \in [Projects -> Status],
         Heartbeat(t, results)
  PROVE  \E taken, marked \in SUBSET Projects : \E outputs \in BOOLEAN :
           Observes(t, results, taken, marked, outputs)
<1> DEFINE next == Advanced(job.doc, t, results, Threshold)
           healthy == {p \in Projects : results[p] = Healthy}
           due == {p \in Projects : next[p].pending}
<1>1. /\ job \in Job /\ job.doc \in Document /\ job.key \in Keys /\ job.step = "heartbeat"
      /\ Run \in Runs
  BY JobFields, KeyFields DEF Types, TypeOK, Heartbeat, At, Run
<1>2. \A p \in Projects :
        Opens(job.doc[p], results[p]) => job.doc[p].episode < MaxOutages
  BY DEF Heartbeat
<1>3. PICK taken \in SUBSET due, marked \in SUBSET due, outputs \in BOOLEAN, ends \in BOOLEAN :
         /\ marked \subseteq taken
         /\ ends => outputs
         /\ job' = [job EXCEPT
              !.step = IF outputs THEN "save" ELSE "observe",
              !.sequence = Run,
              !.doc = After(job.doc, t, results, marked),
              !.changed = outputs, !.failed = ~ends,
              !.status = IF ~outputs THEN NoExit ELSE IF marked # due THEN 3
                         ELSE IF healthy # Projects THEN 1 ELSE 0]
         /\ told' = (told \ healthy) \union taken
         /\ lost' = (lost \/ ~outputs)
         /\ calm' = (calm /\ outputs)
  BY DEF Heartbeat, After
<1>4. /\ streak' = [p \in Projects |-> IF p \in healthy THEN 0 ELSE streak[p] + 1]
      /\ UNCHANGED <<attempts, waiting, cache, conclusion>>
  BY DEF Heartbeat, group
<1>5. \A p \in Projects : next[p] = Observed(job.doc[p], results[p], t, Threshold)
  BY <1>1, <1>2, AdvancedType
<1>6. marked \in SUBSET Projects /\ taken \in SUBSET Projects
  BY <1>3
<1>7. After(job.doc, t, results, marked) \in Document
  BY <1>1, <1>2, <1>6, AfterType
<1>8. PICK status \in {NoExit, 0, 1, 2, 3} :
        /\ status = IF ~outputs THEN NoExit ELSE IF marked # due THEN 3
                    ELSE IF healthy # Projects THEN 1 ELSE 0
        /\ status = 0 => outputs /\ healthy = Projects
  BY <1>3 DEF NoExit
<1> HIDE DEF due, healthy, next
<1>9. /\ job' \in Job /\ job'.key = job.key /\ job'.sequence = Run
      /\ job'.doc = After(job.doc, t, results, marked)
      /\ job'.step = IF outputs THEN "save" ELSE "observe"
      /\ job'.status = status
  BY <1>1, <1>3, <1>7, <1>8 DEF Job
<1>10. due = {p \in Projects : Observed(job.doc[p], results[p], t, Threshold).pending}
  BY <1>5 DEF due
<1>11. healthy = {p \in Projects : results[p] = Healthy}
  BY DEF healthy
<1>12. Observes(t, results, taken, marked, outputs)
  BY <1>1, <1>3, <1>4, <1>8, <1>9, <1>10, <1>11 DEF Observes, At
<1>13. QED
  BY <1>3, <1>6, <1>12

(* A step of a job that reads or writes neither the entries nor the facts. *)
Turns(from, to) ==
  /\ job.step = from /\ job'.step = to /\ job' \in Job /\ job'.key = job.key
  /\ UNCHANGED <<attempts, waiting, cache, conclusion, streak, told, lost>>

LEMMA Steps ==
  ASSUME Types
  PROVE  /\ SetupFails => Turns("resolve", "observe") /\ ~calm' /\ job'.status = job.status
         /\ ResolvePredecessor =>
              /\ Turns("resolve", "restore") /\ job'.status = job.status
              /\ job'.sequence = job.sequence /\ job'.doc = job.doc
              /\ \/ job'.expected = (IF Attempt > 1 THEN Run ELSE Run - 1) /\ calm' = calm
                 \/ job'.expected = NoRun /\ Attempt = 1 /\ ~calm'
         /\ Restore =>
              /\ Turns("restore", "accept") /\ job'.status = job.status
              /\ job'.expected = job.expected
              /\ \/ /\ cache # << >> /\ calm' = calm
                    /\ job'.sequence = Last(cache).sequence /\ job'.doc = Last(cache).doc
                 \/ /\ job'.sequence = job.sequence /\ job'.doc = job.doc
                    /\ calm' = (calm /\ cache = << >>)
         /\ AcceptOrReset =>
              /\ Turns("accept", "heartbeat") /\ job'.status = job.status /\ calm' = calm
              /\ job'.doc = IF job.sequence = job.expected THEN job.doc ELSE EmptyDocument
         /\ HeartbeatRefuses =>
              Turns("heartbeat", "observe") /\ ~calm' /\ job'.status \in {2, 3}
         /\ PrepareResult =>
              Turns("observe", "upload") /\ calm' = calm /\ job'.status = job.status
              /\ job'.doc = job.doc
         /\ UploadResult =>
              Turns("upload", "propagate") /\ calm' = calm /\ job'.status = job.status
              /\ job'.doc = job.doc
<1>1. job \in Job
  BY DEF Types, TypeOK
<1>2. job.step # "none" => Run \in Runs /\ Run - 1 \in Runs \union {NoRun}
  BY Bounds, KeyFields DEF Types, At, Run, Runs, NoRun
<1>3. ASSUME cache # << >> PROVE Last(cache) \in Entry
  BY <1>3, EmptySeq, ElementOfSeq DEF Types, Last
<1>4. EmptyDocument \in Document
  BY EmptyGood
<1> USE DEF Turns, At, group, facts
<1>5. ASSUME SetupFails
      PROVE  Turns("resolve", "observe") /\ ~calm' /\ job'.status = job.status
  BY <1>1, <1>5 DEF SetupFails, Job
<1>6. ASSUME ResolvePredecessor
      PROVE  /\ Turns("resolve", "restore") /\ job'.status = job.status
             /\ job'.sequence = job.sequence /\ job'.doc = job.doc
             /\ \/ job'.expected = (IF Attempt > 1 THEN Run ELSE Run - 1) /\ calm' = calm
                \/ job'.expected = NoRun /\ Attempt = 1 /\ ~calm'
  <2>1. PICK e \in Runs \union {NoRun} :
          /\ job' = [job EXCEPT !.step = "restore", !.expected = e]
          /\ \/ e = (IF Attempt > 1 THEN Run ELSE Run - 1) /\ calm' = calm
             \/ e = NoRun /\ Attempt = 1 /\ ~calm'
    <3>1. Run \in Runs /\ Run - 1 \in Runs \union {NoRun}
      BY <1>2, <1>6 DEF ResolvePredecessor
    <3>2. CASE /\ Attempt > 1 /\ UNCHANGED calm
               /\ job' = [job EXCEPT !.step = "restore", !.expected = Run]
      BY <3>1, <3>2
    <3>3. CASE /\ Attempt = 1 /\ UNCHANGED calm
               /\ job' = [job EXCEPT !.step = "restore", !.expected = Run - 1]
      <4>1. ~(Attempt > 1)
        BY <3>3
      <4>2. QED
        BY <3>1, <3>3, <4>1
    <3>4. CASE /\ Attempt = 1 /\ calm' = FALSE
               /\ job' = [job EXCEPT !.step = "restore", !.expected = NoRun]
      BY <3>4
    <3>5. QED
      BY <1>6, <3>2, <3>3, <3>4 DEF ResolvePredecessor
  <2>2. job.step = "resolve" /\ UNCHANGED <<attempts, waiting, cache, conclusion>>
        /\ UNCHANGED <<streak, told, lost>>
    BY <1>6 DEF ResolvePredecessor
  <2>3. QED
    BY <1>1, <2>1, <2>2 DEF Job
<1>7. ASSUME Restore
      PROVE  /\ Turns("restore", "accept") /\ job'.status = job.status
             /\ job'.expected = job.expected
             /\ \/ /\ cache # << >> /\ calm' = calm
                   /\ job'.sequence = Last(cache).sequence /\ job'.doc = Last(cache).doc
                \/ /\ job'.sequence = job.sequence /\ job'.doc = job.doc
                   /\ calm' = (calm /\ cache = << >>)
  <2>1. job.step = "restore" /\ UNCHANGED <<attempts, waiting, cache, conclusion>>
        /\ UNCHANGED <<streak, told, lost>>
    BY <1>7 DEF Restore
  <2>2. CASE /\ cache # << >> /\ UNCHANGED calm
             /\ job' = [job EXCEPT !.step = "accept",
                     !.sequence = Last(cache).sequence, !.doc = Last(cache).doc]
    <3>1. Last(cache).sequence \in Runs /\ Last(cache).doc \in Document
      BY <1>3, <2>2 DEF Entry
    <3>2. QED
      BY <1>1, <2>1, <2>2, <3>1 DEF Job
  <2>3. CASE job' = [job EXCEPT !.step = "accept"] /\ calm' = (calm /\ cache = << >>)
    BY <1>1, <2>1, <2>3 DEF Job
  <2>4. QED
    BY <1>7, <2>2, <2>3 DEF Restore
<1>8. ASSUME AcceptOrReset
      PROVE  /\ Turns("accept", "heartbeat") /\ job'.status = job.status /\ calm' = calm
             /\ job'.doc = IF job.sequence = job.expected THEN job.doc ELSE EmptyDocument
  <2>1. PICK d \in Document :
          /\ d = IF job.sequence = job.expected THEN job.doc ELSE EmptyDocument
          /\ job' = [job EXCEPT !.step = "heartbeat", !.doc = d]
    BY <1>1, <1>4, <1>8, JobFields DEF AcceptOrReset
  <2>2. job.step = "accept" /\ UNCHANGED <<attempts, waiting, cache, conclusion>>
        /\ UNCHANGED <<streak, told, lost, calm>>
    BY <1>8 DEF AcceptOrReset
  <2>3. QED
    BY <1>1, <2>1, <2>2 DEF Job
<1>9. ASSUME HeartbeatRefuses
      PROVE  Turns("heartbeat", "observe") /\ ~calm' /\ job'.status \in {2, 3}
  BY <1>1, <1>9 DEF HeartbeatRefuses, Job
<1>10. ASSUME PrepareResult
       PROVE  Turns("observe", "upload") /\ calm' = calm /\ job'.status = job.status
              /\ job'.doc = job.doc
  <2>1. PICK ends \in BOOLEAN : job' = [job EXCEPT !.step = "upload", !.failed = @ \/ ~ends]
    BY <1>10 DEF PrepareResult, ResultStep
  <2>2. job.step = "observe" /\ UNCHANGED <<attempts, waiting, cache, conclusion>>
        /\ UNCHANGED <<streak, told, lost, calm>>
    BY <1>10 DEF PrepareResult, ResultStep
  <2>3. (job.failed \/ ~ends) \in BOOLEAN
    OBVIOUS
  <2>4. QED
    BY <1>1, <2>1, <2>2, <2>3 DEF Job
<1>11. ASSUME UploadResult
       PROVE  Turns("upload", "propagate") /\ calm' = calm /\ job'.status = job.status
              /\ job'.doc = job.doc
  <2>1. PICK ends \in BOOLEAN : job' = [job EXCEPT !.step = "propagate", !.failed = @ \/ ~ends]
    BY <1>11 DEF UploadResult, ResultStep
  <2>2. job.step = "upload" /\ UNCHANGED <<attempts, waiting, cache, conclusion>>
        /\ UNCHANGED <<streak, told, lost, calm>>
    BY <1>11 DEF UploadResult, ResultStep
  <2>3. (job.failed \/ ~ends) \in BOOLEAN
    OBVIOUS
  <2>4. QED
    BY <1>1, <2>1, <2>2, <2>3 DEF Job
<1>12. QED
  BY <1>5, <1>6, <1>7, <1>8, <1>9, <1>10, <1>11

(* What Save stores. *)
LEMMA SaveStores ==
  ASSUME Types, Save
  PROVE  /\ job.step = "save" /\ job'.step = "observe" /\ job' \in Job
         /\ job'.key = job.key /\ job'.doc = job.doc /\ job'.status = job.status
         /\ UNCHANGED <<attempts, waiting, conclusion, streak, told, lost, calm>>
         /\ \E e \in Entry :
              /\ e.key = job.key /\ e.sequence = Run /\ e.doc = job.doc
              /\ cache' \in Seq(Entry) /\ Len(cache') = Len(cache) + 1 /\ cache' # << >>
              /\ \A i \in 1..Len(cache) : cache'[i] = cache[i]
              /\ cache'[Len(cache) + 1] = e /\ Last(cache') = e
<1>1. job \in Job /\ job.step = "save" /\ job.key \in Keys /\ job.doc \in Document
      /\ job.sequence = Run /\ Run \in Runs /\ cache \in Seq(Entry)
  BY JobFields, KeyFields DEF Types, TypeOK, Save, At, Run
<1>2. PICK e \in Entry : e = [key |-> job.key, sequence |-> job.sequence, doc |-> job.doc]
  BY <1>1 DEF Entry
<1>3. cache' = Append(cache, e)
  BY <1>2 DEF Save, Store
<1>4. /\ cache' \in Seq(Entry) /\ Len(cache') = Len(cache) + 1 /\ cache' # << >>
      /\ \A i \in 1..Len(cache) : cache'[i] = cache[i]
      /\ cache'[Len(cache) + 1] = e
  BY <1>1, <1>3, AppendProperties
<1>5. Last(cache') = e
  BY <1>4 DEF Last
<1>6. e.key = job.key /\ e.sequence = Run /\ e.doc = job.doc
  BY <1>1, <1>2
<1>7. job' = [job EXCEPT !.step = "observe"]
      /\ UNCHANGED <<attempts, waiting, conclusion, streak, told, lost, calm>>
  BY DEF Save, group, facts
<1>8. job'.step = "observe" /\ job' \in Job
      /\ job'.key = job.key /\ job'.doc = job.doc /\ job'.status = job.status
  BY <1>1, <1>7 DEF Job
<1>9. QED
  BY <1>1, <1>4, <1>5, <1>6, <1>7, <1>8

(* What an eviction leaves. *)
LEMMA EvictLeaves ==
  ASSUME Types, Evict
  PROVE  /\ cache' \in Seq(Entry) /\ lost' = TRUE /\ calm' = FALSE
         /\ \A i \in 1..Len(cache') : \E k \in 1..Len(cache) : cache'[i] = cache[k]
         /\ UNCHANGED <<attempts, waiting, job, conclusion, streak, told>>
<1>1. PICK i \in 1..Len(cache) : cache' = RemoveAt(cache, i)
  BY DEF Evict
<1>2. cache \in Seq(Entry)
  BY DEF Types
<1>3. /\ cache' \in Seq(Entry)
      /\ \A j \in 1..Len(cache') : \E k \in 1..Len(cache) : cache'[j] = cache[k]
  <2>1. /\ RemoveAt(cache, i) \in Seq(Entry)
        /\ \A j \in 1..Len(RemoveAt(cache, i)) :
             \E k \in 1..Len(cache) : RemoveAt(cache, i)[j] = cache[k]
    BY <1>2, RemoveAtType
  <2>2. QED
    BY <1>1, <2>1, Zenon
<1>4. QED
  BY <1>3 DEF Evict, group, facts

LEMMA BeginTakes ==
  ASSUME Types, Begin
  PROVE  /\ job.step = "none" /\ waiting # Nobody /\ waiting' = Nobody
         /\ job' \in Job /\ job'.step = "resolve" /\ job'.key = waiting
         /\ job'.sequence = NoRun /\ job'.doc = EmptyDocument /\ job'.status = NoExit
         /\ conclusion' = "none"
         /\ UNCHANGED <<attempts, cache, streak, told, lost, calm>>
BY JobAtType DEF Types, TypeOK, Begin, At, facts

LEMMA TypesStep == Types /\ [Next]_vars => Types'
<1> SUFFICES ASSUME Types, [Next]_vars PROVE Types'
  OBVIOUS
<1>1. /\ job \in Job /\ conclusion \in {"none", "success", "failure"}
      /\ streak \in [Projects -> Nat] /\ told \subseteq Projects
      /\ lost \in BOOLEAN /\ calm \in BOOLEAN
      /\ attempts \in [Runs -> 0..MaxAttempts]
  BY DEF Types, TypeOK
<1>2. calm' \in BOOLEAN /\ lost' \in BOOLEAN
  <2>1. CASE \E t \in Times, results \in [Projects -> Status] : Heartbeat(t, results)
    BY <1>1, <2>1 DEF Heartbeat
  <2>2. CASE UNCHANGED vars
    BY <1>1, <2>2 DEF vars
  <2>3. CASE Next /\ ~\E t \in Times, results \in [Projects -> Status] : Heartbeat(t, results)
    BY <1>1, <2>3 DEF Next, Trigger, Rerun, Enqueue, Begin, SetupFails, ResolvePredecessor,
       Restore, AcceptOrReset, HeartbeatRefuses, Save, SaveFails, PrepareResult,
       UploadResult, ResultStep, Propagate, RunnerLost, Evict, Done, vars
  <2>4. QED
    BY <2>1, <2>2, <2>3
<1>3. ASSUME NEW r \in Runs, Trigger(r) PROVE Types'
  <2>1. attempts[r] < MaxAttempts
    BY <1>1, <1>3, Bounds DEF Trigger, Created
  <2>2. QED
    BY <1>2, <1>3, <2>1, EnqueueTypes DEF Trigger
<1>4. ASSUME NEW r \in Runs, Rerun(r) PROVE Types'
  <2>1. \A q \in 1..(r - 1) : q \in Created
    BY <1>4, Bounds DEF Rerun, Types, Runs
  <2>2. QED
    BY <1>2, <1>4, <2>1, EnqueueTypes DEF Rerun
<1>5. CASE Begin
  <2>1. Created' = Created
    BY <1>5, BeginTakes DEF Created
  <2>2. TypeOK'
    BY <1>1, <1>5, BeginTakes DEF Types, TypeOK
  <2>3. waiting \in Keys /\ waiting[1] \in Created
    BY <1>5 DEF Begin, Types, TypeOK
  <2>4. QED
    BY <1>5, <2>1, <2>2, <2>3, BeginTakes DEF Types, At, Run, Fresh
<1>6. ASSUME NEW from, NEW to \in {"restore", "accept", "heartbeat", "observe", "upload",
                                  "propagate"},
             Turns(from, to), from # "none",
             to \in Fresh => job'.sequence = job.sequence /\ job'.doc = job.doc /\ from \in Fresh
      PROVE  Types'
  BY <1>1, <1>2, <1>6, JobStep DEF Turns, Types, At
<1>7. CASE SetupFails \/ ResolvePredecessor \/ Restore \/ AcceptOrReset \/ HeartbeatRefuses
           \/ PrepareResult \/ UploadResult
  BY <1>6, <1>7, Steps DEF Fresh
<1>8. ASSUME NEW t \in Times, NEW results \in [Projects -> Status], Heartbeat(t, results)
      PROVE  Types'
  <2>1. PICK taken \in SUBSET Projects, marked \in SUBSET Projects, outputs \in BOOLEAN :
          Observes(t, results, taken, marked, outputs)
    BY <1>8, HeartbeatObserves
  <2>2. streak' \in [Projects -> Nat] /\ told' \subseteq Projects
    BY <1>1, <2>1 DEF Observes
  <2>3. /\ UNCHANGED <<attempts, waiting, cache, conclusion>> /\ job.step = "heartbeat"
        /\ job' \in Job /\ job'.key = job.key /\ job'.step \in {"save", "observe"}
        /\ job'.sequence = job.key[1]
    BY <2>1 DEF Observes, At, Run
  <2>4. QED
    BY <1>1, <1>2, <2>2, <2>3, JobStep DEF At, Fresh
<1>9. CASE Save
  <2>1. Created' = Created
    BY <1>9, SaveStores DEF Created
  <2>2. cache' \in Seq(Entry)
    BY <1>9, SaveStores
  <2>3. TypeOK'
    BY <1>1, <1>9, <2>2, SaveStores, ElementOfSeq DEF Types, TypeOK
  <2>4. QED
    BY <1>9, <2>1, <2>2, <2>3, SaveStores DEF Types, At, Run, Fresh
<1>10. CASE SaveFails
  <2>1. /\ job' = [job EXCEPT !.step = "observe"] /\ job.step = "save"
        /\ UNCHANGED <<attempts, waiting, cache, conclusion, streak, told>>
    BY <1>10 DEF SaveFails, group, facts, At
  <2>2. job' \in Job /\ job'.key = job.key /\ job'.step = "observe"
    BY <1>1, <2>1 DEF Job
  <2>3. QED
    BY <1>1, <1>2, <2>1, <2>2, JobStep DEF At, Fresh
<1>11. CASE Propagate \/ RunnerLost
  <2>1. /\ job' = NoJob /\ conclusion' \in {"none", "success", "failure"}
        /\ UNCHANGED <<attempts, waiting, cache, streak, told>>
    BY <1>1, <1>11 DEF Propagate, RunnerLost, group, facts
  <2>2. QED
    BY <1>2, <2>1, NoJobStep
<1>12. CASE Evict
  <2>1. Created' = Created
    BY <1>12, EvictLeaves DEF Created
  <2>2. cache' \in Seq(Entry)
    BY <1>12, EvictLeaves
  <2>3. TypeOK'
    BY <1>1, <1>2, <1>12, <2>2, EvictLeaves, ElementOfSeq DEF Types, TypeOK
  <2>4. QED
    BY <1>12, <2>1, <2>2, <2>3, EvictLeaves DEF Types, At, Run
<1>13. CASE Done \/ UNCHANGED vars
  BY <1>13 DEF Done, vars, group, facts, Types, TypeOK, At, Run, Created
<1>14. QED
  BY <1>3, <1>4, <1>5, <1>7, <1>8, <1>9, <1>10, <1>11, <1>12, <1>13 DEF Next

-----------------------------------------------------------------------------
(* Honest documents *)

LEMMA EmptyHonest == ASSUME Types PROVE Honest(EmptyDocument)
<1>1. \A p \in Projects : streak[p] \in Nat
  BY DEF Types, TypeOK
<1>2. /\ ZeroState.failures = 0 /\ ZeroState.pending = FALSE /\ ZeroState.notified = FALSE
  BY DEF ZeroState
<1>3. QED
  BY <1>1, <1>2, EmptyGood DEF Honest

LEMMA HonestKept ==
  ASSUME NEW d, Honest(d), UNCHANGED <<streak, told>> PROVE Honest(d)'
BY DEF Honest

(* One observation of an honest document leaves it honest about the facts  *)
(* it changed.                                                             *)
LEMMA ObservedHonest ==
  ASSUME NEW s \in ProjectState, NEW x \in Status, NEW t \in Times, NEW n \in Nat,
         s.failures <= n, s.pending => n >= Threshold
  PROVE  LET seen == Observed(s, x, t, Threshold)
             then == IF x = Healthy THEN 0 ELSE n + 1 IN
         /\ seen.failures <= then
         /\ seen.pending => x # Healthy /\ then >= Threshold
         /\ seen.notified => x # Healthy /\ s.notified
<1>1. /\ s.failures \in 0..MaxInt /\ s.pending \in BOOLEAN /\ s.notified \in BOOLEAN
      /\ Threshold \in 1..MaxInt /\ MaxInt \in Nat
  BY Bounds DEF ProjectState
<1>2. CASE x = Healthy
  BY <1>2 DEF Observed, Recovered
<1>3. CASE x # Healthy
  <2>1. Streak(s) \in Nat /\ Streak(s) <= n + 1
    BY <1>1 DEF Streak
  <2>2. /\ Observed(s, x, t, Threshold).failures = Streak(s)
        /\ Observed(s, x, t, Threshold).pending = (s.pending \/ Due(s, Threshold))
        /\ Observed(s, x, t, Threshold).notified = s.notified
    BY <1>3 DEF Observed, Failed
  <2>3. s.pending \/ Due(s, Threshold) => n + 1 >= Threshold
    BY <1>1, <2>1 DEF Due
  <2>4. QED
    BY <1>3, <2>1, <2>2, <2>3
<1>4. QED
  BY <1>2, <1>3

LEMMA ObservesHonest ==
  ASSUME Types, Honest(job.doc), NEW t \in Times, NEW results \in [Projects -> Status],
         Heartbeat(t, results), NEW taken \in SUBSET Projects, NEW marked \in SUBSET Projects,
         NEW outputs \in BOOLEAN, Observes(t, results, taken, marked, outputs)
  PROVE  Honest(job.doc)'
<1>1. \A p \in Projects :
        Opens(job.doc[p], results[p]) => job.doc[p].episode < MaxOutages
  BY DEF Heartbeat
<1>2. job.doc \in Document
  BY JobFields DEF Types, TypeOK
<1>3. PICK old \in Document : old = job.doc
  BY <1>2
<1>4. \A p \in Projects : Opens(old[p], results[p]) => old[p].episode < MaxOutages
  BY <1>1, <1>3
<1>5. job'.doc = After(old, t, results, marked)
  BY <1>3 DEF Observes
<1>6. ASSUME NEW p \in Projects
      PROVE  LET left == After(old, t, results, marked)[p] IN
             /\ left.failures <= streak'[p]
             /\ left.pending => streak'[p] >= Threshold
             /\ left.notified => p \in told'
  <2> DEFINE seen == Observed(old[p], results[p], t, Threshold)
  <2>1. /\ streak[p] \in Nat /\ old[p] \in ProjectState /\ results[p] \in Status
        /\ old[p].failures <= streak[p] /\ (old[p].pending => streak[p] >= Threshold)
        /\ (old[p].notified => p \in told)
    BY <1>3 DEF Types, TypeOK, Document, Honest
  <2>2. PICK n \in Nat : n = streak[p]
    BY <2>1
  <2>3. PICK then \in Nat : then = IF results[p] = Healthy THEN 0 ELSE n + 1
    OBVIOUS
  <2>4. /\ seen.failures <= then
        /\ seen.pending => results[p] # Healthy /\ then >= Threshold
        /\ seen.notified => results[p] # Healthy /\ old[p].notified
    BY <2>1, <2>2, <2>3, ObservedHonest
  <2>5. streak'[p] = then
    BY <2>2, <2>3 DEF Observes
  <2>6. /\ After(old, t, results, marked)[p].failures = seen.failures
        /\ After(old, t, results, marked)[p].pending = (seen.pending /\ p \notin marked)
        /\ After(old, t, results, marked)[p].notified = (seen.notified \/ p \in marked)
    BY <1>4, AfterType
  <2>7. p \in marked => p \in told'
    BY DEF Observes
  <2>8. p \in told /\ results[p] # Healthy => p \in told'
    BY DEF Observes
  <2> HIDE DEF seen
  <2>9. QED
    BY <2>1, <2>4, <2>5, <2>6, <2>7, <2>8
<1>7. QED
  BY <1>5, <1>6 DEF Honest

-----------------------------------------------------------------------------
(* While nothing is lost *)

(* The newest entry is what the last observation left, so it is honest,    *)
(* whoever restores it, in whatever order attempts run.                    *)
Saved ==
  ~lost =>
    /\ job.step \in {"accept", "heartbeat", "save"} => Honest(job.doc)
    /\ ~At("save") /\ cache # << >> => Honest(Last(cache).doc)

LEMMA SavedInit == Init => Saved
BY JobAtType DEF Init, Saved, NoJob

LEMMA SavedStep == Types /\ Saved /\ [Next]_vars => Saved'
<1> SUFFICES ASSUME Types, Saved, [Next]_vars, ~lost'
             PROVE  /\ job'.step \in {"accept", "heartbeat", "save"} => Honest(job.doc)'
                    /\ job'.step # "save" /\ cache' # << >> => Honest(Last(cache).doc)'
  BY DEF Saved, At
<1>1. ASSUME UNCHANGED <<cache, streak, told, lost>>, job.step # "save", job'.step # "save",
             job'.step \in {"accept", "heartbeat"} =>
               \/ job'.doc = EmptyDocument
               \/ cache # << >> /\ job'.doc = Last(cache).doc
               \/ job.step \in {"accept", "heartbeat"} /\ job'.doc = job.doc
      PROVE  /\ job'.step \in {"accept", "heartbeat", "save"} => Honest(job.doc)'
             /\ job'.step # "save" /\ cache' # << >> => Honest(Last(cache).doc)'
  <2>1. Honest(EmptyDocument)
    BY EmptyHonest
  <2>2. cache # << >> => Honest(Last(cache).doc)
    BY <1>1 DEF Saved, At
  <2>3. job.step \in {"accept", "heartbeat"} => Honest(job.doc)
    BY <1>1 DEF Saved
  <2>4. job'.step \in {"accept", "heartbeat"} => Honest(job.doc)'
    BY <1>1, <2>1, <2>2, <2>3 DEF Honest
  <2>5. cache # << >> => Honest(Last(cache).doc)'
    BY <1>1, <2>2 DEF Honest, Last
  <2>6. QED
    BY <1>1, <2>4, <2>5
<1>2. ASSUME NEW r \in Runs, Trigger(r) \/ Rerun(r)
      PROVE  /\ job'.step \in {"accept", "heartbeat", "save"} => Honest(job.doc)'
             /\ job'.step # "save" /\ cache' # << >> => Honest(Last(cache).doc)'
  BY <1>2 DEF Trigger, Rerun, Enqueue, facts, Saved, At, Honest, Last
<1>3. CASE Begin
  BY <1>1, <1>3, BeginTakes
<1>4. CASE SetupFails \/ HeartbeatRefuses \/ PrepareResult \/ UploadResult
           \/ ResolvePredecessor
  BY <1>1, <1>4, Steps DEF Turns
<1>5. CASE Restore
  <2>1. job'.doc = EmptyDocument \/ (cache # << >> /\ job'.doc = Last(cache).doc)
    BY <1>5, Steps DEF Turns, Types, Fresh
  <2>2. QED
    BY <1>1, <1>5, <2>1, Steps DEF Turns
<1>6. CASE AcceptOrReset
  <2>1. job'.doc = EmptyDocument \/ (job.step = "accept" /\ job'.doc = job.doc)
    BY <1>6, Steps DEF Turns
  <2>2. QED
    BY <1>1, <1>6, <2>1, Steps DEF Turns
<1>7. ASSUME NEW t \in Times, NEW results \in [Projects -> Status], Heartbeat(t, results)
      PROVE  /\ job'.step \in {"accept", "heartbeat", "save"} => Honest(job.doc)'
             /\ job'.step # "save" /\ cache' # << >> => Honest(Last(cache).doc)'
  <2>1. PICK taken \in SUBSET Projects, marked \in SUBSET Projects, outputs \in BOOLEAN :
          Observes(t, results, taken, marked, outputs)
    BY <1>7, HeartbeatObserves
  <2>2. ~lost /\ outputs /\ job'.step = "save" /\ job.step = "heartbeat"
    BY <2>1 DEF Observes, At
  <2>3. Honest(job.doc)'
    BY <1>7, <2>1, <2>2, ObservesHonest DEF Saved
  <2>4. QED
    BY <2>2, <2>3
<1>8. CASE Save
  <2>1. Honest(job.doc) /\ UNCHANGED <<streak, told>>
    BY <1>8, SaveStores DEF Saved
  <2>2. Last(cache').doc = job.doc /\ job'.step = "observe"
    BY <1>8, SaveStores
  <2>3. PICK d : d = job.doc
    OBVIOUS
  <2>4. Honest(d) /\ Last(cache').doc = d
    BY <2>1, <2>2, <2>3
  <2>5. Honest(Last(cache).doc)'
    BY <2>1, <2>4 DEF Honest
  <2>6. QED
    BY <2>2, <2>5
<1>9. CASE SaveFails \/ Evict
  BY <1>9 DEF SaveFails, Evict
<1>10. CASE Propagate \/ RunnerLost
  <2>1. job' = NoJob /\ UNCHANGED <<cache, streak, told>>
    BY <1>10 DEF Propagate, RunnerLost, facts
  <2>2. job'.step = "none"
    BY <2>1, JobAtType DEF NoJob
  <2>3. lost \in BOOLEAN
    BY DEF Types, TypeOK
  <2>4. lost' = lost /\ job.step # "save"
    <3>1. CASE Propagate
      BY <3>1 DEF Propagate, At
    <3>2. CASE RunnerLost
      BY <2>3, <3>2 DEF RunnerLost, At
    <3>3. QED
      BY <1>10, <3>1, <3>2
  <2>5. QED
    BY <1>1, <2>1, <2>2, <2>4
<1>11. CASE Done \/ UNCHANGED vars
  BY <1>11 DEF Done, vars, facts, Saved, At, Honest, Last
<1>12. QED
  BY <1>2, <1>3, <1>4, <1>5, <1>6, <1>7, <1>8, <1>9, <1>10, <1>11 DEF Next

-----------------------------------------------------------------------------
(* While nothing is run again *)

(* Jobs run in the order of their numbers.  h is the last one that         *)
(* observed something: only state saved by it is honest for sure, and only *)
(* the one numbered after it accepts that.                                 *)
NoReruns == \A r \in Runs : attempts[r] <= 1

InOrder(h) ==
  /\ h = NoRun \/ h \in Created
  /\ \A i \in 1..Len(cache) :
       cache[i].sequence <= h /\ (cache[i].sequence = h => Honest(cache[i].doc))
  /\ waiting # Nobody =>
       waiting[2] = 1 /\ waiting[1] > h /\ (~At("none") => waiting[1] > Run)
  /\ job.step \in Early => Attempt = 1 /\ h < Run
  /\ At("save") => Run = h
  /\ job.step \in {"heartbeat", "save"} => Honest(job.doc)
  /\ job.step \in {"restore", "accept"} => job.expected \in {NoRun, Run - 1}
  /\ At("accept") => Honest(job.doc) \/ (job.sequence \in Runs /\ job.sequence < h)

Serial == NoReruns => \E h \in Runs \union {NoRun} : InOrder(h)

LEMMA SerialInit == Init => Serial
<1> SUFFICES ASSUME Init PROVE InOrder(NoRun)
  BY DEF Serial
<1>1. job.step = "none" /\ waiting = Nobody /\ Len(cache) = 0
  BY JobAtType, EmptySeq DEF Init, NoJob
<1>2. QED
  BY <1>1 DEF InOrder, At, Early

LEMMA SameEntries ==
  ASSUME NEW h, \A i \in 1..Len(cache) :
           cache[i].sequence <= h /\ (cache[i].sequence = h => Honest(cache[i].doc)),
         UNCHANGED <<cache, streak, told>>
  PROVE  (\A i \in 1..Len(cache) :
            cache[i].sequence <= h /\ (cache[i].sequence = h => Honest(cache[i].doc)))'
BY DEF Honest

LEMMA SerialStep == Types /\ Serial /\ [Next]_vars => Serial'
<1> SUFFICES ASSUME Types, Serial, [Next]_vars, NoReruns'
             PROVE  \E h \in Runs \union {NoRun} : InOrder(h)'
  BY DEF Serial
<1>1. /\ attempts \in [Runs -> 0..MaxAttempts] /\ job \in Job /\ cache \in Seq(Entry)
      /\ job.step # "none" => job.key \in Keys /\ Run \in Runs
      /\ waiting \in Keys \union {Nobody}
      /\ waiting # Nobody => waiting[1] \in Runs
  BY KeyFields DEF Types, TypeOK, At, Run
<1>2. NoReruns
  <2>1. ASSUME NEW r \in Runs, Trigger(r) \/ Rerun(r) PROVE NoReruns
    BY <1>1, <2>1, Bounds DEF Trigger, Rerun, Enqueue, NoReruns
  <2>2. CASE UNCHANGED attempts
    BY <2>2 DEF NoReruns
  <2>3. UNCHANGED attempts \/ \E r \in Runs : Trigger(r) \/ Rerun(r)
    BY DEF Next, Begin, SetupFails, ResolvePredecessor, Restore, AcceptOrReset,
       HeartbeatRefuses, Heartbeat, Save, SaveFails, PrepareResult, UploadResult, ResultStep,
       Propagate, RunnerLost, Evict, Done, group, vars
  <2>4. QED
    BY <2>1, <2>2, <2>3
<1>3. PICK h \in Runs \union {NoRun} : InOrder(h)
  BY <1>2 DEF Serial
<1>4. /\ h \in Nat
      /\ h = NoRun \/ h \in Created
      /\ \A i \in 1..Len(cache) :
           cache[i].sequence <= h /\ (cache[i].sequence = h => Honest(cache[i].doc))
  BY <1>3, Bounds DEF InOrder, Runs, NoRun
<1>5. ASSUME UNCHANGED <<attempts, waiting, streak, told>>,
             job'.step # "none", job'.key = job.key, job.step # "none",
             (\A i \in 1..Len(cache) :
                cache[i].sequence <= h /\ (cache[i].sequence = h => Honest(cache[i].doc)))',
             job'.step \in Early => job.step \in Early,
             job'.step \notin {"heartbeat", "save", "restore", "accept"}
      PROVE  InOrder(h)'
  BY <1>3, <1>5 DEF InOrder, At, Run, Attempt, Created
<1>6. ASSUME NEW r \in Runs, Trigger(r) PROVE InOrder(h)'
  <2>1. /\ r \notin Created /\ \A q \in 1..(r - 1) : q \in Created
        /\ waiting' = <<r, attempts[r] + 1>> /\ UNCHANGED <<job, cache, streak, told>>
        /\ attempts' = [attempts EXCEPT ![r] = @ + 1]
    BY <1>6 DEF Trigger, Enqueue, facts
  <2>2. waiting'[2] = 1 /\ waiting'[1] = r
    BY <1>1, <2>1, Bounds DEF Created
  <2>3. \A q \in Created : q < r
    BY <2>1, Bounds DEF Types, Created, Runs
  <2>4. r > h
    BY <1>4, <2>3, Bounds DEF NoRun, Runs
  <2>5. ~At("none") => r > Run
    BY <2>3, Bounds DEF Types, Created, Runs
  <2>6. Created \subseteq Created'
    BY <1>1, <2>1 DEF Created
  <2>7. (\A i \in 1..Len(cache) :
           cache[i].sequence <= h /\ (cache[i].sequence = h => Honest(cache[i].doc)))'
    BY <1>4, <2>1, SameEntries
  <2>8. job'.step \in {"heartbeat", "save"} => Honest(job.doc)'
    BY <1>3, <2>1 DEF InOrder, Honest
  <2>9. job'.step = "accept" => Honest(job.doc)' \/ (job'.sequence \in Runs /\ job'.sequence < h)
    BY <1>3, <2>1 DEF InOrder, Honest, At
  <2>10. QED
    BY <1>3, <2>1, <2>2, <2>4, <2>5, <2>6, <2>7, <2>8, <2>9 DEF InOrder, At, Run, Attempt
<1>7. ASSUME NEW r \in Runs, Rerun(r) PROVE FALSE
  BY <1>1, <1>7, Bounds DEF Rerun, Enqueue, NoReruns, Created
<1>8. CASE Begin
  <2>1. waiting \in Keys /\ waiting[2] = 1 /\ waiting[1] > h
    BY <1>1, <1>3, <1>8 DEF Begin, InOrder
  <2>2. (\A i \in 1..Len(cache) :
           cache[i].sequence <= h /\ (cache[i].sequence = h => Honest(cache[i].doc)))'
    BY <1>4, <1>8, SameEntries, BeginTakes
  <2>3. job'.step = "resolve" /\ job'.key = waiting /\ waiting' = Nobody
        /\ UNCHANGED attempts
    BY <1>8, BeginTakes
  <2>4. QED
    BY <1>1, <1>4, <2>1, <2>2, <2>3, Bounds DEF InOrder, At, Run, Attempt, Created, Runs
<1>9. CASE SetupFails \/ HeartbeatRefuses \/ PrepareResult \/ UploadResult
  <2>1. /\ UNCHANGED <<attempts, waiting, cache, streak, told>> /\ job.step # "none"
        /\ job'.key = job.key /\ job'.step \in {"observe", "upload", "propagate"}
    BY <1>9, Steps DEF Turns
  <2>2. QED
    BY <1>4, <1>5, <2>1, SameEntries DEF Early
<1>10. CASE ResolvePredecessor
  <2>1. /\ UNCHANGED <<attempts, waiting, cache, streak, told>>
        /\ job.step = "resolve" /\ job'.key = job.key /\ job'.step = "restore"
        /\ job'.expected \in {NoRun, IF Attempt > 1 THEN Run ELSE Run - 1}
    BY <1>10, Steps DEF Turns
  <2>2. Attempt = 1 /\ h < Run
    BY <1>3, <2>1 DEF InOrder, Early
  <2>3. job'.expected \in {NoRun, Run - 1}
    BY <2>1, <2>2
  <2>4. QED
    BY <1>3, <1>4, <2>1, <2>2, <2>3, SameEntries DEF InOrder, At, Run, Attempt, Created, Early
<1>11. CASE Restore
  <2>1. /\ UNCHANGED <<attempts, waiting, cache, streak, told>>
        /\ job.step = "restore" /\ job'.key = job.key /\ job'.step = "accept"
        /\ job'.expected = job.expected
    BY <1>11, Steps DEF Turns
  <2>2. Attempt = 1 /\ h < Run /\ job.expected \in {NoRun, Run - 1}
    BY <1>3, <2>1 DEF InOrder, Early
  <2>3. Honest(job.doc)' \/ (job'.sequence \in Runs /\ job'.sequence < h)
    <3>1. CASE job'.doc = job.doc
      <4>1. job'.doc = EmptyDocument
        BY <2>1, <3>1 DEF Types, Fresh
      <4>2. Honest(EmptyDocument)
        BY EmptyHonest
      <4>3. QED
        BY <2>1, <4>1, <4>2 DEF Honest
    <3>2. CASE cache # << >> /\ job'.sequence = Last(cache).sequence
               /\ job'.doc = Last(cache).doc
      <4>1. Len(cache) \in 1..Len(cache) /\ Last(cache) = cache[Len(cache)]
        BY <1>1, <3>2, EmptySeq DEF Last
      <4>2. PICK e \in Entry : e = Last(cache)
        BY <1>1, <4>1, ElementOfSeq
      <4>3. e.sequence \in Runs /\ e.sequence <= h /\ (e.sequence = h => Honest(e.doc))
        BY <1>4, <4>1, <4>2 DEF Entry
      <4>4. e.sequence < h \/ Honest(e.doc)
        BY <1>4, <4>3, Bounds DEF Runs
      <4>5. Honest(e.doc)' \/ e.sequence < h
        BY <2>1, <4>4 DEF Honest
      <4>6. e.doc = job'.doc /\ e.sequence = job'.sequence
        BY <3>2, <4>2
      <4>7. QED
        BY <4>3, <4>5, <4>6 DEF Honest
    <3>3. QED
      BY <1>11, <3>1, <3>2, Steps
  <2>4. QED
    BY <1>3, <1>4, <2>1, <2>2, <2>3, SameEntries DEF InOrder, At, Run, Attempt, Created, Early
<1>12. CASE AcceptOrReset
  <2>1. /\ UNCHANGED <<attempts, waiting, cache, streak, told>>
        /\ job.step = "accept" /\ job'.key = job.key /\ job'.step = "heartbeat"
        /\ job'.doc = IF job.sequence = job.expected THEN job.doc ELSE EmptyDocument
    BY <1>12, Steps DEF Turns
  <2>2. /\ Attempt = 1 /\ h < Run /\ job.expected \in {NoRun, Run - 1}
        /\ Honest(job.doc) \/ (job.sequence \in Runs /\ job.sequence < h)
    BY <1>3, <2>1 DEF InOrder, Early, At
  <2>3. job.sequence = job.expected => Honest(job.doc)
    BY <1>1, <1>4, <2>1, <2>2, Bounds DEF Runs, NoRun
  <2>4. Honest(job.doc)'
    BY <2>1, <2>3, EmptyHonest DEF Honest
  <2>5. QED
    BY <1>3, <1>4, <2>1, <2>2, <2>4, SameEntries DEF InOrder, At, Run, Attempt, Created, Early
<1>13. ASSUME NEW t \in Times, NEW results \in [Projects -> Status], Heartbeat(t, results)
       PROVE  \E k \in Runs \union {NoRun} : InOrder(k)'
  <2>1. PICK taken \in SUBSET Projects, marked \in SUBSET Projects, outputs \in BOOLEAN :
          Observes(t, results, taken, marked, outputs)
    BY <1>13, HeartbeatObserves
  <2>2. /\ job.step = "heartbeat" /\ job'.step \in {"save", "observe"} /\ job'.key = job.key
        /\ UNCHANGED <<attempts, waiting, cache>>
    BY <2>1 DEF Observes, At
  <2>3. PICK k \in Runs : k = Run
    BY <1>1, <2>2
  <2>4. h < k /\ k \in Created /\ Honest(job.doc)
        /\ (waiting # Nobody => waiting[2] = 1 /\ waiting[1] > k)
    BY <1>3, <2>2, <2>3 DEF InOrder, Early, Types, At
  <2>5. Honest(job.doc)'
    BY <1>13, <2>1, <2>4, ObservesHonest
  <2>6. \A i \in 1..Len(cache) : cache[i].sequence < k
    <3>1. ASSUME NEW i \in 1..Len(cache) PROVE cache[i].sequence < k
      <4>1. PICK e \in Entry : e = cache[i]
        BY <1>1, ElementOfSeq
      <4>2. e.sequence \in Nat /\ e.sequence <= h
        BY <1>4, <4>1, Bounds DEF Entry, Runs
      <4>3. QED
        BY <1>4, <2>4, <4>1, <4>2, Bounds DEF Runs
    <3>2. QED
      BY <3>1
  <2>7. (\A i \in 1..Len(cache) :
           cache[i].sequence <= k /\ (cache[i].sequence = k => Honest(cache[i].doc)))'
    <3>1. ASSUME NEW i \in 1..Len(cache) PROVE cache[i].sequence <= k /\ cache[i].sequence # k
      <4>1. PICK e \in Entry : e = cache[i]
        BY <1>1, ElementOfSeq
      <4>2. e.sequence \in Nat /\ e.sequence < k /\ k \in Nat
        BY <2>6, <4>1, Bounds DEF Entry, Runs
      <4>3. QED
        BY <4>1, <4>2
    <3>2. QED
      BY <2>2, <3>1
  <2>8. job'.key[1] = k
    BY <2>2, <2>3 DEF Run
  <2>9. InOrder(k)'
    BY <2>2, <2>4, <2>5, <2>7, <2>8 DEF InOrder, At, Run, Created, Early
  <2>10. QED
    BY <2>9
<1>14. CASE Save
  <2>1. /\ job.step = "save" /\ job'.step = "observe" /\ job'.key = job.key
        /\ UNCHANGED <<attempts, waiting, streak, told>>
    BY <1>14, SaveStores
  <2>2. PICK e \in Entry :
          /\ e.sequence = Run /\ e.doc = job.doc /\ Len(cache') = Len(cache) + 1
          /\ \A i \in 1..Len(cache) : cache'[i] = cache[i]
          /\ cache'[Len(cache) + 1] = e
    BY <1>14, SaveStores
  <2>3. Run = h /\ Honest(job.doc)
    BY <1>3, <2>1 DEF InOrder, At
  <2>4. Len(cache) \in Nat
    BY <1>1, LenProperties
  <2>5. ASSUME NEW i \in 1..(Len(cache) + 1)
        PROVE  \E d : /\ cache'[i].doc = d /\ cache'[i].sequence <= h
                      /\ cache'[i].sequence = h => Honest(d)
    <3>1. CASE i \in 1..Len(cache)
      BY <1>4, <2>2, <3>1
    <3>2. CASE i = Len(cache) + 1
      <4>1. cache'[i] = e /\ e.sequence = h
        BY <2>2, <2>3, <3>2
      <4>2. PICK d : d = e.doc /\ Honest(d)
        BY <2>2, <2>3
      <4>3. h <= h
        BY <1>4
      <4>4. QED
        BY <4>1, <4>2, <4>3
    <3>3. QED
      BY <2>4, <3>1, <3>2
  <2>6. (\A i \in 1..Len(cache) :
           cache[i].sequence <= h /\ (cache[i].sequence = h => Honest(cache[i].doc)))'
    BY <2>1, <2>2, <2>5 DEF Honest
  <2>7. QED
    BY <1>5, <2>1, <2>6 DEF Early
<1>15. CASE SaveFails
  <2>1. /\ job' = [job EXCEPT !.step = "observe"] /\ job.step = "save"
        /\ UNCHANGED <<attempts, waiting, cache, streak, told>>
    BY <1>15 DEF SaveFails, group, facts, At
  <2>2. job'.key = job.key /\ job'.step = "observe"
    BY <1>1, <2>1 DEF Job
  <2>3. QED
    BY <1>4, <1>5, <2>1, <2>2, SameEntries DEF Early
<1>16. CASE Propagate \/ RunnerLost
  <2>1. job' = NoJob /\ UNCHANGED <<attempts, waiting, cache, streak, told>>
    BY <1>16 DEF Propagate, RunnerLost, group, facts
  <2>2. job'.step = "none"
    BY <2>1, JobAtType DEF NoJob
  <2>3. QED
    BY <1>3, <1>4, <2>1, <2>2, SameEntries DEF InOrder, At, Created, Early
<1>17. CASE Evict
  <2>1. /\ UNCHANGED <<attempts, waiting, job, streak, told>>
        /\ \A i \in 1..Len(cache') : \E k \in 1..Len(cache) : cache'[i] = cache[k]
    BY <1>17, EvictLeaves
  <2>2. (\A i \in 1..Len(cache) :
           cache[i].sequence <= h /\ (cache[i].sequence = h => Honest(cache[i].doc)))'
    BY <1>4, <2>1 DEF Honest
  <2>3. QED
    BY <1>3, <2>1, <2>2 DEF InOrder, At, Run, Attempt, Created, Honest
<1>18. CASE Done \/ UNCHANGED vars
  <2>1. UNCHANGED <<attempts, waiting, job, cache, streak, told>>
    BY <1>18 DEF Done, vars, group, facts
  <2>2. QED
    BY <1>3, <1>4, <2>1, SameEntries DEF InOrder, At, Run, Attempt, Created, Honest
<1>19. QED
  BY <1>6, <1>7, <1>8, <1>9, <1>10, <1>11, <1>12, <1>13, <1>14, <1>15, <1>16, <1>17, <1>18
     DEF Next

-----------------------------------------------------------------------------
(* While nothing goes wrong *)

(* Every job finds what the job before it left.  Latest is the run that    *)
(* saved the newest entry, and Top the newest run there is.                *)
Continues(d) ==
  \A p \in Projects :
    /\ d[p].failures = IF streak[p] < MaxInt THEN streak[p] ELSE MaxInt
    /\ p \in told => d[p].pending \/ d[p].notified

Latest    == IF cache = << >> THEN NoRun ELSE Last(cache).sequence
LatestDoc == IF cache = << >> THEN EmptyDocument ELSE Last(cache).doc

(* The next run, or the newest one once more. *)
Follows(key) == \/ key[2] = 1 /\ key[1] = Latest + 1
                \/ key[2] > 1 /\ key[1] = Latest

Top == IF waiting # Nobody THEN waiting[1] ELSE IF ~At("none") THEN Run ELSE Latest

Continued ==
  calm =>
    /\ ~At("save") => Continues(LatestDoc)
    /\ At("save") => Continues(job.doc)
    /\ job.step \in Early => Follows(job.key)
    /\ job.step \in {"restore", "accept"} => job.expected = Latest
    /\ At("accept") => job.sequence = Latest
    /\ job.step \in {"accept", "heartbeat"} => job.doc = LatestDoc
    /\ job.step \in Late => Latest = Run
    /\ waiting # Nobody =>
         IF At("none") THEN Follows(waiting) ELSE waiting[2] = 1 /\ waiting[1] = Run + 1
    /\ Top + 1 \notin Created
    /\ Top # NoRun => Top \in Created

LEMMA ContinuedInit == Init => Continued
<1> SUFFICES ASSUME Init PROVE Continued
  OBVIOUS
<1>1. job.step = "none" /\ waiting = Nobody /\ cache = << >> /\ Created = {}
  BY JobAtType DEF Init, NoJob, Created
<1>2. Latest = NoRun /\ LatestDoc = EmptyDocument /\ Top = NoRun
  BY <1>1 DEF Latest, LatestDoc, Top, At
<1>3. \A p \in Projects : streak[p] = 0 /\ EmptyDocument[p].failures = 0
  BY EmptyGood DEF Init, ZeroState
<1>4. Continues(EmptyDocument)
  BY <1>3, Bounds DEF Init, Continues
<1>5. QED
  BY <1>1, <1>2, <1>4 DEF Continued, At, Early, Late

LEMMA ObservesContinues ==
  ASSUME Types, Continues(job.doc), NEW t \in Times, NEW results \in [Projects -> Status],
         Heartbeat(t, results), NEW taken \in SUBSET Projects, NEW marked \in SUBSET Projects,
         NEW outputs \in BOOLEAN, Observes(t, results, taken, marked, outputs)
  PROVE  Continues(job.doc)'
<1>1. \A p \in Projects :
        Opens(job.doc[p], results[p]) => job.doc[p].episode < MaxOutages
  BY DEF Heartbeat
<1>2. job.doc \in Document
  BY JobFields DEF Types, TypeOK
<1>3. PICK old \in Document : old = job.doc
  BY <1>2
<1>4. \A p \in Projects : Opens(old[p], results[p]) => old[p].episode < MaxOutages
  BY <1>1, <1>3
<1>5. job'.doc = After(old, t, results, marked)
  BY <1>3 DEF Observes
<1>6. ASSUME NEW p \in Projects
      PROVE  LET left == After(old, t, results, marked)[p] IN
             /\ left.failures = IF streak'[p] < MaxInt THEN streak'[p] ELSE MaxInt
             /\ p \in told' => left.pending \/ left.notified
  <2> DEFINE seen == Observed(old[p], results[p], t, Threshold)
  <2>1. /\ streak[p] \in Nat /\ old[p] \in ProjectState /\ results[p] \in Status
        /\ old[p].failures = IF streak[p] < MaxInt THEN streak[p] ELSE MaxInt
        /\ (p \in told => old[p].pending \/ old[p].notified)
    BY <1>3 DEF Types, TypeOK, Document, Continues
  <2>2. /\ After(old, t, results, marked)[p].failures = seen.failures
        /\ After(old, t, results, marked)[p].pending = (seen.pending /\ p \notin marked)
        /\ After(old, t, results, marked)[p].notified = (seen.notified \/ p \in marked)
    BY <1>4, AfterType
  <2>3. p \in taken => seen.pending
    BY <1>3 DEF Observes
  <2>4. p \in told' => p \in taken \/ (p \in told /\ results[p] # Healthy)
    BY DEF Observes
  <2>5. seen.failures = IF streak'[p] < MaxInt THEN streak'[p] ELSE MaxInt
    <3>1. CASE results[p] = Healthy
      BY <3>1, Bounds DEF Observes, Observed, Recovered
    <3>2. CASE results[p] # Healthy
      <4>1. seen.failures = Streak(old[p])
        BY <3>2 DEF Observed, Failed
      <4>2. streak'[p] = streak[p] + 1
        BY <3>2 DEF Observes
      <4>3. QED
        BY <2>1, <4>1, <4>2, Bounds DEF Streak
    <3>3. QED
      BY <3>1, <3>2
  <2>6. results[p] # Healthy =>
          seen.pending = (old[p].pending \/ Due(old[p], Threshold))
          /\ seen.notified = old[p].notified
    BY DEF Observed, Failed
  <2> HIDE DEF seen
  <2>7. p \in told' => seen.pending \/ seen.notified
    BY <2>1, <2>3, <2>4, <2>6
  <2>8. QED
    BY <2>2, <2>5, <2>7
<1>7. QED
  BY <1>5, <1>6 DEF Continues

LEMMA ContinuesKept ==
  ASSUME NEW d, Continues(d), UNCHANGED <<streak, told>> PROVE Continues(d)'
BY DEF Continues

LEMMA LatestKept ==
  ASSUME UNCHANGED cache PROVE Latest' = Latest /\ LatestDoc' = LatestDoc
BY DEF Latest, LatestDoc, Last

LEMMA LatestType ==
  ASSUME Types
  PROVE  Latest \in Nat /\ LatestDoc \in Document /\ Top \in Nat
<1>1. cache # << >> => Last(cache) \in Entry
  BY EmptySeq, ElementOfSeq DEF Types, Last
<1>2. Latest \in Nat /\ LatestDoc \in Document
  BY <1>1, EmptyGood, Bounds DEF Latest, LatestDoc, Entry, Runs, NoRun
<1>3. Top \in Nat
  BY <1>2, KeyFields, Bounds DEF Types, TypeOK, Top, Run, Runs
<1>4. QED
  BY <1>2, <1>3

LEMMA ContinuedStep == Types /\ Continued /\ [Next]_vars => Continued'
<1> SUFFICES ASSUME Types, Continued, [Next]_vars, calm' PROVE Continued'
  BY DEF Continued
<1>1. /\ attempts \in [Runs -> 0..MaxAttempts] /\ job \in Job
      /\ job.step # "none" => job.key \in Keys /\ Run \in Runs /\ Run \in Created
      /\ waiting \in Keys \union {Nobody} /\ calm \in BOOLEAN
      /\ waiting # Nobody => waiting[1] \in Runs
      /\ Latest \in Nat /\ Top \in Nat
  BY KeyFields, LatestType DEF Types, TypeOK, At, Run
<1>2. calm
  <2>1. CASE \E t \in Times, results \in [Projects -> Status] : Heartbeat(t, results)
    BY <1>1, <2>1 DEF Heartbeat
  <2>2. CASE UNCHANGED vars
    BY <1>1, <2>2 DEF vars
  <2>3. CASE Next /\ ~\E t \in Times, results \in [Projects -> Status] : Heartbeat(t, results)
    BY <1>1, <2>3 DEF Next, Trigger, Rerun, Begin, SetupFails, ResolvePredecessor,
       Restore, AcceptOrReset, HeartbeatRefuses, Save, SaveFails, PrepareResult,
       UploadResult, ResultStep, Propagate, RunnerLost, Evict, Done, vars
  <2>4. QED
    BY <2>1, <2>2, <2>3
<1>3. /\ job.step # "save" => Continues(LatestDoc)
      /\ job.step = "save" => Continues(job.doc)
      /\ job.step \in Early => Follows(job.key)
      /\ job.step \in {"restore", "accept"} => job.expected = Latest
      /\ job.step = "accept" => job.sequence = Latest
      /\ job.step \in {"accept", "heartbeat"} => job.doc = LatestDoc
      /\ job.step \in Late => Latest = Run
      /\ waiting # Nobody =>
           IF At("none") THEN Follows(waiting) ELSE waiting[2] = 1 /\ waiting[1] = Run + 1
      /\ Top + 1 \notin Created
      /\ Top # NoRun => Top \in Created
  BY <1>2 DEF Continued, At
(* Only the job moves, between steps that are not the saving. *)
<1>4. ASSUME UNCHANGED <<attempts, waiting, cache, streak, told>>,
             job.step \notin {"none", "save"}, job'.step \notin {"none", "save"},
             job'.key = job.key,
             job'.step \in Early => job.step \in Early,
             job'.step \in {"restore", "accept"} => job'.expected = Latest,
             job'.step = "accept" => job'.sequence = Latest,
             job'.step \in {"accept", "heartbeat"} => job'.doc = LatestDoc,
             job'.step \in Late => job.step \in Late
      PROVE  Continued'
  <2>1. Latest' = Latest /\ LatestDoc' = LatestDoc /\ Run' = Run /\ Created' = Created
    BY <1>4, LatestKept DEF Run, Created
  <2>2. Continues(LatestDoc)'
    BY <1>3, <1>4, <2>1 DEF Continues
  <2>3. Top' = Top
    BY <1>4, <2>1 DEF Top, At
  <2>4. job'.step \in Early => Follows(job.key)'
    BY <1>3, <1>4, <2>1 DEF Follows
  <2>5. QED
    BY <1>3, <1>4, <2>1, <2>2, <2>3, <2>4 DEF Continued, At
<1>5. ASSUME NEW r \in Runs, Trigger(r) \/ Rerun(r), waiting = Nobody,
             Created' = Created \union {r}, r + 1 \notin Created,
             waiting'[1] = r,
             IF At("none") THEN Follows(waiting') ELSE waiting'[2] = 1 /\ r = Run + 1
      PROVE  Continued'
  <2>1. UNCHANGED <<job, cache, streak, told>>
    BY <1>5 DEF Trigger, Rerun, Enqueue, facts
  <2>2. Latest' = Latest /\ LatestDoc' = LatestDoc /\ Run' = Run
    BY <2>1, LatestKept DEF Run
  <2>3. job'.step # "save" => Continues(LatestDoc)'
    BY <1>3, <2>1, <2>2 DEF Continues
  <2>4. job'.step = "save" => Continues(job.doc)'
    BY <1>3, <2>1 DEF Continues
  <2>5. waiting' # Nobody
    BY <1>5, Bounds DEF Nobody, Runs
  <2>6. Top' = r /\ r \in Nat
    BY <1>5, <2>5, Bounds DEF Top, Runs
  <2>7. IF At("none") THEN Follows(waiting)' ELSE waiting'[2] = 1 /\ waiting'[1] = Run + 1
    BY <1>5, <2>2 DEF Follows
  <2>8. Top' + 1 \notin Created' /\ Top' \in Created'
    BY <1>5, <2>6
  <2>9. job'.step \in Early => Follows(job.key)'
    BY <1>3, <2>1, <2>2 DEF Follows
  <2>10. QED
    BY <1>3, <2>1, <2>2, <2>3, <2>4, <2>7, <2>8, <2>9 DEF Continued, At
<1>6. ASSUME NEW r \in Runs, Trigger(r) PROVE Continued'
  <2>1. /\ r \notin Created /\ \A q \in 1..(r - 1) : q \in Created
        /\ waiting' = <<r, attempts[r] + 1>> /\ waiting = Nobody /\ attempts[r] = 0
    <3>1. waiting = Nobody
      BY <1>6 DEF Trigger
    <3>2. attempts[r] = 0
      BY <1>1, <1>6, Bounds DEF Trigger, Created
    <3>3. QED
      BY <1>6, <3>1, <3>2 DEF Trigger, Enqueue
  <2>2. r = Top + 1
    BY <1>1, <1>3, <2>1, Bounds DEF Types, Created, Runs, NoRun
  <2>3. r + 1 \notin Created
    BY <2>1, Bounds DEF Types, Created, Runs
  <2>4. Created' = Created \union {r}
    <3>1. attempts[r] < MaxAttempts
      BY <2>1, Bounds
    <3>2. calm' \in BOOLEAN
      BY <1>1, <1>6 DEF Trigger
    <3>3. QED
      BY <1>6, <2>1, <3>1, <3>2, EnqueueTypes DEF Trigger
  <2>5. waiting'[1] = r /\ waiting'[2] = 1
    BY <2>1
  <2>6. IF At("none") THEN Follows(waiting') ELSE waiting'[2] = 1 /\ r = Run + 1
    BY <2>1, <2>2, <2>5 DEF Top, Follows
  <2>7. QED
    BY <1>5, <1>6, <2>1, <2>3, <2>4, <2>5, <2>6
<1>7. ASSUME NEW r \in Runs, Rerun(r) PROVE Continued'
  <2>1. /\ r \in Created /\ attempts[r] < MaxAttempts /\ Run # r /\ waiting = Nobody
        /\ r + 1 \notin Created /\ waiting' = <<r, attempts[r] + 1>>
    BY <1>1, <1>2, <1>7 DEF Rerun, Enqueue, Newest
  <2>2. r = Top
    BY <1>1, <1>3, <2>1, Bounds DEF Types, Created, Runs, NoRun
  <2>3. At("none") /\ Latest = r
    BY <2>1, <2>2 DEF Top
  <2>4. Created' = Created \union {r}
    <3>1. \A q \in 1..(r - 1) : q \in Created
      BY <2>1, Bounds DEF Types, Runs
    <3>2. calm' \in BOOLEAN
      BY <1>1, <1>7 DEF Rerun
    <3>3. QED
      BY <1>7, <2>1, <3>1, <3>2, EnqueueTypes DEF Rerun
  <2>5. waiting'[1] = r /\ waiting'[2] > 1
    BY <1>1, <2>1, Bounds DEF Created
  <2>6. Follows(waiting')
    BY <2>3, <2>5 DEF Follows
  <2>7. QED
    BY <1>5, <1>7, <2>1, <2>3, <2>4, <2>5, <2>6
<1>8. CASE Begin
  <2>1. /\ job.step = "none" /\ waiting # Nobody /\ waiting' = Nobody
        /\ job'.step = "resolve" /\ job'.key = waiting
        /\ UNCHANGED <<attempts, cache, streak, told>>
    BY <1>8, BeginTakes
  <2>2. Latest' = Latest /\ LatestDoc' = LatestDoc /\ Created' = Created
    BY <2>1, LatestKept DEF Created
  <2>3. Continues(LatestDoc)'
    BY <1>3, <2>1, <2>2 DEF Continues
  <2>4. Top' = Top
    BY <2>1 DEF Top, At, Run
  <2>5. Follows(waiting)
    BY <1>3, <2>1 DEF At
  <2>6. Follows(job.key)'
    BY <2>1, <2>2, <2>5 DEF Follows
  <2>7. QED
    BY <1>3, <2>1, <2>2, <2>3, <2>4, <2>6 DEF Continued, At, Early, Late
<1>9. CASE SetupFails \/ HeartbeatRefuses
  BY <1>9, Steps
<1>10. CASE PrepareResult \/ UploadResult
  BY <1>4, <1>10, Steps DEF Turns, Late, Early
<1>11. CASE ResolvePredecessor
  <2>1. /\ Turns("resolve", "restore")
        /\ job'.expected = (IF Attempt > 1 THEN Run ELSE Run - 1)
    BY <1>11, Steps
  <2>2. Follows(job.key) /\ Attempt \in 1..MaxAttempts
    BY <1>1, <1>3, <2>1, KeyFields DEF Turns, Early, Attempt
  <2>3. job'.expected = Latest
    BY <1>1, <2>1, <2>2, Bounds DEF Follows, Attempt, Run
  <2>4. QED
    BY <1>4, <2>1, <2>3 DEF Turns, Late, Early
<1>12. CASE Restore
  <2>1. Turns("restore", "accept") /\ job'.expected = job.expected
    BY <1>12, Steps
  <2>2. job'.sequence = Latest /\ job'.doc = LatestDoc
    <3>1. CASE /\ cache # << >>
               /\ job'.sequence = Last(cache).sequence /\ job'.doc = Last(cache).doc
      BY <3>1 DEF Latest, LatestDoc
    <3>2. CASE job'.sequence = job.sequence /\ job'.doc = job.doc /\ cache = << >>
      BY <2>1, <3>2 DEF Latest, LatestDoc, Turns, Types, Fresh
    <3>3. QED
      BY <1>12, <3>1, <3>2, Steps
  <2>3. job'.expected = Latest
    BY <1>3, <2>1 DEF Turns
  <2>4. QED
    BY <1>4, <2>1, <2>2, <2>3 DEF Turns, Late, Early
<1>13. CASE AcceptOrReset
  <2>1. /\ Turns("accept", "heartbeat")
        /\ job'.doc = IF job.sequence = job.expected THEN job.doc ELSE EmptyDocument
    BY <1>13, Steps
  <2>2. job'.doc = LatestDoc
    BY <1>3, <2>1 DEF Turns
  <2>3. QED
    BY <1>4, <2>1, <2>2 DEF Turns, Late, Early
<1>14. ASSUME NEW t \in Times, NEW results \in [Projects -> Status], Heartbeat(t, results)
       PROVE  Continued'
  <2>1. PICK taken \in SUBSET Projects, marked \in SUBSET Projects, outputs \in BOOLEAN :
          Observes(t, results, taken, marked, outputs)
    BY <1>14, HeartbeatObserves
  <2>2. /\ job.step = "heartbeat" /\ job'.step = "save" /\ job'.key = job.key
        /\ UNCHANGED <<attempts, waiting, cache>>
    BY <2>1 DEF Observes, At
  <2>3. Continues(job.doc)
    BY <1>3, <2>2
  <2>4. Continues(job.doc)'
    BY <1>14, <2>1, <2>3, ObservesContinues
  <2>5. Latest' = Latest /\ Run' = Run /\ Created' = Created
    BY <2>2, LatestKept DEF Run, Created
  <2>6. Top' = Top
    BY <2>2, <2>5 DEF Top, At
  <2>7. QED
    BY <1>3, <2>2, <2>4, <2>5, <2>6 DEF Continued, At, Early, Late
<1>15. CASE Save
  <2>1. /\ job.step = "save" /\ job'.step = "observe" /\ job'.key = job.key
        /\ UNCHANGED <<attempts, waiting, streak, told>>
        /\ cache' # << >> /\ Last(cache').sequence = Run /\ Last(cache').doc = job.doc
    BY <1>15, SaveStores
  <2>2. Latest' = Run /\ LatestDoc' = job.doc /\ Run' = Run /\ Created' = Created
    BY <2>1 DEF Latest, LatestDoc, Run, Created
  <2>3. Continues(LatestDoc)'
    BY <1>3, <2>1, <2>2 DEF Continues
  <2>4. Top' = Top
    BY <2>1, <2>2 DEF Top, At
  <2>5. QED
    BY <1>3, <2>1, <2>2, <2>3, <2>4 DEF Continued, At, Early
<1>16. CASE SaveFails \/ Evict
  BY <1>16 DEF SaveFails, Evict
<1>17. CASE Propagate \/ RunnerLost
  <2>1. job' = NoJob /\ UNCHANGED <<attempts, waiting, cache, streak, told>>
    BY <1>17 DEF Propagate, RunnerLost, group, facts
  <2>2. job'.step = "none"
    BY <2>1, JobAtType DEF NoJob
  <2>3. job.step \in Late
    <3>1. CASE Propagate
      BY <3>1 DEF Propagate, At, Late
    <3>2. CASE RunnerLost
      BY <1>1, <3>2 DEF RunnerLost, Late
    <3>3. QED
      BY <1>17, <3>1, <3>2
  <2>4. Latest' = Latest /\ LatestDoc' = LatestDoc /\ Created' = Created /\ Latest = Run
    BY <1>3, <2>1, <2>3, LatestKept DEF Created
  <2>5. Continues(LatestDoc)'
    BY <1>3, <2>1, <2>3, <2>4 DEF Continues, Late
  <2>6. Top' = Top
    BY <2>1, <2>2, <2>3, <2>4 DEF Top, At, Late
  <2>7. waiting' # Nobody => Follows(waiting)'
    BY <1>3, <2>1, <2>3, <2>4 DEF Follows, At, Late
  <2>8. QED
    BY <1>3, <2>1, <2>2, <2>4, <2>5, <2>6, <2>7 DEF Continued, At, Early, Late
<1>18. CASE Done \/ UNCHANGED vars
  <2>1. UNCHANGED <<attempts, waiting, job, cache, streak, told>>
    BY <1>18 DEF Done, vars, group, facts
  <2>2. Latest' = Latest /\ LatestDoc' = LatestDoc /\ Created' = Created /\ Run' = Run
    BY <2>1, LatestKept DEF Created, Run
  <2>3. /\ job'.step # "save" => Continues(LatestDoc)'
        /\ job'.step = "save" => Continues(job.doc)'
    BY <1>3, <2>1, <2>2 DEF Continues
  <2>4. Top' = Top
    BY <2>1, <2>2 DEF Top, At
  <2>5. /\ job'.step \in Early => Follows(job.key)'
        /\ waiting' # Nobody => (At("none") => Follows(waiting)')
    BY <1>3, <2>1, <2>2 DEF Follows
  <2>6. QED
    BY <1>3, <2>1, <2>2, <2>3, <2>4, <2>5 DEF Continued, At
<1>19. QED
  BY <1>6, <1>7, <1>8, <1>9, <1>10, <1>11, <1>12, <1>13, <1>14, <1>15, <1>16, <1>17, <1>18
     DEF Next

-----------------------------------------------------------------------------
(* Successes *)

(* An exit status of zero means that every project was healthy, and its    *)
(* state is saved, or about to be, or lost.                                *)
Truthful ==
  job.status = 0 =>
    /\ job.step \in Late \union {"save"}
    /\ \A p \in Projects : streak[p] = 0
    /\ \/ At("save") \/ lost
       \/ \E i \in 1..Len(cache) : cache[i].key = job.key /\ cache[i].doc = job.doc

LEMMA TruthfulInit == Init => Truthful
BY JobAtType DEF Init, Truthful, NoJob, NoExit

LEMMA TruthfulStep == Types /\ Truthful /\ [Next]_vars => Truthful'
<1> SUFFICES ASSUME Types, Truthful, [Next]_vars, job'.status = 0 PROVE Truthful'
  BY DEF Truthful
<1>1. job \in Job /\ cache \in Seq(Entry) /\ lost \in BOOLEAN
  BY DEF Types, TypeOK
<1>2. ASSUME UNCHANGED <<cache, streak>>, job'.status = job.status, job'.key = job.key,
             job'.doc = job.doc, lost' = lost, job.step # "save",
             job.step \in Late => job'.step \in Late
      PROVE  Truthful'
  BY <1>2 DEF Truthful, At
<1>3. ASSUME NEW r \in Runs, Trigger(r) \/ Rerun(r) PROVE Truthful'
  BY <1>3 DEF Trigger, Rerun, Enqueue, facts, Truthful, At
<1>4. CASE Begin
  BY <1>4, BeginTakes DEF NoExit
<1>5. CASE SetupFails \/ ResolvePredecessor \/ Restore \/ AcceptOrReset
  BY <1>5, Steps DEF Turns, Truthful, Late
<1>6. CASE HeartbeatRefuses
  BY <1>6, Steps
<1>7. CASE PrepareResult \/ UploadResult
  BY <1>2, <1>7, Steps DEF Turns, Late
<1>8. ASSUME NEW t \in Times, NEW results \in [Projects -> Status], Heartbeat(t, results)
      PROVE  Truthful'
  <2>1. PICK taken \in SUBSET Projects, marked \in SUBSET Projects, outputs \in BOOLEAN :
          Observes(t, results, taken, marked, outputs)
    BY <1>8, HeartbeatObserves
  <2>2. outputs /\ {p \in Projects : results[p] = Healthy} = Projects /\ job'.step = "save"
    BY <2>1 DEF Observes
  <2>3. \A p \in Projects : streak'[p] = 0
    BY <2>1, <2>2 DEF Observes
  <2>4. QED
    BY <2>2, <2>3 DEF Truthful, At
<1>9. CASE Save
  <2>1. /\ job.step = "save" /\ job'.step = "observe" /\ job'.status = job.status
        /\ job'.key = job.key /\ job'.doc = job.doc /\ streak' = streak
        /\ Len(cache') = Len(cache) + 1
    BY <1>9, SaveStores
  <2>2. PICK e \in Entry :
          e.key = job.key /\ e.doc = job.doc /\ cache'[Len(cache) + 1] = e
    BY <1>9, SaveStores
  <2>3. Len(cache) + 1 \in 1..Len(cache')
    BY <1>1, <2>1, LenProperties
  <2>4. \E i \in 1..Len(cache') : cache'[i].key = job'.key /\ cache'[i].doc = job'.doc
    BY <2>1, <2>2, <2>3
  <2>5. QED
    BY <2>1, <2>4 DEF Truthful, Late
<1>10. CASE SaveFails
  <2>1. job' = [job EXCEPT !.step = "observe"] /\ lost' = TRUE /\ streak' = streak
    BY <1>10 DEF SaveFails, facts
  <2>2. job'.step = "observe" /\ job'.status = job.status
    BY <1>1, <2>1 DEF Job
  <2>3. QED
    BY <2>1, <2>2 DEF Truthful, Late
<1>11. CASE Propagate \/ RunnerLost
  BY <1>11, JobAtType DEF Propagate, RunnerLost, NoJob, NoExit
<1>12. CASE Evict
  BY <1>12, EvictLeaves DEF Truthful, At
<1>13. CASE Done \/ UNCHANGED vars
  BY <1>13 DEF Done, vars, facts, Truthful, At
<1>14. QED
  BY <1>3, <1>4, <1>5, <1>6, <1>7, <1>8, <1>9, <1>10, <1>11, <1>12, <1>13 DEF Next

-----------------------------------------------------------------------------
(* Theorems *)

(* Jobs, entries and queues keep their ranges.                             *)
THEOREM WorkflowTypeCorrect == Spec => []TypeOK
<1>1. Types => TypeOK
  BY DEF Types
<1>2. QED
  BY <1>1, TypesInit, TypesStep, PTL DEF Spec

(* Comparing run ids keeps the promise that state is never rolled back     *)
(* through cancelled, failed and refused runs, API errors, and reruns in   *)
(* any order, or through lost saves and evictions; only a rerun and a loss *)
(* together break it.                                                      *)
THEOREM RollbackNeedsRerunAndLoss == Spec => []RolledBackOnlyByRerunAndLoss
<1>1. Types /\ Saved /\ Serial => RolledBackOnlyByRerunAndLoss
  <2> SUFFICES ASSUME Types, Saved, Serial, ~(lost /\ \E r \in Runs : attempts[r] > 1),
                      job.step = "heartbeat"
               PROVE  Honest(job.doc)
    BY DEF RolledBackOnlyByRerunAndLoss, NeverRolledBack, At
  <2>1. CASE ~lost
    BY <2>1 DEF Saved
  <2>2. CASE lost
    <3>1. NoReruns
      BY <2>2, Bounds DEF NoReruns, Types, TypeOK
    <3>2. PICK h \in Runs \union {NoRun} : InOrder(h)
      BY <3>1 DEF Serial
    <3>3. QED
      BY <3>2 DEF InOrder
  <2>3. QED
    BY <2>1, <2>2
<1>2. QED
  BY <1>1, TypesInit, TypesStep, SavedInit, SavedStep, SerialInit, SerialStep, PTL DEF Spec

(* While nothing goes wrong up to the saving, each run and each rerun of   *)
(* the newest starts exactly where the last one ended.                     *)
THEOREM CalmRunsGoOn == Spec => []CalmRunsContinue
<1>1. Types /\ Continued => CalmRunsContinue
  <2> SUFFICES ASSUME Continued, calm, job.step = "heartbeat"
               PROVE  \A p \in Projects :
                        /\ job.doc[p].failures =
                             IF streak[p] < MaxInt THEN streak[p] ELSE MaxInt
                        /\ p \in told => job.doc[p].pending \/ job.doc[p].notified
    BY DEF CalmRunsContinue, At
  <2>1. Continues(LatestDoc) /\ job.doc = LatestDoc
    BY DEF Continued, At
  <2>2. Continues(job.doc)
    BY <2>1
  <2>3. QED
    BY <2>2 DEF Continues
<1>2. QED
  BY <1>1, TypesInit, TypesStep, ContinuedInit, ContinuedStep, PTL DEF Spec

(* A job that succeeds saw every project healthy, and what it saw is saved *)
(* before, unless something was lost.                                      *)
THEOREM SuccessesAreTruthful == Spec => SuccessIsTruthful
<1>1. ASSUME Types, Truthful, [Next]_vars
      PROVE  [conclusion' = "success" /\ conclusion # "success" =>
                /\ \A p \in Projects : streak[p] = 0
                /\ lost \/ \E i \in 1..Len(cache) :
                             cache[i].key = job.key /\ cache[i].doc = job.doc]_vars
  <2>1. ASSUME conclusion' = "success", conclusion # "success"
        PROVE  Propagate
    <3>1. UNCHANGED conclusion \/ conclusion' = "none" \/ Propagate
      BY <1>1 DEF Next, Trigger, Rerun, Enqueue, Begin, SetupFails, ResolvePredecessor, Restore,
         AcceptOrReset, HeartbeatRefuses, Heartbeat, Save, SaveFails, PrepareResult,
         UploadResult, ResultStep, RunnerLost, Evict, Done, vars
    <3>2. QED
      BY <2>1, <3>1
  <2>2. ASSUME conclusion' = "success", Propagate
        PROVE  job.status = 0 /\ job.step = "propagate"
    BY <2>2 DEF Propagate, At
  <2>3. QED
    BY <1>1, <2>1, <2>2 DEF Truthful, At
<1>2. QED
  BY <1>1, TypesInit, TypesStep, TruthfulInit, TruthfulStep, PTL DEF Spec, SuccessIsTruthful

=============================================================================
