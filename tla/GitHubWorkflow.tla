---------------------------- MODULE GitHubWorkflow ----------------------------
(***************************************************************************)
(* The generated GitHub workflow with notifications (the template in       *)
(* internal/scheduler/github.go), which carries the notification state     *)
(* from run to run in the Actions cache.  A job resolves the run before    *)
(* it, restores the newest cached state, keeps it only when it was saved   *)
(* by that run, runs sb-heartbeat, saves what changed, prepares and uploads *)
(* a result, and reports the exit status.  A workflow generated without    *)
(* observability behaves as one whose result steps succeed.                *)
(*                                                                         *)
(* The concurrency group admits one job at a time and keeps one waiting; a *)
(* later one replaces the waiting one.  Any run may be run again as a new  *)
(* attempt.  Saves, restores, API calls and whole runners fail, and cache  *)
(* entries are evicted.                                                    *)
(***************************************************************************)
EXTENDS NotificationDocument, Sequences, SequencesExt

CONSTANTS
  Threshold,     \* --notify-after of the generated command
  MaxRuns,       \* bound: runs of the workflow
  MaxAttempts,   \* bound: attempts per run
  MaxOutages     \* bound: no outage begins beyond this episode number

ASSUME WorkflowAssumption ==
  /\ Threshold \in Thresholds
  /\ MaxRuns \in Nat /\ MaxAttempts \in Nat \ {0} /\ MaxOutages \in 0..MaxEpisode

VARIABLES
  attempts,  \* per run number, its attempts so far; 0 before it is created
  waiting,   \* the <<run, attempt>> that waits for the group, or Nobody
  job,       \* the job the group runs
  cache,     \* the entries of this workflow's scope, oldest first
  conclusion, \* of the last job that propagated a status
  streak,    \* per project, the failures jobs observed in a row
  told,      \* projects whose present outage the receiver has accepted
  lost,      \* some state that a job observed was not saved, or evicted
  calm       \* nothing has gone wrong so far

group == <<attempts, waiting>>
facts == <<streak, told>>
vars  == <<group, job, cache, conclusion, facts, lost, calm>>

Runs    == 1..MaxRuns
Keys    == Runs \X (1..MaxAttempts)
Nobody  == <<0, 0>>
NoRun   == 0      \* the empty run id
NoExit  == -1     \* the heartbeat step left no outputs

Entry == [key : Keys, sequence : Runs, doc : Document]

Job ==
  [step     : {"none", "resolve", "restore", "accept", "heartbeat", "save", "observe", "upload",
               "propagate"},
   key      : Keys \union {Nobody},
   expected : Runs \union {NoRun},   \* steps.notification-predecessor
   sequence : Runs \union {NoRun},   \* the run-id file
   doc      : Document,              \* the notifications.json file
   changed  : BOOLEAN,               \* steps.heartbeat.outputs.state_changed
   status   : {NoExit, 0, 1, 2, 3},  \* steps.heartbeat.outputs.status
   failed   : BOOLEAN]               \* some step failed, so the job fails

JobAt(step, key) ==
  [step |-> step, key |-> key, expected |-> NoRun, sequence |-> NoRun,
   doc |-> EmptyDocument, changed |-> FALSE, status |-> NoExit, failed |-> FALSE]
NoJob == JobAt("none", Nobody)

Init ==
  /\ attempts = [r \in Runs |-> 0]
  /\ waiting = Nobody /\ job = NoJob
  /\ cache = << >> /\ conclusion = "none"
  /\ streak = [p \in Projects |-> 0] /\ told = {}
  /\ lost = FALSE /\ calm = TRUE

At(step) == job.step = step
Run      == job.key[1]
Attempt  == job.key[2]

Created == {r \in Runs : attempts[r] > 0}
Newest(r) == r \in Created /\ r + 1 \notin Created

-----------------------------------------------------------------------------
(* The concurrency group *)

(* An attempt is queued; the one that waited until now is cancelled. *)
Enqueue(r) ==
  /\ attempts' = [attempts EXCEPT ![r] = @ + 1]
  /\ waiting' = <<r, attempts[r] + 1>>
  /\ UNCHANGED <<job, cache, conclusion, facts, lost>>

(* schedule or workflow_dispatch; run numbers are consecutive. *)
Trigger(r) ==
  /\ r \notin Created /\ \A q \in 1..(r - 1) : q \in Created
  /\ Enqueue(r)
  /\ calm' = (calm /\ waiting = Nobody)

(* Somebody runs a finished run again, the newest or an older one. *)
Rerun(r) ==
  /\ r \in Created /\ attempts[r] < MaxAttempts
  /\ Run # r /\ waiting[1] # r
  /\ Enqueue(r)
  /\ calm' = (calm /\ waiting = Nobody /\ Newest(r))

Begin ==
  /\ At("none") /\ waiting # Nobody
  /\ job' = JobAt("resolve", waiting)
  /\ waiting' = Nobody /\ conclusion' = "none"
  /\ UNCHANGED <<attempts, cache, facts, lost, calm>>

-----------------------------------------------------------------------------
(* The steps of the job *)

(* Checkout, download or checksum fails; what is not always() is skipped.  *)
SetupFails ==
  /\ At("resolve")
  /\ job' = [job EXCEPT !.step = "observe", !.failed = TRUE]
  /\ calm' = FALSE
  /\ UNCHANGED <<group, cache, conclusion, facts, lost>>

(* The own id in a later attempt, the id of the run numbered before this   *)
(* one in the first; none for the first run, or when an API call fails.    *)
ResolvePredecessor ==
  /\ At("resolve")
  /\ \/ /\ Attempt > 1
        /\ job' = [job EXCEPT !.step = "restore", !.expected = Run]
        /\ UNCHANGED calm
     \/ /\ Attempt = 1
        /\ job' = [job EXCEPT !.step = "restore", !.expected = Run - 1]
        /\ UNCHANGED calm
     \/ /\ Attempt = 1
        /\ job' = [job EXCEPT !.step = "restore", !.expected = NoRun]
        /\ calm' = FALSE
  /\ UNCHANGED <<group, cache, conclusion, facts, lost>>

(* The key of this attempt does not exist yet: restore-keys fall back to   *)
(* the newest entry of the scope.  An error counts as a miss.              *)
Restore ==
  /\ At("restore")
  /\ \/ /\ cache # << >>
        /\ job' = [job EXCEPT !.step = "accept",
                     !.sequence = Last(cache).sequence, !.doc = Last(cache).doc]
        /\ UNCHANGED calm
     \/ /\ job' = [job EXCEPT !.step = "accept"]
        /\ calm' = (calm /\ cache = << >>)
  /\ UNCHANGED <<group, cache, conclusion, facts, lost>>

(* State of any other run is removed. *)
AcceptRestored ==
  /\ At("accept")
  /\ job' = [job EXCEPT !.step = "heartbeat"]
  /\ UNCHANGED <<group, cache, conclusion, facts, lost, calm>>
AcceptOrReset ==
  /\ At("accept")
  /\ job' = [job EXCEPT !.step = "heartbeat",
               !.doc = IF job.sequence = job.expected THEN @ ELSE EmptyDocument]
  /\ UNCHANGED <<group, cache, conclusion, facts, lost, calm>>

(* sb-heartbeat ends before it writes the state: preflight, history,       *)
(* metrics.                                                                *)
HeartbeatRefuses ==
  /\ At("heartbeat")
  /\ \E code \in {2, 3} : job' = [job EXCEPT !.step = "observe", !.status = code]
  /\ calm' = FALSE
  /\ UNCHANGED <<group, cache, conclusion, facts, lost>>

(* sb-heartbeat advances the state, the receiver takes some of the due     *)
(* events and some of these are marked.  The observation time makes the    *)
(* file differ, so that its hash does, and run-id becomes this run's.  The *)
(* shell around it may still fail before it leaves its outputs, or after.  *)
Heartbeat(t, results) ==
  LET next    == Advanced(job.doc, t, results, Threshold)
      healthy == {p \in Projects : results[p] = Healthy}
      due     == {p \in Projects : next[p].pending}
  IN
  /\ At("heartbeat")
  /\ \A p \in Projects :
       Opens(job.doc[p], results[p]) => job.doc[p].episode < MaxOutages
  /\ \E taken \in SUBSET due : \E marked \in SUBSET taken :
       \E outputs, ends \in BOOLEAN :
         /\ ends => outputs
         /\ job' = [job EXCEPT
              !.step = IF outputs THEN "save" ELSE "observe",
              !.sequence = Run,
              !.doc = [p \in Projects |->
                         IF p \in marked THEN Acknowledged(next, p)[p] ELSE next[p]],
              !.changed = outputs, !.failed = ~ends,
              !.status = IF ~outputs THEN NoExit ELSE IF marked # due THEN 3
                         ELSE IF healthy # Projects THEN 1 ELSE 0]
         /\ told' = (told \ healthy) \union taken
         /\ lost' = (lost \/ ~outputs)
         /\ calm' = (calm /\ outputs)
  /\ streak' = [p \in Projects |-> IF p \in healthy THEN 0 ELSE streak[p] + 1]
  /\ UNCHANGED <<group, cache, conclusion>>

(* always(), so also after a failure; an error of the cache service is a   *)
(* warning.                                                                *)
Store(sequence) ==
  cache' = Append(cache, [key |-> job.key, sequence |-> sequence, doc |-> job.doc])
SavePredecessors ==
  /\ At("save")
  /\ Store(job.expected) /\ job' = [job EXCEPT !.step = "observe"]
  /\ UNCHANGED <<group, conclusion, facts, lost, calm>>
SaveFailures ==
  /\ At("save")
  /\ IF job.status = 0 THEN UNCHANGED cache ELSE Store(job.sequence)
  /\ job' = [job EXCEPT !.step = "observe"]
  /\ UNCHANGED <<group, conclusion, facts, lost, calm>>
Save ==
  /\ At("save") /\ job.changed
  /\ Store(job.sequence) /\ job' = [job EXCEPT !.step = "observe"]
  /\ UNCHANGED <<group, conclusion, facts, lost, calm>>

SaveFails ==
  /\ At("save")
  /\ job' = [job EXCEPT !.step = "observe"]
  /\ lost' = TRUE /\ calm' = FALSE
  /\ UNCHANGED <<group, cache, conclusion, facts>>

(* The result is sanitized, then uploaded, whatever happened before; both  *)
(* may fail, and neither touches the state.                                *)
ResultStep(step, then) ==
  /\ At(step)
  /\ \E ends \in BOOLEAN :
       job' = [job EXCEPT !.step = then, !.failed = @ \/ ~ends]
  /\ UNCHANGED <<group, cache, conclusion, facts, lost, calm>>
PrepareResult == ResultStep("observe", "upload")
UploadResult  == ResultStep("upload", "propagate")

(* A status that is missing is an error of its own.  The job succeeds when *)
(* all its steps did.                                                      *)
Propagate ==
  /\ At("propagate")
  /\ conclusion' = IF job.status = 0 /\ ~job.failed THEN "success" ELSE "failure"
  /\ job' = NoJob
  /\ UNCHANGED <<group, cache, facts, lost, calm>>

-----------------------------------------------------------------------------
(* The environment *)

(* The runner is gone, or the job is killed at its timeout. *)
RunnerLost ==
  /\ ~At("none")
  /\ job' = NoJob
  /\ lost' = (lost \/ At("save"))
  /\ calm' = (calm /\ job.step \in {"observe", "upload", "propagate"})
  /\ UNCHANGED <<group, cache, conclusion, facts>>

Evict ==
  /\ \E i \in 1..Len(cache) : cache' = RemoveAt(cache, i)
  /\ lost' = TRUE /\ calm' = FALSE
  /\ UNCHANGED <<group, job, conclusion, facts>>

(* The runs the bound allows are over. *)
Done == At("none") /\ waiting = Nobody /\ Created = Runs /\ UNCHANGED vars

Next ==
  \/ \E r \in Runs : Trigger(r) \/ Rerun(r)
  \/ Begin \/ SetupFails \/ ResolvePredecessor \/ Restore \/ AcceptOrReset
  \/ HeartbeatRefuses
  \/ \E t \in Times, results \in [Projects -> Status] : Heartbeat(t, results)
  \/ Save \/ SaveFails \/ PrepareResult \/ UploadResult \/ Propagate
  \/ RunnerLost \/ Evict \/ Done

Spec == Init /\ [][Next]_vars

-----------------------------------------------------------------------------
(* Properties *)

TypeOK ==
  /\ attempts \in [Runs -> 0..MaxAttempts]
  /\ waiting \in Keys \union {Nobody} /\ job \in Job
  /\ \A i \in 1..Len(cache) : cache[i] \in Entry
  /\ conclusion \in {"none", "success", "failure"}
  /\ streak \in [Projects -> Nat] /\ told \subseteq Projects
  /\ lost \in BOOLEAN /\ calm \in BOOLEAN

(* What a job starts from claims nothing that is not so: no more failures  *)
(* in a row than jobs observed, no alert due below the threshold, and no   *)
(* outage recorded as notified that the receiver was not told of.          *)
Honest(d) ==
  \A p \in Projects :
    /\ d[p].failures <= streak[p]
    /\ d[p].pending => streak[p] >= Threshold
    /\ d[p].notified => p \in told

(* State is continued or reset, never rolled back, as the documentation    *)
(* says: "An older fallback or malformed sequence metadata resets the      *)
(* state instead of rolling it back."                                      *)
NeverRolledBack == At("heartbeat") => Honest(job.doc)

(* The comparison of run ids does keep that promise through cancelled,     *)
(* failed and refused runs, API errors, and reruns in any order, or        *)
(* through lost saves and evictions; only both together break it.          *)
RolledBackOnlyByRerunAndLoss ==
  ~(lost /\ \E r \in Runs : attempts[r] > 1) => NeverRolledBack

(* The comparison is not too strict either: while nothing goes wrong up to *)
(* the saving, each run and each rerun of the newest starts exactly where  *)
(* the last ended, also when the result could not be prepared or uploaded. *)
CalmRunsContinue ==
  calm /\ At("heartbeat") =>
    \A p \in Projects :
      /\ job.doc[p].failures = IF streak[p] < MaxInt THEN streak[p] ELSE MaxInt
      /\ p \in told => job.doc[p].pending \/ job.doc[p].notified

(* An attempt that ends with success saw every project healthy, and what   *)
(* it saw is saved before, unless a save was lost.                         *)
SuccessIsTruthful ==
  [][conclusion' = "success" /\ conclusion # "success" =>
       /\ \A p \in Projects : streak[p] = 0
       /\ lost \/ \E i \in 1..Len(cache) :
                    cache[i].key = job.key /\ cache[i].doc = job.doc]_vars

=============================================================================
