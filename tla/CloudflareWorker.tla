--------------------------- MODULE CloudflareWorker ---------------------------
(***************************************************************************)
(* One scheduled invocation of the generated Cloudflare Worker (the        *)
(* template in internal/scheduler/cloudflare.go): runAll starts            *)
(* asynchronous workers that take the next project from a shared counter,  *)
(* each runs the retry loop of runProject, and scheduled logs one summary  *)
(* when all are done.  JavaScript runs one continuation at a time, so the  *)
(* steps are the stretches between two awaits.  The platform ends an       *)
(* invocation at its wall-time limit.                                      *)
(***************************************************************************)
EXTENDS RetryPolicy, Classification, FiniteSets, Sequences

CONSTANTS
  RuntimeBudget,     \* cloudflareRuntimeBudget, 14 minutes
  PlatformLimit,     \* the scheduled invocation limit, 15 minutes
  FreeVariables,     \* cloudflareFreeVariables, 64: each project has two bindings
  FreeSubrequests,   \* cloudflareFreeSubrequests, 50
  Replies            \* how a request may end

(* The generator refuses every other configuration. *)
WorstCaseRequests == N * (Retries + 1)
Accepted ==
  /\ N * 2 <= FreeVariables
  /\ WorstCaseRequests <= FreeSubrequests
  /\ ConfiguredWorstCase <= RuntimeBudget

ASSUME RepliesAssumption == Replies \subseteq Reply
ASSUME GeneratorAssumption ==
  /\ RuntimeBudget \in Nat /\ PlatformLimit \in Nat
  /\ FreeVariables \in Nat /\ FreeSubrequests \in Nat
  /\ Accepted /\ RuntimeBudget < PlatformLimit

VARIABLES
  next,      \* the shared counter
  pc,        \* per worker: "loop", "request", "sleep", "done"
  job,       \* per worker: its project
  attempt,   \* per worker: the attempt of its loop
  heard,     \* history, per worker: the replies its check has had
  left,      \* per worker: time until its await resolves
  results,
  requests,  \* subrequests made so far
  outcome,   \* "running", then "succeeded", "failed" or "killed"
  clock

vars == <<next, pc, job, attempt, heard, left, results, requests, outcome, clock>>

Workers  == 1..Lesser(Concurrency, N)
Indexes  == 1..N
NoResult == [project |-> 0, status |-> "", attempts |-> 0, heard |-> << >>]

Init ==
  /\ next = 1
  /\ pc = [w \in Workers |-> "loop"]
  /\ job = [w \in Workers |-> 0]
  /\ attempt = [w \in Workers |-> 0]
  /\ heard = [w \in Workers |-> << >>]
  /\ left = [w \in Workers |-> 0]
  /\ results = [i \in Indexes |-> NoResult]
  /\ requests = 0 /\ outcome = "running" /\ clock = 0

-----------------------------------------------------------------------------
Await(w, label, d) ==
  /\ pc' = [pc EXCEPT ![w] = label]
  /\ left' = [left EXCEPT ![w] = d]

Fetch(w, n) ==
  /\ attempt' = [attempt EXCEPT ![w] = n]
  /\ requests' = requests + 1
  /\ \E d \in 0..Timeout : Await(w, "request", d)

Store(w, status, replies) ==
  /\ results' = [results EXCEPT ![job[w]] =
       [project |-> job[w], status |-> status, attempts |-> attempt[w], heard |-> replies]]
  /\ Await(w, "loop", 0)
  /\ job' = [job EXCEPT ![w] = 0]
  /\ attempt' = [attempt EXCEPT ![w] = 0]
  /\ heard' = [heard EXCEPT ![w] = << >>]

(* index = next++ with the check before it in one continuation; bindings   *)
(* that are missing or not low-privilege end the check with no request.    *)
TakeLosingIncrement(w) ==
  /\ outcome = "running" /\ pc[w] = "loop" /\ next <= N
  /\ next' \in {next, next + 1}
  /\ job' = [job EXCEPT ![w] = next]
  /\ Fetch(w, 1)
  /\ UNCHANGED <<heard, results, outcome, clock>>
Take(w) ==
  /\ outcome = "running" /\ pc[w] = "loop" /\ next <= N
  /\ next' = next + 1
  /\ \/ /\ job' = [job EXCEPT ![w] = next]
        /\ Fetch(w, 1)
        /\ UNCHANGED <<heard, results>>
     \/ /\ \E status \in {"missing_input", "credential_rejected"} :
             results' = [results EXCEPT ![next] =
               [project |-> next, status |-> status, attempts |-> 0, heard |-> << >>]]
        /\ UNCHANGED <<pc, job, attempt, heard, left, requests>>
  /\ UNCHANGED <<outcome, clock>>

MayRetryAtLimit(w) == attempt[w] <= Retries + 1
MayRetry(w) == attempt[w] <= Retries

(* A retryable status waits for Retry-After, an exception for the backoff. *)
Answer(w) ==
  /\ outcome = "running" /\ pc[w] = "request" /\ left[w] = 0
  /\ \E reply \in Replies :
       LET verdict == WorkerVerdict(reply) IN
       \/ /\ verdict.retry /\ MayRetry(w)
          /\ \E ra \in IF reply.error = NoError
                    THEN RetryAfterMilliseconds ELSE {NoRetryAfter} :
               Await(w, "sleep", Delay(attempt[w], ra))
          /\ heard' = [heard EXCEPT ![w] = Append(@, reply)]
          /\ UNCHANGED <<job, attempt, results>>
       \/ /\ ~(verdict.retry /\ MayRetry(w))
          /\ Store(w, verdict.status, Append(heard[w], reply))
  /\ UNCHANGED <<next, requests, outcome, clock>>

Wake(w) ==
  /\ outcome = "running" /\ pc[w] = "sleep" /\ left[w] = 0
  /\ Fetch(w, attempt[w] + 1)
  /\ UNCHANGED <<next, job, heard, results, outcome, clock>>

Finish(w) ==
  /\ outcome = "running" /\ pc[w] = "loop" /\ next > N
  /\ pc' = [pc EXCEPT ![w] = "done"]
  /\ UNCHANGED <<next, job, attempt, heard, left, results, requests, outcome, clock>>

(* Promise.all resolves; the summary is logged, and the invocation fails   *)
(* when a project is not healthy.                                          *)
LogFirstDone ==
  /\ outcome = "running" /\ \E w \in Workers : pc[w] = "done"
  /\ outcome' = IF \E i \in Indexes : results[i].status \notin {"", "healthy"}
                  THEN "failed" ELSE "succeeded"
  /\ UNCHANGED <<next, pc, job, attempt, heard, left, results, requests, clock>>
Log ==
  /\ outcome = "running" /\ \A w \in Workers : pc[w] = "done"
  /\ outcome' = IF \E i \in Indexes : results[i].status # "healthy"
                  THEN "failed" ELSE "succeeded"
  /\ UNCHANGED <<next, pc, job, attempt, heard, left, results, requests, clock>>

(* The platform's limit: whatever is unfinished is lost, nothing is logged.*)
Kill ==
  /\ outcome = "running" /\ clock >= PlatformLimit
  /\ outcome' = "killed"
  /\ UNCHANGED <<next, pc, job, attempt, heard, left, results, requests, clock>>

Awaiting(w) == pc[w] \in {"request", "sleep"} /\ left[w] > 0

Tick ==
  /\ outcome = "running" /\ clock < PlatformLimit
  /\ \A w \in Workers : Awaiting(w) \/ pc[w] = "done"
  /\ \E w \in Workers : Awaiting(w)
  /\ clock' = clock + 1
  /\ left' = [w \in Workers |-> IF Awaiting(w) THEN left[w] - 1 ELSE left[w]]
  /\ UNCHANGED <<next, pc, job, attempt, heard, results, requests, outcome>>

Ended == outcome # "running" /\ UNCHANGED vars

Continue(w) == Take(w) \/ Answer(w) \/ Wake(w) \/ Finish(w)

Next == (\E w \in Workers : Continue(w)) \/ Log \/ Kill \/ Tick \/ Ended

Spec == Init /\ [][Next]_vars

-----------------------------------------------------------------------------
(* Properties *)

TypeOK ==
  /\ next \in 1..(N + 1)
  /\ pc \in [Workers -> {"loop", "request", "sleep", "done"}]
  /\ job \in [Workers -> 0..N]
  /\ attempt \in [Workers -> 0..(Retries + 1)]
  /\ heard \in [Workers -> Seq(Replies)]
  /\ left \in [Workers -> Nat]
  /\ requests \in Nat /\ clock \in Nat
  /\ outcome \in {"running", "succeeded", "failed", "killed"}

(* The exit status tells the truth: an invocation that succeeds has        *)
(* checked every project itself and found each of them healthy, one that   *)
(* fails has a result for every project to log.                            *)
SummaryIsComplete ==
  outcome \in {"succeeded", "failed"} =>
    \A i \in Indexes :
      /\ results[i].project = i
      /\ outcome = "succeeded" => results[i].status = "healthy"

(* The shared counter hands every project to one worker, although the      *)
(* workers suspend at each await between reading it and storing a result.  *)
TakenOnce == \A v, w \in Workers : v # w /\ job[v] # 0 => job[v] # job[w]

(* The invocation stays within the plan's subrequests the generator        *)
(* checked, for any answers and any interleaving.                          *)
SubrequestsWithinPlan == requests <= FreeSubrequests

(* What the command line concludes from a reply, up to the statuses the    *)
(* Worker does not have.                                                   *)
Verdict(reply) == Coarsened(RunnerVerdict(reply, FALSE))

Agrees(result) ==
  LET last == result.attempts IN
  /\ Len(result.heard) = last
  /\ \A k \in 1..(last - 1) : Verdict(result.heard[k]).retry
  /\ Verdict(result.heard[last]).retry => last = Retries + 1
  /\ result.status = Verdict(result.heard[last]).status

(* Given the same replies, the command line would have given the same      *)
(* result after the same number of attempts: DNS and TLS failures counted  *)
(* as upstream failures, and an invalid certificate as one to retry, which *)
(* it is to the Worker and not to the command line.                        *)
AgreesWithRunner ==
  \A i \in Indexes : results[i].attempts > 0 => Agrees(results[i])

(* A configuration the generator accepted, its worst-case run within the   *)
(* 14 minutes it allows, is never ended by the platform's 15-minute limit. *)
NeverKilled == outcome # "killed"

=============================================================================
