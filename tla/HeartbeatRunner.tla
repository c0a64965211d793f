--------------------------- MODULE HeartbeatRunner ---------------------------
(***************************************************************************)
(* RunAll and Check (internal/heartbeat/runner.go): a main goroutine hands *)
(* project indexes over an unbuffered channel to a pool of workers, each   *)
(* of which checks a project with a retry loop, under a context that may   *)
(* be cancelled.  Time is discrete: waiting for a response or a backoff    *)
(* takes time, everything else none.                                       *)
(***************************************************************************)
EXTENDS RetryPolicy, Classification, FiniteSets

CONSTANT Replies   \* how a request may end

ASSUME RepliesAssumption == Replies \subseteq Reply

VARIABLES
  next,       \* main: the index to hand out next; beyond N, jobs is closed
  returned,   \* main: wg.Wait is over and RunAll has returned
  pc,         \* per worker: "receive", "request", "sleep", "exit"
  job,        \* per worker: the index it checks
  attempts,   \* per worker: attempts of its check
  left,       \* per worker: time until its request or sleep is over
  results,    \* per index
  cancelled,  \* the context
  clock,
  delayed     \* history: some Retry-After exceeded the backoff it replaced

vars == <<next, returned, pc, job, attempts, left, results, cancelled, clock, delayed>>

Workers  == 1..Lesser(Concurrency, N)
Indexes  == 1..N
NoResult == [project |-> 0, status |-> "", attempts |-> 0]
Unchecked == {"credential_rejected", "internal_error"}
Statuses == FinalStatus \union Unchecked

Init ==
  /\ next = 1 /\ returned = FALSE
  /\ pc = [w \in Workers |-> "receive"]
  /\ job = [w \in Workers |-> 0]
  /\ attempts = [w \in Workers |-> 0]
  /\ left = [w \in Workers |-> 0]
  /\ results = [i \in Indexes |-> NoResult]
  /\ cancelled = FALSE /\ clock = 0 /\ delayed = FALSE

-----------------------------------------------------------------------------
(* Check *)

(* Wait for up to d in state label. *)
Wait(w, label, d) ==
  /\ pc' = [pc EXCEPT ![w] = label]
  /\ left' = [left EXCEPT ![w] = d]

(* attempts++ and the request: it ends after at most the timeout. *)
Attempt(w, n) ==
  /\ attempts' = [attempts EXCEPT ![w] = n]
  /\ \E d \in 0..Timeout : Wait(w, "request", d)

(* results[index] = the result; the worker is ready for another index. *)
FinishAtNext(w, status) ==
  /\ results' = [results EXCEPT ![next - 1] =
       [project |-> job[w], status |-> status, attempts |-> attempts[w]]]
  /\ Wait(w, "receive", 0)
  /\ job' = [job EXCEPT ![w] = 0]
  /\ attempts' = [attempts EXCEPT ![w] = 0]
Finish(w, status) ==
  /\ results' = [results EXCEPT ![job[w]] =
       [project |-> job[w], status |-> status, attempts |-> attempts[w]]]
  /\ Wait(w, "receive", 0)
  /\ job' = [job EXCEPT ![w] = 0]
  /\ attempts' = [attempts EXCEPT ![w] = 0]

MayRetryOnceMore(w) == attempts[w] <= Retries + 1
MayRetry(w) == attempts[w] <= Retries

(* The reply's verdict: a final one ends the check, one to retry does so   *)
(* when no attempt is left.  Only a response can carry Retry-After.        *)
Answer(w) ==
  /\ pc[w] = "request" /\ left[w] = 0
  /\ \E reply \in Replies :
       LET verdict == RunnerVerdict(reply, cancelled) IN
       \/ /\ verdict.retry /\ MayRetry(w)
          /\ \E ra \in IF reply.error = NoError THEN RetryAfter ELSE {NoRetryAfter} :
               /\ Wait(w, "sleep", Delay(attempts[w], ra))
               /\ delayed' = (delayed \/ ra > Backoff(attempts[w]))
          /\ UNCHANGED <<job, attempts, results>>
       \/ /\ ~(verdict.retry /\ MayRetry(w))
          /\ Finish(w, verdict.status) /\ UNCHANGED delayed
  /\ UNCHANGED <<next, returned, cancelled, clock>>

(* Waits the cancelled context ends at once. *)
InterruptibleRequest == {"request"}
Interruptible == {"request", "sleep"}

(* Do, or the read of the body, fails with the context's error: a timeout, *)
(* which is retryable like any other.                                      *)
AbortRequest(w) ==
  /\ cancelled /\ pc[w] = "request" /\ "request" \in Interruptible
  /\ \/ /\ MayRetry(w)
        /\ Wait(w, "sleep", Backoff(attempts[w]))
        /\ UNCHANGED <<job, attempts, results>>
     \/ ~MayRetry(w) /\ Finish(w, "timeout")
  /\ UNCHANGED <<next, returned, cancelled, clock, delayed>>

(* sleepContext sees the context first.  When the timer has fired too, the *)
(* select takes either.                                                    *)
AbortSleep(w) ==
  /\ cancelled /\ pc[w] = "sleep" /\ "sleep" \in Interruptible
  /\ Finish(w, "timeout")
  /\ UNCHANGED <<next, returned, cancelled, clock, delayed>>

Wake(w) ==
  /\ pc[w] = "sleep" /\ left[w] = 0
  /\ Attempt(w, attempts[w] + 1)
  /\ UNCHANGED <<next, returned, job, results, cancelled, clock, delayed>>

-----------------------------------------------------------------------------
(* RunAll *)

(* jobs <- index meets a worker's receive; the check sends its first       *)
(* request, or ends at once when the key is not a low-privilege one or no  *)
(* URL can be built for it.                                                *)
Hand(w) ==
  /\ pc[w] = "receive" /\ next <= N
  /\ next' = next + 1
  /\ \/ /\ job' = [job EXCEPT ![w] = next]
        /\ Attempt(w, 1)
        /\ UNCHANGED results
     \/ /\ \E status \in Unchecked :
             results' = [results EXCEPT ![next] =
               [project |-> next, status |-> status, attempts |-> 0]]
        /\ UNCHANGED <<pc, job, attempts, left>>
  /\ UNCHANGED <<returned, cancelled, clock, delayed>>

(* The channel is closed and drained: the worker's range ends. *)
ExitUnclosed(w) ==
  /\ pc[w] = "receive" /\ next > N + 1
  /\ pc' = [pc EXCEPT ![w] = "exit"]
  /\ UNCHANGED <<next, returned, job, attempts, left, results, cancelled, clock, delayed>>
Exit(w) ==
  /\ pc[w] = "receive" /\ next > N
  /\ pc' = [pc EXCEPT ![w] = "exit"]
  /\ UNCHANGED <<next, returned, job, attempts, left, results, cancelled, clock, delayed>>

ReturnEarly ==
  /\ ~returned /\ next > N
  /\ returned' = TRUE
  /\ UNCHANGED <<next, pc, job, attempts, left, results, cancelled, clock, delayed>>
Return ==
  /\ ~returned /\ next > N
  /\ \A w \in Workers : pc[w] = "exit"
  /\ returned' = TRUE
  /\ UNCHANGED <<next, pc, job, attempts, left, results, cancelled, clock, delayed>>

-----------------------------------------------------------------------------
(* The environment *)

Cancel ==
  /\ ~cancelled /\ ~returned
  /\ cancelled' = TRUE
  /\ UNCHANGED <<next, returned, pc, job, attempts, left, results, clock, delayed>>

(* Time passes only while nobody can move. *)
Waiting(w) ==
  /\ pc[w] \in {"request", "sleep"} /\ left[w] > 0
  /\ ~(cancelled /\ pc[w] \in Interruptible)

Tick ==
  /\ \A w \in Workers : Waiting(w) \/ pc[w] = "exit"
  /\ \E w \in Workers : Waiting(w)
  /\ clock' = clock + 1
  /\ left' = [w \in Workers |-> IF Waiting(w) THEN left[w] - 1 ELSE left[w]]
  /\ UNCHANGED <<next, returned, pc, job, attempts, results, cancelled, delayed>>

Returned == returned /\ UNCHANGED vars

Work(w) ==
  Hand(w) \/ Answer(w) \/ AbortRequest(w) \/ AbortSleep(w) \/ Wake(w) \/ Exit(w)

Next == (\E w \in Workers : Work(w)) \/ Return \/ Cancel \/ Tick \/ Returned

Spec == Init /\ [][Next]_vars

(* Goroutines are scheduled; nobody has to cancel.  That time passes, and  *)
(* with it that timers fire, is left to the properties that need it.       *)
Fairness ==
  /\ \A w \in Workers : WF_vars(Work(w))
  /\ WF_vars(Return)

TimersFire == WF_vars(Tick)

-----------------------------------------------------------------------------
(* Properties *)

TypeOK ==
  /\ next \in 1..(N + 1) /\ returned \in BOOLEAN /\ cancelled \in BOOLEAN
  /\ pc \in [Workers -> {"receive", "request", "sleep", "exit"}]
  /\ job \in [Workers -> 0..N]
  /\ attempts \in [Workers -> 0..(Retries + 1)]
  /\ left \in [Workers -> Nat]
  /\ \A i \in Indexes :
       results[i] = NoResult \/ results[i].status \in Statuses
  /\ clock \in Nat /\ delayed \in BOOLEAN

(* RunAll returns a complete result set in the order of its projects,      *)
(* whichever worker finished first and whenever the context was cancelled. *)
ResultsComplete ==
  returned => \A i \in Indexes : results[i].project = i

(* Every project is with one worker, done, or still to be handed out: no   *)
(* two workers ever check, and so write the slot of, the same project.     *)
CheckedOnce ==
  \A i \in Indexes :
    LET holders == {w \in Workers : job[w] = i} IN
    Cardinality(holders) +
      (IF results[i] # NoResult THEN 1 ELSE 0) = IF i < next THEN 1 ELSE 0

(* Once the context is cancelled RunAll returns without the help of a      *)
(* timer: although no response arrives, no timeout expires and no backoff  *)
(* ends any more, every wait is cut short, those of the retries that       *)
(* follow too, and the projects still to be handed out are got over with.  *)
CancelIsPrompt == cancelled ~> returned

(* However slow the servers and whatever Retry-After they send, a run of   *)
(* the pool takes at most its batches times the longest single check.      *)
WithinCappedWorstCase == clock <= CappedWorstCase

(* While no Retry-After is longer than the backoff it replaces, the        *)
(* batches the generators count cover the pool's run, although the pool    *)
(* hands out projects as workers become free.  JobTimeout builds on it.    *)
WithinConfiguredWorstCase == ~delayed => clock <= ConfiguredWorstCase

(* RunAll returns, when timers fire: no worker and no sender waits for     *)
(* ever.                                                                   *)
Terminates == TimersFire => <>returned

=============================================================================
