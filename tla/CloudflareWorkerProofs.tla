------------------------ MODULE CloudflareWorkerProofs ------------------------
(***************************************************************************)
(* The generated Worker and the command line agree: on every reply they    *)
(* are meant to agree on, and therefore on the result of every check, for  *)
(* any number of projects, workers and retries.  Its pool hands out every  *)
(* project once, makes no more requests than the generator planned, and    *)
(* ends with a complete summary, for any replies at all.                   *)
(***************************************************************************)
EXTENDS CloudflareWorker, FiniteSetTheorems, TLAPS

-----------------------------------------------------------------------------
(* Verdicts *)

(* The two tables, of classifyResponse and classifyTransport in the runner *)
(* and of the Worker's template, give one verdict on every canonical reply.*)
THEOREM SameVerdict ==
  ASSUME NEW reply \in Reply, Canonical(reply)
  PROVE  WorkerVerdict(reply) = Coarsened(RunnerVerdict(reply, FALSE))
<1>1. CASE reply.error # NoError
  <2>1. PICK e \in Errors, h \in HttpStatus \union {NoHttp} : reply = Failure(e, h)
    BY <1>1 DEF Reply, Answered, Response
  <2>2. WorkerVerdict(reply) = WorkerFailure(e)
    BY <1>1, <2>1 DEF WorkerVerdict, Failure
  <2>3. RunnerVerdict(reply, FALSE) = RunnerFailure(e, h, FALSE)
    BY <1>1, <2>1 DEF RunnerVerdict, Failure
  <2>4. WorkerFailure(e) = Coarsened(RunnerFailure(e, h, FALSE))
    BY DEF WorkerFailure, RunnerFailure, Coarsened, Transient, Permanent, Errors
  <2>5. QED
    BY <2>2, <2>3, <2>4
<1>2. CASE reply.error = NoError /\ reply.body = "too large"
  BY <1>2 DEF WorkerVerdict, RunnerVerdict, Coarsened, Permanent
<1>3. CASE reply.error = NoError /\ reply.body # "too large"
  <2>a. ASSUME NEW e \in Errors, NEW h \in HttpStatus \union {NoHttp}
        PROVE  reply # Failure(e, h)
    <3>1. Failure(e, h).error = e
      BY DEF Failure
    <3>2. e # NoError
      BY DEF NoError, Errors
    <3>3. QED
      BY <1>3, <3>1, <3>2
  <2>b. reply \in Answered
    BY <2>a DEF Reply
  <2>1. PICK h \in HttpStatus, m \in MediaTypes, b \in Bodies : reply = Response(h, m, b)
    BY <2>b DEF Answered
  <2>2. m # "json, bad parameter"
        /\ b \notin {"null", "other case", "marked", "denied, not UTF-8"}
    <3>1. reply.media = m /\ reply.body = b
      BY <2>1 DEF Response
    <3>2. QED
      BY <1>3, <3>1 DEF Canonical
  <2>3. WorkerText(b) = b /\ WorkerRows(m, b) = RunnerRows(m, b)
    BY <2>2 DEF WorkerText, WorkerRows, RunnerRows, MediaTypes, Bodies
  <2>4. RunnerRows(m, b) \notin {"dns_failure", "tls_failure"}
    BY DEF RunnerRows
  <2>5. WorkerResponse(reply, WorkerText(reply.body)) = RunnerResponse(reply)
    <3>1. reply.media = m /\ reply.body = b
      BY <2>1 DEF Response
    <3>2. b = "denied" <=> b \in {"denied", "denied, not UTF-8"}
      BY <2>2
    <3>3. WorkerResponse(reply, b) = RunnerResponse(reply)
      BY <2>1, <2>3, <3>2 DEF WorkerResponse, RunnerResponse, Response,
         WorkerRetryable, RunnerRetryable
    <3>4. QED
      BY <2>3, <3>1, <3>3
  <2>6. RunnerResponse(reply).status \notin {"dns_failure", "tls_failure"}
    BY <2>1, <2>4 DEF RunnerResponse, Response, Permanent, Transient
  <2>7. QED
    BY <1>3, <2>5, <2>6 DEF WorkerVerdict, RunnerVerdict, Coarsened
<1>4. QED
  BY <1>1, <1>2, <1>3

-----------------------------------------------------------------------------
(* Checks *)

(* The retry loop of a worker: no reply before its first request, one for  *)
(* each attempt but the one it waits for, and each of them to be retried.  *)
Loop(w) ==
  /\ pc[w] \in {"loop", "done"} => Len(heard[w]) = 0
  /\ pc[w] = "request" =>
       attempt[w] \in 1..(Retries + 1) /\ Len(heard[w]) = attempt[w] - 1
  /\ pc[w] = "sleep" => attempt[w] \in 1..Retries /\ Len(heard[w]) = attempt[w]
  /\ \A k \in 1..Len(heard[w]) : Verdict(heard[w][k]).retry

Shape ==
  /\ pc \in [Workers -> {"loop", "request", "sleep", "done"}]
  /\ attempt \in [Workers -> Nat]
  /\ heard \in [Workers -> Seq(Replies)]
  /\ results = [i \in Indexes |-> results[i]]

WorkerInv == Shape /\ (\A w \in Workers : Loop(w)) /\ AgreesWithRunner

(* A canonical reply's verdict, as the Worker's loop uses it. *)
LEMMA VerdictIsWorkers ==
  ASSUME NEW reply \in Replies, Canonical(reply)
  PROVE  WorkerVerdict(reply) = Verdict(reply)
BY SameVerdict, RepliesAssumption DEF Verdict

(* What a worker stores agrees. *)
LEMMA StoredAgrees ==
  ASSUME NEW s \in Seq(Replies), NEW n \in 1..(Retries + 1), Len(s) = n - 1,
         \A k \in 1..Len(s) : Verdict(s[k]).retry,
         NEW reply \in Replies, Canonical(reply),
         WorkerVerdict(reply).retry => n = Retries + 1,
         NEW p
  PROVE  Agrees([project |-> p, status |-> WorkerVerdict(reply).status,
                 attempts |-> n, heard |-> Append(s, reply)])
<1> DEFINE r == [project |-> p, status |-> WorkerVerdict(reply).status,
                 attempts |-> n, heard |-> Append(s, reply)]
<1>1. Len(r.heard) = n /\ r.heard[n] = reply
  OBVIOUS
<1>2. \A k \in 1..(n - 1) : r.heard[k] = s[k]
  OBVIOUS
<1>3. r.attempts = n /\ r.status = WorkerVerdict(reply).status
  OBVIOUS
<1>4. WorkerVerdict(reply) = Verdict(reply)
  BY VerdictIsWorkers
<1> HIDE DEF r
<1>5. Agrees(r)
  BY <1>1, <1>2, <1>3, <1>4 DEF Agrees
<1>6. QED
  BY <1>5 DEF r

LEMMA WorkerInit == Init => WorkerInv
<1> SUFFICES ASSUME Init PROVE WorkerInv
  OBVIOUS
<1>1. Shape
  BY DEF Init, Shape
<1>2. \A w \in Workers : Loop(w)
  BY DEF Init, Loop
<1>3. AgreesWithRunner
  <2>1. NoResult.attempts = 0
    BY DEF NoResult
  <2>2. \A i \in Indexes : results[i] = NoResult
    BY DEF Init
  <2>3. QED
    BY <2>1, <2>2 DEF AgreesWithRunner
<1>4. QED
  BY <1>1, <1>2, <1>3 DEF WorkerInv

LEMMA TakeKeeps ==
  ASSUME WorkerInv, NEW w \in Workers, Take(w) PROVE WorkerInv'
<1> USE DEF WorkerInv
<1>1. CASE Fetch(w, 1) /\ UNCHANGED <<heard, results>>
  <2>1. attempt' = [attempt EXCEPT ![w] = 1] /\ pc' = [pc EXCEPT ![w] = "request"]
    BY <1>1 DEF Fetch, Await
  <2>2. Shape'
    BY <1>1, <2>1 DEF Shape
  <2>3. Loop(w)'
    BY <1>1, <2>1, RetryAssumption DEF Loop, Shape, Take
  <2>4. \A v \in Workers : Loop(v)'
    BY <1>1, <2>1, <2>3 DEF Loop, Shape
  <2>5. AgreesWithRunner'
    BY <1>1 DEF AgreesWithRunner
  <2>6. QED
    BY <2>2, <2>4, <2>5
<1>2. CASE UNCHANGED <<pc, job, attempt, heard, left, requests>>
           /\ \E status \in {"missing_input", "credential_rejected"} :
                results' = [results EXCEPT ![next] =
                  [project |-> next, status |-> status, attempts |-> 0, heard |-> << >>]]
  <2>1. PICK status : results' = [results EXCEPT ![next] =
                  [project |-> next, status |-> status, attempts |-> 0, heard |-> << >>]]
    BY <1>2
  <2>2. Shape'
    BY <1>2, <2>1 DEF Shape
  <2>3. \A v \in Workers : Loop(v)'
    BY <1>2 DEF Loop
  <2>4. \A i \in Indexes : results'[i] = results[i] \/ results'[i].attempts = 0
    BY <2>1 DEF Shape
  <2>5. AgreesWithRunner'
    BY <2>4 DEF AgreesWithRunner
  <2>6. QED
    BY <2>2, <2>3, <2>5
<1>3. QED
  BY <1>1, <1>2 DEF Take

LEMMA AnswerKeeps ==
  ASSUME WorkerInv, NEW w \in Workers, Answer(w),
         \A reply \in Replies : Canonical(reply)
  PROVE  WorkerInv'
<1> USE DEF WorkerInv
<1>1. pc[w] = "request" /\ attempt[w] \in 1..(Retries + 1)
      /\ heard[w] \in Seq(Replies) /\ Len(heard[w]) = attempt[w] - 1
  BY DEF Answer, Loop, Shape
<1>2. PICK reply \in Replies :
        \/ /\ WorkerVerdict(reply).retry /\ MayRetry(w)
           /\ \E ra \in IF reply.error = NoError
                     THEN RetryAfterMilliseconds ELSE {NoRetryAfter} :
                Await(w, "sleep", Delay(attempt[w], ra))
           /\ heard' = [heard EXCEPT ![w] = Append(@, reply)]
           /\ UNCHANGED <<job, attempt, results>>
        \/ /\ ~(WorkerVerdict(reply).retry /\ MayRetry(w))
           /\ Store(w, WorkerVerdict(reply).status, Append(heard[w], reply))
  BY DEF Answer
<1>3. CASE /\ WorkerVerdict(reply).retry /\ MayRetry(w)
           /\ pc' = [pc EXCEPT ![w] = "sleep"]
           /\ heard' = [heard EXCEPT ![w] = Append(@, reply)]
           /\ UNCHANGED <<job, attempt, results>>
  <2>1. Shape'
    BY <1>1, <1>3 DEF Shape
  <2>2. Verdict(reply).retry
    BY <1>3, VerdictIsWorkers
  <2>3. heard'[w] = Append(heard[w], reply) /\ pc'[w] = "sleep" /\ attempt'[w] = attempt[w]
    BY <1>3 DEF Shape
  <2>4. attempt[w] \in 1..Retries
    BY <1>1, <1>3, RetryAssumption DEF MayRetry
  <2>5. /\ Len(heard'[w]) = attempt[w]
        /\ \A k \in 1..Len(heard'[w]) :
             heard'[w][k] = IF k = attempt[w] THEN reply ELSE heard[w][k]
    BY <1>1, <2>3
  <2>6. \A k \in 1..Len(heard'[w]) : Verdict(heard'[w][k]).retry
    BY <1>1, <2>2, <2>5 DEF Loop
  <2>7. Loop(w)'
    BY <2>3, <2>4, <2>5, <2>6 DEF Loop
  <2>8. \A v \in Workers : v # w => Loop(v)'
    BY <1>3 DEF Loop, Shape
  <2>9. AgreesWithRunner'
    BY <1>3 DEF AgreesWithRunner
  <2>10. QED
    BY <2>1, <2>7, <2>8, <2>9
<1>4. CASE /\ ~(WorkerVerdict(reply).retry /\ MayRetry(w))
           /\ Store(w, WorkerVerdict(reply).status, Append(heard[w], reply))
  <2> DEFINE stored == [project |-> job[w], status |-> WorkerVerdict(reply).status,
                        attempts |-> attempt[w], heard |-> Append(heard[w], reply)]
  <2>1. /\ results' = [results EXCEPT ![job[w]] = stored]
        /\ pc' = [pc EXCEPT ![w] = "loop"]
        /\ attempt' = [attempt EXCEPT ![w] = 0]
        /\ heard' = [heard EXCEPT ![w] = << >>]
    BY <1>4 DEF Store, Await
  <2>2. WorkerVerdict(reply).retry => attempt[w] = Retries + 1
    BY <1>1, <1>4, RetryAssumption DEF MayRetry
  <2>3. Agrees(stored)
    BY <1>1, <2>2, StoredAgrees DEF Loop
  <2> HIDE DEF stored
  <2>4. Shape'
    <3>1. << >> \in Seq(Replies)
      OBVIOUS
    <3>2. heard' \in [Workers -> Seq(Replies)]
      BY <2>1, <3>1 DEF Shape
    <3>3. pc' \in [Workers -> {"loop", "request", "sleep", "done"}]
          /\ attempt' \in [Workers -> Nat]
      BY <2>1 DEF Shape
    <3>4. results' = [i \in Indexes |-> results'[i]]
      BY <2>1 DEF Shape
    <3>5. QED
      BY <3>2, <3>3, <3>4 DEF Shape
  <2>5. \A v \in Workers : Loop(v)'
    BY <2>1 DEF Loop, Shape
  <2>6. \A i \in Indexes : results'[i] = results[i] \/ results'[i] = stored
    BY <2>1 DEF Shape
  <2>7. AgreesWithRunner'
    BY <2>3, <2>6 DEF AgreesWithRunner
  <2>8. QED
    BY <2>4, <2>5, <2>7
<1>5. QED
  BY <1>2, <1>3, <1>4 DEF Await

LEMMA WakeKeeps ==
  ASSUME WorkerInv, NEW w \in Workers, Wake(w) PROVE WorkerInv'
<1> USE DEF WorkerInv
<1>1. /\ attempt' = [attempt EXCEPT ![w] = attempt[w] + 1]
      /\ pc' = [pc EXCEPT ![w] = "request"]
      /\ UNCHANGED <<heard, results>>
  BY DEF Wake, Fetch, Await
<1>2. attempt[w] \in 1..Retries /\ Len(heard[w]) = attempt[w]
  BY DEF Wake, Loop
<1>3. Shape'
  BY <1>1, <1>2 DEF Shape
<1>4. Loop(w)'
  <2>1. /\ pc'[w] = "request" /\ attempt'[w] = attempt[w] + 1
        /\ heard'[w] = heard[w]
    BY <1>1 DEF Shape
  <2>2. attempt'[w] \in 1..(Retries + 1) /\ Len(heard'[w]) = attempt'[w] - 1
    BY <1>2, <2>1, RetryAssumption
  <2>3. QED
    BY <2>1, <2>2 DEF Loop
<1>5. \A v \in Workers : v # w => Loop(v)'
  BY <1>1 DEF Loop, Shape
<1>6. AgreesWithRunner'
  BY <1>1 DEF AgreesWithRunner
<1>7. QED
  BY <1>3, <1>4, <1>5, <1>6

LEMMA FinishKeeps ==
  ASSUME WorkerInv, NEW w \in Workers, Finish(w) PROVE WorkerInv'
<1> USE DEF WorkerInv
<1>1. pc[w] = "loop" /\ pc' = [pc EXCEPT ![w] = "done"]
      /\ UNCHANGED <<attempt, heard, results>>
  BY DEF Finish
<1>2. Shape'
  BY <1>1 DEF Shape
<1>3. \A v \in Workers : Loop(v)'
  BY <1>1 DEF Loop, Shape
<1>4. AgreesWithRunner'
  BY <1>1 DEF AgreesWithRunner
<1>5. QED
  BY <1>2, <1>3, <1>4

LEMMA OthersKeep ==
  ASSUME WorkerInv, UNCHANGED <<pc, attempt, heard, results>> PROVE WorkerInv'
BY DEF WorkerInv, Shape, Loop, AgreesWithRunner

(* Given the same replies, the generated Worker and the command line give  *)
(* every project the same result after the same attempts: for any number   *)
(* of projects, workers and retries, and any canonical replies.            *)
THEOREM WorkerAgrees ==
  ASSUME \A reply \in Replies : Canonical(reply)
  PROVE  Spec => []AgreesWithRunner
<1>1. Init => WorkerInv
  BY WorkerInit
<1>2. WorkerInv /\ [Next]_vars => WorkerInv'
  <2> SUFFICES ASSUME WorkerInv, [Next]_vars PROVE WorkerInv'
    OBVIOUS
  <2>1. CASE \E w \in Workers : Continue(w)
    BY <2>1, TakeKeeps, AnswerKeeps, WakeKeeps, FinishKeeps DEF Continue
  <2>2. CASE Log \/ Kill \/ Tick \/ Ended \/ UNCHANGED vars
    <3>1. UNCHANGED <<pc, attempt, heard, results>>
      BY <2>2 DEF Log, Kill, Tick, Ended, vars
    <3>2. QED
      BY <3>1, OthersKeep
  <2>3. QED
    BY <2>1, <2>2 DEF Next
<1>3. WorkerInv => AgreesWithRunner
  BY DEF WorkerInv
<1>4. QED
  BY <1>1, <1>2, <1>3, PTL DEF Spec

-----------------------------------------------------------------------------
(* The pool *)

(* What a worker is at: a project it took and nobody has a result of yet.  *)
Duty(w) ==
  /\ pc[w] \in {"loop", "done"} => job[w] = 0 /\ attempt[w] = 0
  /\ pc[w] \in {"request", "sleep"} => job[w] \in Indexes /\ job[w] < next
  /\ pc[w] = "request" => attempt[w] \in 1..(Retries + 1)
  /\ pc[w] = "sleep" => attempt[w] \in 1..Retries
  /\ pc[w] = "done" => next = N + 1
  /\ job[w] # 0 => results[job[w]] = NoResult

(* Where a project is: not taken, with a worker, or done.                  *)
Slot(i) ==
  /\ results[i].attempts \in 0..(Retries + 1)
  /\ i >= next => results[i] = NoResult
  /\ i < next => results[i].project = i \/ \E w \in Workers : job[w] = i

(* The requests made so far, by project and attempt, among those planned.  *)
Planned == Indexes \X (1..(Retries + 1))
Made ==
  {x \in Planned : \/ x[2] <= results[x[1]].attempts
                   \/ \E w \in Workers : job[w] = x[1] /\ x[2] <= attempt[w]}

PoolInv ==
  /\ TypeOK
  /\ DOMAIN results = Indexes
  /\ \A w \in Workers : Duty(w)
  /\ TakenOnce
  /\ \A i \in Indexes : Slot(i)
  /\ requests = Cardinality(Made)
  /\ SummaryIsComplete

LEMMA NoAttempts == NoResult.attempts = 0
BY DEF NoResult

LEMMA SomeWorker == 1 \in Workers
BY RetryAssumption DEF Workers, Lesser

(* Every delay is a duration. *)
LEMMA DelayType ==
  ASSUME NEW a \in 1..Retries, NEW ra \in RetryAfterMilliseconds
  PROVE  Delay(a, ra) \in Nat
<1>1. Doublings[a] \in Nat
  BY RetryAssumption DEF Doublings
<1>2. RetryBackoff * Doublings[a] \in Nat
  BY <1>1, RetryAssumption
<1>3. Backoff(a) \in Nat
  BY <1>2, RetryAssumption DEF Backoff, Lesser
<1>4. ra = NoRetryAfter \/ ra \in Nat
  BY RetryAssumption DEF RetryAfterMilliseconds, RetryAfter
<1>5. QED
  BY <1>3, <1>4 DEF Delay

LEMMA PlannedFinite ==
  IsFiniteSet(Planned) /\ Cardinality(Planned) = WorstCaseRequests
<1>1. IsFiniteSet(Indexes) /\ Cardinality(Indexes) = N
  BY FS_Interval, RetryAssumption DEF Indexes
<1>2. /\ IsFiniteSet(1..(Retries + 1))
      /\ Cardinality(1..(Retries + 1)) = Retries + 1
  BY FS_Interval, RetryAssumption
<1>3. QED
  BY <1>1, <1>2, FS_Product DEF Planned, WorstCaseRequests

(* One request more than those made is one more to count.                  *)
LEMMA OneMoreRequest ==
  ASSUME NEW x, x \notin Made
  PROVE  Cardinality(Made \union {x}) = Cardinality(Made) + 1
<1>1. IsFiniteSet(Made)
  <2>1. Made \subseteq Planned
    BY DEF Made
  <2>2. QED
    BY <2>1, PlannedFinite, FS_Subset
<1>2. QED
  BY <1>1, FS_AddElement

LEMMA PoolInit == Init => PoolInv
<1> SUFFICES ASSUME Init PROVE PoolInv
  OBVIOUS
<1>1. TypeOK
  <2>1. << >> \in Seq(Replies)
    OBVIOUS
  <2>2. QED
    BY <2>1, RetryAssumption DEF Init, TypeOK
<1>2. DOMAIN results = Indexes /\ \A i \in Indexes : results[i] = NoResult
  BY DEF Init
<1>3. \A w \in Workers : Duty(w)
  BY DEF Init, Duty
<1>4. TakenOnce
  BY DEF Init, TakenOnce
<1>5. \A i \in Indexes : Slot(i)
  BY <1>2, NoAttempts, RetryAssumption DEF Init, Slot, Indexes
<1>6. requests = Cardinality(Made)
  <2>1. ASSUME NEW x \in Made PROVE FALSE
    <3>1. x[1] \in Indexes /\ x[2] \in 1..(Retries + 1)
      BY <2>1 DEF Made, Planned
    <3>2. results[x[1]].attempts = 0
      BY <1>2, <3>1, NoAttempts
    <3>3. PICK w \in Workers : job[w] = x[1]
      BY <2>1, <3>1, <3>2 DEF Made
    <3>4. QED
      BY <3>1, <3>3 DEF Init, Indexes
  <2>2. Made = {}
    BY <2>1
  <2>3. QED
    BY <2>2, FS_EmptySet DEF Init
<1>7. SummaryIsComplete
  BY DEF Init, SummaryIsComplete
<1>8. QED
  BY <1>1, <1>2, <1>3, <1>4, <1>5, <1>6, <1>7 DEF PoolInv

(* A worker takes the next project and sends its first request.            *)
LEMMA TakeRequests ==
  ASSUME PoolInv, NEW w \in Workers, Take(w),
         job' = [job EXCEPT ![w] = next], Fetch(w, 1), UNCHANGED <<heard, results>>
  PROVE  PoolInv'
<1> USE DEF PoolInv
<1>1. /\ pc[w] = "loop" /\ next \in Indexes /\ next' = next + 1
      /\ outcome = "running" /\ UNCHANGED <<outcome, clock>>
  BY DEF Take, TypeOK, Indexes
<1>2. PICK d \in 0..Timeout :
        /\ pc' = [pc EXCEPT ![w] = "request"] /\ left' = [left EXCEPT ![w] = d]
  BY DEF Fetch, Await
<1>3. attempt' = [attempt EXCEPT ![w] = 1] /\ requests' = requests + 1
  BY DEF Fetch
<1>4. \A v \in Workers : job[v] < next
  BY RetryAssumption, SomeWorker DEF Duty, TypeOK, Indexes
<1>5. results[next] = NoResult /\ results[next].attempts = 0
  BY <1>1, NoAttempts DEF Slot, Indexes
<1>6. TypeOK'
  <2>1. next' \in 1..(N + 1)
    BY <1>1, RetryAssumption DEF Indexes
  <2>2. pc' \in [Workers -> {"loop", "request", "sleep", "done"}]
    BY <1>2 DEF TypeOK
  <2>3. job' \in [Workers -> 0..N] /\ attempt' \in [Workers -> 0..(Retries + 1)]
    BY <1>1, <1>3, RetryAssumption DEF TypeOK, Indexes
  <2>4. left' \in [Workers -> Nat]
    BY <1>2, RetryAssumption DEF TypeOK
  <2>5. QED
    BY <1>1, <1>3, <2>1, <2>2, <2>3, <2>4 DEF TypeOK
<1>7. Duty(w)'
  BY <1>1, <1>2, <1>3, <1>5, RetryAssumption DEF Duty, TypeOK, Indexes
<1>8. ASSUME NEW v \in Workers, v # w PROVE Duty(v)'
  <2>1. /\ pc'[v] = pc[v] /\ job'[v] = job[v] /\ attempt'[v] = attempt[v]
        /\ results' = results
    BY <1>2, <1>3, <1>8 DEF TypeOK
  <2>2. pc[v] # "done"
    BY <1>1, RetryAssumption DEF Duty, Indexes
  <2>3. QED
    BY <1>1, <1>4, <2>1, <2>2 DEF Duty, TypeOK, Indexes
<1>9. TakenOnce'
  BY <1>4 DEF TakenOnce, TypeOK
<1>10. ASSUME NEW i \in Indexes PROVE Slot(i)'
  <2>1. CASE i = next
    <3>1. job'[w] = i
      BY <2>1 DEF TypeOK
    <3>2. QED
      BY <1>1, <1>5, <2>1, <3>1, RetryAssumption DEF Slot, Indexes
  <2>2. CASE i # next
    <3>1. results'[i] = results[i] /\ (i < next' <=> i < next)
      BY <1>1, <2>2 DEF Indexes
    <3>2. \A v \in Workers : job[v] = i => job'[v] = i
      BY <1>1, RetryAssumption DEF Duty, TypeOK, Indexes
    <3>3. QED
      BY <1>1, <2>2, <3>1, <3>2 DEF Slot, Indexes
  <2>3. QED
    BY <2>1, <2>2
<1>11. requests' = Cardinality(Made')
  <2>1. <<next, 1>> \notin Made
    <3>1. ~(1 <= results[next].attempts)
      BY <1>5
    <3>2. \A v \in Workers : job[v] # next
      BY <1>1, <1>4 DEF TypeOK, Indexes
    <3>3. QED
      BY <3>1, <3>2 DEF Made
  <2>2. ASSUME NEW x \in Planned PROVE x \in Made' <=> x \in Made \union {<<next, 1>>}
    <3>1. x[1] \in Indexes /\ x[2] \in 1..(Retries + 1) /\ x = <<x[1], x[2]>>
      BY <2>2 DEF Planned
    <3>2. job'[w] = next /\ attempt'[w] = 1 /\ job[w] = 0
      BY <1>1, <1>3 DEF TypeOK, Duty
    <3>3. \A v \in Workers : v # w => job'[v] = job[v] /\ attempt'[v] = attempt[v]
      BY <1>3 DEF TypeOK
    <3>4. (\E v \in Workers : job'[v] = x[1] /\ x[2] <= attempt'[v])
          <=> \/ \E v \in Workers : job[v] = x[1] /\ x[2] <= attempt[v]
              \/ x[1] = next /\ x[2] = 1
      BY <3>1, <3>2, <3>3 DEF Indexes
    <3>5. x \in Made' <=> \/ x[2] <= results[x[1]].attempts
                          \/ \E v \in Workers : job'[v] = x[1] /\ x[2] <= attempt'[v]
      BY <2>2 DEF Made, Planned, Indexes, Workers
    <3>6. QED
      BY <2>2, <3>1, <3>4, <3>5 DEF Made
  <2>3. <<next, 1>> \in Planned
    BY <1>1, RetryAssumption DEF Planned
  <2>4. Made' = Made \union {<<next, 1>>}
    BY <2>2, <2>3 DEF Made, Planned, Indexes
  <2>5. QED
    BY <1>3, <2>1, <2>4, OneMoreRequest
<1>12. SummaryIsComplete'
  BY <1>1 DEF SummaryIsComplete
<1>13. QED
  BY <1>6, <1>7, <1>8, <1>9, <1>10, <1>11, <1>12 DEF Workers, Indexes

(* A project whose bindings are unusable has a result without a request.   *)
LEMMA TakeRefuses ==
  ASSUME PoolInv, NEW w \in Workers, Take(w), NEW status,
         results' = [results EXCEPT ![next] =
           [project |-> next, status |-> status, attempts |-> 0, heard |-> << >>]],
         UNCHANGED <<pc, job, attempt, heard, left, requests>>
  PROVE  PoolInv'
<1> USE DEF PoolInv
<1>1. /\ pc[w] = "loop" /\ next \in Indexes /\ next' = next + 1
      /\ outcome = "running" /\ UNCHANGED <<outcome, clock>>
  BY DEF Take, TypeOK, Indexes
<1>2. \A v \in Workers : job[v] < next
  BY RetryAssumption, SomeWorker DEF Duty, TypeOK, Indexes
<1>3. /\ results'[next].project = next /\ results'[next].attempts = 0
      /\ \A i \in Indexes \ {next} : results'[i] = results[i]
  BY <1>1
<1>4. results[next].attempts = 0
  BY <1>1, NoAttempts DEF Slot, Indexes
<1>5. TypeOK'
  BY <1>1, RetryAssumption DEF TypeOK, Indexes
<1>6. ASSUME NEW v \in Workers PROVE Duty(v)'
  <2>1. pc[v] # "done"
    BY <1>1, RetryAssumption DEF Duty, Indexes
  <2>2. job[v] # 0 => results'[job[v]] = results[job[v]]
    BY <1>1, <1>2, <1>3, RetryAssumption DEF TypeOK, Indexes
  <2>3. QED
    BY <1>1, <1>2, <2>1, <2>2 DEF Duty, TypeOK, Indexes
<1>7. TakenOnce'
  BY DEF TakenOnce
<1>8. ASSUME NEW i \in Indexes PROVE Slot(i)'
  <2>1. CASE i = next
    BY <1>1, <1>3, <2>1, RetryAssumption DEF Slot, Indexes
  <2>2. CASE i # next
    <3>1. results'[i] = results[i] /\ (i < next' <=> i < next)
      BY <1>1, <1>3, <2>2 DEF Indexes
    <3>2. QED
      BY <1>1, <2>2, <3>1 DEF Slot, Indexes
  <2>3. QED
    BY <2>1, <2>2
<1>9. requests' = Cardinality(Made')
  <2>1. \A i \in Indexes : results'[i].attempts = results[i].attempts
    BY <1>3, <1>4
  <2>2. Made' = Made
    BY <2>1 DEF Made, Planned, Indexes, Workers
  <2>3. QED
    BY <2>2
<1>10. SummaryIsComplete'
  BY <1>1 DEF SummaryIsComplete
<1>11. QED
  BY <1>1, <1>5, <1>6, <1>7, <1>8, <1>9, <1>10 DEF Workers, Indexes

(* A reply to retry: the request is counted already.                       *)
LEMMA AnswerRetries ==
  ASSUME PoolInv, NEW w \in Workers, Answer(w), MayRetry(w), NEW reply \in Replies,
         NEW ra \in RetryAfterMilliseconds, Await(w, "sleep", Delay(attempt[w], ra)),
         heard' = [heard EXCEPT ![w] = Append(@, reply)],
         UNCHANGED <<job, attempt, results>>
  PROVE  PoolInv'
<1> USE DEF PoolInv
<1>1. /\ pc[w] = "request" /\ outcome = "running"
      /\ UNCHANGED <<next, requests, outcome, clock>>
  BY DEF Answer
<1>2. attempt[w] \in 1..Retries
  BY <1>1, RetryAssumption DEF Duty, MayRetry
<1>3. /\ pc' = [pc EXCEPT ![w] = "sleep"]
      /\ left' = [left EXCEPT ![w] = Delay(attempt[w], ra)]
  BY DEF Await
<1>4. TypeOK'
  <2>1. Delay(attempt[w], ra) \in Nat
    BY <1>2, DelayType
  <2>2. heard' \in [Workers -> Seq(Replies)]
    BY DEF TypeOK
  <2>3. pc' \in [Workers -> {"loop", "request", "sleep", "done"}]
    BY <1>3 DEF TypeOK
  <2>4. left' \in [Workers -> Nat]
    BY <1>3, <2>1 DEF TypeOK
  <2>5. QED
    BY <1>1, <2>2, <2>3, <2>4 DEF TypeOK
<1>5. Duty(w)'
  BY <1>1, <1>2, <1>3 DEF Duty, TypeOK
<1>6. ASSUME NEW v \in Workers, v # w PROVE Duty(v)'
  BY <1>1, <1>3, <1>6 DEF Duty, TypeOK
<1>7. (\A i \in Indexes : Slot(i)') /\ Made' = Made /\ TakenOnce' /\ SummaryIsComplete'
  BY <1>1 DEF Slot, Made, Planned, Indexes, Workers, TakenOnce, SummaryIsComplete
<1>8. QED
  BY <1>1, <1>4, <1>5, <1>6, <1>7 DEF Workers, Indexes

(* A check ends: its attempts move from the worker to the result.          *)
LEMMA AnswerStores ==
  ASSUME PoolInv, NEW w \in Workers, Answer(w), NEW status, NEW replies,
         Store(w, status, replies)
  PROVE  PoolInv'
<1> USE DEF PoolInv
<1> DEFINE i == job[w]
<1>1. /\ pc[w] = "request" /\ outcome = "running"
      /\ UNCHANGED <<next, requests, outcome, clock>>
  BY DEF Answer
<1>2. /\ i \in Indexes /\ i < next /\ results[i] = NoResult /\ results[i].attempts = 0
      /\ attempt[w] \in 1..(Retries + 1)
  BY <1>1, NoAttempts DEF Duty, TypeOK, Indexes
<1>3. \A v \in Workers \ {w} : job[v] # i
  BY <1>2 DEF TakenOnce, TypeOK, Indexes
<1>4. /\ results' = [results EXCEPT ![i] = [project |-> i, status |-> status,
                       attempts |-> attempt[w], heard |-> replies]]
      /\ pc' = [pc EXCEPT ![w] = "loop"] /\ left' = [left EXCEPT ![w] = 0]
      /\ job' = [job EXCEPT ![w] = 0] /\ attempt' = [attempt EXCEPT ![w] = 0]
      /\ heard' = [heard EXCEPT ![w] = << >>]
  BY DEF Store, Await
<1>5. /\ results'[i].project = i /\ results'[i].attempts = attempt[w]
      /\ \A j \in Indexes \ {i} : results'[j] = results[j]
  BY <1>2, <1>4
<1>6. /\ job'[w] = 0 /\ attempt'[w] = 0 /\ pc'[w] = "loop"
      /\ \A v \in Workers \ {w} :
           job'[v] = job[v] /\ attempt'[v] = attempt[v] /\ pc'[v] = pc[v]
  BY <1>4 DEF TypeOK
<1>7. TypeOK'
  <2>1. << >> \in Seq(Replies)
    OBVIOUS
  <2>2. heard' \in [Workers -> Seq(Replies)]
    BY <1>4, <2>1 DEF TypeOK
  <2>3. job' \in [Workers -> 0..N] /\ attempt' \in [Workers -> 0..(Retries + 1)]
    BY <1>4, RetryAssumption DEF TypeOK
  <2>4. pc' \in [Workers -> {"loop", "request", "sleep", "done"}]
        /\ left' \in [Workers -> Nat]
    BY <1>4 DEF TypeOK
  <2>5. QED
    BY <1>1, <2>2, <2>3, <2>4 DEF TypeOK
<1> HIDE DEF i
<1>8. Duty(w)'
  BY <1>6 DEF Duty
<1>9. ASSUME NEW v \in Workers \ {w} PROVE Duty(v)'
  <2>1. job[v] # 0 => results'[job[v]] = results[job[v]]
    BY <1>3, <1>5 DEF TypeOK, Indexes
  <2>2. QED
    BY <1>1, <1>6, <2>1 DEF Duty
<1>10. TakenOnce'
  BY <1>6 DEF TakenOnce
<1>11. ASSUME NEW j \in Indexes PROVE Slot(j)'
  <2>1. CASE j = i
    BY <1>1, <1>2, <1>5, <2>1, RetryAssumption DEF Slot, TypeOK, Indexes
  <2>2. CASE j # i
    <3>1. results'[j] = results[j]
      BY <1>5, <2>2
    <3>2. \A v \in Workers : job[v] = j => job'[v] = j
      BY <1>6, <2>2 DEF i
    <3>3. QED
      BY <1>1, <3>1, <3>2 DEF Slot
  <2>3. QED
    BY <2>1, <2>2
<1>12. Made' = Made
  <2>1. ASSUME NEW x \in Planned
        PROVE  (\/ x[2] <= results'[x[1]].attempts
                \/ \E v \in Workers : job'[v] = x[1] /\ x[2] <= attempt'[v])
               <=> \/ x[2] <= results[x[1]].attempts
                   \/ \E v \in Workers : job[v] = x[1] /\ x[2] <= attempt[v]
    <3>1. x[1] \in Indexes /\ x[2] \in 1..(Retries + 1)
      BY DEF Planned
    <3>2. job'[w] # x[1]
      BY <1>6, <3>1 DEF Indexes
    <3>3. CASE x[1] = i
      <4>1. \A v \in Workers : job'[v] # x[1]
        BY <1>3, <1>6, <3>2, <3>3
      <4>2. x[2] <= results'[x[1]].attempts <=> x[2] <= attempt[w]
        BY <1>5, <3>3
      <4>3. ~(x[2] <= results[x[1]].attempts)
        BY <1>2, <3>1, <3>3
      <4>4. (\E v \in Workers : job[v] = x[1] /\ x[2] <= attempt[v]) <=> x[2] <= attempt[w]
        BY <1>3, <3>3 DEF i
      <4>5. QED
        BY <4>1, <4>2, <4>3, <4>4
    <3>4. CASE x[1] # i
      <4>1. results'[x[1]] = results[x[1]]
        BY <1>5, <3>1, <3>4
      <4>2. job[w] # x[1]
        BY <3>4 DEF i
      <4>3. QED
        BY <1>6, <3>2, <4>1, <4>2
    <3>5. QED
      BY <3>3, <3>4
  <2>2. QED
    BY <2>1 DEF Made, Planned, Indexes, Workers
<1>13. SummaryIsComplete'
  BY <1>1 DEF SummaryIsComplete
<1>14. QED
  BY <1>1, <1>4, <1>7, <1>8, <1>9, <1>10, <1>11, <1>12, <1>13 DEF Workers, Indexes

(* A retry: one more request for the project the worker has.               *)
LEMMA WakeRequests ==
  ASSUME PoolInv, NEW w \in Workers, Wake(w)
  PROVE  PoolInv'
<1> USE DEF PoolInv
<1> DEFINE i == job[w]
           n == attempt[w] + 1
<1>1. /\ pc[w] = "sleep" /\ outcome = "running"
      /\ UNCHANGED <<next, job, heard, results, outcome, clock>>
  BY DEF Wake
<1>2. i \in Indexes /\ i < next /\ results[i] = NoResult /\ attempt[w] \in 1..Retries
  BY <1>1 DEF Duty, TypeOK, Indexes
<1>3. n \in 1..(Retries + 1)
  BY <1>2, RetryAssumption
<1>4. /\ attempt' = [attempt EXCEPT ![w] = n] /\ requests' = requests + 1
      /\ pc' = [pc EXCEPT ![w] = "request"]
  BY DEF Wake, Fetch, Await
<1>5. PICK d \in 0..Timeout : left' = [left EXCEPT ![w] = d]
  BY DEF Wake, Fetch, Await
<1>6. /\ attempt'[w] = n /\ pc'[w] = "request"
      /\ \A v \in Workers \ {w} : attempt'[v] = attempt[v] /\ pc'[v] = pc[v]
  BY <1>4 DEF TypeOK
<1>7. TypeOK'
  <2>1. attempt' \in [Workers -> 0..(Retries + 1)] /\ requests' \in Nat
    BY <1>3, <1>4, RetryAssumption DEF TypeOK
  <2>2. pc' \in [Workers -> {"loop", "request", "sleep", "done"}]
    BY <1>4 DEF TypeOK
  <2>3. left' \in [Workers -> Nat]
    BY <1>5, RetryAssumption DEF TypeOK
  <2>4. QED
    BY <1>1, <2>1, <2>2, <2>3 DEF TypeOK
<1> HIDE DEF n
<1>8. Duty(w)'
  BY <1>1, <1>3, <1>6 DEF Duty
<1>9. ASSUME NEW v \in Workers \ {w} PROVE Duty(v)'
  BY <1>1, <1>6 DEF Duty
<1>10. /\ TakenOnce' /\ SummaryIsComplete' /\ \A j \in Indexes : Slot(j)'
  BY <1>1 DEF TakenOnce, SummaryIsComplete, Slot
<1>11. requests' = Cardinality(Made')
  <2>1. <<i, n>> \notin Made
    <3>1. ~(n <= results[i].attempts)
      BY <1>2, <1>3, NoAttempts
    <3>2. \A v \in Workers : job[v] = i => v = w
      BY <1>2 DEF TakenOnce, TypeOK, Indexes
    <3>3. ~(n <= attempt[w])
      BY <1>2 DEF n
    <3>4. QED
      BY <3>1, <3>2, <3>3 DEF Made
  <2>2. <<i, n>> \in Planned
    BY <1>2, <1>3 DEF Planned
  <2>3. ASSUME NEW x \in Planned PROVE x \in Made' <=> x \in Made \union {<<i, n>>}
    <3>1. x[1] \in Indexes /\ x[2] \in 1..(Retries + 1) /\ x = <<x[1], x[2]>>
      BY <2>3 DEF Planned
    <3>2. x[2] <= attempt'[w] <=> x[2] <= attempt[w] \/ x[2] = n
      BY <1>2, <1>6, <3>1 DEF n
    <3>3. (\E v \in Workers : job'[v] = x[1] /\ x[2] <= attempt'[v])
          <=> \/ \E v \in Workers : job[v] = x[1] /\ x[2] <= attempt[v]
              \/ x[1] = i /\ x[2] = n
      BY <1>1, <1>6, <3>2 DEF i
    <3>4. x \in Made' <=> \/ x[2] <= results[x[1]].attempts
                          \/ \E v \in Workers : job'[v] = x[1] /\ x[2] <= attempt'[v]
      BY <1>1, <2>3 DEF Made, Planned, Indexes, Workers
    <3>5. QED
      BY <2>3, <3>1, <3>3, <3>4 DEF Made
  <2>4. Made' = Made \union {<<i, n>>}
    BY <2>2, <2>3 DEF Made, Planned, Indexes
  <2>5. QED
    BY <1>4, <2>1, <2>4, OneMoreRequest
<1>12. QED
  BY <1>1, <1>7, <1>8, <1>9, <1>10, <1>11 DEF Workers, Indexes

LEMMA FinishKeepsPool ==
  ASSUME PoolInv, NEW w \in Workers, Finish(w)
  PROVE  PoolInv'
<1> USE DEF PoolInv
<1>1. /\ pc[w] = "loop" /\ next > N /\ pc' = [pc EXCEPT ![w] = "done"]
      /\ UNCHANGED <<next, job, attempt, heard, left, results, requests, outcome, clock>>
  BY DEF Finish
<1>2. TypeOK'
  BY <1>1 DEF TypeOK
<1>3. next = N + 1
  BY <1>1, RetryAssumption DEF TypeOK
<1>4. \A v \in Workers : Duty(v)'
  BY <1>1, <1>3 DEF Duty, TypeOK
<1>5. /\ (\A i \in Indexes : Slot(i)') /\ Made' = Made /\ TakenOnce' /\ SummaryIsComplete'
  BY <1>1 DEF Slot, Made, Planned, Indexes, Workers, TakenOnce, SummaryIsComplete
<1>6. QED
  BY <1>1, <1>2, <1>4, <1>5 DEF Workers, Indexes

(* When all workers are done every project has a result of its own.        *)
LEMMA LogKeepsPool ==
  ASSUME PoolInv, Log
  PROVE  PoolInv'
<1> USE DEF PoolInv
<1>1. /\ \A w \in Workers : pc[w] = "done"
      /\ outcome' = IF \E i \in Indexes : results[i].status # "healthy"
                      THEN "failed" ELSE "succeeded"
      /\ UNCHANGED <<next, pc, job, attempt, heard, left, results, requests, clock>>
  BY DEF Log
<1>2. next = N + 1 /\ \A w \in Workers : job[w] = 0
  BY <1>1, SomeWorker DEF Duty
<1>3. \A i \in Indexes : results[i].project = i
  BY <1>2, RetryAssumption DEF Slot, Indexes
<1>4. SummaryIsComplete'
  BY <1>1, <1>3 DEF SummaryIsComplete, Indexes
<1>5. TypeOK'
  BY <1>1 DEF TypeOK
<1>6. /\ (\A w \in Workers : Duty(w)') /\ (\A i \in Indexes : Slot(i)')
      /\ Made' = Made /\ TakenOnce'
  BY <1>1 DEF Duty, Slot, Made, Planned, Indexes, Workers, TakenOnce
<1>7. QED
  BY <1>1, <1>4, <1>5, <1>6 DEF Workers, Indexes

(* The platform's limit, the passing of time, and stuttering.              *)
LEMMA TimeKeepsPool ==
  ASSUME PoolInv, Kill \/ Tick \/ UNCHANGED vars
  PROVE  PoolInv'
<1> USE DEF PoolInv
<1>1. UNCHANGED <<next, pc, job, attempt, heard, results, requests>>
  BY DEF Kill, Tick, vars
<1>2. /\ (\A w \in Workers : Duty(w)') /\ (\A i \in Indexes : Slot(i)')
      /\ Made' = Made /\ TakenOnce'
  BY <1>1 DEF Duty, Slot, Made, Planned, Indexes, Workers, TakenOnce
<1>3. TypeOK'
  <2>1. CASE Tick
    <3>1. \A w \in Workers : Awaiting(w) => left[w] - 1 \in Nat
      BY DEF Awaiting, TypeOK
    <3>2. left' \in [Workers -> Nat] /\ clock' \in Nat /\ outcome' = outcome
      BY <2>1, <3>1 DEF Tick, TypeOK
    <3>3. QED
      BY <1>1, <3>2 DEF TypeOK
  <2>2. CASE Kill
    BY <1>1, <2>2 DEF Kill, TypeOK
  <2>3. CASE UNCHANGED vars
    BY <2>3 DEF vars, TypeOK
  <2>4. QED
    BY <2>1, <2>2, <2>3
<1>4. SummaryIsComplete'
  BY <1>1 DEF Kill, Tick, vars, SummaryIsComplete
<1>5. QED
  BY <1>1, <1>2, <1>3, <1>4 DEF Workers, Indexes

LEMMA PoolStep == PoolInv /\ [Next]_vars => PoolInv'
<1> SUFFICES ASSUME PoolInv, [Next]_vars PROVE PoolInv'
  OBVIOUS
<1>1. ASSUME NEW w \in Workers, Take(w) PROVE PoolInv'
  BY <1>1, TakeRequests, TakeRefuses DEF Take
<1>2. ASSUME NEW w \in Workers, Answer(w) PROVE PoolInv'
  <2>1. \A reply \in Replies :
          (IF reply.error = NoError THEN RetryAfterMilliseconds ELSE {NoRetryAfter})
            \subseteq RetryAfterMilliseconds
    BY DEF RetryAfterMilliseconds, RetryAfter
  <2>2. QED
    BY <1>2, <2>1, AnswerRetries, AnswerStores DEF Answer
<1>3. ASSUME NEW w \in Workers, Wake(w) \/ Finish(w) PROVE PoolInv'
  BY <1>3, WakeRequests, FinishKeepsPool
<1>4. CASE Log
  BY <1>4, LogKeepsPool
<1>5. CASE Kill \/ Tick \/ Ended \/ UNCHANGED vars
  BY <1>5, TimeKeepsPool DEF Ended
<1>6. QED
  BY <1>1, <1>2, <1>3, <1>4, <1>5 DEF Next, Continue

(* The counter, the workers' program counters and their durations keep     *)
(* their ranges.                                                           *)
THEOREM WorkerTypeCorrect == Spec => []TypeOK
<1>1. PoolInv => TypeOK
  BY DEF PoolInv
<1>2. QED
  BY <1>1, PoolInit, PoolStep, PTL DEF Spec

(* The shared counter hands every project to one worker, however the       *)
(* workers' continuations interleave: no two workers ever store a result   *)
(* for the same project.                                                   *)
THEOREM ProjectsTakenOnce == Spec => []TakenOnce
<1>1. PoolInv => TakenOnce
  BY DEF PoolInv
<1>2. QED
  BY <1>1, PoolInit, PoolStep, PTL DEF Spec

(* The invocation's exit status tells the truth: Promise.all resolves only *)
(* when each project has a result that some worker stored for it.          *)
THEOREM SummaryAlwaysComplete == Spec => []SummaryIsComplete
<1>1. PoolInv => SummaryIsComplete
  BY DEF PoolInv
<1>2. QED
  BY <1>1, PoolInit, PoolStep, PTL DEF Spec

(* A configuration the generator accepted never exceeds the subrequests of *)
(* Cloudflare's free plan: each request is one of those planned, and none  *)
(* is made twice.                                                          *)
THEOREM StaysWithinPlan == Spec => []SubrequestsWithinPlan
<1>1. PoolInv => SubrequestsWithinPlan
  <2> SUFFICES ASSUME PoolInv PROVE SubrequestsWithinPlan
    OBVIOUS
  <2>1. Made \subseteq Planned
    BY DEF Made
  <2>2. Cardinality(Made) <= WorstCaseRequests
    BY <2>1, PlannedFinite, FS_Subset
  <2>3. requests = Cardinality(Made) /\ requests \in Nat
    BY DEF PoolInv, TypeOK
  <2>4. WorstCaseRequests <= FreeSubrequests
    BY GeneratorAssumption DEF Accepted
  <2>5. FreeSubrequests \in Nat /\ WorstCaseRequests \in Nat
    BY GeneratorAssumption, RetryAssumption DEF WorstCaseRequests
  <2>6. QED
    BY <2>2, <2>3, <2>4, <2>5 DEF SubrequestsWithinPlan
<1>2. QED
  BY <1>1, PoolInit, PoolStep, PTL DEF Spec

=============================================================================
