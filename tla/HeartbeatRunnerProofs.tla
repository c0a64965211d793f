------------------------ MODULE HeartbeatRunnerProofs ------------------------
(***************************************************************************)
(* Theorems about the runner's worker pool, for any number of projects and *)
(* workers, any replies and a cancellation at any moment: every project is *)
(* checked once and RunAll returns a complete result set; and a run takes  *)
(* no longer than its worst case, the one the policy allows and, as long   *)
(* as no Retry-After is longer than the backoff it replaces, the batches   *)
(* the generators count, so that the generated workflow's job has time for *)
(* the run and for the deliveries that follow.                             *)
(***************************************************************************)
EXTENDS JobTimeout, FiniteSetTheorems, TLAPS

-----------------------------------------------------------------------------
(* Delays and verdicts *)

LEMMA BackoffType ==
  ASSUME NEW a \in 1..Retries
  PROVE  Backoff(a) \in 0..Cap
<1>1. Doublings[a] \in Nat
  BY RetryAssumption DEF Doublings
<1>2. RetryBackoff * Doublings[a] \in Nat
  BY <1>1, RetryAssumption
<1>3. QED
  BY <1>2, RetryAssumption DEF Backoff, Lesser

(* No delay exceeds the cap, wherever it comes from. *)
LEMMA DelayType ==
  ASSUME NEW a \in 1..Retries, NEW ra \in RetryAfter
  PROVE  Delay(a, ra) \in 0..Cap
<1>1. ra = NoRetryAfter \/ ra \in 0..Cap
  BY DEF RetryAfter
<1>2. QED
  BY <1>1, BackoffType DEF Delay

(* Every final verdict has a status a result may have. *)
LEMMA VerdictType ==
  ASSUME NEW reply \in Reply, NEW c \in BOOLEAN
  PROVE  RunnerVerdict(reply, c).status \in Statuses
<1>1. CASE reply.error # NoError
  <2>1. PICK e \in Errors, h \in HttpStatus \union {NoHttp} : reply = Failure(e, h)
    BY <1>1 DEF Reply, Answered, Response
  <2>2. RunnerVerdict(reply, c) = RunnerFailure(e, h, c)
    BY <1>1, <2>1 DEF RunnerVerdict, Failure
  <2>3. RunnerFailure(e, h, c).status \in FinalStatus
    BY DEF RunnerFailure, Errors, Transient, Permanent, FinalStatus
  <2>4. QED
    BY <2>2, <2>3 DEF Statuses
<1>2. CASE reply.error = NoError /\ reply.body = "too large"
  BY <1>2 DEF RunnerVerdict, Permanent, FinalStatus, Statuses
<1>3. CASE reply.error = NoError /\ reply.body # "too large"
  <2>1. RunnerVerdict(reply, c) = RunnerResponse(reply)
    BY <1>3 DEF RunnerVerdict
  <2>2. RunnerRows(reply.media, reply.body) \in FinalStatus
    BY DEF RunnerRows, FinalStatus
  <2>3. RunnerResponse(reply).status \in FinalStatus
    BY <2>2 DEF RunnerResponse, Permanent, Transient, FinalStatus
  <2>4. QED
    BY <2>1, <2>3 DEF Statuses
<1>4. QED
  BY <1>1, <1>2, <1>3

-----------------------------------------------------------------------------
(* The pool *)

(* What a worker is at: an index it was handed and nobody has written the  *)
(* result of yet.                                                          *)
Duty(w) ==
  /\ pc[w] \in {"receive", "exit"} => job[w] = 0 /\ attempts[w] = 0
  /\ pc[w] \in {"request", "sleep"} => job[w] \in Indexes /\ job[w] < next
  /\ pc[w] = "request" => attempts[w] \in 1..(Retries + 1)
  /\ pc[w] = "sleep" => attempts[w] \in 1..Retries
  /\ pc[w] = "exit" => next = N + 1
  /\ job[w] # 0 => results[job[w]] = NoResult

(* Where an index is: not handed out, with a worker, or done.              *)
Slot(i) ==
  /\ results[i] = NoResult \/ results[i].project = i
  /\ i >= next => results[i] = NoResult
  /\ i < next => results[i] # NoResult \/ \E w \in Workers : job[w] = i

Apart == \A v, w \in Workers : job[v] # 0 /\ job[v] = job[w] => v = w

RunnerInv ==
  /\ TypeOK
  /\ DOMAIN results = Indexes
  /\ \A w \in Workers : Duty(w)
  /\ \A i \in Indexes : Slot(i)
  /\ Apart
  /\ returned => \A w \in Workers : pc[w] = "exit"

LEMMA SomeWorker == 1 \in Workers
BY RetryAssumption DEF Workers, Lesser

LEMMA RunnerInit == Init => RunnerInv
<1> SUFFICES ASSUME Init PROVE RunnerInv
  OBVIOUS
<1>1. TypeOK
  <2>1. \A i \in Indexes : results[i] = NoResult
    BY DEF Init
  <2>2. /\ next \in 1..(N + 1) /\ job \in [Workers -> 0..N] /\ clock \in Nat
        /\ attempts \in [Workers -> 0..(Retries + 1)] /\ left \in [Workers -> Nat]
    BY RetryAssumption DEF Init
  <2>3. pc \in [Workers -> {"receive", "request", "sleep", "exit"}]
    BY DEF Init
  <2>4. QED
    BY <2>1, <2>2, <2>3 DEF Init, TypeOK
<1>2. DOMAIN results = Indexes /\ returned = FALSE
  BY DEF Init
<1>3. \A w \in Workers : Duty(w)
  BY DEF Init, Duty
<1>4. \A i \in Indexes : Slot(i)
  BY RetryAssumption DEF Init, Slot, Indexes
<1>5. Apart
  BY DEF Init, Apart
<1>6. QED
  BY <1>1, <1>2, <1>3, <1>4, <1>5 DEF RunnerInv

(* An index goes over the channel and its check sends its first request.   *)
LEMMA HandRequests ==
  ASSUME RunnerInv, NEW w \in Workers, Hand(w),
         job' = [job EXCEPT ![w] = next], Attempt(w, 1), UNCHANGED results
  PROVE  RunnerInv'
<1> USE DEF RunnerInv
<1>1. /\ pc[w] = "receive" /\ next \in Indexes /\ next' = next + 1
      /\ UNCHANGED <<returned, cancelled, clock, delayed>>
  BY DEF Hand, TypeOK, Indexes
<1>2. PICK d \in 0..Timeout :
        /\ pc' = [pc EXCEPT ![w] = "request"] /\ left' = [left EXCEPT ![w] = d]
  BY DEF Attempt, Wait
<1>3. attempts' = [attempts EXCEPT ![w] = 1]
  BY DEF Attempt
<1>4. \A v \in Workers : job[v] < next
  BY <1>1 DEF Duty, TypeOK, Indexes
<1>5. results[next] = NoResult
  BY <1>1 DEF Slot, Indexes
<1>6. TypeOK'
  <2>1. next' \in 1..(N + 1)
    BY <1>1, RetryAssumption DEF Indexes
  <2>2. pc' \in [Workers -> {"receive", "request", "sleep", "exit"}]
    BY <1>2 DEF TypeOK
  <2>3. job' \in [Workers -> 0..N] /\ attempts' \in [Workers -> 0..(Retries + 1)]
    BY <1>1, <1>3, RetryAssumption DEF TypeOK, Indexes
  <2>4. left' \in [Workers -> Nat]
    BY <1>2, RetryAssumption DEF TypeOK
  <2>5. QED
    BY <1>1, <2>1, <2>2, <2>3, <2>4 DEF TypeOK
<1>7. /\ job'[w] = next /\ attempts'[w] = 1 /\ pc'[w] = "request"
      /\ \A v \in Workers \ {w} :
           job'[v] = job[v] /\ attempts'[v] = attempts[v] /\ pc'[v] = pc[v]
  BY <1>2, <1>3 DEF TypeOK
<1>8. \A v \in Workers : pc[v] # "exit"
  BY <1>1, RetryAssumption DEF Duty, Indexes
<1>9. Duty(w)'
  BY <1>1, <1>5, <1>7, RetryAssumption DEF Duty, Indexes
<1>10. ASSUME NEW v \in Workers \ {w} PROVE Duty(v)'
  BY <1>1, <1>4, <1>7, <1>8 DEF Duty, TypeOK, Indexes
<1>11. Apart'
  BY <1>1, <1>4, <1>7 DEF Apart, TypeOK, Indexes
<1>12. ASSUME NEW i \in Indexes PROVE Slot(i)'
  <2>1. CASE i = next
    BY <1>1, <1>5, <1>7, <2>1, RetryAssumption DEF Slot, Indexes
  <2>2. CASE i # next
    <3>1. i < next' <=> i < next
      BY <1>1, <2>2 DEF Indexes
    <3>2. \A v \in Workers : job[v] = i => job'[v] = i
      BY <1>1, <1>7, RetryAssumption DEF Duty, Indexes
    <3>3. QED
      BY <1>1, <2>2, <3>1, <3>2 DEF Slot, Indexes
  <2>3. QED
    BY <2>1, <2>2
<1>13. ~returned
  BY <1>8, SomeWorker
<1>14. QED
  BY <1>1, <1>6, <1>9, <1>10, <1>11, <1>12, <1>13 DEF Workers, Indexes

(* A check that sends no request ends at once. *)
LEMMA HandRefuses ==
  ASSUME RunnerInv, NEW w \in Workers, Hand(w), NEW status \in Unchecked,
         results' = [results EXCEPT ![next] =
           [project |-> next, status |-> status, attempts |-> 0]],
         UNCHANGED <<pc, job, attempts, left>>
  PROVE  RunnerInv'
<1> USE DEF RunnerInv
<1>1. /\ pc[w] = "receive" /\ next \in Indexes /\ next' = next + 1
      /\ UNCHANGED <<returned, cancelled, clock, delayed>>
  BY DEF Hand, TypeOK, Indexes
<1>2. \A v \in Workers : job[v] < next
  BY <1>1 DEF Duty, TypeOK, Indexes
<1>3. /\ results'[next].project = next /\ results'[next].status = status
      /\ \A i \in Indexes \ {next} : results'[i] = results[i]
  BY <1>1
<1>4. results'[next] # NoResult
  <2>1. NoResult.project = 0
    BY DEF NoResult
  <2>2. QED
    BY <1>1, <1>3, <2>1 DEF Indexes
<1>5. TypeOK'
  <2>1. next' \in 1..(N + 1)
    BY <1>1, RetryAssumption DEF Indexes
  <2>2. \A i \in Indexes : results'[i] = NoResult \/ results'[i].status \in Statuses
    BY <1>1, <1>3 DEF TypeOK, Statuses
  <2>3. QED
    BY <1>1, <2>1, <2>2 DEF TypeOK, Indexes, Workers
<1>6. \A v \in Workers : pc[v] # "exit"
  BY <1>1, RetryAssumption DEF Duty, Indexes
<1>7. ASSUME NEW v \in Workers PROVE Duty(v)'
  <2>1. job[v] # 0 => results'[job[v]] = results[job[v]]
    BY <1>2, <1>3 DEF TypeOK, Indexes
  <2>2. QED
    BY <1>1, <1>2, <1>6, <2>1 DEF Duty, TypeOK, Indexes
<1>8. ASSUME NEW i \in Indexes PROVE Slot(i)'
  <2>1. CASE i = next
    BY <1>1, <1>3, <1>4, <2>1, RetryAssumption DEF Slot, Indexes
  <2>2. CASE i # next
    <3>1. results'[i] = results[i] /\ (i < next' <=> i < next)
      BY <1>1, <1>3, <2>2 DEF Indexes
    <3>2. QED
      BY <1>1, <2>2, <3>1 DEF Slot, Indexes
  <2>3. QED
    BY <2>1, <2>2
<1>9. Apart' /\ ~returned
  BY <1>6, SomeWorker DEF Apart
<1>10. QED
  BY <1>1, <1>5, <1>7, <1>8, <1>9 DEF Workers, Indexes

(* A worker that waits, and goes on with the same check.                   *)
LEMMA WaitKeeps ==
  ASSUME RunnerInv, NEW w \in Workers, pc[w] \in {"request", "sleep"},
         NEW label \in {"request", "sleep"}, NEW n, NEW d \in Nat,
         label = "request" => n \in 1..(Retries + 1),
         label = "sleep" => n \in 1..Retries,
         attempts' = [attempts EXCEPT ![w] = n], Wait(w, label, d),
         delayed' \in BOOLEAN,
         UNCHANGED <<next, returned, job, results, cancelled, clock>>
  PROVE  RunnerInv'
<1> USE DEF RunnerInv
<1>1. pc' = [pc EXCEPT ![w] = label] /\ left' = [left EXCEPT ![w] = d]
  BY DEF Wait
<1>2. n \in 0..(Retries + 1)
  BY RetryAssumption
<1>3. pc' \in [Workers -> {"receive", "request", "sleep", "exit"}]
  BY <1>1 DEF TypeOK
<1>4. left' \in [Workers -> Nat] /\ attempts' \in [Workers -> 0..(Retries + 1)]
  BY <1>1, <1>2 DEF TypeOK
<1>5. TypeOK'
  BY <1>3, <1>4 DEF TypeOK, Workers, Indexes
<1>6. /\ pc'[w] = label /\ attempts'[w] = n
      /\ \A v \in Workers \ {w} : pc'[v] = pc[v] /\ attempts'[v] = attempts[v]
  BY <1>1 DEF TypeOK
<1>7. Duty(w)' /\ \A v \in Workers \ {w} : Duty(v)'
  BY <1>6 DEF Duty
<1>8. (\A i \in Indexes : Slot(i)') /\ Apart'
  BY DEF Slot, Apart
<1>9. ~returned
  OBVIOUS
<1>10. QED
  BY <1>5, <1>7, <1>8, <1>9 DEF Workers, Indexes

(* A check ends, and its result is written where it belongs.               *)
LEMMA FinishKeeps ==
  ASSUME RunnerInv, NEW w \in Workers, pc[w] \in {"request", "sleep"},
         NEW status \in Statuses, Finish(w, status), delayed' \in BOOLEAN,
         UNCHANGED <<next, returned, cancelled, clock>>
  PROVE  RunnerInv'
<1> USE DEF RunnerInv
<1> DEFINE i == job[w]
<1>1. i \in Indexes /\ i < next /\ results[i] = NoResult
  BY DEF Duty, TypeOK, Indexes
<1>2. \A v \in Workers \ {w} : job[v] # i
  BY <1>1 DEF Apart, Indexes
<1>3. /\ results' = [results EXCEPT ![i] =
           [project |-> i, status |-> status, attempts |-> attempts[w]]]
      /\ pc' = [pc EXCEPT ![w] = "receive"] /\ left' = [left EXCEPT ![w] = 0]
      /\ job' = [job EXCEPT ![w] = 0] /\ attempts' = [attempts EXCEPT ![w] = 0]
  BY DEF Finish, Wait
<1>4. /\ results'[i].project = i /\ results'[i].status = status
      /\ \A j \in Indexes \ {i} : results'[j] = results[j]
  BY <1>1, <1>3
<1>5. results'[i] # NoResult
  <2>1. NoResult.project = 0
    BY DEF NoResult
  <2>2. QED
    BY <1>1, <1>4, <2>1 DEF Indexes
<1>6. /\ job'[w] = 0 /\ attempts'[w] = 0 /\ pc'[w] = "receive"
      /\ \A v \in Workers \ {w} :
           job'[v] = job[v] /\ attempts'[v] = attempts[v] /\ pc'[v] = pc[v]
  BY <1>3 DEF TypeOK
<1>7. TypeOK'
  <2>1. \A j \in Indexes : results'[j] = NoResult \/ results'[j].status \in Statuses
    BY <1>4 DEF TypeOK
  <2>2. job' \in [Workers -> 0..N] /\ attempts' \in [Workers -> 0..(Retries + 1)]
        /\ left' \in [Workers -> Nat]
    BY <1>3, RetryAssumption DEF TypeOK
  <2>3. pc' \in [Workers -> {"receive", "request", "sleep", "exit"}]
    BY <1>3 DEF TypeOK
  <2>4. QED
    BY <2>1, <2>2, <2>3 DEF TypeOK, Workers, Indexes
<1> HIDE DEF i
<1>8. Duty(w)'
  BY <1>6 DEF Duty
<1>9. ASSUME NEW v \in Workers \ {w} PROVE Duty(v)'
  <2>1. job[v] # 0 => results'[job[v]] = results[job[v]]
    BY <1>2, <1>4 DEF TypeOK, Indexes
  <2>2. QED
    BY <1>6, <2>1 DEF Duty
<1>10. Apart'
  BY <1>6 DEF Apart
<1>11. ASSUME NEW j \in Indexes PROVE Slot(j)'
  <2>1. CASE j = i
    BY <1>1, <1>4, <1>5, <2>1 DEF Slot, TypeOK, Indexes
  <2>2. CASE j # i
    <3>1. results'[j] = results[j]
      BY <1>4, <2>2
    <3>2. \A v \in Workers : job[v] = j => job'[v] = j
      BY <1>6, <2>2 DEF i
    <3>3. QED
      BY <3>1, <3>2 DEF Slot
  <2>3. QED
    BY <2>1, <2>2
<1>12. ~returned
  OBVIOUS
<1>13. QED
  BY <1>3, <1>7, <1>8, <1>9, <1>10, <1>11, <1>12 DEF Workers, Indexes

LEMMA AnswerKeeps ==
  ASSUME RunnerInv, NEW w \in Workers, Answer(w)
  PROVE  RunnerInv'
<1>1. /\ pc[w] = "request" /\ attempts[w] \in 1..(Retries + 1)
      /\ attempts = [attempts EXCEPT ![w] = attempts[w]]
      /\ UNCHANGED <<next, returned, cancelled, clock>>
  BY DEF Answer, RunnerInv, Duty, TypeOK
<1>2. PICK reply \in Replies :
        LET verdict == RunnerVerdict(reply, cancelled) IN
        \/ /\ verdict.retry /\ MayRetry(w)
           /\ \E ra \in IF reply.error = NoError THEN RetryAfter ELSE {NoRetryAfter} :
                /\ Wait(w, "sleep", Delay(attempts[w], ra))
                /\ delayed' = (delayed \/ ra > Backoff(attempts[w]))
           /\ UNCHANGED <<job, attempts, results>>
        \/ /\ ~(verdict.retry /\ MayRetry(w))
           /\ Finish(w, verdict.status) /\ UNCHANGED delayed
  BY DEF Answer
<1>3. CASE /\ MayRetry(w)
           /\ \E ra \in RetryAfter :
                /\ Wait(w, "sleep", Delay(attempts[w], ra))
                /\ delayed' = (delayed \/ ra > Backoff(attempts[w]))
           /\ UNCHANGED <<job, attempts, results>>
  <2>1. PICK ra \in RetryAfter :
          /\ Wait(w, "sleep", Delay(attempts[w], ra))
          /\ delayed' = (delayed \/ ra > Backoff(attempts[w]))
    BY <1>3
  <2>2. attempts[w] \in 1..Retries
    BY <1>1, <1>3, RetryAssumption DEF MayRetry
  <2>3. Delay(attempts[w], ra) \in Nat
    BY <2>2, DelayType, RetryAssumption
  <2>4. delayed' \in BOOLEAN
    BY <2>1
  <2>5. QED
    BY <1>1, <1>3, <2>1, <2>2, <2>3, <2>4, WaitKeeps
<1>4. CASE /\ Finish(w, RunnerVerdict(reply, cancelled).status)
           /\ UNCHANGED delayed
  <2>1. cancelled \in BOOLEAN /\ delayed' \in BOOLEAN
    BY <1>4 DEF RunnerInv, TypeOK
  <2>2. RunnerVerdict(reply, cancelled).status \in Statuses
    BY <2>1, VerdictType, RepliesAssumption
  <2>3. QED
    BY <1>1, <1>4, <2>1, <2>2, FinishKeeps
<1>5. (IF reply.error = NoError THEN RetryAfter ELSE {NoRetryAfter}) \subseteq RetryAfter
  BY DEF RetryAfter
<1>6. QED
  BY <1>2, <1>3, <1>4, <1>5

LEMMA AbortsKeep ==
  ASSUME RunnerInv, NEW w \in Workers, AbortRequest(w) \/ AbortSleep(w)
  PROVE  RunnerInv'
<1>1. /\ attempts = [attempts EXCEPT ![w] = attempts[w]] /\ delayed \in BOOLEAN
      /\ UNCHANGED <<next, returned, cancelled, clock, delayed>>
  BY DEF AbortRequest, AbortSleep, RunnerInv, TypeOK
<1>2. "timeout" \in Statuses
  BY DEF Statuses, FinalStatus
<1>3. CASE AbortRequest(w)
  <2>1. pc[w] = "request" /\ attempts[w] \in 1..(Retries + 1)
    BY <1>3 DEF AbortRequest, RunnerInv, Duty
  <2>2. CASE /\ MayRetry(w) /\ Wait(w, "sleep", Backoff(attempts[w]))
             /\ UNCHANGED <<job, attempts, results>>
    <3>1. attempts[w] \in 1..Retries
      BY <2>1, <2>2, RetryAssumption DEF MayRetry
    <3>2. Backoff(attempts[w]) \in Nat
      BY <3>1, BackoffType, RetryAssumption
    <3>3. QED
      BY <1>1, <2>1, <2>2, <3>1, <3>2, WaitKeeps
  <2>3. CASE Finish(w, "timeout")
    BY <1>1, <1>2, <2>1, <2>3, FinishKeeps
  <2>4. QED
    BY <1>3, <2>2, <2>3 DEF AbortRequest
<1>4. CASE AbortSleep(w)
  BY <1>1, <1>2, <1>4, FinishKeeps DEF AbortSleep
<1>5. QED
  BY <1>3, <1>4

LEMMA WakeKeeps ==
  ASSUME RunnerInv, NEW w \in Workers, Wake(w)
  PROVE  RunnerInv'
<1>1. /\ pc[w] = "sleep" /\ attempts[w] + 1 \in 1..(Retries + 1)
      /\ UNCHANGED <<next, returned, job, results, cancelled, clock, delayed>>
  BY RetryAssumption DEF Wake, RunnerInv, Duty
<1>2. attempts' = [attempts EXCEPT ![w] = attempts[w] + 1]
  BY DEF Wake, Attempt
<1>3. PICK d \in 0..Timeout : Wait(w, "request", d)
  BY DEF Wake, Attempt
<1>4. d \in Nat /\ delayed' \in BOOLEAN
  BY <1>1, RetryAssumption DEF RunnerInv, TypeOK
<1>5. QED
  BY <1>1, <1>2, <1>3, <1>4, WaitKeeps

LEMMA ExitKeeps ==
  ASSUME RunnerInv, NEW w \in Workers, Exit(w)
  PROVE  RunnerInv'
<1> USE DEF RunnerInv
<1>1. /\ pc[w] = "receive" /\ next > N /\ pc' = [pc EXCEPT ![w] = "exit"]
      /\ UNCHANGED <<next, returned, job, attempts, left, results, cancelled, clock, delayed>>
  BY DEF Exit
<1>2. TypeOK'
  BY <1>1 DEF TypeOK, Workers, Indexes
<1>3. next = N + 1
  BY <1>1, RetryAssumption DEF TypeOK
<1>4. \A v \in Workers : Duty(v)'
  BY <1>1, <1>3 DEF Duty, TypeOK
<1>5. (\A i \in Indexes : Slot(i)') /\ Apart'
  BY <1>1 DEF Slot, Apart
<1>6. ~returned
  BY <1>1
<1>7. QED
  BY <1>1, <1>2, <1>4, <1>5, <1>6 DEF Workers, Indexes

(* Main, the context and time.                                             *)
LEMMA OthersKeep ==
  ASSUME RunnerInv, Return \/ Cancel \/ Tick \/ UNCHANGED vars
  PROVE  RunnerInv'
<1> USE DEF RunnerInv
<1>1. UNCHANGED <<next, pc, job, attempts, results>>
  BY DEF Return, Cancel, Tick, vars
<1>2. (\A w \in Workers : Duty(w)') /\ (\A i \in Indexes : Slot(i)') /\ Apart'
  BY <1>1 DEF Duty, Slot, Apart
<1>3. TypeOK'
  <2>1. CASE Tick
    <3>1. \A w \in Workers : Waiting(w) => left[w] - 1 \in Nat
      BY DEF Waiting, TypeOK
    <3>2. left' \in [Workers -> Nat] /\ clock' \in Nat
          /\ UNCHANGED <<returned, cancelled, delayed>>
      BY <2>1, <3>1 DEF Tick, TypeOK
    <3>3. QED
      BY <1>1, <3>2 DEF TypeOK
  <2>2. CASE Return \/ Cancel \/ UNCHANGED vars
    BY <1>1, <2>2 DEF Return, Cancel, vars, TypeOK
  <2>3. QED
    BY <2>1, <2>2
<1>4. returned' => \A w \in Workers : pc'[w] = "exit"
  BY <1>1 DEF Return, Cancel, Tick, vars
<1>5. QED
  BY <1>1, <1>2, <1>3, <1>4 DEF Workers, Indexes

LEMMA RunnerStep == RunnerInv /\ [Next]_vars => RunnerInv'
<1> SUFFICES ASSUME RunnerInv, [Next]_vars PROVE RunnerInv'
  OBVIOUS
<1>1. ASSUME NEW w \in Workers, Hand(w) PROVE RunnerInv'
  BY <1>1, HandRequests, HandRefuses DEF Hand
<1>2. ASSUME NEW w \in Workers, Work(w) PROVE RunnerInv'
  BY <1>1, <1>2, AnswerKeeps, AbortsKeep, WakeKeeps, ExitKeeps DEF Work
<1>3. CASE Return \/ Cancel \/ Tick \/ Returned \/ UNCHANGED vars
  BY <1>3, OthersKeep DEF Returned
<1>4. QED
  BY <1>2, <1>3 DEF Next

(* Every variable of the pool keeps its range.                             *)
THEOREM RunnerTypeCorrect == Spec => []TypeOK
<1>1. RunnerInv => TypeOK
  BY DEF RunnerInv
<1>2. QED
  BY <1>1, RunnerInit, RunnerStep, PTL DEF Spec

(* RunAll returns a complete result set in the order of its projects: when *)
(* every worker's range over the channel has ended, no check is under way. *)
THEOREM ResultsAlwaysComplete == Spec => []ResultsComplete
<1>1. RunnerInv => ResultsComplete
  <2> SUFFICES ASSUME RunnerInv, returned, NEW i \in Indexes
               PROVE  results[i].project = i
    BY DEF ResultsComplete
  <2>1. \A w \in Workers : job[w] = 0 /\ next = N + 1
    BY SomeWorker DEF RunnerInv, Duty
  <2>2. i < next /\ \A w \in Workers : job[w] # i
    BY <2>1, SomeWorker, RetryAssumption DEF Indexes
  <2>3. QED
    BY <2>2 DEF RunnerInv, Slot
<1>2. QED
  BY <1>1, RunnerInit, RunnerStep, PTL DEF Spec

(* No two workers ever check, or write the slot of, the same project, and  *)
(* none is lost between the channel and its slot.                          *)
THEOREM EachCheckedOnce == Spec => []CheckedOnce
<1>1. RunnerInv => CheckedOnce
  <2> SUFFICES ASSUME RunnerInv, NEW i \in Indexes
               PROVE  LET holders == {w \in Workers : job[w] = i} IN
                      Cardinality(holders) +
                        (IF results[i] # NoResult THEN 1 ELSE 0) = IF i < next THEN 1 ELSE 0
    BY DEF CheckedOnce
  <2> DEFINE holders == {w \in Workers : job[w] = i}
  <2>1. CASE \E w \in Workers : job[w] = i
    <3>1. PICK w \in Workers : job[w] = i
      BY <2>1
    <3>2. \A v \in Workers : job[v] = i => v = w
      BY <3>1 DEF RunnerInv, Apart, Indexes
    <3>3. holders = {w}
      BY <3>1, <3>2
    <3>4. Cardinality(holders) = 1
      BY <3>3, FS_Singleton
    <3>5. job[w] # 0 /\ Duty(w) /\ pc[w] \in {"receive", "request", "sleep", "exit"}
      BY <3>1 DEF RunnerInv, TypeOK, Indexes
    <3>6. results[i] = NoResult
      BY <3>1, <3>5 DEF Duty
    <3>7. i < next
      BY <3>1, <3>5 DEF Duty
    <3>8. QED
      BY <3>4, <3>6, <3>7
  <2>2. CASE ~\E w \in Workers : job[w] = i
    <3>1. Cardinality(holders) = 0
      <4>1. holders = {}
        BY <2>2
      <4>2. QED
        BY <4>1, FS_EmptySet
    <3>2. i < next <=> results[i] # NoResult
      BY <2>2 DEF RunnerInv, Slot, TypeOK, Indexes
    <3>3. QED
      BY <3>1, <3>2
  <2>3. QED
    BY <2>1, <2>2
<1>2. QED
  BY <1>1, RunnerInit, RunnerStep, PTL DEF Spec

-----------------------------------------------------------------------------
(* The pace of the pool.                                                   *)
(*                                                                         *)
(* B[a] bounds the first a delays of a check together, so that a check     *)
(* takes at most Check(B).  Per worker, turns counts the indexes it was    *)
(* handed and due bounds the moment it is ready for another one.  A worker *)
(* that is ready is handed the next index before time passes: when the     *)
(* last index is handed out some worker has had fewer than Batches, and    *)
(* that one is not later than the others.                                  *)

Budget(B) ==
  /\ B \in [0..Retries -> Nat]
  /\ \A a \in 1..Retries : B[a - 1] + Backoff(a) <= B[a]

Check(B) == Timeout * (Retries + 1) + B[Retries]

(* How far into a check the wait a worker is in may last.                  *)
Reach(B, w) ==
  attempts[w] * Timeout + (IF pc[w] = "request" THEN B[attempts[w] - 1] ELSE B[attempts[w]])

Full == (N - 1) \div Concurrency
Turns(turns) == {x \in Workers \X Nat : x[2] \in 1..turns[x[1]]}

InTime(B, w, turns, due) ==
  /\ due <= turns * Check(B) /\ due <= (Full + 1) * Check(B)
  /\ pc[w] = "receive" => clock <= due
  /\ pc[w] \in {"request", "sleep"} => clock + left[w] + Check(B) <= due + Reach(B, w)

Pace(B) ==
  /\ clock <= (Full + 1) * Check(B)
  /\ \E turns, due \in [Workers -> Nat] :
       /\ IsFiniteSet(Turns(turns)) /\ Cardinality(Turns(turns)) = next - 1
       /\ \A w \in Workers : InTime(B, w, turns[w], due[w])

LEMMA BatchesFull ==
  /\ Full \in Nat /\ Batches = Full + 1
  /\ N - 1 < Lesser(Concurrency, N) * (Full + 1)
<1>1. Full \in Nat /\ N - 1 < Concurrency * (Full + 1)
  BY RetryAssumption DEF Full
<1>2. Batches = Full + 1
  BY RetryAssumption DEF Batches, Full
<1>3. CASE Concurrency < N
  BY <1>1, <1>2, <1>3 DEF Lesser
<1>4. CASE ~(Concurrency < N)
  BY <1>1, <1>2, <1>4, RetryAssumption DEF Lesser
<1>5. QED
  BY <1>3, <1>4

(* A budget grows with the retries. *)
LEMMA BudgetGrows ==
  ASSUME NEW B, Budget(B)
  PROVE  /\ \A a \in 0..Retries : B[a] \in Nat /\ B[a] <= B[Retries]
         /\ \A a \in 1..Retries : Backoff(a) \in Nat /\ B[a - 1] + Backoff(a) <= B[a]
         /\ Check(B) \in Nat /\ Check(B) >= Timeout + B[0]
<1>1. \A a \in 0..Retries : B[a] \in Nat
  BY DEF Budget
<1>2. \A a \in 1..Retries : Backoff(a) \in Nat /\ B[a - 1] + Backoff(a) <= B[a]
  BY BackoffType, RetryAssumption DEF Budget
<1>3. \A a \in 1..Retries : B[a - 1] <= B[a]
  BY <1>1, <1>2, RetryAssumption
<1>4. \A a \in 0..Retries : B[a] <= B[Retries]
  <2>1. CASE Retries = 0
    BY <1>1, <2>1
  <2>2. CASE Retries = 1
    BY <1>1, <1>3, <2>2
  <2>3. CASE Retries = 2
    BY <1>1, <1>3, <2>3
  <2>4. CASE Retries = 3
    <3>1. B[0] <= B[1] /\ B[1] <= B[2] /\ B[2] <= B[3]
      BY <1>3, <2>4
    <3>2. B[0] \in Nat /\ B[1] \in Nat /\ B[2] \in Nat /\ B[3] \in Nat
      BY <1>1, <2>4
    <3>3. \A a \in 0..3 : B[a] <= B[3]
      BY <3>1, <3>2
    <3>4. QED
      BY <2>4, <3>3
  <2>5. QED
    BY <2>1, <2>2, <2>3, <2>4, RetryAssumption
<1>5. Check(B) \in Nat /\ Check(B) >= Timeout + B[0]
  <2>1. Timeout * (Retries + 1) \in Nat /\ Timeout * (Retries + 1) >= Timeout
    BY RetryAssumption
  <2>2. B[0] \in Nat /\ B[Retries] \in Nat /\ B[0] <= B[Retries]
    BY <1>1, <1>4, RetryAssumption
  <2>3. QED
    BY <2>1, <2>2, RetryAssumption DEF Check
<1>6. QED
  BY <1>1, <1>2, <1>4, <1>5

(* No wait lasts longer than a check. *)
LEMMA ReachWithin ==
  ASSUME NEW B, Budget(B), RunnerInv, NEW w \in Workers, pc[w] \in {"request", "sleep"}
  PROVE  Reach(B, w) \in Nat /\ Reach(B, w) <= Check(B)
<1> DEFINE a == attempts[w]
           b == IF pc[w] = "request" THEN a - 1 ELSE a
<1>1. a \in 1..(Retries + 1) /\ b \in 0..Retries
  BY RetryAssumption DEF RunnerInv, Duty
<1>2. B[b] \in Nat /\ B[Retries] \in Nat /\ B[b] <= B[Retries]
  BY <1>1, BudgetGrows, RetryAssumption
<1>3. Reach(B, w) = a * Timeout + B[b]
  BY DEF Reach
<1>4. a * Timeout \in Nat /\ a * Timeout <= Timeout * (Retries + 1)
  BY <1>1, RetryAssumption
<1>5. Timeout * (Retries + 1) \in Nat
  BY RetryAssumption
<1> HIDE DEF a, b
<1>6. QED
  BY <1>2, <1>3, <1>4, <1>5 DEF Check

(* As long as indexes are left, some worker has had no more than Full of   *)
(* them and is in time; so no more than Full checks' time has passed.      *)
LEMMA StartsInTime ==
  ASSUME NEW B, Budget(B), RunnerInv, next <= N,
         NEW turns \in [Workers -> Nat], NEW due \in [Workers -> Nat],
         IsFiniteSet(Turns(turns)), Cardinality(Turns(turns)) = next - 1,
         \A w \in Workers : InTime(B, w, turns[w], due[w])
  PROVE  clock <= Full * Check(B)
<1>1. PICK v \in Workers : turns[v] <= Full
  <2>1. SUFFICES ASSUME \A v \in Workers : turns[v] > Full PROVE FALSE
    BY BatchesFull
  <2> DEFINE grid == Workers \X (1..(Full + 1))
  <2>2. grid \subseteq Turns(turns)
    <3>1. ASSUME NEW x \in grid PROVE x \in Turns(turns)
      <4>1. x \in Workers \X Nat /\ x[1] \in Workers /\ x[2] \in 1..(Full + 1)
        BY <3>1, BatchesFull
      <4>2. turns[x[1]] \in Nat /\ turns[x[1]] >= Full + 1
        BY <2>1, <4>1, BatchesFull
      <4>3. x[2] \in 1..turns[x[1]]
        BY <4>1, <4>2, BatchesFull
      <4>4. QED
        BY <4>1, <4>3 DEF Turns
    <3>2. QED
      BY <3>1
  <2>3. Cardinality(grid) = Lesser(Concurrency, N) * (Full + 1)
    <3>1. Lesser(Concurrency, N) \in Nat \ {0}
      BY RetryAssumption DEF Lesser
    <3>2. IsFiniteSet(Workers) /\ Cardinality(Workers) = Lesser(Concurrency, N)
      BY <3>1, FS_Interval DEF Workers
    <3>3. /\ IsFiniteSet(1..(Full + 1))
          /\ Cardinality(1..(Full + 1)) = Full + 1
      BY BatchesFull, FS_Interval
    <3>4. Cardinality(grid) = Cardinality(Workers) * Cardinality(1..(Full + 1))
      BY <3>2, <3>3, FS_Product
    <3>5. QED
      BY <3>2, <3>3, <3>4
  <2> HIDE DEF grid
  <2>4. Cardinality(grid) <= next - 1
    <3>1. grid \in SUBSET Turns(turns)
      BY <2>2
    <3>2. Cardinality(grid) <= Cardinality(Turns(turns))
      BY <3>1, FS_Subset
    <3>3. QED
      BY <3>2
  <2>5. Lesser(Concurrency, N) * (Full + 1) \in Nat /\ next \in Nat
    BY BatchesFull, RetryAssumption DEF Lesser, RunnerInv, TypeOK
  <2>6. QED
    BY <2>3, <2>4, <2>5, BatchesFull, RetryAssumption
<1>2. clock <= due[v]
  <2>1. InTime(B, v, turns[v], due[v]) /\ due[v] \in Nat /\ clock \in Nat /\ left[v] \in Nat
    BY DEF RunnerInv, TypeOK
  <2>2. pc[v] \in {"receive", "request", "sleep"}
    BY RetryAssumption DEF RunnerInv, Duty, TypeOK
  <2>3. CASE pc[v] = "receive"
    BY <2>1, <2>3 DEF InTime
  <2>4. CASE pc[v] \in {"request", "sleep"}
    <3>1. Reach(B, v) \in Nat /\ Reach(B, v) <= Check(B) /\ Check(B) \in Nat
      BY <2>4, ReachWithin, BudgetGrows
    <3>2. clock + left[v] + Check(B) <= due[v] + Reach(B, v)
      BY <2>1, <2>4 DEF InTime
    <3>3. QED
      BY <2>1, <3>1, <3>2
  <2>5. QED
    BY <2>2, <2>3, <2>4
<1>3. due[v] <= turns[v] * Check(B)
  BY DEF InTime
<1>4. turns[v] * Check(B) <= Full * Check(B)
  <2>1. turns[v] \in Nat /\ Full \in Nat /\ Check(B) \in Nat
    BY BatchesFull, BudgetGrows
  <2>2. \A i, j, k \in Nat : i <= j => i * k <= j * k
    OBVIOUS
  <2>3. QED
    BY <1>1, <2>1, <2>2
<1>5. QED
  <2>1. /\ clock \in Nat /\ due[v] \in Nat
        /\ turns[v] * Check(B) \in Nat /\ Full * Check(B) \in Nat
    BY BatchesFull, BudgetGrows DEF RunnerInv, TypeOK
  <2>2. QED
    BY <1>2, <1>3, <1>4, <2>1

LEMMA PaceInit ==
  ASSUME NEW B, Budget(B), Init
  PROVE  Pace(B)
<1> DEFINE zero == [w \in Workers |-> 0]
<1>1. zero \in [Workers -> Nat]
  OBVIOUS
<1>2. IsFiniteSet(Turns(zero)) /\ Cardinality(Turns(zero)) = next - 1
  <2>1. Turns(zero) = {}
    BY DEF Turns
  <2>2. QED
    BY <2>1, FS_EmptySet DEF Init
<1>3. Check(B) \in Nat /\ Full \in Nat
  BY BudgetGrows, BatchesFull
<1>4. 0 <= 0 * Check(B) /\ 0 <= (Full + 1) * Check(B)
  BY <1>3
<1>5. \A w \in Workers : InTime(B, w, zero[w], zero[w])
  BY <1>4 DEF InTime, Init
<1>6. clock <= (Full + 1) * Check(B)
  BY <1>4 DEF Init
<1> HIDE DEF zero
<1>7. QED
  BY <1>1, <1>2, <1>5, <1>6 DEF Pace

(* One index more for worker w is one turn more. *)
LEMMA OneMoreTurn ==
  ASSUME NEW turns \in [Workers -> Nat], NEW w \in Workers, IsFiniteSet(Turns(turns))
  PROVE  LET more == [turns EXCEPT ![w] = @ + 1] IN
         /\ more \in [Workers -> Nat]
         /\ IsFiniteSet(Turns(more)) /\ Cardinality(Turns(more)) = Cardinality(Turns(turns)) + 1
<1> DEFINE more == [turns EXCEPT ![w] = @ + 1]
           x == <<w, turns[w] + 1>>
<1>1. more \in [Workers -> Nat] /\ more[w] = turns[w] + 1
      /\ \A v \in Workers \ {w} : more[v] = turns[v]
  OBVIOUS
<1>2. x \notin Turns(turns)
  BY DEF Turns
<1>3. Turns(more) = Turns(turns) \union {x}
  <2>1. ASSUME NEW y \in Workers \X Nat
        PROVE  y[2] \in 1..more[y[1]] <=> y[2] \in 1..turns[y[1]] \/ y = x
    <3>1. y = <<y[1], y[2]>> /\ y[1] \in Workers /\ y[2] \in Nat /\ turns[y[1]] \in Nat
      OBVIOUS
    <3>2. CASE y[1] = w
      <4>1. more[y[1]] = turns[w] + 1 /\ turns[w] \in Nat
        BY <1>1, <3>2
      <4>2. y[2] \in 1..(turns[w] + 1) <=> y[2] \in 1..turns[w] \/ y[2] = turns[w] + 1
        BY <3>1, <4>1
      <4>3. QED
        BY <3>1, <3>2, <4>1, <4>2
    <3>3. CASE y[1] # w
      BY <1>1, <3>1, <3>3
    <3>4. QED
      BY <3>2, <3>3
  <2>2. x \in Workers \X Nat
    OBVIOUS
  <2> HIDE DEF more, x
  <2>3. QED
    BY <2>1, <2>2 DEF Turns
<1> HIDE DEF more, x
<1>4. /\ IsFiniteSet(Turns(more))
      /\ Cardinality(Turns(more)) = Cardinality(Turns(turns)) + 1
  BY <1>2, <1>3, FS_AddElement
<1>5. QED
  BY <1>1, <1>4 DEF more

(* An index is handed out: the worker is due one check later.              *)
LEMMA HandPaces ==
  ASSUME NEW B, Budget(B), RunnerInv, Pace(B), NEW w \in Workers, Hand(w)
  PROVE  Pace(B)'
<1>1. /\ pc[w] = "receive" /\ next <= N /\ next' = next + 1 /\ clock' = clock
      /\ next \in Nat /\ clock \in Nat
  BY DEF Hand, RunnerInv, TypeOK
<1>2. PICK turns \in [Workers -> Nat], due \in [Workers -> Nat] :
        /\ IsFiniteSet(Turns(turns)) /\ Cardinality(Turns(turns)) = next - 1
        /\ \A v \in Workers : InTime(B, v, turns[v], due[v])
  BY DEF Pace
<1> DEFINE more == [turns EXCEPT ![w] = @ + 1]
<1>3. /\ more \in [Workers -> Nat] /\ IsFiniteSet(Turns(more))
      /\ Cardinality(Turns(more)) = next' - 1
  <2>1. /\ more \in [Workers -> Nat] /\ IsFiniteSet(Turns(more))
        /\ Cardinality(Turns(more)) = Cardinality(Turns(turns)) + 1
    BY <1>2, OneMoreTurn
  <2>2. QED
    BY <1>1, <1>2, <2>1
<1>4. clock <= Full * Check(B)
  BY <1>1, <1>2, StartsInTime
<1>5. Check(B) \in Nat /\ Full \in Nat /\ B[0] \in Nat /\ Check(B) >= Timeout + B[0]
  BY BudgetGrows, BatchesFull, RetryAssumption
<1>6. clock <= due[w] /\ due[w] <= turns[w] * Check(B) /\ due[w] <= (Full + 1) * Check(B)
  BY <1>1, <1>2 DEF InTime
<1>7. /\ turns[w] * Check(B) \in Nat
      /\ (turns[w] + 1) * Check(B) = turns[w] * Check(B) + Check(B)
  BY <1>5
<1>8. /\ Full * Check(B) \in Nat
      /\ (Full + 1) * Check(B) = Full * Check(B) + Check(B)
  BY <1>5
<1>9. more[w] = turns[w] + 1 /\ \A v \in Workers \ {w} : more[v] = turns[v]
  OBVIOUS
<1> HIDE DEF more
<1>10. CASE Attempt(w, 1)
  <2>1. PICK later \in [Workers -> Nat] : later = [due EXCEPT ![w] = clock + Check(B)]
    <3>1. clock + Check(B) \in Nat
      BY <1>1, <1>5
    <3>2. [due EXCEPT ![w] = clock + Check(B)] \in [Workers -> Nat]
      BY <3>1
    <3>3. QED
      BY <3>2
  <2>2. PICK d \in 0..Timeout :
          /\ attempts' = [attempts EXCEPT ![w] = 1]
          /\ pc' = [pc EXCEPT ![w] = "request"] /\ left' = [left EXCEPT ![w] = d]
    BY <1>10 DEF Attempt, Wait
  <2>3. attempts'[w] = 1 /\ pc'[w] = "request" /\ left'[w] = d
    BY <2>2 DEF RunnerInv, TypeOK
  <2>4. /\ later[w] <= more[w] * Check(B) /\ later[w] <= (Full + 1) * Check(B)
        /\ later[w] = clock + Check(B)
    <3>1. later[w] = clock + Check(B)
      BY <2>1
    <3>2. clock + Check(B) <= (turns[w] + 1) * Check(B)
      BY <1>1, <1>2, <1>5, <1>6, <1>7
    <3>3. clock + Check(B) <= (Full + 1) * Check(B)
      BY <1>1, <1>4, <1>5, <1>8
    <3>4. QED
      BY <1>9, <3>1, <3>2, <3>3
  <2>5. InTime(B, w, more[w], later[w])'
    <3>1. Reach(B, w)' = Timeout + B[0]
      BY <2>3, RetryAssumption DEF Reach
    <3>2. clock + d + Check(B) <= clock + Check(B) + (Timeout + B[0])
      BY <1>1, <1>5, RetryAssumption
    <3>3. QED
      BY <1>1, <2>3, <2>4, <3>1, <3>2 DEF InTime, Check, Full
  <2>6. ASSUME NEW v \in Workers \ {w} PROVE InTime(B, v, more[v], later[v])'
    <3>1. /\ pc'[v] = pc[v] /\ left'[v] = left[v] /\ attempts'[v] = attempts[v]
          /\ later[v] = due[v] /\ more[v] = turns[v]
      BY <1>9, <2>1, <2>2 DEF RunnerInv, TypeOK
    <3>2. QED
      BY <1>1, <1>2, <3>1 DEF InTime, Reach, Check, Full
  <2>7. clock' <= (Full + 1) * Check(B)
    BY <1>1, <1>4, <1>5, <1>8
  <2>8. QED
    BY <1>3, <2>1, <2>5, <2>6, <2>7 DEF Pace, Check, Full
<1>11. CASE UNCHANGED <<pc, job, attempts, left>>
  <2>1. InTime(B, w, more[w], due[w])'
    <3>1. due[w] <= more[w] * Check(B)
      BY <1>2, <1>5, <1>6, <1>7, <1>9
    <3>2. QED
      BY <1>1, <1>6, <1>11, <3>1 DEF InTime, Check, Full
  <2>2. ASSUME NEW v \in Workers \ {w} PROVE InTime(B, v, more[v], due[v])'
    BY <1>1, <1>2, <1>9, <1>11 DEF InTime, Reach, Check, Full
  <2>3. clock' <= (Full + 1) * Check(B)
    BY <1>1, <1>4, <1>5, <1>8
  <2>4. QED
    BY <1>2, <1>3, <2>1, <2>2, <2>3 DEF Pace, Check, Full
<1>12. QED
  BY <1>10, <1>11 DEF Hand

(* Whatever else a worker does keeps it in time when no wait it starts     *)
(* reaches further into the check than Reach, or the check is over.        *)
LEMMA WorkerPaces ==
  ASSUME NEW B, Budget(B), Pace(B), NEW w \in Workers,
         UNCHANGED <<next, clock>>,
         \A v \in Workers \ {w} :
           pc'[v] = pc[v] /\ left'[v] = left[v] /\ attempts'[v] = attempts[v],
         \A t, d \in Nat : InTime(B, w, t, d) => InTime(B, w, t, d)'
  PROVE  Pace(B)'
<1>1. PICK turns \in [Workers -> Nat], due \in [Workers -> Nat] :
        /\ IsFiniteSet(Turns(turns)) /\ Cardinality(Turns(turns)) = next - 1
        /\ \A v \in Workers : InTime(B, v, turns[v], due[v])
  BY DEF Pace
<1>2. ASSUME NEW v \in Workers PROVE InTime(B, v, turns[v], due[v])'
  <2>1. CASE v = w
    BY <1>1, <2>1
  <2>2. CASE v # w
    BY <1>1, <2>2 DEF InTime, Reach, Check, Full
  <2>3. QED
    BY <2>1, <2>2
<1>3. clock' <= (Full + 1) * Check(B)
  BY DEF Pace
<1>4. QED
  BY <1>1, <1>2, <1>3 DEF Pace, Check, Full

(* A request that has to be retried: the delay that follows is part of the *)
(* budget.                                                                 *)
LEMMA SleepPaces ==
  ASSUME NEW B, Budget(B), RunnerInv, Pace(B), NEW w \in Workers,
         pc[w] = "request", MayRetry(w), NEW delay \in Nat, Wait(w, "sleep", delay),
         B[attempts[w] - 1] + delay <= B[attempts[w]],
         UNCHANGED <<next, clock, attempts>>
  PROVE  Pace(B)'
<1> DEFINE a == attempts[w]
<1>1. /\ pc'[w] = "sleep" /\ left'[w] = delay /\ attempts'[w] = a
      /\ \A v \in Workers \ {w} :
           pc'[v] = pc[v] /\ left'[v] = left[v] /\ attempts'[v] = attempts[v]
  BY DEF Wait, RunnerInv, TypeOK
<1>2. /\ a \in 1..Retries /\ left[w] \in Nat /\ clock \in Nat
      /\ B[a] \in Nat /\ B[a - 1] \in Nat /\ Check(B) \in Nat
  <2>1. a \in 1..Retries
    BY RetryAssumption DEF RunnerInv, Duty, MayRetry
  <2>2. a \in 0..Retries /\ a - 1 \in 0..Retries
    BY <2>1, RetryAssumption
  <2>3. QED
    BY <2>1, <2>2, BudgetGrows DEF RunnerInv, TypeOK
<1>3. Reach(B, w) = a * Timeout + B[a - 1] /\ Reach(B, w)' = a * Timeout + B[a]
  BY <1>1 DEF Reach
<1>4. a * Timeout \in Nat
  BY <1>2, RetryAssumption
<1> HIDE DEF a
<1>5. ASSUME NEW t \in Nat, NEW d \in Nat, InTime(B, w, t, d)
      PROVE  InTime(B, w, t, d)'
  <2>1. clock + left[w] + Check(B) <= d + (a * Timeout + B[a - 1])
    BY <1>3, <1>5 DEF InTime
  <2>2. clock + delay + Check(B) <= d + (a * Timeout + B[a])
    BY <1>2, <1>4, <2>1 DEF a
  <2>3. clock' + left'[w] + Check(B) <= d + Reach(B, w)'
    BY <1>1, <1>3, <2>2
  <2>4. d <= t * Check(B) /\ d <= (Full + 1) * Check(B)
    BY <1>5 DEF InTime
  <2>5. QED
    BY <1>1, <2>3, <2>4 DEF InTime, Check, Full
<1>6. QED
  BY <1>1, <1>5, WorkerPaces

(* A check that ends makes its worker ready, in time for the next.         *)
LEMMA FinishPaces ==
  ASSUME NEW B, Budget(B), RunnerInv, Pace(B), NEW w \in Workers,
         pc[w] \in {"request", "sleep"}, NEW status, Finish(w, status),
         UNCHANGED <<next, clock>>
  PROVE  Pace(B)'
<1>1. /\ pc'[w] = "receive"
      /\ \A v \in Workers \ {w} :
           pc'[v] = pc[v] /\ left'[v] = left[v] /\ attempts'[v] = attempts[v]
  BY DEF Finish, Wait, RunnerInv, TypeOK
<1>2. /\ Reach(B, w) \in Nat /\ Reach(B, w) <= Check(B) /\ Check(B) \in Nat
      /\ left[w] \in Nat /\ clock \in Nat
  BY ReachWithin, BudgetGrows DEF RunnerInv, TypeOK
<1>3. ASSUME NEW t \in Nat, NEW d \in Nat, InTime(B, w, t, d)
      PROVE  InTime(B, w, t, d)'
  <2>1. clock + left[w] + Check(B) <= d + Reach(B, w)
    BY <1>3 DEF InTime
  <2>2. clock' <= d
    BY <1>2, <2>1
  <2>3. d <= t * Check(B) /\ d <= (Full + 1) * Check(B)
    BY <1>3 DEF InTime
  <2>4. QED
    BY <1>1, <2>2, <2>3 DEF InTime, Check, Full
<1>4. QED
  BY <1>1, <1>3, WorkerPaces

(* A delay that is over: one request more, one timeout more at most.       *)
LEMMA WakePaces ==
  ASSUME NEW B, Budget(B), RunnerInv, Pace(B), NEW w \in Workers, Wake(w)
  PROVE  Pace(B)'
<1> DEFINE a == attempts[w]
<1>1. PICK e \in 0..Timeout :
        /\ attempts' = [attempts EXCEPT ![w] = a + 1]
        /\ pc' = [pc EXCEPT ![w] = "request"] /\ left' = [left EXCEPT ![w] = e]
  BY DEF Wake, Attempt, Wait
<1>2. pc[w] = "sleep" /\ left[w] = 0 /\ UNCHANGED <<next, clock>>
  BY DEF Wake
<1>3. /\ pc'[w] = "request" /\ left'[w] = e /\ attempts'[w] = a + 1
      /\ \A v \in Workers \ {w} :
           pc'[v] = pc[v] /\ left'[v] = left[v] /\ attempts'[v] = attempts[v]
  BY <1>1 DEF RunnerInv, TypeOK
<1>4. /\ a \in 1..Retries /\ clock \in Nat /\ B[a] \in Nat /\ Check(B) \in Nat
  <2>1. a \in 1..Retries
    BY <1>2 DEF RunnerInv, Duty
  <2>2. QED
    BY <2>1, BudgetGrows, RetryAssumption DEF RunnerInv, TypeOK
<1>5. Reach(B, w) = a * Timeout + B[a]
  BY <1>2 DEF Reach
<1>6. Reach(B, w)' = (a + 1) * Timeout + B[a]
  <2>1. (a + 1) - 1 = a
    BY <1>4
  <2>2. QED
    BY <1>3, <2>1 DEF Reach
<1>7. (a + 1) * Timeout = a * Timeout + Timeout /\ a * Timeout \in Nat
  BY <1>4, RetryAssumption
<1> HIDE DEF a
<1>8. ASSUME NEW t \in Nat, NEW d \in Nat, InTime(B, w, t, d)
      PROVE  InTime(B, w, t, d)'
  <2>1. clock + left[w] + Check(B) <= d + Reach(B, w)
    BY <1>2, <1>8 DEF InTime
  <2>2. clock + e + Check(B) <= d + ((a + 1) * Timeout + B[a])
    BY <1>2, <1>4, <1>5, <1>7, <2>1, RetryAssumption
  <2>3. clock' + left'[w] + Check(B) <= d + Reach(B, w)'
    BY <1>2, <1>3, <1>6, <2>2
  <2>4. d <= t * Check(B) /\ d <= (Full + 1) * Check(B)
    BY <1>8 DEF InTime
  <2>5. QED
    BY <1>3, <2>3, <2>4 DEF InTime, Check, Full
<1>9. QED
  BY <1>2, <1>3, <1>8, WorkerPaces

LEMMA ExitPaces ==
  ASSUME NEW B, Budget(B), RunnerInv, Pace(B), NEW w \in Workers, Exit(w)
  PROVE  Pace(B)'
<1>1. /\ pc'[w] = "exit" /\ UNCHANGED <<next, clock>>
      /\ \A v \in Workers \ {w} :
           pc'[v] = pc[v] /\ left'[v] = left[v] /\ attempts'[v] = attempts[v]
  BY DEF Exit, RunnerInv, TypeOK
<1>2. ASSUME NEW t \in Nat, NEW d \in Nat, InTime(B, w, t, d)
      PROVE  InTime(B, w, t, d)'
  BY <1>1, <1>2 DEF InTime, Check, Full
<1>3. QED
  BY <1>1, <1>2, WorkerPaces

(* Time passes for all workers alike, and for none that is ready.          *)
LEMMA TickPaces ==
  ASSUME NEW B, Budget(B), RunnerInv, Pace(B), Tick
  PROVE  Pace(B)'
<1>1. PICK turns \in [Workers -> Nat], due \in [Workers -> Nat] :
        /\ IsFiniteSet(Turns(turns)) /\ Cardinality(Turns(turns)) = next - 1
        /\ \A v \in Workers : InTime(B, v, turns[v], due[v])
  BY DEF Pace
<1>2. /\ clock \in Nat /\ clock' = clock + 1 /\ UNCHANGED <<next, pc, attempts>>
      /\ Check(B) \in Nat /\ Full \in Nat
  BY BudgetGrows, BatchesFull DEF Tick, RunnerInv, TypeOK
<1>3. ASSUME NEW v \in Workers, Waiting(v)
      PROVE  /\ pc[v] \in {"request", "sleep"} /\ left[v] \in Nat \ {0}
             /\ left'[v] = left[v] - 1
             /\ Reach(B, v) \in Nat /\ Reach(B, v) <= Check(B)
             /\ clock + left[v] + Check(B) <= due[v] + Reach(B, v)
  <2>1. pc[v] \in {"request", "sleep"} /\ left[v] \in Nat \ {0} /\ left'[v] = left[v] - 1
    BY <1>3 DEF Tick, Waiting, RunnerInv, TypeOK
  <2>2. QED
    BY <1>1, <2>1, ReachWithin DEF InTime
<1>4. ASSUME NEW v \in Workers PROVE InTime(B, v, turns[v], due[v])'
  <2>1. CASE Waiting(v)
    <3>1. clock' + left'[v] = clock + left[v]
      BY <1>2, <1>3, <2>1
    <3>2. Reach(B, v)' = Reach(B, v)
      BY <1>2 DEF Reach
    <3>3. clock' + left'[v] + Check(B) <= due[v] + Reach(B, v)'
      BY <1>3, <2>1, <3>1, <3>2
    <3>4. due[v] <= turns[v] * Check(B) /\ due[v] <= (Full + 1) * Check(B)
      BY <1>1 DEF InTime
    <3>5. pc'[v] \in {"request", "sleep"}
      BY <1>2, <1>3, <2>1
    <3>6. QED
      BY <3>3, <3>4, <3>5 DEF InTime, Check, Full
  <2>2. CASE ~Waiting(v)
    <3>1. pc'[v] = "exit"
      BY <1>2, <2>2 DEF Tick
    <3>2. QED
      BY <1>1, <3>1 DEF InTime, Check, Full
  <2>3. QED
    BY <2>1, <2>2
<1>5. clock' <= (Full + 1) * Check(B)
  <2>1. PICK v \in Workers : Waiting(v)
    BY DEF Tick
  <2>2. clock' <= due[v]
    BY <1>2, <1>3, <2>1
  <2>3. due[v] <= (Full + 1) * Check(B) /\ (Full + 1) * Check(B) \in Nat
    BY <1>1, <1>2 DEF InTime
  <2>4. QED
    BY <1>2, <2>2, <2>3
<1>6. QED
  BY <1>1, <1>2, <1>4, <1>5 DEF Pace, Check, Full

LEMMA StillPaces ==
  ASSUME NEW B, Pace(B), UNCHANGED <<next, pc, attempts, left, clock>>
  PROVE  Pace(B)'
<1>1. PICK turns \in [Workers -> Nat], due \in [Workers -> Nat] :
        /\ IsFiniteSet(Turns(turns)) /\ Cardinality(Turns(turns)) = next - 1
        /\ \A v \in Workers : InTime(B, v, turns[v], due[v])
  BY DEF Pace
<1>2. \A v \in Workers : InTime(B, v, turns[v], due[v])'
  BY <1>1 DEF InTime, Reach, Check, Full
<1>3. clock' <= (Full + 1) * Check(B)
  BY DEF Pace
<1>4. QED
  BY <1>1, <1>2, <1>3 DEF Pace, Check, Full

(* Every step keeps the pace of a budget that covers the delays the step   *)
(* may start.                                                              *)
LEMMA PaceStep ==
  ASSUME NEW B, Budget(B), RunnerInv, Pace(B), [Next]_vars,
         \A w \in Workers, ra \in RetryAfter :
           /\ attempts[w] \in 1..Retries
           /\ delayed' = (delayed \/ ra > Backoff(attempts[w]))
           => B[attempts[w] - 1] + Delay(attempts[w], ra) <= B[attempts[w]]
  PROVE  Pace(B)'
<1>1. ASSUME NEW w \in Workers, Answer(w) PROVE Pace(B)'
  <2>1. /\ pc[w] = "request" /\ attempts[w] \in 1..(Retries + 1)
        /\ UNCHANGED <<next, clock>>
    BY <1>1 DEF Answer, RunnerInv, Duty
  <2>2. PICK reply \in Replies :
          LET verdict == RunnerVerdict(reply, cancelled) IN
          \/ /\ verdict.retry /\ MayRetry(w)
             /\ \E ra \in IF reply.error = NoError THEN RetryAfter ELSE {NoRetryAfter} :
                  /\ Wait(w, "sleep", Delay(attempts[w], ra))
                  /\ delayed' = (delayed \/ ra > Backoff(attempts[w]))
             /\ UNCHANGED <<job, attempts, results>>
          \/ /\ ~(verdict.retry /\ MayRetry(w))
             /\ Finish(w, verdict.status) /\ UNCHANGED delayed
    BY <1>1 DEF Answer
  <2>3. (IF reply.error = NoError THEN RetryAfter ELSE {NoRetryAfter}) \subseteq RetryAfter
    BY DEF RetryAfter
  <2>4. ASSUME MayRetry(w), UNCHANGED attempts, NEW ra \in RetryAfter,
               Wait(w, "sleep", Delay(attempts[w], ra)),
               delayed' = (delayed \/ ra > Backoff(attempts[w]))
        PROVE  Pace(B)'
    <3>1. attempts[w] \in 1..Retries
      BY <2>1, <2>4, RetryAssumption DEF MayRetry
    <3>2. Delay(attempts[w], ra) \in Nat
      BY <3>1, DelayType, RetryAssumption
    <3>3. B[attempts[w] - 1] + Delay(attempts[w], ra) <= B[attempts[w]]
      BY <2>4, <3>1
    <3>4. QED
      BY <2>1, <2>4, <3>2, <3>3, SleepPaces
  <2>5. ASSUME NEW status, Finish(w, status) PROVE Pace(B)'
    BY <2>1, <2>5, FinishPaces
  <2>6. QED
    BY <2>2, <2>3, <2>4, <2>5
<1>2. ASSUME NEW w \in Workers, AbortRequest(w) PROVE Pace(B)'
  <2>1. /\ pc[w] = "request" /\ attempts[w] \in 1..(Retries + 1)
        /\ UNCHANGED <<next, clock>>
    BY <1>2 DEF AbortRequest, RunnerInv, Duty
  <2>2. CASE /\ MayRetry(w) /\ Wait(w, "sleep", Backoff(attempts[w])) /\ UNCHANGED attempts
    <3>1. attempts[w] \in 1..Retries
      BY <2>1, <2>2, RetryAssumption DEF MayRetry
    <3>2. /\ Backoff(attempts[w]) \in Nat
          /\ B[attempts[w] - 1] + Backoff(attempts[w]) <= B[attempts[w]]
      BY <3>1, BudgetGrows
    <3>3. QED
      BY <2>1, <2>2, <3>2, SleepPaces
  <2>3. CASE Finish(w, "timeout")
    BY <2>1, <2>3, FinishPaces
  <2>4. QED
    BY <1>2, <2>2, <2>3 DEF AbortRequest
<1>3. ASSUME NEW w \in Workers, AbortSleep(w) PROVE Pace(B)'
  BY <1>3, FinishPaces DEF AbortSleep
<1>4. ASSUME NEW w \in Workers, Work(w) PROVE Pace(B)'
  BY <1>1, <1>2, <1>3, <1>4, HandPaces, WakePaces, ExitPaces DEF Work
<1>5. CASE Tick
  BY <1>5, TickPaces
<1>6. CASE Return \/ Cancel \/ Returned \/ UNCHANGED vars
  <2>1. UNCHANGED <<next, pc, attempts, left, clock>>
    BY <1>6 DEF Return, Cancel, Returned, vars
  <2>2. QED
    BY <2>1, StillPaces
<1>7. QED
  BY <1>4, <1>5, <1>6 DEF Next

CappedBudget == [a \in 0..Retries |-> a * Cap]

LEMMA CappedIsBudget ==
  /\ Budget(CappedBudget)
  /\ \A a \in 1..Retries : \A d \in 0..Cap : CappedBudget[a - 1] + d <= CappedBudget[a]
<1>1. CappedBudget \in [0..Retries -> Nat]
  BY RetryAssumption DEF CappedBudget
<1>2. ASSUME NEW a \in 1..Retries, NEW d \in 0..Cap
      PROVE  CappedBudget[a - 1] + d <= CappedBudget[a]
  <2>1. CappedBudget[a - 1] = (a - 1) * Cap /\ CappedBudget[a] = a * Cap
    BY RetryAssumption DEF CappedBudget
  <2>2. a * Cap = (a - 1) * Cap + Cap /\ (a - 1) * Cap \in Nat
    BY RetryAssumption
  <2>3. QED
    BY <2>1, <2>2, RetryAssumption
<1>3. \A a \in 1..Retries : Backoff(a) \in 0..Cap
  BY BackoffType
<1>4. QED
  BY <1>1, <1>2, <1>3 DEF Budget

(* However slow the servers, whatever Retry-After they send and however    *)
(* the pool shares out the projects: a run takes at most its batches times *)
(* the longest single check the policy allows.                             *)
THEOREM CappedWorstCaseHolds == Spec => []WithinCappedWorstCase
<1> DEFINE CappedInv == RunnerInv /\ Pace(CappedBudget)
<1>1. Init => CappedInv
  BY RunnerInit, PaceInit, CappedIsBudget
<1>2. CappedInv /\ [Next]_vars => CappedInv'
  <2> SUFFICES ASSUME CappedInv, [Next]_vars PROVE CappedInv'
    OBVIOUS
  <2>1. RunnerInv'
    BY RunnerStep
  <2>2. ASSUME NEW w \in Workers, NEW ra \in RetryAfter, attempts[w] \in 1..Retries
        PROVE  CappedBudget[attempts[w] - 1] + Delay(attempts[w], ra)
                 <= CappedBudget[attempts[w]]
    BY <2>2, DelayType, CappedIsBudget
  <2>3. Pace(CappedBudget)'
    BY <2>2, PaceStep, CappedIsBudget
  <2>4. QED
    BY <2>1, <2>3
<1>3. CappedInv => WithinCappedWorstCase
  <2>1. CappedBudget[Retries] = Retries * Cap
    BY RetryAssumption DEF CappedBudget
  <2>2. CappedWorstCase = (Full + 1) * Check(CappedBudget)
    BY <2>1, BatchesFull DEF CappedWorstCase, Check
  <2>3. QED
    BY <2>2 DEF Pace, WithinCappedWorstCase
<1>4. QED
  BY <1>1, <1>2, <1>3, PTL DEF Spec

BackoffBudget == [a \in 0..Retries |-> BackoffSum(a)]

LEMMA BackoffIsBudget ==
  /\ Budget(BackoffBudget)
  /\ \A a \in 1..Retries : BackoffBudget[a - 1] + Backoff(a) = BackoffBudget[a]
<1>1. ASSUME NEW a \in 0..Retries PROVE BackoffSum(a) \in Nat
  <2>1. a \in 0..3 /\ \A b \in 1..a : Backoff(b) \in Nat
    BY BackoffType, RetryAssumption
  <2>2. QED
    BY <2>1 DEF BackoffSum
<1>2. ASSUME NEW a \in 1..Retries PROVE BackoffSum(a - 1) + Backoff(a) = BackoffSum(a)
  <2>1. a \in 1..3 /\ \A b \in 1..a : Backoff(b) \in Nat
    BY BackoffType, RetryAssumption
  <2>2. QED
    BY <2>1 DEF BackoffSum
<1>3. BackoffBudget \in [0..Retries -> Nat]
  BY <1>1 DEF BackoffBudget
<1>4. ASSUME NEW a \in 1..Retries PROVE BackoffBudget[a - 1] + Backoff(a) = BackoffBudget[a]
  BY <1>2, RetryAssumption DEF BackoffBudget
<1>5. ASSUME NEW a \in 1..Retries PROVE BackoffBudget[a - 1] + Backoff(a) <= BackoffBudget[a]
  <2>1. BackoffBudget[a] \in Nat
    BY <1>3, RetryAssumption
  <2>2. QED
    BY <1>4, <2>1
<1>6. QED
  BY <1>3, <1>4, <1>5 DEF Budget

(* As long as no Retry-After is longer than the backoff it replaces, the   *)
(* batches the generators count cover the pool's run.                      *)
THEOREM BatchesCoverTheRun == Spec => []WithinConfiguredWorstCase
<1> DEFINE ConfiguredInv == RunnerInv /\ (~delayed => Pace(BackoffBudget))
<1>1. Init => ConfiguredInv
  BY RunnerInit, PaceInit, BackoffIsBudget
<1>2. ConfiguredInv /\ [Next]_vars => ConfiguredInv'
  <2> SUFFICES ASSUME ConfiguredInv, [Next]_vars PROVE ConfiguredInv'
    OBVIOUS
  <2>1. RunnerInv'
    BY RunnerStep
  <2>2. delayed => delayed'
    <3>1. ASSUME delayed, NEW w \in Workers, Work(w) PROVE delayed'
      BY <3>1 DEF Work, Hand, Answer, AbortRequest, AbortSleep, Wake, Exit
    <3>2. CASE Return \/ Cancel \/ Tick \/ Returned \/ UNCHANGED vars
      BY <3>2 DEF Return, Cancel, Tick, Returned, vars
    <3>3. QED
      BY <3>1, <3>2 DEF Next
  <2>3. ASSUME ~delayed' PROVE Pace(BackoffBudget)'
    <3>1. Pace(BackoffBudget)
      BY <2>2, <2>3
    <3>2. ASSUME NEW w \in Workers, NEW ra \in RetryAfter, attempts[w] \in 1..Retries,
                 delayed' = (delayed \/ ra > Backoff(attempts[w]))
          PROVE  BackoffBudget[attempts[w] - 1] + Delay(attempts[w], ra)
                   <= BackoffBudget[attempts[w]]
      <4>1. ~(ra > Backoff(attempts[w]))
        BY <2>3, <3>2
      <4>2. Delay(attempts[w], ra) \in Nat /\ Backoff(attempts[w]) \in Nat
        BY <3>2, DelayType, BackoffType, RetryAssumption
      <4>3. Delay(attempts[w], ra) <= Backoff(attempts[w])
        BY <4>1, <4>2, RetryAssumption DEF Delay, RetryAfter
      <4>4. attempts[w] - 1 \in 0..Retries /\ attempts[w] \in 0..Retries
        BY <3>2, RetryAssumption
      <4>5. /\ BackoffBudget[attempts[w] - 1] \in Nat
            /\ BackoffBudget[attempts[w] - 1] + Backoff(attempts[w])
                 = BackoffBudget[attempts[w]]
        BY <3>2, <4>4, BackoffIsBudget DEF Budget
      <4>6. QED
        BY <4>2, <4>3, <4>5
    <3>3. QED
      BY <3>1, <3>2, PaceStep, BackoffIsBudget
  <2>4. QED
    BY <2>1, <2>3
<1>3. ConfiguredInv => WithinConfiguredWorstCase
  <2>1. BackoffBudget[Retries] = BackoffSum(Retries)
    BY RetryAssumption DEF BackoffBudget
  <2>2. ConfiguredWorstCase = (Full + 1) * Check(BackoffBudget)
    BY <2>1, BatchesFull DEF ConfiguredWorstCase, Check
  <2>3. QED
    BY <2>2 DEF Pace, WithinConfiguredWorstCase
<1>4. QED
  BY <1>1, <1>2, <1>3, PTL DEF Spec

-----------------------------------------------------------------------------
(* The job of the generated workflow *)

(* Deliveries done take at most their timeout each. *)
JobInv ==
  /\ alerts \in Unknown..N /\ spent \in Nat
  /\ alerts = Unknown => spent = 0
  /\ alerts # Unknown => spent + alerts * DeliveryTimeout <= N * DeliveryTimeout
  /\ ~Notifications => alerts \in {Unknown, 0} /\ spent = 0

LEMMA JobStarts == JobInit => JobInv
BY RetryAssumption DEF JobInit, JobInv, Unknown

LEMMA JobStep == JobInv /\ [JobNext]_jobVars => JobInv'
<1> SUFFICES ASSUME JobInv, [JobNext]_jobVars PROVE JobInv'
  OBVIOUS
<1>1. CASE UNCHANGED <<alerts, spent>>
  BY <1>1 DEF JobInv
<1>2. CASE Advance
  <2>1. /\ alerts = Unknown /\ spent = 0 /\ spent' = 0
        /\ alerts' \in IF Notifications THEN 0..N ELSE {0}
    BY <1>2 DEF Advance, JobInv
  <2>2. alerts' \in 0..N
    BY <2>1, RetryAssumption
  <2>3. alerts' * DeliveryTimeout \in Nat /\ alerts' * DeliveryTimeout <= N * DeliveryTimeout
    <3>1. \A i, j, k \in Nat : i <= j => i * k \in Nat /\ i * k <= j * k
      OBVIOUS
    <3>2. alerts' \in Nat /\ N \in Nat /\ DeliveryTimeout \in Nat /\ alerts' <= N
      BY <2>2, RetryAssumption, JobAssumption
    <3>3. QED
      BY <3>1, <3>2
  <2>4. alerts' # Unknown
    BY <2>2 DEF Unknown
  <2>5. QED
    BY <2>1, <2>2, <2>3, <2>4, RetryAssumption DEF JobInv, Unknown
<1>3. CASE Deliver
  <2>1. PICK d \in 0..DeliveryTimeout : spent' = spent + d
    BY <1>3 DEF Deliver
  <2>2. /\ alerts \in 1..N /\ alerts' \in {alerts - 1, 0} /\ alerts # Unknown
        /\ spent \in Nat /\ spent + alerts * DeliveryTimeout <= N * DeliveryTimeout
    BY <1>3, RetryAssumption DEF Deliver, JobInv, Unknown
  <2>3. /\ alerts * DeliveryTimeout = (alerts - 1) * DeliveryTimeout + DeliveryTimeout
        /\ (alerts - 1) * DeliveryTimeout \in Nat /\ 0 * DeliveryTimeout = 0
        /\ N * DeliveryTimeout \in Nat
    BY <2>2, RetryAssumption, JobAssumption
  <2>4. spent' \in Nat /\ d <= DeliveryTimeout /\ DeliveryTimeout \in Nat /\ d \in Nat
    BY <2>1, <2>2, JobAssumption
  <2>5. spent' + alerts' * DeliveryTimeout <= N * DeliveryTimeout
    <3>1. spent' + (alerts - 1) * DeliveryTimeout <= N * DeliveryTimeout
      BY <2>1, <2>2, <2>3, <2>4
    <3>2. CASE alerts' = alerts - 1
      BY <3>1, <3>2
    <3>3. CASE alerts' = 0
      <4>1. alerts' * DeliveryTimeout = 0
        BY <2>3, <3>3
      <4>2. QED
        BY <2>3, <2>4, <3>1, <4>1
    <3>4. QED
      BY <2>2, <3>2, <3>3
  <2>6. alerts' \in 0..N
    BY <2>2, RetryAssumption
  <2>7. Notifications
    BY <2>2 DEF JobInv, Unknown
  <2>8. alerts' \in Unknown..N /\ alerts' # Unknown
    BY <2>6, RetryAssumption DEF Unknown
  <2>9. QED
    BY <2>4, <2>5, <2>7, <2>8 DEF JobInv
<1>4. QED
  BY <1>1, <1>2, <1>3 DEF JobNext, jobVars

(* A run command delivers at most one alert per project, each within its   *)
(* timeout.                                                                *)
THEOREM JobTypeCorrect == JobSpec => []JobTypeOK
<1>1. JobInv => JobTypeOK
  <2> SUFFICES ASSUME JobInv PROVE JobTypeOK
    OBVIOUS
  <2>1. N * DeliveryTimeout \in Nat
    BY RetryAssumption, JobAssumption
  <2>2. CASE alerts = Unknown
    BY <2>1, <2>2 DEF JobInv, JobTypeOK
  <2>3. CASE alerts # Unknown
    <3>1. alerts \in Nat /\ spent \in Nat
      BY <2>3 DEF JobInv, Unknown
    <3>2. alerts * DeliveryTimeout \in Nat
      BY <3>1, JobAssumption
    <3>3. spent + alerts * DeliveryTimeout <= N * DeliveryTimeout
      BY <2>3 DEF JobInv
    <3>4. spent \in 0..(N * DeliveryTimeout)
      BY <2>1, <3>1, <3>2, <3>3
    <3>5. QED
      BY <3>4 DEF JobInv, JobTypeOK
  <2>4. QED
    BY <2>2, <2>3
<1>2. QED
  BY <1>1, JobStarts, JobStep, PTL DEF JobSpec

(* Whole minutes, rounded up. *)
LEMMA RoundedUp ==
  ASSUME NEW t \in Nat
  PROVE  LET m == (t + Minute - 1) \div Minute IN m \in Nat /\ t <= m * Minute
<1>1. PICK u \in Nat : u = t + Minute - 1
  BY JobAssumption
<1>2. u \div Minute \in Nat /\ u < Minute * (u \div Minute + 1)
  BY JobAssumption
<1>3. PICK m \in Nat : m = u \div Minute
  BY <1>2
<1>4. Minute * (m + 1) = m * Minute + Minute /\ m * Minute \in Nat
  BY <1>3, JobAssumption
<1>5. t <= m * Minute
  BY <1>1, <1>2, <1>3, <1>4, JobAssumption
<1>6. QED
  BY <1>1, <1>3, <1>5

LEMMA TimesInNat ==
  /\ ConfiguredWorstCase \in Nat /\ N * DeliveryTimeout \in Nat
  /\ NotificationTime \in Nat /\ Allowance \in Nat /\ Minute \in Nat
<1>1. BackoffBudget[Retries] = BackoffSum(Retries)
  BY RetryAssumption DEF BackoffBudget
<1>2. ConfiguredWorstCase = (Full + 1) * Check(BackoffBudget)
  BY <1>1, BatchesFull DEF ConfiguredWorstCase, Check
<1>3. Full \in Nat /\ Check(BackoffBudget) \in Nat
  BY BatchesFull, BackoffIsBudget, BudgetGrows
<1>4. N * DeliveryTimeout \in Nat
  BY RetryAssumption, JobAssumption
<1>5. QED
  BY <1>2, <1>3, <1>4, JobAssumption DEF NotificationTime

(* The generated workflow's job is not cancelled under its run command: as *)
(* long as no Retry-After is longer than the backoff it replaces and the   *)
(* timeout was not cut at 360 minutes, pool and deliveries leave the other *)
(* steps what was reserved for them.                                       *)
THEOREM JobTimeoutHolds == JobSpec => []WithinJobTimeout
<1>1. JobSpec => Spec
  <2>1. JobInit => Init
    BY DEF JobInit
  <2>2. [JobNext]_jobVars => [Next]_vars
    BY DEF JobNext, jobVars, Advance, Deliver
  <2>3. QED
    BY <2>1, <2>2, PTL DEF JobSpec, Spec
<1>2. WithinConfiguredWorstCase /\ TypeOK /\ JobInv => WithinJobTimeout
  <2> SUFFICES ASSUME WithinConfiguredWorstCase, TypeOK, JobInv,
                      ~delayed, Minutes <= MostMinutes
               PROVE  clock + spent + Reserve <= WorkflowTimeoutMinutes * Minute
    BY DEF WithinJobTimeout
  <2> DEFINE t == ConfiguredWorstCase + NotificationTime
             m == (t + Minute - 1) \div Minute
  <2>1. t \in Nat
    BY TimesInNat
  <2> HIDE DEF t
  <2>2. m \in Nat /\ t <= m * Minute
    BY <2>1, RoundedUp
  <2>3. Minutes = m + SpareMinutes
    BY DEF Minutes, t
  <2> HIDE DEF m
  <2>4. Minutes \in Nat /\ WorkflowTimeoutMinutes \in Nat /\ Minutes <= WorkflowTimeoutMinutes
    BY <2>2, <2>3 DEF WorkflowTimeoutMinutes, Greater, Lesser, SpareMinutes, LeastMinutes, MostMinutes
  <2>5. Minutes * Minute <= WorkflowTimeoutMinutes * Minute
    <3>1. \A i, j, k \in Nat : i <= j => i * k <= j * k
      OBVIOUS
    <3>2. QED
      BY <2>4, <3>1, TimesInNat
  <2>6. Minutes * Minute = m * Minute + SpareMinutes * Minute
    BY <2>2, <2>3, TimesInNat DEF SpareMinutes
  <2>7. clock + spent + Reserve <= t + SpareMinutes * Minute
    <3>1. clock \in Nat /\ clock <= ConfiguredWorstCase
      BY DEF WithinConfiguredWorstCase, TypeOK
    <3>2. spent + (IF Notifications THEN Allowance ELSE 0) <= NotificationTime
      <4>1. spent \in 0..(N * DeliveryTimeout)
        <5>1. CASE alerts = Unknown
          BY <5>1, TimesInNat DEF JobInv
        <5>2. CASE alerts # Unknown
          <6>1. alerts \in Nat /\ spent \in Nat
            BY <5>2 DEF JobInv, Unknown
          <6>2. alerts * DeliveryTimeout \in Nat
            BY <6>1, JobAssumption
          <6>3. QED
            BY <5>2, <6>1, <6>2, TimesInNat DEF JobInv
        <5>3. QED
          BY <5>1, <5>2
      <4>2. QED
        BY <4>1, TimesInNat DEF JobInv, NotificationTime
    <3>3. SpareMinutes * Minute \in Nat /\ spent \in Nat
      BY TimesInNat DEF SpareMinutes, JobInv
    <3>4. QED
      BY <3>1, <3>2, <3>3, TimesInNat DEF Reserve, t
  <2>8. /\ clock + spent + Reserve \in Nat /\ m * Minute \in Nat
        /\ SpareMinutes * Minute \in Nat /\ WorkflowTimeoutMinutes * Minute \in Nat
    <3>1. clock \in Nat /\ spent \in Nat
      BY DEF TypeOK, JobInv
    <3>2. Reserve \in Nat
      BY TimesInNat DEF Reserve, SpareMinutes
    <3>3. QED
      BY <2>2, <2>4, <3>1, <3>2, TimesInNat DEF SpareMinutes
  <2>9. QED
    BY <2>1, <2>2, <2>5, <2>6, <2>7, <2>8
<1>3. Spec => []WithinConfiguredWorstCase
  BY BatchesCoverTheRun
<1>4. Spec => []TypeOK
  BY RunnerTypeCorrect
<1>5. JobSpec => []JobInv
  BY JobStarts, JobStep, PTL DEF JobSpec
<1>6. QED
  BY <1>1, <1>2, <1>3, <1>4, <1>5, PTL

=============================================================================
