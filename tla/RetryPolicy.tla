----------------------------- MODULE RetryPolicy -----------------------------
(***************************************************************************)
(* The retry policy the Go runner and the generated Cloudflare Worker      *)
(* share, and two worst-case durations of a run that follow from it: the   *)
(* sum both generators start from, and the time the policy allows when     *)
(* servers answer with Retry-After.                                        *)
(* Durations are natural numbers of one common unit.                       *)
(***************************************************************************)
EXTENDS Integers

CONSTANTS
  N,             \* configured projects
  Concurrency,   \* defaults.concurrency
  Timeout,       \* defaults.timeout, per attempt
  Retries,       \* defaults.retries, after the first attempt; at most three
  RetryBackoff,  \* defaults.retry_backoff
  Cap            \* 30 seconds

(* The ranges Validate leaves that matter here. *)
ASSUME RetryAssumption ==
  /\ N \in Nat \ {0} /\ Concurrency \in Nat \ {0}
  /\ Timeout \in Nat \ {0} /\ Retries \in 0..3 /\ RetryBackoff \in Nat /\ Cap \in Nat

Lesser(a, b) == IF a < b THEN a ELSE b

(* The delay before retry number attempt, doubling up to the cap. *)
Doublings == <<1, 2, 4>>
Backoff(attempt) == Lesser(RetryBackoff * Doublings[attempt], Cap)

(* What Retry-After may ask for: nothing usable, or a delay up to the cap. *)
NoRetryAfter == -1
RetryAfterUncapped == {NoRetryAfter} \union 0..(2 * Cap + 1)
RetryAfter == {NoRetryAfter} \union 0..Cap

(* The Worker parses the header itself (digits as an integer of any size,  *)
(* three forms of date), to the same range.                                *)
RetryAfterMilliseconds == RetryAfter

Delay(attempt, retryAfter) ==
  IF retryAfter = NoRetryAfter THEN Backoff(attempt) ELSE retryAfter

(* The delays before the first k retries. *)
BackoffSum(k) ==
  LET Counted(attempt) == IF attempt <= k THEN Backoff(attempt) ELSE 0
  IN  Counted(1) + Counted(2) + Counted(3)

Batches == (N + Concurrency - 1) \div Concurrency

(* The sum the generators start from: every attempt times out, every       *)
(* backoff is the configured one.  The Cloudflare generator compares it    *)
(* with its budget as it is; what the GitHub generator adds, and how it    *)
(* rounds and limits the result, is in JobTimeout.                         *)
ConfiguredWorstCase == Batches * (Timeout * (Retries + 1) + BackoffSum(Retries))

(* No code computes this one.  It is the specification's own bound on what *)
(* Check can take, its delays at the cap of retryAfter.                    *)
CappedWorstCase == Batches * (Timeout * (Retries + 1) + Retries * Cap)

=============================================================================
