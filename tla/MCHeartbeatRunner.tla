-------------------------- MODULE MCHeartbeatRunner --------------------------
(* The pool in its job, with one reply of each kind it tells apart: one    *)
(* that ends the check, one to be retried after a response, which may      *)
(* carry Retry-After, and one to be retried after an error.                *)
EXTENDS JobTimeout

SomeReplies ==
  {Response(200, "json", "row"), Response(503, "other", "malformed"),
   Failure("deadline", NoHttp)}
=============================================================================
