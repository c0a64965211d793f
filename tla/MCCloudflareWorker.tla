-------------------------- MODULE MCCloudflareWorker --------------------------
(* A reply for every row of the Worker's table. *)
EXTENDS CloudflareWorker

SomeReplies ==
  {Response(200, "json", "row"), Response(200, "json", "other rows"),
   Response(401, "json", "denied"), Response(544, "other", "malformed"),
   Response(503, "json", "too large"), Failure("deadline", 503),
   Failure("certificate", NoHttp)}
=============================================================================
