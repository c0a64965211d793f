---------------------------- MODULE Classification ----------------------------
(***************************************************************************)
(* How one request of a check may end (a reply) and the verdict on it, by  *)
(* the Go runner (classifyResponse and classifyTransport in                *)
(* internal/heartbeat/runner.go) and by the generated Cloudflare Worker    *)
(* (runProject in the template of internal/scheduler/cloudflare.go), which *)
(* state the same table in two languages.                                  *)
(***************************************************************************)
EXTENDS Naturals

(* What a reply's body is, as far as either of them tells.  "other case"   *)
(* is the expected row with its key in upper case, "marked" the row behind *)
(* a byte order mark, "denied, not UTF-8" a PostgREST permission error     *)
(* with a broken character in another field.                               *)
Bodies == {"row", "no rows", "other rows", "null", "other case", "marked",
           "denied", "denied, not UTF-8", "malformed", "too large"}

MediaTypes == {"json", "json, bad parameter", "other"}

(* What Do, fetch or reading the body may fail with. *)
NoError == "none"
Errors  == {"deadline", "dns", "certificate", "handshake", "cut", "connection"}

HttpStatus == 100..599
NoHttp     == 0

(* A request fails before its headers arrive, fails while its body is      *)
(* read, or is answered.                                                   *)
Failure(error, http) ==
  [error |-> error, http |-> http, media |-> "other", body |-> "malformed"]
Response(http, media, body) ==
  [error |-> NoError, http |-> http, media |-> media, body |-> body]

Answered == {Response(h, m, b) : h \in HttpStatus, m \in MediaTypes, b \in Bodies}
Reply == Answered \union {Failure(e, h) : e \in Errors, h \in HttpStatus \union {NoHttp}}

FinalStatus ==
  {"healthy", "timeout", "dns_failure", "tls_failure", "database_permission_denied",
   "api_authentication_failed", "temporary_upstream_failure", "project_paused",
   "unexpected_response", "no_matching_row", "response_too_large"}

Permanent(status) == [status |-> status, retry |-> FALSE]
Transient(status) == [status |-> status, retry |-> TRUE]

-----------------------------------------------------------------------------
(* The Go runner *)

RunnerRetryable == {408, 425, 429, 502, 503, 504, 544}

(* classifyTransport; the server is reached over TLS.  A connection cut    *)
(* while its body is read is not a failure of the handshake.               *)
RunnerFailure(error, http, cancelled) ==
  CASE cancelled \/ error = "deadline" -> Transient("timeout")
    [] ~cancelled /\ error = "dns" -> Transient("dns_failure")
    [] ~cancelled /\ error = "certificate" -> Permanent("tls_failure")
    [] ~cancelled /\ error = "handshake" -> Transient("tls_failure")
    [] ~cancelled /\ error = "cut" ->
         Transient(IF http = NoHttp THEN "tls_failure" ELSE "temporary_upstream_failure")
    [] ~cancelled /\ error = "connection" -> Transient("temporary_upstream_failure")

(* The strict decoding of a list of rows: keys in any case, null a list    *)
(* without rows.                                                           *)
RunnerRows(media, body) ==
  IF media # "json" THEN "unexpected_response"
  ELSE CASE body \in {"row", "other case"} -> "healthy"
         [] body \in {"no rows", "null"} -> "no_matching_row"
         [] OTHER -> "unexpected_response"

RunnerResponse(reply) ==
  CASE reply.http = 540 -> Permanent("project_paused")
    [] reply.http \in RunnerRetryable -> Transient("temporary_upstream_failure")
    [] reply.http \in {401, 403} -> Permanent(
         IF reply.body \in {"denied", "denied, not UTF-8"}
           THEN "database_permission_denied" ELSE "api_authentication_failed")
    [] reply.http \in 200..299 -> Permanent(RunnerRows(reply.media, reply.body))
    [] OTHER -> Permanent("unexpected_response")

RunnerVerdict(reply, cancelled) ==
  CASE reply.error # NoError -> RunnerFailure(reply.error, reply.http, cancelled)
    [] reply.error = NoError /\ reply.body = "too large" -> Permanent("response_too_large")
    [] OTHER -> RunnerResponse(reply)

-----------------------------------------------------------------------------
(* The generated Worker *)

WorkerRetryableWithout544 == {408, 425, 429, 502, 503, 504}
WorkerRetryable == {408, 425, 429, 502, 503, 504, 544}

(* Whatever fetch or the body's reader throws is retried. *)
WorkerFailure(error) ==
  Transient(IF error = "deadline" THEN "timeout" ELSE "temporary_upstream_failure")

(* The body as text: a byte order mark is dropped, and bytes that are not  *)
(* UTF-8 leave nothing but the status to go by.                            *)
WorkerText(body) ==
  CASE body = "marked" -> "row"
    [] body = "denied, not UTF-8" -> "malformed"
    [] OTHER -> body

(* The comparison of media types ignores parameters. *)
WorkerRows(media, text) ==
  IF media = "other" THEN "unexpected_response"
  ELSE CASE text = "row" -> "healthy"
         [] text = "no rows" -> "no_matching_row"
         [] OTHER -> "unexpected_response"

WorkerResponse(reply, text) ==
  CASE reply.http = 540 -> Permanent("project_paused")
    [] reply.http \in WorkerRetryable -> Transient("temporary_upstream_failure")
    [] reply.http \in {401, 403} -> Permanent(
         IF text = "denied" THEN "database_permission_denied" ELSE "api_authentication_failed")
    [] reply.http \in 200..299 -> Permanent(WorkerRows(reply.media, text))
    [] OTHER -> Permanent("unexpected_response")

WorkerVerdict(reply) ==
  CASE reply.error # NoError -> WorkerFailure(reply.error)
    [] reply.error = NoError /\ reply.body = "too large" -> Permanent("response_too_large")
    [] OTHER -> WorkerResponse(reply, WorkerText(reply.body))

-----------------------------------------------------------------------------
(* Where the two tables are meant to agree *)

(* Failures, and the responses PostgREST sends: JSON in the form it writes *)
(* it, a well-formed media type.                                           *)
Canonical(reply) ==
  \/ reply.error # NoError
  \/ /\ reply.media # "json, bad parameter"
     /\ reply.body \notin {"null", "other case", "marked", "denied, not UTF-8"}

(* The Worker has no status of its own for DNS and TLS, and retries a      *)
(* certificate error like any other.                                       *)
Coarsened(verdict) ==
  IF verdict.status \in {"dns_failure", "tls_failure"}
    THEN Transient("temporary_upstream_failure") ELSE verdict

=============================================================================
