----------------------------- MODULE CloudClient -----------------------------
(***************************************************************************)
(* CloudVerificationClient of the Pi (edge/cloud_client.py) on its own:    *)
(* one verify is a loop of attempts, and each attempt is a request that    *)
(* urllib3 itself repeats.  What a try meets on the wire is an input.      *)
(* EdgePipeline has the same client as the frame loop uses it, where a     *)
(* verify is one step.                                                     *)
(***************************************************************************)
EXTENDS Naturals, FiniteSetsExt

CONSTANT MaxRetries    \* max_retries, of the loop and of urllib3's Retry

ASSUME RetriesAssumption == MaxRetries \in Nat

VARIABLES
  call,       \* the verify under way: Idle, or its attempt and tries
  failing,    \* _consecutive_failures
  serverOk,   \* _server_reachable
  checked,    \* age of _last_health_check_ts: never, recent or old
  outcome,    \* OffloadOutcome of the last verify
  lost,       \* history: sent and failed verifies since the last success
  ailing      \* history: a health check failed since the last success

clientVars == <<call, failing, serverOk, checked, outcome, lost, ailing>>
healthVars == <<failing, serverOk, lost, ailing>>

Idle == [attempt |-> 0, left |-> 0, tries |-> 0]

\* What can become of one try: status 200 with a body that is JSON or is not,
\* a status of Retry's status_forcelist or another one, no connection in
\* either of two ways, no answer in time, and a body that breaks off.
Answered200 == {"answer", "garbled"}
Wire == Answered200 \cup {"rejected", "broken", "refused", "no_connect", "silent", "cut"}

\* Retry(total, status_forcelist, allowed_methods=["POST"]): what urllib3
\* repeats without telling the client.
Repeated == {"broken", "refused", "no_connect", "silent"}

ClientInit ==
  /\ call = Idle
  /\ failing = 0 /\ serverOk = TRUE /\ checked = "never"
  /\ outcome = "none" /\ lost = 0 /\ ailing = FALSE

Threshold5 == 5

\* _should_skip_due_to_failures.
Skips == failing >= Threshold5 /\ checked = "recent"

\* verify while the breaker is open: FALLBACK, and nothing is counted.
Skip ==
  /\ call = Idle /\ Skips
  /\ outcome' = "fallback"
  /\ UNCHANGED <<call, checked, healthVars>>

\* verify otherwise.  Five failures are forgotten here, before the crop is
\* encoded, and if that fails nothing is counted.
Begin ==
  /\ call = Idle /\ ~Skips
  /\ failing' = IF failing >= Threshold5 THEN 0 ELSE failing
  /\ \/ outcome' = "encode_failed" /\ UNCHANGED call
     \/ call' = [attempt |-> 1, left |-> MaxRetries, tries |-> 0] /\ UNCHANGED outcome
  /\ UNCHANGED <<serverOk, checked, lost, ailing>>

\* Mutant: only the third failure in a row is looked at, and a success does
\* not make the server reachable again.
TrackedOnce(ok) ==
  /\ failing' = IF ok THEN 0 ELSE failing + 1
  /\ serverOk' = (serverOk /\ (ok \/ failing + 1 # 3))

\* _update_health_tracking.
Tracked(ok) ==
  /\ failing' = IF ok THEN 0 ELSE failing + 1
  /\ serverOk' = (ok \/ (serverOk /\ failing + 1 < 3))

Finish(result) ==
  /\ call' = Idle /\ outcome' = result
  /\ Tracked(result = "success")
  /\ lost' = IF result = "success" THEN 0 ELSE Min({lost + 1, Threshold5})
  /\ ailing' = (ailing /\ result # "success")
  /\ UNCHANGED checked

\* The outcome after the last attempt is read off the text of its error, and
\* the text of whatever urllib3 gave up on names an HTTPConnectionPool.
LastError(r) == IF r \in {"garbled", "rejected"} THEN "server_error" ELSE "connection_error"

\* _post_with_retry goes on to its next attempt.
Further(c, r) == [c EXCEPT !.attempt = @ + 1, !.left = MaxRetries]

\* One try.  A connection that cannot be made in time is the only Timeout that
\* comes out of requests: an answer that does not come is a ConnectionError
\* once urllib3 has repeated it, and so is the status it gave up on.
Try(r) ==
  /\ call # Idle
  /\ LET c == [call EXCEPT !.tries = @ + 1]
     IN  IF r \in Repeated /\ c.left > 0
         THEN /\ call' = [c EXCEPT !.left = @ - 1]
              /\ UNCHANGED <<outcome, checked, healthVars>>
         ELSE CASE r = "answer" -> Finish("success")
                [] r = "no_connect" -> Finish("timeout")
                [] r \notin {"answer", "no_connect"} /\ c.attempt <= MaxRetries ->
                     /\ call' = Further(c, r)
                     /\ UNCHANGED <<outcome, checked, healthVars>>
                [] OTHER -> Finish(LastError(r))

\* health_check: an answer counts as a check whatever its status (urllib3
\* repeats none of them, this is no POST), an exception does not.
HealthCheck(r) ==
  /\ call = Idle
  /\ serverOk' = (r \in Answered200)
  /\ checked' = IF r \in Answered200 \cup {"rejected", "broken"} THEN "recent" ELSE checked
  /\ ailing' = (ailing \/ r \notin Answered200)
  /\ UNCHANGED <<call, failing, outcome, lost>>

\* Thirty seconds pass.
Window30 ==
  /\ checked = "recent" /\ checked' = "old"
  /\ UNCHANGED <<call, outcome, healthVars>>

ClientNext ==
  \/ Skip \/ Begin \/ Window30
  \/ \E r \in Wire : Try(r) \/ HealthCheck(r)

-----------------------------------------------------------------------------
(* Properties.                                                             *)

\* The client's fields keep their types, and a streak of failures never goes
\* past the breaker's threshold (cloud_client.py:328-347).
ClientTypeOK ==
  /\ call.attempt \in 0 .. MaxRetries + 1 /\ call.left \in 0 .. MaxRetries
  /\ failing \in 0 .. Threshold5 /\ lost \in 0 .. Threshold5
  /\ {serverOk, ailing} \subseteq BOOLEAN
  /\ checked \in {"never", "recent", "old"}
  /\ outcome \in {"none", "success", "timeout", "connection_error", "server_error",
                  "encode_failed", "fallback"}

\* A verify is over after (MaxRetries + 1)^2 tries, whatever each of them
\* meets: that, and not timeout_s, bounds how long a face holds up the frame
\* loop (cloud_client.py:267-326, 350-361).
TriesBounded == call.tries < (MaxRetries + 1) * (MaxRetries + 1)

\* The loop stops asking, or the breaker skips, only on account of real
\* failures since the last success: three verifies that were sent, or a health
\* check, and five verifies for the breaker (cloud_client.py:225-236, 328-347).
GivenUpForAReason ==
  /\ ~serverOk => lost >= 3 \/ ailing
  /\ failing <= lost

\* The breaker skips only after five failures in a row and within thirty
\* seconds of a health check that was answered: a verify is never skipped for
\* longer (cloud_client.py:328-337).
SkipsPass ==
  [][outcome' = "fallback" /\ outcome # "fallback" =>
       lost >= Threshold5 /\ checked = "recent"]_clientVars

\* What an outage of the verifier costs: so many tries and no more, and a loop
\* that asks no more only as long as it has a reason to.
OutageContained == [](ClientTypeOK /\ TriesBounded /\ GivenUpForAReason) /\ SkipsPass
=============================================================================
