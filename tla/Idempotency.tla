------------------------------ MODULE Idempotency ------------------------------
(***************************************************************************)
(* One Idempotency-Key of POST /growth-strategies and the requests that     *)
(* arrive with it.                                                          *)
(*                                                                          *)
(*   persistence/idempotency_store.py  PostgresIdempotencyStore             *)
(*   api.py                            _create_growth_strategy_with_idempotency *)
(*                                                                          *)
(* Keys do not interact, so one is enough.  A request claims the key in one *)
(* transaction, runs the workflow, and stores the outcome in another; the   *)
(* key may expire and be claimed again in between.  The variable ttlCovers  *)
(* chooses between deployments whose TTL outlasts every request and those   *)
(* where it need not.                                                       *)
(***************************************************************************)
EXTENDS Integers, Sequences

CONSTANTS
    Requests,       \* the API's request handlers, each one request at a time
    Bodies,         \* request bodies that hash differently
    NoBody,         \* of a key that has no row
    MaxExecutions   \* bound: completed executions of the workflow

ASSUME BodiesAssumption == NoBody \notin Bodies

VARIABLES
    row,        \* the key's row in idempotency_keys
    step,       \* where a request is
    body,       \* its body
    response,   \* its response: the number of the execution that made it
    answer,     \* what the caller was told last
    executed,   \* the bodies the workflow was run for, in order of completion
    ttlCovers   \* does the TTL outlast every request?

vars == <<row, step, body, response, answer, executed, ttlCovers>>

-----------------------------------------------------------------------------
(* The row.                                                                 *)

NoRow == [status |-> "none", body |-> NoBody, response |-> 0, live |-> FALSE]

InProgress(b) == [status |-> "in_progress", body |-> b, response |-> 0, live |-> TRUE]

\* Faulty: the outcome is stored under the key, whatever the request was.
OutcomeOfAnyBody(status, b, n) ==
    [row EXCEPT !.status = status, !.response = n, !.live = TRUE]

\* Faulty: a failure leaves the response that another execution stored.
OutcomeKeepsResponse(status, b, n) ==
    IF row.body = b
    THEN [row EXCEPT !.status = status, !.response = IF n = 0 THEN @ ELSE n, !.live = TRUE]
    ELSE row

\* The update matches the key and the hash, neither the status nor the claim,
\* and it renews the expiry.
Outcome(status, b, n) ==
    IF row.body = b
    THEN [row EXCEPT !.status = status, !.response = n, !.live = TRUE]
    ELSE row

\* Faulty: a request may start beside one in progress,
FreeUnlessSettled == row.status \in {"none", "in_progress"} \/ ~row.live

\* or a failed key is handed out again.
FreeAfterFailure == row.status \in {"none", "failed"} \/ ~row.live

\* No row, or one that the delete of expired rows removes first.
Free == row.status = "none" \/ ~row.live

-----------------------------------------------------------------------------
(* Requests.                                                                *)

Told(r, kind, n) ==
    /\ answer' = [answer EXCEPT ![r] = [kind |-> kind, response |-> n]]
    /\ step' = [step EXCEPT ![r] = "idle"]

Ask(r, b) ==
    /\ step[r] = "idle"
    /\ step' = [step EXCEPT ![r] = "begin"]
    /\ body' = [body EXCEPT ![r] = b]
    /\ answer' = [answer EXCEPT ![r] = [kind |-> "none", response |-> 0]]
    /\ UNCHANGED <<row, response, executed, ttlCovers>>

\* begin: the delete and the insert.  Requests that collided with the row that
\* is now replaced may no longer find it.
BeginStarts(r) ==
    /\ step[r] = "begin" /\ Free
    /\ row' = InProgress(body[r])
    /\ step' = [q \in Requests |-> IF q = r THEN "running"
                                   ELSE IF step[q] = "collided" THEN "replaced"
                                   ELSE step[q]]
    /\ UNCHANGED <<body, response, answer, executed, ttlCovers>>

\* begin: the insert found a row,
BeginCollides(r) ==
    /\ step[r] = "begin" /\ ~Free
    /\ step' = [step EXCEPT ![r] = "collided"]
    /\ UNCHANGED <<row, body, response, answer, executed, ttlCovers>>

\* which the next statement reads: the row of that moment.
ReadExisting(r) ==
    /\ step[r] \in {"collided", "replaced"}
    /\ IF row.body # body[r]                THEN Told(r, "reused", 0)
       ELSE IF row.status = "completed"     THEN Told(r, "replayed", row.response)
       ELSE IF row.status = "in_progress"   THEN Told(r, "in_progress", 0)
                                            ELSE Told(r, "previous_failure", 0)
    /\ UNCHANGED <<row, body, response, executed, ttlCovers>>

\* IDEMPOTENCY_KEY_RACE: SELECT FOR UPDATE waited for a row that was deleted.
LosesRace(r) ==
    /\ step[r] = "replaced"
    /\ Told(r, "race", 0)
    /\ UNCHANGED <<row, body, response, executed, ttlCovers>>

RunSucceeds(r) ==
    /\ step[r] = "running" /\ Len(executed) < MaxExecutions
    /\ executed' = Append(executed, body[r])
    /\ response' = [response EXCEPT ![r] = Len(executed')]
    /\ step' = [step EXCEPT ![r] = "succeeded"]
    /\ UNCHANGED <<row, body, answer, ttlCovers>>

RunFails(r) ==
    /\ step[r] = "running"
    /\ step' = [step EXCEPT ![r] = "failed"]
    /\ UNCHANGED <<row, body, response, answer, executed, ttlCovers>>

MarkCompleted(r) ==
    /\ step[r] = "succeeded"
    /\ row' = Outcome("completed", body[r], response[r])
    /\ Told(r, "created", response[r])
    /\ UNCHANGED <<body, response, executed, ttlCovers>>

MarkFailed(r) ==
    /\ step[r] = "failed"
    /\ row' = Outcome("failed", body[r], 0)
    /\ Told(r, "failed", 0)
    /\ UNCHANGED <<body, response, executed, ttlCovers>>

Executing(r) == step[r] \in {"running", "succeeded", "failed"}

\* The process dies, or raises anything but an HTTPException: the key stays
\* in progress until it expires.
Crashes(r) ==
    /\ Executing(r)
    /\ Told(r, "crashed", 0)
    /\ UNCHANGED <<row, body, response, executed, ttlCovers>>

\* expires_at passes.
Expires ==
    /\ row.live
    /\ ttlCovers => \A r \in Requests : ~Executing(r)
    /\ row' = [row EXCEPT !.live = FALSE]
    /\ UNCHANGED <<step, body, response, answer, executed, ttlCovers>>

-----------------------------------------------------------------------------

Init ==
    /\ row       = NoRow
    /\ step      = [r \in Requests |-> "idle"]
    /\ body      = [r \in Requests |-> NoBody]
    /\ response  = [r \in Requests |-> 0]
    /\ answer    = [r \in Requests |-> [kind |-> "none", response |-> 0]]
    /\ executed  = <<>>
    /\ ttlCovers \in BOOLEAN

RequestStep(r) ==
    \/ \E b \in Bodies : Ask(r, b)
    \/ BeginStarts(r) \/ BeginCollides(r) \/ ReadExisting(r) \/ LosesRace(r)
    \/ RunSucceeds(r) \/ RunFails(r) \/ MarkCompleted(r) \/ MarkFailed(r)
    \/ Crashes(r)

Next == Expires \/ \E r \in Requests : RequestStep(r)

Spec == Init /\ [][Next]_vars

-----------------------------------------------------------------------------
(* Properties.                                                              *)

Step == {"idle", "begin", "collided", "replaced", "running", "succeeded", "failed"}

Kind == {"none", "created", "replayed", "reused", "in_progress", "previous_failure",
         "race", "failed", "crashed"}

\* A row has a response exactly if it is completed, whoever wrote it last, and
\* whatever is told is the response of an execution that took place.
TypeOK ==
    /\ row \in [status : {"none", "in_progress", "completed", "failed"},
                body : Bodies \cup {NoBody}, response : Nat, live : BOOLEAN]
    /\ row.status = "completed" <=> row.response # 0
    /\ row.status = "none" <=> row.body = NoBody
    /\ row.live => row.status # "none"
    /\ step      \in [Requests -> Step]
    /\ body      \in [Requests -> Bodies \cup {NoBody}]
    /\ response  \in [Requests -> 0 .. Len(executed)]
    /\ answer    \in [Requests -> [kind : Kind, response : 0 .. Len(executed)]]
    /\ executed  \in Seq(Bodies)
    /\ ttlCovers \in BOOLEAN

\* Nobody is given the response to another body, not even when the key expired
\* under a running request and was claimed again with a different body.
ResponsesMatchBodies ==
    \A r \in Requests : answer[r].kind \in {"created", "replayed"} =>
        /\ answer[r].response \in 1 .. Len(executed)
        /\ executed[answer[r].response] = body[r]

\* While the TTL outlasts requests, the workflow runs once at a time per key.
OneAtATime ==
    ttlCovers => \A q, r \in Requests : Executing(q) /\ Executing(r) => q = r

\* While the TTL outlasts requests, the stored outcome of a key is final until
\* it expires: every repeated request is told the same.
StoredOutcomeIsFinal ==
    [][ttlCovers /\ row.live /\ row.status \in {"completed", "failed"}
         => row' \in {row, [row EXCEPT !.live = FALSE]}]_vars
=============================================================================
