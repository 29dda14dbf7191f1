-------------------------- MODULE IdempotencyProofs --------------------------
(***************************************************************************)
(* Proofs of the properties of Idempotency, for any set of requests and of  *)
(* bodies and any bound on executions.                                      *)
(*                                                                          *)
(* ResponsesMatchBodies needs to know where an answer comes from: a run     *)
(* that succeeded carries its own execution, and a completed row the one of *)
(* its body (Carried).  OneAtATime and StoredOutcomeIsFinal need the claim: *)
(* while the TTL covers requests, a request that executes holds the row in  *)
(* progress, so the row is neither free nor settled (Claimed).              *)
(***************************************************************************)
EXTENDS Idempotency, TLAPS

\* Execution n took place, for body b.
MadeFor(n, b) == n \in 1 .. Len(executed) /\ executed[n] = b

\* What TypeOK says of the row.
RowOK ==
    /\ row \in [status : {"none", "in_progress", "completed", "failed"},
                body : Bodies \cup {NoBody}, response : Nat, live : BOOLEAN]
    /\ row.status = "completed" <=> row.response # 0
    /\ row.status = "none" <=> row.body = NoBody
    /\ row.live => row.status # "none"

\* What a run or a row hands out was made for its body.
Carried ==
    /\ row.status = "completed" => MadeFor(row.response, row.body)
    /\ \A r \in Requests : step[r] = "succeeded" => MadeFor(response[r], body[r])
    /\ \A r \in Requests : step[r] # "idle" => body[r] \in Bodies

\* While the TTL covers requests, whoever executes holds the key.
Claimed ==
    ttlCovers => \A r \in Requests :
        Executing(r) => row.status = "in_progress" /\ row.live

Inv == TypeOK /\ Carried /\ ResponsesMatchBodies /\ Claimed /\ OneAtATime

-----------------------------------------------------------------------------

\* An execution that took place stays on record (executed only grows).
LEMMA ExecutionsStay ==
    ASSUME executed \in Seq(Bodies), NEW b \in Bodies,
           executed' = Append(executed, b)
    PROVE  /\ executed' \in Seq(Bodies)
           /\ Len(executed') = Len(executed) + 1
           /\ executed'[Len(executed')] = b
           /\ \A n \in 1 .. Len(executed) : executed'[n] = executed[n]
  OBVIOUS

\* An outcome changes the row of the same body only, and keeps its body
\* (_update_existing_key).
LEMMA OutcomeEffect ==
    ASSUME TypeOK, NEW status \in {"completed", "failed"}, NEW b \in Bodies,
           NEW n \in Nat, status = "completed" <=> n # 0, row' = Outcome(status, b, n)
    PROVE  /\ RowOK'
           /\ \/ row' = row
              \/ row'.status = status /\ row'.body = b /\ row'.response = n
  BY BodiesAssumption DEF Outcome, TypeOK, RowOK

\* Every request's step, as the invariant sees it: an answer is a record.
LEMMA ToldEffect ==
    ASSUME TypeOK, NEW r \in Requests, NEW kind \in Kind,
           NEW n \in 0 .. Len(executed), Told(r, kind, n)
    PROVE  /\ step' \in [Requests -> Step]
           /\ answer' \in [Requests -> [kind : Kind, response : 0 .. Len(executed)]]
           /\ step'[r] = "idle" /\ answer'[r] = [kind |-> kind, response |-> n]
           /\ \A q \in Requests \ {r} : step'[q] = step[q] /\ answer'[q] = answer[q]
  BY DEF Told, TypeOK, Step

-----------------------------------------------------------------------------

\* Everything that only tells a caller something other than a response, and
\* touches neither the row nor the executions: the conflict answers, the race
\* and the crash.
LEMMA PlainAnswer ==
    ASSUME Inv, NEW r \in Requests,
           NEW kind \in Kind \ {"created", "replayed"}, Told(r, kind, 0),
           UNCHANGED <<row, body, response, executed, ttlCovers>>
    PROVE  Inv'
  <1>0. TypeOK /\ 0 \in 0 .. Len(executed)
    BY DEF Inv, TypeOK
  <1>1. /\ step' \in [Requests -> Step]
        /\ answer' \in [Requests -> [kind : Kind, response : 0 .. Len(executed)]]
        /\ step'[r] = "idle" /\ answer'[r] = [kind |-> kind, response |-> 0]
        /\ \A q \in Requests \ {r} : step'[q] = step[q] /\ answer'[q] = answer[q]
    BY <1>0, ToldEffect
  <1>2. TypeOK'
    BY <1>1 DEF Inv, TypeOK
  <1>3. Carried'
    BY <1>1 DEF Inv, Carried, MadeFor
  <1>4. ResponsesMatchBodies'
    BY <1>1 DEF Inv, ResponsesMatchBodies
  <1>5. Claimed' /\ OneAtATime'
    BY <1>1 DEF Inv, Claimed, OneAtATime, Executing
  <1> QED
    BY <1>2, <1>3, <1>4, <1>5 DEF Inv

\* A step that moves one request between two points of its handler.
LEMMA PlainMove ==
    ASSUME Inv, NEW r \in Requests, NEW s \in Step \ {"succeeded"},
           step[r] # "idle", Executing(r) \/ s = "collided",
           step' = [step EXCEPT ![r] = s],
           UNCHANGED <<row, body, response, answer, executed, ttlCovers>>
    PROVE  Inv'
  <1>1. TypeOK'
    BY DEF Inv, TypeOK
  <1>2. Carried'
    BY DEF Inv, TypeOK, Carried, MadeFor
  <1>3. ResponsesMatchBodies'
    BY DEF Inv, ResponsesMatchBodies
  <1>4. Claimed' /\ OneAtATime'
    BY DEF Inv, TypeOK, Claimed, OneAtATime, Executing
  <1> QED
    BY <1>1, <1>2, <1>3, <1>4 DEF Inv

\* The end of a request that ran: its outcome is stored where its body is, and
\* it no longer executes.
LEMMA OutcomeStored ==
    ASSUME Inv, NEW r \in Requests, Executing(r),
           NEW status \in {"completed", "failed"},
           NEW kind \in {"created", "failed"},
           NEW n \in 0 .. Len(executed),
           status = "completed" <=> n # 0,
           status = "completed" \/ kind = "created" => MadeFor(n, body[r]),
           row' = Outcome(status, body[r], n), Told(r, kind, n),
           UNCHANGED <<body, response, executed, ttlCovers>>
    PROVE  Inv'
  <1>1. body[r] \in Bodies
    BY DEF Inv, Carried, Executing
  <1>2. n \in Nat
    BY DEF Inv, TypeOK
  <1>3. /\ RowOK'
        /\ \/ row' = row
           \/ row'.status = status /\ row'.body = body[r] /\ row'.response = n
    BY <1>1, <1>2, OutcomeEffect DEF Inv
  <1>4. /\ step' \in [Requests -> Step]
        /\ answer' \in [Requests -> [kind : Kind, response : 0 .. Len(executed)]]
        /\ step'[r] = "idle" /\ answer'[r] = [kind |-> kind, response |-> n]
        /\ \A q \in Requests \ {r} : step'[q] = step[q] /\ answer'[q] = answer[q]
    <2>1. TypeOK /\ kind \in Kind
      BY DEF Inv, Kind
    <2> QED
      BY <2>1, ToldEffect
  <1>5. TypeOK'
    BY <1>3, <1>4 DEF Inv, TypeOK, RowOK
  <1>6. Carried'
    BY <1>3, <1>4 DEF Inv, Carried, MadeFor
  <1>7. ResponsesMatchBodies'
    BY <1>4 DEF Inv, ResponsesMatchBodies, MadeFor
  <1>8. ttlCovers => \A q \in Requests : ~Executing(q)'
    BY <1>4 DEF Inv, OneAtATime, Executing
  <1>9. Claimed' /\ OneAtATime'
    BY <1>8 DEF Claimed, OneAtATime, Executing
  <1> QED
    BY <1>5, <1>6, <1>7, <1>9 DEF Inv

-----------------------------------------------------------------------------

LEMMA InitInv == Init => Inv
  BY DEF Init, NoRow, Inv, TypeOK, Step, Kind, Carried, ResponsesMatchBodies,
         Claimed, OneAtATime, Executing

\* A new request: its last answer is forgotten with its old body.
LEMMA AskInv ==
    ASSUME Inv, NEW r \in Requests, NEW b \in Bodies, Ask(r, b)
    PROVE  Inv'
  <1>1. TypeOK'
    BY DEF Inv, TypeOK, Ask, Step, Kind
  <1>2. Carried'
    BY DEF Inv, TypeOK, Ask, Carried, MadeFor
  <1>3. ResponsesMatchBodies'
    BY DEF Inv, TypeOK, Ask, ResponsesMatchBodies
  <1>4. Claimed' /\ OneAtATime'
    BY DEF Inv, TypeOK, Ask, Claimed, OneAtATime, Executing
  <1> QED
    BY <1>1, <1>2, <1>3, <1>4 DEF Inv

\* A claim: a free row means, while the TTL covers requests, that nobody runs.
LEMMA BeginStartsInv ==
    ASSUME Inv, NEW r \in Requests, BeginStarts(r)
    PROVE  Inv'
  <1>1. body[r] \in Bodies
    BY DEF Inv, Carried, BeginStarts
  <1>2. RowOK' /\ row'.status = "in_progress" /\ row'.live
    BY <1>1, BodiesAssumption DEF BeginStarts, InProgress, RowOK
  <1>3. /\ step' \in [Requests -> Step]
        /\ step'[r] = "running"
        /\ \A q \in Requests \ {r} :
              step'[q] = step[q] \/ (step[q] = "collided" /\ step'[q] = "replaced")
    <2>1. step' = [q \in Requests |-> IF q = r THEN "running"
                                     ELSE IF step[q] = "collided" THEN "replaced"
                                     ELSE step[q]]
      BY DEF BeginStarts
    <2>2. \A q \in Requests : step[q] \in Step
      BY DEF Inv, TypeOK
    <2>3. "running" \in Step /\ "replaced" \in Step
      BY DEF Step
    <2> QED
      BY <2>1, <2>2, <2>3
  <1>4. ttlCovers => \A q \in Requests : ~Executing(q)
    BY DEF BeginStarts, Free, Inv, Claimed
  <1>5. TypeOK'
    BY <1>2, <1>3 DEF BeginStarts, Inv, TypeOK, RowOK
  <1>6. Carried'
    BY <1>1, <1>2, <1>3 DEF BeginStarts, Inv, Carried, MadeFor
  <1>7. ResponsesMatchBodies'
    BY DEF BeginStarts, Inv, ResponsesMatchBodies
  <1>8. Claimed'
    BY <1>2 DEF Claimed
  <1>9. OneAtATime'
    BY <1>3, <1>4 DEF BeginStarts, OneAtATime, Executing
  <1> QED
    BY <1>5, <1>6, <1>7, <1>8, <1>9 DEF Inv

\* A replay hands out what a completed row of the same body carries.
LEMMA ReadExistingInv ==
    ASSUME Inv, NEW r \in Requests, ReadExisting(r)
    PROVE  Inv'
  <1>1. CASE row.body = body[r] /\ row.status = "completed"
    <2>1. MadeFor(row.response, body[r]) /\ Told(r, "replayed", row.response)
      BY <1>1 DEF ReadExisting, Inv, Carried
    <2>2. row.response \in 0 .. Len(executed)
      BY <2>1 DEF MadeFor, Inv, TypeOK
    <2>3. /\ step' \in [Requests -> Step]
          /\ answer' \in [Requests -> [kind : Kind, response : 0 .. Len(executed)]]
          /\ step'[r] = "idle"
          /\ answer'[r] = [kind |-> "replayed", response |-> row.response]
          /\ \A q \in Requests \ {r} : step'[q] = step[q] /\ answer'[q] = answer[q]
      BY <2>1, <2>2, ToldEffect DEF Inv, Kind
    <2>4. TypeOK'
      BY <2>3 DEF ReadExisting, Inv, TypeOK
    <2>5. Carried'
      BY <2>3 DEF ReadExisting, Inv, Carried, MadeFor
    <2>6. ResponsesMatchBodies'
      BY <2>1, <2>3 DEF ReadExisting, Inv, ResponsesMatchBodies, MadeFor
    <2>7. Claimed' /\ OneAtATime'
      BY <2>3 DEF ReadExisting, Inv, Claimed, OneAtATime, Executing
    <2> QED
      BY <2>4, <2>5, <2>6, <2>7 DEF Inv
  <1>2. CASE ~(row.body = body[r] /\ row.status = "completed")
    <2>1. PICK kind \in {"reused", "in_progress", "previous_failure"} : Told(r, kind, 0)
      BY <1>2 DEF ReadExisting
    <2>2. UNCHANGED <<row, body, response, executed, ttlCovers>>
      BY DEF ReadExisting
    <2> QED
      BY <2>1, <2>2, PlainAnswer DEF Kind
  <1> QED
    BY <1>1, <1>2

\* A run that succeeds is recorded for the body of its request.
LEMMA RunSucceedsInv ==
    ASSUME Inv, NEW r \in Requests, RunSucceeds(r)
    PROVE  Inv'
  <1>1. body[r] \in Bodies
    BY DEF Inv, Carried, RunSucceeds
  <1>2. /\ executed' \in Seq(Bodies)
        /\ Len(executed') = Len(executed) + 1
        /\ executed'[Len(executed')] = body[r]
        /\ \A n \in 1 .. Len(executed) : executed'[n] = executed[n]
    BY <1>1, ExecutionsStay DEF Inv, TypeOK, RunSucceeds
  <1>3. Len(executed) \in Nat
    BY DEF Inv, TypeOK
  <1>4. response' = [response EXCEPT ![r] = Len(executed')]
    BY DEF RunSucceeds
  <1>5. /\ step' = [step EXCEPT ![r] = "succeeded"] /\ step[r] = "running"
        /\ UNCHANGED <<row, body, answer, ttlCovers>>
    BY DEF RunSucceeds
  <1>6. response' \in [Requests -> 0 .. Len(executed')]
    <2>1. \A q \in Requests : response[q] \in 0 .. Len(executed')
      BY <1>2, <1>3 DEF Inv, TypeOK
    <2> QED
      BY <2>1, <1>2, <1>3, <1>4 DEF Inv, TypeOK
  <1>7. TypeOK'
    <2>1. \A q \in Requests : answer'[q] \in [kind : Kind, response : 0 .. Len(executed')]
      BY <1>2, <1>3, <1>5 DEF Inv, TypeOK
    <2> QED
      BY <2>1, <1>2, <1>5, <1>6 DEF Inv, TypeOK, Step
  <1>8. \A n, b : MadeFor(n, b) => MadeFor(n, b)'
    BY <1>2, <1>3 DEF MadeFor
  <1>9. MadeFor(response[r], body[r])'
    BY <1>2, <1>3, <1>4, <1>5 DEF MadeFor, Inv, TypeOK
  <1>10. Carried'
    <2>1. row'.status = "completed" => MadeFor(row.response, row.body)'
      BY <1>5, <1>8 DEF Inv, Carried
    <2>2. ASSUME NEW q \in Requests, step'[q] = "succeeded"
          PROVE  MadeFor(response[q], body[q])'
      <3>1. CASE q = r
        BY <3>1, <1>9
      <3>2. CASE q # r
        <4>1. MadeFor(response[q], body[q])
          BY <2>2, <3>2, <1>5 DEF Inv, TypeOK, Carried
        <4>2. response'[q] = response[q] /\ body'[q] = body[q]
          BY <3>2, <1>4, <1>5 DEF Inv, TypeOK
        <4> QED
          BY <4>1, <4>2, <1>8 DEF MadeFor
      <3> QED
        BY <3>1, <3>2
    <2>3. \A q \in Requests : step'[q] # "idle" => body'[q] \in Bodies
      BY <1>5 DEF Inv, TypeOK, Carried
    <2> QED
      BY <2>1, <2>2, <2>3, <1>5 DEF Carried, MadeFor
  <1>11. ResponsesMatchBodies'
    BY <1>2, <1>3, <1>5 DEF Inv, ResponsesMatchBodies
  <1>12. Claimed' /\ OneAtATime'
    BY <1>5 DEF Inv, TypeOK, Claimed, OneAtATime, Executing
  <1> QED
    BY <1>7, <1>10, <1>11, <1>12 DEF Inv

-----------------------------------------------------------------------------

\* Every step of Next preserves the invariant, one handler step at a time.
LEMMA NextInv == Inv /\ [Next]_vars => Inv'
  <1> SUFFICES ASSUME Inv, [Next]_vars PROVE Inv'
    OBVIOUS
  <1>1. ASSUME NEW r \in Requests, RequestStep(r) PROVE Inv'
    <2>1. ASSUME NEW b \in Bodies, Ask(r, b) PROVE Inv'
      BY <2>1, AskInv
    <2>2. CASE BeginStarts(r)
      BY <2>2, BeginStartsInv
    <2>3. CASE BeginCollides(r)
      BY <2>3, PlainMove DEF BeginCollides, Step
    <2>4. CASE ReadExisting(r)
      BY <2>4, ReadExistingInv
    <2>5. CASE LosesRace(r)
      BY <2>5, PlainAnswer DEF LosesRace, Kind
    <2>6. CASE RunSucceeds(r)
      BY <2>6, RunSucceedsInv
    <2>7. CASE RunFails(r)
      BY <2>7, PlainMove DEF RunFails, Executing, Step
    <2>8. CASE MarkCompleted(r)
      <3>1. MadeFor(response[r], body[r]) /\ response[r] \in 1 .. Len(executed)
        BY <2>8 DEF MarkCompleted, Inv, Carried, TypeOK, MadeFor
      <3>2. Executing(r)
        BY <2>8 DEF MarkCompleted, Executing
      <3> QED
        BY <2>8, <3>1, <3>2, OutcomeStored DEF MarkCompleted
    <2>9. CASE MarkFailed(r)
      <3>1. 0 \in 0 .. Len(executed)
        BY DEF Inv, TypeOK
      <3>2. Executing(r)
        BY <2>9 DEF MarkFailed, Executing
      <3> QED
        BY <2>9, <3>1, <3>2, OutcomeStored DEF MarkFailed
    <2>10. CASE Crashes(r)
      BY <2>10, PlainAnswer DEF Crashes, Kind
    <2> QED
      BY <1>1, <2>1, <2>2, <2>3, <2>4, <2>5, <2>6, <2>7, <2>8, <2>9, <2>10
         DEF RequestStep
  <1>2. CASE Expires
    <2>1. row' = [row EXCEPT !.live = FALSE]
      BY <1>2 DEF Expires
    <2>2. /\ UNCHANGED <<step, body, response, answer, executed, ttlCovers>>
          /\ ttlCovers => \A r \in Requests : ~Executing(r)
      BY <1>2 DEF Expires
    <2>3. TypeOK'
      BY <2>1, <2>2 DEF Inv, TypeOK
    <2>4. Carried'
      BY <2>1, <2>2 DEF Inv, TypeOK, Carried, MadeFor
    <2>5. ResponsesMatchBodies'
      BY <2>2 DEF Inv, ResponsesMatchBodies
    <2>6. Claimed' /\ OneAtATime'
      BY <2>2 DEF Claimed, OneAtATime, Executing
    <2> QED
      BY <2>3, <2>4, <2>5, <2>6 DEF Inv
  <1>3. CASE UNCHANGED vars
    BY <1>3 DEF vars, Inv, TypeOK, Carried, MadeFor, ResponsesMatchBodies, Claimed,
                OneAtATime, Executing
  <1> QED
    BY <1>1, <1>2, <1>3 DEF Next

\* The invariant holds in every reachable state.
THEOREM IdempotencyInvariant == Spec => []Inv
  BY InitInv, NextInv, PTL DEF Spec

\* Type correctness of the key's row and of the requests that use it.
THEOREM IdempotencyTypeCorrect == Spec => []TypeOK
  <1>1. Inv => TypeOK
    BY DEF Inv
  <1> QED
    BY <1>1, IdempotencyInvariant, PTL

\* No caller of create_growth_strategy is given the response to another body,
\* whether or not the TTL covers requests.
THEOREM NobodyGetsAnothersResponse == Spec => []ResponsesMatchBodies
  <1>1. Inv => ResponsesMatchBodies
    BY DEF Inv
  <1> QED
    BY <1>1, IdempotencyInvariant, PTL

\* While the TTL covers requests, at most one request runs the workflow.
THEOREM TheKeyIsALock == Spec => []OneAtATime
  <1>1. Inv => OneAtATime
    BY DEF Inv
  <1> QED
    BY <1>1, IdempotencyInvariant, PTL

\* While the TTL covers requests, a stored outcome changes only by expiring:
\* a settled row is not free, and whoever would store into it does not exist.
LEMMA SettledStays ==
    ASSUME Inv, [Next]_vars, ttlCovers, row.live, row.status \in {"completed", "failed"}
    PROVE  row' \in {row, [row EXCEPT !.live = FALSE]}
  <1>1. \A r \in Requests : ~Executing(r)
    BY DEF Inv, Claimed
  <1>2. ASSUME NEW r \in Requests, RequestStep(r) PROVE row' = row
    <2>1. ~BeginStarts(r)
      BY DEF BeginStarts, Free
    <2>2. ~MarkCompleted(r) /\ ~MarkFailed(r)
      BY <1>1 DEF MarkCompleted, MarkFailed, Executing
    <2> QED
      BY <1>2, <2>1, <2>2 DEF RequestStep, Ask, BeginCollides, ReadExisting, LosesRace,
                              RunSucceeds, RunFails, Crashes
  <1>3. CASE Expires
    BY <1>3 DEF Expires
  <1>4. CASE UNCHANGED vars
    BY <1>4 DEF vars
  <1> QED
    BY <1>2, <1>3, <1>4 DEF Next

\* The stored outcome of a key is final until it expires.
THEOREM OutcomesAreFinal == Spec => StoredOutcomeIsFinal
  <1>1. Inv /\ [Next]_vars =>
          [ttlCovers /\ row.live /\ row.status \in {"completed", "failed"}
             => row' \in {row, [row EXCEPT !.live = FALSE]}]_vars
    BY SettledStays
  <1> QED
    BY <1>1, IdempotencyInvariant, PTL DEF Spec, StoredOutcomeIsFinal
=============================================================================
