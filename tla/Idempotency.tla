------------------------------ MODULE Idempotency ------------------------------
(***************************************************************************)
(* The Idempotency-Key middleware (idempotency.ts) for one key of one      *)
(* scope: requests that carry it look the key up, create the row, run the  *)
(* handler and settle the row once the response is on the wire. When the   *)
(* row cannot be created the handler runs all the same, unrecorded.        *)
(***************************************************************************)
EXTENDS Naturals, FiniteSets

CONSTANTS
    Requests,          \* requests that carry the key
    Payload,           \* the hash of each request's body and query
    MaxExpiries,       \* bound: how often the key's lifetime ends
    MaxRequestCrashes  \* bound: workers that die

ASSUME IdempotencyAssumption ==
    /\ IsFiniteSet(Requests) /\ Requests # {}
    /\ DOMAIN Payload = Requests
    /\ MaxExpiries \in Nat /\ MaxRequestCrashes \in Nat

VARIABLES
    keyRow,    \* the IdempotencyKey row: its creator, its state, whether it expired
    request,   \* where each request stands, and the row it read
    answer,    \* what each request was answered
    runs,      \* outcomes of the handler so far, by request
    expiries,
    requestCrashes

keyVars == <<keyRow, request, answer, runs, expiries, requestCrashes>>

NoKey == [state |-> "none", by |-> CHOOSE q \in Requests : TRUE, expired |-> FALSE]
KeyRow == [state: {"none", "IN_PROGRESS", "COMPLETED"}, by: Requests, expired: BOOLEAN]
RequestSteps == {"new", "wait", "drop", "create", "run", "bare", "settle", "done"}

IdempotencyTypeOK ==
    /\ keyRow \in KeyRow
    /\ request \in [Requests -> [step: RequestSteps, read: Requests]]
    /\ answer \in [Requests -> {"none", "own", "replayed", "reused", "busy", "failed"}]
    /\ runs \in [Requests -> {"none", "ok", "failed"}]
    /\ expiries \in 0..MaxExpiries /\ requestCrashes \in 0..MaxRequestCrashes

IdempotencyInit ==
    /\ keyRow = NoKey
    /\ request = [q \in Requests |-> [step |-> "new", read |-> q]]
    /\ answer = [q \in Requests |-> "none"]
    /\ runs = [q \in Requests |-> "none"]
    /\ expiries = 0 /\ requestCrashes = 0

Advance(q, step) == request' = [request EXCEPT ![q].step = step]
AnswerWith(q, what) ==
    /\ request' = [request EXCEPT ![q] = [step |-> "done", read |-> keyRow.by]]
    /\ answer' = [answer EXCEPT ![q] = what]

\* A faulty lookup that does not compare the payload.
AnyPayload(q) == TRUE
\* requestHash and principalId of the stored row are the request's own.
SameRequest(q) == Payload[keyRow.by] = Payload[q]

FindKey(q) ==
    /\ request[q].step = "new"
    /\ IF keyRow.state = "none" THEN Advance(q, "create") /\ UNCHANGED answer
       ELSE IF keyRow.expired
       THEN /\ request' = [request EXCEPT ![q] = [step |-> "drop", read |-> keyRow.by]]
            /\ UNCHANGED answer
       ELSE IF ~SameRequest(q) THEN AnswerWith(q, "reused")
       ELSE IF keyRow.state = "IN_PROGRESS" THEN Advance(q, "wait") /\ UNCHANGED answer
       ELSE AnswerWith(q, "replayed")
    /\ UNCHANGED <<keyRow, runs, expiries, requestCrashes>>

\* waitForOutcome polls the key, not the row it found: gone, settled, or out of time.
WaitForOutcome(q) ==
    /\ request[q].step = "wait"
    /\ \/ keyRow.state = "COMPLETED" /\ AnswerWith(q, "replayed")
       \/ keyRow.state # "COMPLETED" /\ AnswerWith(q, "busy")
    /\ UNCHANGED <<keyRow, runs, expiries, requestCrashes>>

\* The expired row is deleted by its id; if it is no longer there the error falls
\* through to the handler.
DropExpired(q) ==
    /\ request[q].step = "drop"
    /\ IF keyRow.state # "none" /\ keyRow.by = request[q].read
       THEN keyRow' = NoKey /\ Advance(q, "create")
       ELSE Advance(q, "bare") /\ UNCHANGED keyRow
    /\ UNCHANGED <<answer, runs, expiries, requestCrashes>>

\* A faulty insert that overwrites the row instead of failing on the unique key.
UpsertKey(q) ==
    /\ request[q].step = "create"
    /\ keyRow' = [state |-> "IN_PROGRESS", by |-> q, expired |-> FALSE]
    /\ Advance(q, "run")
    /\ UNCHANGED <<answer, runs, expiries, requestCrashes>>

CreateKey(q) ==
    /\ request[q].step = "create"
    /\ IF keyRow.state = "none"
       THEN /\ keyRow' = [state |-> "IN_PROGRESS", by |-> q, expired |-> FALSE]
            /\ Advance(q, "run")
       ELSE Advance(q, "bare") /\ UNCHANGED keyRow
    /\ UNCHANGED <<answer, runs, expiries, requestCrashes>>

\* The handler runs and answers; an unrecorded request ends here.
RunHandler(q) ==
    /\ request[q].step \in {"run", "bare"}
    /\ \E outcome \in {"ok", "failed"} :
          /\ runs' = [runs EXCEPT ![q] = outcome]
          /\ answer' = [answer EXCEPT ![q] = IF outcome = "ok" THEN "own" ELSE "failed"]
    /\ Advance(q, IF request[q].step = "run" THEN "settle" ELSE "done")
    /\ UNCHANGED <<keyRow, expiries, requestCrashes>>


\* captureResponse, on "finish": by scope and key, whichever row that is by now.
SettleKey(q) ==
    /\ request[q].step = "settle"
    /\ keyRow' = IF runs[q] = "failed" \/ keyRow.state = "none" THEN NoKey
                 ELSE [keyRow EXCEPT !.state = "COMPLETED"]
    /\ Advance(q, "done")
    /\ UNCHANGED <<answer, runs, expiries, requestCrashes>>

\* A handler does not run for IDEMPOTENCY_TTL_HOURS, so a key expires when no request
\* that created it is still at work.
KeyExpires ==
    /\ expiries < MaxExpiries /\ keyRow.state # "none" /\ ~keyRow.expired
    /\ request[keyRow.by].step \notin {"run", "settle"}
    /\ keyRow' = [keyRow EXCEPT !.expired = TRUE]
    /\ expiries' = expiries + 1
    /\ UNCHANGED <<request, answer, runs, requestCrashes>>

\* purgeExpiredIdempotencyKeys
PurgeExpired ==
    /\ keyRow.state # "none" /\ keyRow.expired
    /\ keyRow' = NoKey
    /\ UNCHANGED <<request, answer, runs, expiries, requestCrashes>>

RequestDies(q) ==
    /\ requestCrashes < MaxRequestCrashes
    /\ request[q].step \notin {"new", "done"}
    /\ Advance(q, "done")
    /\ requestCrashes' = requestCrashes + 1
    /\ UNCHANGED <<keyRow, answer, runs, expiries>>

Serve(q) ==
    \/ FindKey(q) \/ WaitForOutcome(q) \/ DropExpired(q) \/ CreateKey(q)
    \/ RunHandler(q) \/ SettleKey(q)

IdempotencyNext ==
    \/ \E q \in Requests : Serve(q) \/ RequestDies(q)
    \/ KeyExpires \/ PurgeExpired

IdempotencySpec == IdempotencyInit /\ [][IdempotencyNext]_keyVars

-------------------------------------------------------------------------------
\* Requests whose success the key records, or is about to. (A request that lost the
\* insert race runs without being recorded.)
Recorded(q) ==
    /\ runs[q] = "ok"
    /\ \/ request[q].step = "settle"
       \/ keyRow.by = q /\ keyRow.state = "COMPLETED"

\* The key tells the truth about its requests: of those it recorded at most one succeeds
\* per lifetime of the key, a recorded request at work finds the key still its own, and
\* a retry is never told "in progress" about work that nobody is doing, unless the
\* request that did it died.
OneRequestPerKey ==
    /\ Cardinality({q \in Requests : Recorded(q)}) <= 1
    /\ \A q \in Requests : request[q].step \in {"run", "settle"} => keyRow.by = q /\ keyRow.state = "IN_PROGRESS"
    /\ keyRow.state = "IN_PROGRESS" /\ requestCrashes = 0 => request[keyRow.by].step \in {"run", "settle"}
===============================================================================
