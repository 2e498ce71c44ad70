----------------------------- MODULE WebhookInbox -----------------------------
(***************************************************************************)
(* The inbox of provider webhooks (webhook.service.ts receive, replay,     *)
(* process): an event is stored before it is acted on, and a compare-and-  *)
(* set lock on its row decides which of several deliveries acts. The       *)
(* provider delivers an event as often as it likes; an administrator       *)
(* replays stored events at any moment, also while they are processed.     *)
(***************************************************************************)
EXTENDS Naturals, FiniteSets

CONSTANTS
    InboxEvents,     \* events, by the provider's event id
    HandledEvents,   \* those whose type is in HANDLED_EVENTS
    InboxWorkers,    \* requests in progress, deliveries and replays
    MaxReplays,      \* bound: replays of one event
    MaxInboxCrashes  \* bound: workers that die

ASSUME InboxAssumption ==
    /\ InboxEvents # {} /\ HandledEvents \subseteq InboxEvents
    /\ IsFiniteSet(InboxWorkers)
    /\ MaxReplays \in Nat /\ MaxInboxCrashes \in Nat

VARIABLES
    event,      \* WebhookEvent rows: "none" before the first delivery
    lock,       \* processingLockedAt is set
    delivery,   \* where each worker stands
    effects,    \* how often an event's handler ran to its end
    replays,    \* how often an event was replayed
    inboxCrashes

inboxVars == <<event, lock, delivery, effects, replays, inboxCrashes>>

EventStatuses == {"none", "RECEIVED", "PROCESSING", "PROCESSED", "IGNORED", "FAILED"}
InboxSteps == {"idle", "lookup", "insert", "process", "dispatch", "handled", "ignored", "failed"}
Waiting == [step |-> "idle", of |-> CHOOSE e \in InboxEvents : TRUE]

InboxTypeOK ==
    /\ event \in [InboxEvents -> EventStatuses]
    /\ lock \in [InboxEvents -> BOOLEAN]
    /\ delivery \in [InboxWorkers -> [step: InboxSteps, of: InboxEvents]]
    /\ effects \in [InboxEvents -> Nat]
    /\ replays \in [InboxEvents -> Nat]
    /\ inboxCrashes \in Nat

InboxInit ==
    /\ event = [e \in InboxEvents |-> "none"]
    /\ lock = [e \in InboxEvents |-> FALSE]
    /\ delivery = [w \in InboxWorkers |-> Waiting]
    /\ effects = [e \in InboxEvents |-> 0]
    /\ replays = [e \in InboxEvents |-> 0]
    /\ inboxCrashes = 0

DeliveryAt(w, step) == delivery[w].step = step
Proceed(w, step) == delivery' = [delivery EXCEPT ![w].step = step]
Answer(w) == delivery' = [delivery EXCEPT ![w].step = "idle"]

\* webhookEventRepository.release: the final status, and the lock is gone.
ReleaseEvent(e, status) ==
    /\ event' = [event EXCEPT ![e] = status]
    /\ lock' = [lock EXCEPT ![e] = FALSE]

Deliver(w, e) ==
    /\ DeliveryAt(w, "idle")
    /\ delivery' = [delivery EXCEPT ![w] = [step |-> "lookup", of |-> e]]
    /\ UNCHANGED <<event, lock, effects, replays, inboxCrashes>>

\* A stored event is a duplicate: recorded elsewhere, not acted on.
LookUpEvent(w) ==
    /\ DeliveryAt(w, "lookup")
    /\ IF event[delivery[w].of] # "none" THEN Answer(w) ELSE Proceed(w, "insert")
    /\ UNCHANGED <<event, lock, effects, replays, inboxCrashes>>

\* The loser of the insert race goes on with the winner's row.
InsertEvent(w) ==
    LET e == delivery[w].of IN
    /\ DeliveryAt(w, "insert")
    /\ event' = [event EXCEPT ![e] = IF @ = "none" THEN "RECEIVED" ELSE @]
    /\ Proceed(w, "process")
    /\ UNCHANGED <<lock, effects, replays, inboxCrashes>>

ReplayEvent(w, e) ==
    /\ DeliveryAt(w, "idle")
    /\ event[e] # "none" /\ replays[e] < MaxReplays
    /\ ReleaseEvent(e, "RECEIVED")
    /\ replays' = [replays EXCEPT ![e] = @ + 1]
    /\ delivery' = [delivery EXCEPT ![w] = [step |-> "process", of |-> e]]
    /\ UNCHANGED <<effects, inboxCrashes>>

\* A faulty claim that tests the lock only.
FreeLock(e) == ~lock[e]
\* webhookEventRepository.claim
ClaimableEvent(e) == event[e] \in {"RECEIVED", "FAILED"} /\ ~lock[e]

ProcessEvent(w) ==
    LET e == delivery[w].of IN
    /\ DeliveryAt(w, "process")
    /\ IF e \notin HandledEvents
       THEN ReleaseEvent(e, "IGNORED") /\ Answer(w)
       ELSE IF ClaimableEvent(e)
       THEN /\ event' = [event EXCEPT ![e] = "PROCESSING"]
            /\ lock' = [lock EXCEPT ![e] = TRUE]
            /\ Proceed(w, "dispatch")
       ELSE Answer(w) /\ UNCHANGED <<event, lock>>
    /\ UNCHANGED <<effects, replays, inboxCrashes>>

\* The handler acts, finds nothing to act on, or throws.
Dispatch(w) ==
    /\ DeliveryAt(w, "dispatch")
    /\ \/ /\ Proceed(w, "handled")
          /\ effects' = [effects EXCEPT ![delivery[w].of] = @ + 1]
       \/ \E step \in {"ignored", "failed"} : Proceed(w, step) /\ UNCHANGED effects
    /\ UNCHANGED <<event, lock, replays, inboxCrashes>>

\* A faulty release that stores the dispatcher's own word.
RawOutcome(step) == step
OutcomeOf(step) ==
    IF step = "handled" THEN "PROCESSED" ELSE IF step = "ignored" THEN "IGNORED" ELSE "FAILED"
\* A faulty failure path that ends without releasing the row.
SettleUnlessFailed(w) ==
    /\ delivery[w].step \in {"handled", "ignored", "failed"}
    /\ IF DeliveryAt(w, "failed") THEN UNCHANGED <<event, lock>>
       ELSE ReleaseEvent(delivery[w].of, OutcomeOf(delivery[w].step))
    /\ Answer(w)
    /\ UNCHANGED <<effects, replays, inboxCrashes>>

SettleEvent(w) ==
    /\ delivery[w].step \in {"handled", "ignored", "failed"}
    /\ ReleaseEvent(delivery[w].of, OutcomeOf(delivery[w].step))
    /\ Answer(w)
    /\ UNCHANGED <<effects, replays, inboxCrashes>>

InboxWorkerDies(w) ==
    /\ inboxCrashes < MaxInboxCrashes /\ ~DeliveryAt(w, "idle")
    /\ Answer(w)
    /\ inboxCrashes' = inboxCrashes + 1
    /\ UNCHANGED <<event, lock, effects, replays>>

Handling(w) ==
    LookUpEvent(w) \/ InsertEvent(w) \/ ProcessEvent(w) \/ Dispatch(w) \/ SettleEvent(w)

InboxNext ==
    \/ \E w \in InboxWorkers, e \in InboxEvents : Deliver(w, e) \/ ReplayEvent(w, e)
    \/ \E w \in InboxWorkers : Handling(w) \/ InboxWorkerDies(w)

InboxSpec == InboxInit /\ [][InboxNext]_inboxVars
InboxFairness == \A w \in InboxWorkers : WF_inboxVars(Handling(w))

-------------------------------------------------------------------------------
\* Workers that hold the claim of an event and have not run its handler to the end.
Dispatching(e) == {w \in InboxWorkers : delivery[w].of = e /\ DeliveryAt(w, "dispatch")}

\* "Once, and only once" (rule 3): however often an event is delivered, and however
\* many of the deliveries overlap, its handler takes effect once, and once more for
\* every deliberate replay; a claim in progress counts, so that without a replay two
\* workers never run it side by side.
HandledOncePerReplay ==
    \A e \in InboxEvents : effects[e] + Cardinality(Dispatching(e)) <= 1 + replays[e]

\* "Persist before acting" (rule 2), and rule 4: unless a worker dies, a stored event
\* reaches a final status, whatever else is delivered or replayed meanwhile; an
\* event left in RECEIVED or PROCESSING would never be acted on by a later delivery.
InboxSettles ==
    \A e \in InboxEvents :
        event[e] \in {"RECEIVED", "PROCESSING"} ~>
            event[e] \in {"PROCESSED", "IGNORED", "FAILED"} \/ inboxCrashes > 0
===============================================================================
