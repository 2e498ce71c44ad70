-------------------------- MODULE ListingReconciler --------------------------
(***************************************************************************)
(* The listing index and its reconciler (listingReconciler.service.ts,     *)
(* maintenanceTask.repository.ts): every process offers to run, a lease    *)
(* lets one of them, and the run re-prices what the price windows crossed  *)
(* since the watermark, or everything when a rebuild was requested. Leases *)
(* expire under their owners, who notice at the next renewal; processes    *)
(* die. A product is priced at one instant of its refresh; a run does not  *)
(* reach its first product in the millisecond it began.                    *)
(***************************************************************************)
EXTENDS Integers, FiniteSets

CONSTANTS
    Products,      \* active products
    Windows,       \* openings and closings of price windows
    CrossesAt,     \* when each of them happens
    Reach,         \* the products each of them re-prices
    WideWindows,   \* those whose rule is GLOBAL: everything is re-priced
    Processes,     \* server processes
    EndOfTime,     \* bound: the last instant of the clock
    MaxWrites      \* bound: pricing writes whose reach is unknown

ASSUME ListingAssumption ==
    /\ CrossesAt \in [Windows -> Nat \ {0}]
    /\ Reach \in [Windows -> SUBSET Products]
    /\ WideWindows \subseteq Windows
    /\ EndOfTime \in Nat /\ MaxWrites \in Nat

VARIABLES
    now,        \* the application clock
    task,       \* the MaintenanceTask row
    indexed,    \* when each product's row was computed
    seen,       \* how many of the pricing writes that row has seen
    writes,     \* pricing writes so far
    requested,  \* how many of them have a recorded rebuild request
    pass        \* the pass each process is in

listingVars == <<now, task, indexed, seen, writes, requested, pass>>

Nobody == "nobody"
Task ==
    [owner: Processes \cup {Nobody}, expired: BOOLEAN, watermark: Nat,
     rebuildRequestedAt: Nat, lastRebuiltAt: Nat]
NoPass == [step |-> "idle", from |-> 0, to |-> 0, left |-> {}, rebuild |-> FALSE]

ListingTypeOK ==
    /\ now \in Nat
    /\ task \in Task /\ task.watermark <= now
    /\ indexed \in [Products -> Nat]
    /\ seen \in [Products -> Nat]
    /\ writes \in Nat /\ requested \in Nat
    /\ pass \in [Processes -> [step: {"idle", "acquire", "read", "refresh", "renew", "complete"},
                               from: Nat, to: Nat, left: SUBSET Products, rebuild: BOOLEAN]]

ListingInit ==
    /\ now = 1
    /\ task = [owner |-> Nobody, expired |-> FALSE, watermark |-> 0,
               rebuildRequestedAt |-> 0, lastRebuiltAt |-> 0]
    /\ indexed = [p \in Products |-> 0]
    /\ seen = [p \in Products |-> 0]
    /\ writes = 0 /\ requested = 0
    /\ pass = [w \in Processes |-> NoPass]

PassAt(w, step) == pass[w].step = step
PassTo(w, step) == pass' = [pass EXCEPT ![w].step = step]
EndPass(w) == pass' = [pass EXCEPT ![w] = NoPass]

Tick ==
    /\ now < EndOfTime
    /\ now' = now + 1
    /\ UNCHANGED <<task, indexed, seen, writes, requested, pass>>

\* A write whose reach nobody works out; its event asks for a rebuild afterwards.
PricingWrite ==
    /\ writes < MaxWrites
    /\ writes' = writes + 1
    /\ UNCHANGED <<now, task, indexed, seen, requested, pass>>

\* requestRebuild: only ever moves forward.
RequestRebuild ==
    /\ requested < writes
    /\ task' = [task EXCEPT !.rebuildRequestedAt = IF @ >= now THEN @ ELSE now]
    /\ requested' = writes
    /\ UNCHANGED <<now, indexed, seen, writes, pass>>

\* runOnce: the instant up to which this pass accounts is read first.
StartPass(w) ==
    /\ PassAt(w, "idle")
    /\ pass' = [pass EXCEPT ![w] = [NoPass EXCEPT !.step = "acquire", !.to = now]]
    /\ UNCHANGED <<now, task, indexed, seen, writes, requested>>

LeaseFree == task.owner = Nobody \/ task.expired

\* tryAcquire
Acquire(w) ==
    /\ PassAt(w, "acquire")
    /\ IF LeaseFree
       THEN /\ task' = [task EXCEPT !.owner = w, !.expired = FALSE]
            /\ PassTo(w, "read")
       ELSE EndPass(w) /\ UNCHANGED task
    /\ UNCHANGED <<now, indexed, seen, writes, requested>>

RebuildPending == task.rebuildRequestedAt > task.lastRebuiltAt

\* A faulty span that leaves out the instant it ends at.
CrossedBefore(from, to) == {v \in Windows : from < CrossesAt[v] /\ CrossesAt[v] < to}
\* plan: the windows crossed in (from, to].
Crossed(from, to) == {v \in Windows : from < CrossesAt[v] /\ CrossesAt[v] <= to}

\* Everything, or what the crossed windows reach; stale rows may be added to it.
ReadTask(w) ==
    LET from    == task.watermark
        crossed == Crossed(from, pass[w].to)
        rebuild == RebuildPending \/ crossed \cap WideWindows # {}
    IN  /\ PassAt(w, "read")
        /\ pass' = [pass EXCEPT ![w] =
                      [step |-> "refresh", from |-> from, to |-> pass[w].to, rebuild |-> rebuild,
                       left |-> IF rebuild THEN Products ELSE UNION {Reach[v] : v \in crossed}]]
        /\ UNCHANGED <<now, task, indexed, seen, writes, requested>>

\* refreshMany: the row is computed at one instant, under its lock.
Refresh(w, p) ==
    /\ PassAt(w, "refresh")
    /\ p \in pass[w].left
    /\ now > pass[w].to
    /\ indexed' = [indexed EXCEPT ![p] = now]
    /\ seen' = [seen EXCEPT ![p] = writes]
    /\ pass' = [pass EXCEPT ![w].left = @ \ {p}, ![w].step = "renew"]
    /\ UNCHANGED <<now, task, writes, requested>>

\* A faulty pass that goes on when its lease was lost.
RenewAnyway(w) == TRUE
\* renew: the owner, with a lease that has not expired.
StillHolds(w) == task.owner = w /\ ~task.expired

\* A lost lease ends the pass; fail() frees the row only if it is still this owner's.
KeepAlive(w) ==
    /\ PassAt(w, "renew")
    /\ IF StillHolds(w)
       THEN PassTo(w, "refresh") /\ UNCHANGED task
       ELSE /\ EndPass(w)
            /\ task' = IF task.owner = w THEN [task EXCEPT !.owner = Nobody, !.expired = FALSE] ELSE task
    /\ UNCHANGED <<now, indexed, seen, writes, requested>>

AllRefreshed(w) ==
    /\ PassAt(w, "refresh")
    /\ pass[w].left = {}
    /\ PassTo(w, "complete")
    /\ UNCHANGED <<now, task, indexed, seen, writes, requested>>

\* A faulty completion that stamps the end of the pass.
StampedNow(w) == now
\* complete: the watermark is the instant the pass began.
StampOf(w) == pass[w].to

\* complete: only if this owner still holds the row, expired or not.
Complete(w) ==
    /\ PassAt(w, "complete")
    /\ task' = IF task.owner # w THEN task
               ELSE [owner |-> Nobody, expired |-> FALSE, watermark |-> StampOf(w),
                     rebuildRequestedAt |-> task.rebuildRequestedAt,
                     lastRebuiltAt |-> IF pass[w].rebuild THEN StampOf(w) ELSE task.lastRebuiltAt]
    /\ EndPass(w)
    /\ UNCHANGED <<now, indexed, seen, writes, requested>>

LeaseExpires ==
    /\ task.owner # Nobody /\ ~task.expired
    /\ task' = [task EXCEPT !.expired = TRUE]
    /\ UNCHANGED <<now, indexed, seen, writes, requested, pass>>

\* A dead process leaves the lease to expire.
ProcessDies(w) ==
    /\ ~PassAt(w, "idle")
    /\ EndPass(w)
    /\ UNCHANGED <<now, task, indexed, seen, writes, requested>>

\* The refresh a catalogue event asks for, in any process.
RefreshOnEvent(p) ==
    /\ indexed' = [indexed EXCEPT ![p] = now]
    /\ seen' = [seen EXCEPT ![p] = writes]
    /\ UNCHANGED <<now, task, writes, requested, pass>>

ListingNext ==
    \/ Tick \/ PricingWrite \/ RequestRebuild \/ LeaseExpires
    \/ \E w \in Processes :
          \/ StartPass(w) \/ Acquire(w) \/ ReadTask(w) \/ KeepAlive(w)
          \/ AllRefreshed(w) \/ Complete(w) \/ ProcessDies(w)
    \/ \E w \in Processes, p \in Products : Refresh(w, p)
    \/ \E p \in Products : RefreshOnEvent(p)

ListingSpec == ListingInit /\ [][ListingNext]_listingVars

-------------------------------------------------------------------------------
\* "A crashed or lease-less run leaves its span to the next holder": no price window
\* the watermark has passed is missing from the index, whoever died or lost its lease
\* on the way; the next pass never looks at such a window again.
WatermarkCovers ==
    \A v \in Windows : CrossesAt[v] <= task.watermark =>
        \A p \in (IF v \in WideWindows THEN Products ELSE Reach[v]) : indexed[p] >= CrossesAt[v]

\* "Durable: whichever process holds the lease next honours it - once": when no
\* rebuild is pending any more, every product's row has seen every pricing write that
\* asked for one, also those that asked while a pass was running.
RebuildHonoured ==
    ~RebuildPending => \A p \in Products : seen[p] >= requested
===============================================================================
