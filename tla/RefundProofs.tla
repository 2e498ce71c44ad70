------------------------------ MODULE RefundProofs ------------------------------
(***************************************************************************)
(* Refund execution, for all refunds, amounts and workers: one worker acts *)
(* on a refund at a time, the order's books are the sums over its refunds, *)
(* and what is paid out never sums to more than was paid. Before it, the   *)
(* plan of reversalPlanner.ts. After it what the partners give back, and   *)
(* their transfers (Payouts): each is paid once.                           *)
(***************************************************************************)
EXTENDS Refunds, ReversalPlanner, Payouts, SumTheorems

-------------------------------------------------------------------------------
(* reversalPlanner.ts *)

\* Filling in order: what the target leaves to each, up to what it holds.
BeforeIt(before, S, a, i) == SumFunctionOnSet(a, Ahead(before, S, i))
Filled(before, S, a, target) ==
    [i \in S |-> Least(a[i], AtLeastZero(target - BeforeIt(before, S, a, i)))]

LEMMA FillingIsExact ==
    ASSUME NEW S, IsFiniteSet(S), NEW before, StrictOrder(before, S), NEW a \in [S -> Nat],
           NEW target \in Nat
    PROVE  SumFunctionOnSet(Filled(before, S, a, target), S) = Least(target, SumFunctionOnSet(a, S))
<1> DEFINE Fills(s) == SumFunctionOnSet(Filled(before, s, a, target), s)
                          = Least(target, SumFunctionOnSet(a, s))
           Bad == {s \in SUBSET S : ~Fills(s)}
<1> SUFFICES ASSUME Bad # {} PROVE FALSE
  OBVIOUS
<1>1. PICK s \in Bad : \A x \in s : s \ {x} \notin Bad
  BY SmallestSubset
<1>2. IsFiniteSet(s)
  BY FS_Subset
<1>3. CASE s = {}
  <2>1. SumFunctionOnSet(a, s) = 0 /\ SumFunctionOnSet(Filled(before, s, a, target), s) = 0
    BY <1>3, SumOfNone
  <2> QED
    BY <1>1, <2>1 DEF Least
<1>4. CASE s # {}
  <2>1. PICK m \in s : \A i \in s \ {m} : <<i, m>> \in before
    <3>1. StrictOrder(before, s)
      BY DEF StrictOrder
    <3> QED
      BY <1>2, <1>4, <3>1, OneIsLast
  <2> DEFINE t == s \ {m}
             old == Filled(before, t, a, target)
             new == Filled(before, s, a, target)
             sum == SumFunctionOnSet(a, t)
  <2>2. IsFiniteSet(t) /\ t \in SUBSET S
    BY <1>2, FS_RemoveElement
  <2>3. Ahead(before, s, m) = t /\ \A i \in t : Ahead(before, s, i) = Ahead(before, t, i)
    BY <1>1, <2>1 DEF Ahead, StrictOrder
  <2>4. sum \in Nat /\ a[m] \in Nat /\ SumFunctionOnSet(a, s) = a[m] + sum
    <3>1. \A x \in s : a[x] \in Int
      OBVIOUS
    <3>2. \A x \in t : a[x] \in Nat
      OBVIOUS
    <3> QED
      BY <1>2, <2>1, <2>2, <3>1, <3>2, SumIsNat, SumWithout
  <2>5. \A i \in t : new[i] = old[i]
    BY <2>3 DEF Filled, BeforeIt
  <2>6. new[m] = Least(a[m], AtLeastZero(target - sum))
    BY <2>1, <2>3 DEF Filled, BeforeIt
  <2>7. \A i \in s : new[i] \in Int
    <3> SUFFICES ASSUME NEW i \in s PROVE new[i] \in Int
      OBVIOUS
    <3>1. a[i] \in Nat
      OBVIOUS
    <3>2. BeforeIt(before, s, a, i) \in Nat
      <4>1. IsFiniteSet(Ahead(before, s, i)) /\ \A x \in Ahead(before, s, i) : a[x] \in Nat
        BY <1>2, FS_Subset DEF Ahead
      <4> QED
        BY <4>1, SumIsNat DEF BeforeIt
    <3> QED
      BY <3>1, <3>2 DEF Filled, Least, AtLeastZero
  <2> HIDE DEF new, old
  <2>8. SumFunctionOnSet(new, s) = new[m] + SumFunctionOnSet(new, t)
    BY <1>2, <2>1, <2>7, SumWithout
  <2>9. SumFunctionOnSet(new, t) = SumFunctionOnSet(old, t)
    BY <2>2, <2>5, SumOfEqual
  <2>10. SumFunctionOnSet(old, t) = Least(target, sum)
    BY <1>1, <2>1, <2>2 DEF old
  <2> HIDE DEF sum
  <2>11. SumFunctionOnSet(new, s) = Least(target, a[m] + sum)
    BY <2>4, <2>6, <2>8, <2>9, <2>10 DEF Least, AtLeastZero
  <2> QED
    BY <1>1, <2>4, <2>11 DEF new
<1> QED
  BY <1>3, <1>4

LEMMA ProportionalPlan ==
    ASSUME NEW D \in SUBSET Int, IsFiniteSet(D), NEW a \in [D -> Nat], NEW target \in Nat,
           Total(a) # 0, target <= Total(a)
    PROVE  /\ PlanProportional(target, a) \in [D -> Nat]
           /\ Total(PlanProportional(target, a)) = target
           /\ \A i \in D : PlanProportional(target, a)[i] <= a[i]
<1> DEFINE all == Total(a)
           share == Allocate(target, a)
<1>1. /\ share \in [D -> Nat] /\ Total(share) = target
      /\ \A i \in D : all * share[i] < target * a[i] + all
  BY AllocateIsFair
<1>2. all \in Nat \ {0}
  BY SumIsNat, TotalIs
<1>3. \A i \in D : share[i] <= a[i]
  <2> SUFFICES ASSUME NEW i \in D PROVE share[i] <= a[i]
    OBVIOUS
  <2> HIDE DEF share, all
  <2>1. share[i] \in Nat /\ a[i] \in Nat
    BY <1>1
  <2>2. target * a[i] <= all * a[i]
    BY <1>2, <2>1 DEF all
  <2>3. target * a[i] \in Int /\ all * a[i] \in Int /\ all * share[i] \in Int
    BY <1>2, <2>1
  <2>4. all * share[i] < target * a[i] + all
    BY <1>1
  <2>5. all * share[i] < all * a[i] + all
    BY <1>2, <2>2, <2>3, <2>4
  <2>6. all * a[i] + all = all * (a[i] + 1)
    BY <1>2, <2>1
  <2>7. share[i] < a[i] + 1
    BY <1>2, <2>1, <2>5, <2>6, CancelFactor
  <2> QED
    BY <2>1, <2>7
<1>4. PlanProportional(target, a) = share
  <2>1. DOMAIN a = D
    OBVIOUS
  <2>2. PlanProportional(target, a) = [i \in D |-> Least(share[i], a[i])]
    BY <2>1 DEF PlanProportional
  <2> HIDE DEF share
  <2> QED
    BY <1>1, <1>3, <2>2 DEF Least
<1> HIDE DEF share
<1> QED
  BY <1>1, <1>3, <1>4

\* Our own account first, then the partners in their order.
PrimaryOrder(D, primary) ==
    {p \in D \X D : \/ primary[p[1]] /\ ~primary[p[2]]
                    \/ primary[p[1]] = primary[p[2]] /\ p[1] < p[2]}

LEMMA PrimaryFirstPlan ==
    ASSUME NEW D \in SUBSET Int, IsFiniteSet(D), NEW a \in [D -> Nat], NEW target \in Nat,
           NEW primary \in [D -> BOOLEAN], target <= Total(a)
    PROVE  /\ PlanPrimaryFirst(target, a, primary) \in [D -> Nat]
           /\ Total(PlanPrimaryFirst(target, a, primary)) = target
           /\ \A i \in D : PlanPrimaryFirst(target, a, primary)[i] <= a[i]
<1> DEFINE before == PrimaryOrder(D, primary)
           plan == PlanPrimaryFirst(target, a, primary)
<1>1. StrictOrder(before, D)
  BY DEF StrictOrder, PrimaryOrder
<1>2. \A i \in D : /\ IsFiniteSet(Ahead(before, D, i))
                   /\ BeforeIt(before, D, a, i) \in Nat
                   /\ Total([j \in Ahead(before, D, i) |-> a[j]]) = BeforeIt(before, D, a, i)
  <2> SUFFICES ASSUME NEW i \in D
               PROVE  /\ IsFiniteSet(Ahead(before, D, i))
                      /\ BeforeIt(before, D, a, i) \in Nat
                      /\ Total([j \in Ahead(before, D, i) |-> a[j]]) = BeforeIt(before, D, a, i)
    OBVIOUS
  <2> DEFINE A == Ahead(before, D, i)
             f == [j \in A |-> a[j]]
  <2>1. IsFiniteSet(A) /\ \A j \in A : a[j] \in Nat
    BY FS_Subset DEF Ahead
  <2>2. DOMAIN f = A /\ \A j \in A : f[j] = a[j]
    OBVIOUS
  <2> HIDE DEF A, f
  <2>3. SumFunctionOnSet(f, A) = SumFunctionOnSet(a, A)
    BY <2>1, <2>2, SumOfEqual
  <2> QED
    BY <2>1, <2>2, <2>3, SumIsNat, TotalIs DEF A, f, BeforeIt
<1>3. plan = [i \in D |-> Least(a[i], AtLeastZero(target - Total([j \in Ahead(before, D, i) |-> a[j]])))]
  <2>1. DOMAIN a = D
    OBVIOUS
  <2>2. \A i \in D : {j \in D : \/ primary[j] /\ ~primary[i]
                                \/ primary[j] = primary[i] /\ j < i} = Ahead(before, D, i)
    BY DEF Ahead, PrimaryOrder
  <2> HIDE DEF before
  <2> QED
    BY <2>1, <2>2 DEF PlanPrimaryFirst
<1>4. plan = Filled(before, D, a, target)
  <2> HIDE DEF plan, before
  <2> QED
    BY <1>2, <1>3 DEF Filled
<1>5. DOMAIN plan = D /\ \A i \in D : plan[i] = Least(a[i], AtLeastZero(target - BeforeIt(before, D, a, i)))
  <2> HIDE DEF plan, before
  <2> QED
    BY <1>4 DEF Filled
<1>6. plan \in [D -> Nat] /\ \A i \in D : plan[i] <= a[i]
  <2> HIDE DEF plan, before
  <2>1. \A i \in D : plan[i] \in Nat /\ plan[i] <= a[i]
    <3> SUFFICES ASSUME NEW i \in D
                 PROVE  plan[i] \in Nat /\ plan[i] <= a[i]
      OBVIOUS
    <3> DEFINE earlier == BeforeIt(before, D, a, i)
    <3>1. a[i] \in Nat /\ earlier \in Nat
      BY <1>2
    <3>2. plan[i] = Least(a[i], AtLeastZero(target - earlier))
      BY <1>5
    <3> HIDE DEF earlier
    <3> QED
      BY <3>1, <3>2 DEF Least, AtLeastZero
  <2>2. plan = [i \in D |-> plan[i]]
    BY <1>3
  <2> QED
    BY <2>1, <2>2
<1>7. SumFunctionOnSet(plan, D) = Least(target, SumFunctionOnSet(a, D))
  <2> HIDE DEF plan, before
  <2> QED
    BY <1>1, <1>4, FillingIsExact
<1>8. Total(plan) = target
  <2>1. SumFunctionOnSet(a, D) = Total(a) /\ Total(plan) = SumFunctionOnSet(plan, D)
    BY <1>5, TotalIs
  <2> HIDE DEF plan, before
  <2> QED
    BY <1>7, <2>1 DEF Least
<1> QED
  BY <1>6, <1>8

\* reversalPlanner.ts planReversals: whatever was reversed before and whichever policy, a
\* plan takes from each transfer no more than it holds, and in all what the refund and the
\* transfers allow. The assertion at its end never throws.
THEOREM PlanBalances ==
    ASSUME NEW D \in SUBSET Int, IsFiniteSet(D), NEW asked \in Nat, NEW policy,
           NEW transfers \in [D -> [amount : Nat, reversed : Nat, primary : BOOLEAN]]
    PROVE  /\ PlanReversals(asked, transfers, policy).balances
           /\ PlanReversals(asked, transfers, policy).amounts \in [D -> Nat]
           /\ Total(PlanReversals(asked, transfers, policy).amounts) <= asked
           /\ PlanReversals(asked, transfers, policy).absorbed
                = asked - Total(PlanReversals(asked, transfers, policy).amounts)
<1> DEFINE a == Available(transfers)
           target == Least(asked, Total(a))
           primary == [i \in D |-> transfers[i].primary]
           amounts == IF Total(a) = 0 THEN a
                      ELSE IF policy = "PRIMARY_FIRST" THEN PlanPrimaryFirst(target, a, primary)
                      ELSE PlanProportional(target, a)
<1>1. DOMAIN transfers = D /\ primary \in [D -> BOOLEAN]
  OBVIOUS
<1>2. a \in [D -> Nat]
  BY <1>1 DEF Available, AtLeastZero
<1>3. Total(a) \in Nat
  <2> HIDE DEF a
  <2> QED
    BY <1>2, SumIsNat, TotalIs
<1>4. /\ PlanReversals(asked, transfers, policy).amounts = amounts
      /\ PlanReversals(asked, transfers, policy).absorbed = asked - target
      /\ PlanReversals(asked, transfers, policy).balances
            = (Total(amounts) = target /\ \A i \in DOMAIN amounts : amounts[i] <= a[i])
  BY <1>1 DEF PlanReversals
<1> HIDE DEF a, primary
<1>5. target \in Nat /\ target <= Total(a) /\ target <= asked
  BY <1>3 DEF Least
<1>6. amounts \in [D -> Nat] /\ Total(amounts) = target /\ \A i \in D : amounts[i] <= a[i]
  <2>1. CASE Total(a) = 0
    <3>1. amounts = a /\ target = 0 /\ \A i \in D : a[i] \in Nat
      BY <1>2, <1>3, <1>5, <2>1
    <3> HIDE DEF amounts, target
    <3> QED
      BY <1>2, <2>1, <3>1
  <2>2. CASE Total(a) # 0 /\ policy = "PRIMARY_FIRST"
    <3>1. amounts = PlanPrimaryFirst(target, a, primary)
      BY <2>2
    <3> HIDE DEF amounts, target
    <3> QED
      BY <1>1, <1>2, <1>5, <3>1, PrimaryFirstPlan
  <2>3. CASE Total(a) # 0 /\ policy # "PRIMARY_FIRST"
    <3>1. amounts = PlanProportional(target, a)
      BY <2>3
    <3> HIDE DEF amounts, target
    <3> QED
      BY <1>2, <1>5, <2>3, <3>1, ProportionalPlan
  <2> QED
    BY <2>1, <2>2, <2>3
<1> HIDE DEF amounts, target
<1> QED
  BY <1>4, <1>5, <1>6

-------------------------------------------------------------------------------
(***************************************************************************)
(* Executing a refund                                                      *)
(***************************************************************************)
\* What the deployment has to keep for the results below: one administrator decides
\* and one sweep reconciles at a time, a call ends before its lock times out, the
\* provider's refunds do not fail once accepted, and no handler dies between the two
\* halves of a write to the books.
OneAtATime ==
    /\ \A a, b \in Approvers : a = b
    /\ \A a, b \in Reconcilers : a = b
CallsEnd == LocksOutliveCalls
ProviderKeepsItsWord == ~ProviderMayFail
WritesComplete == MortalSteps \cap {"mark", "fail", "forget", "settle"} = {}
Discipline == OneAtATime /\ CallsEnd /\ ProviderKeepsItsWord /\ WritesComplete

Untouched == {"NONE", "REQUESTED", "APPROVED", "FAILED"}

\* What the columns of a row say together.
RowAgrees(r) ==
    /\ refund[r].status \in Untouched => 
          ~refund[r].reserved /\ ~refund[r].known /\ refund[r].locked = "no"
    /\ refund[r].status = "PENDING_VERIFICATION" => ~refund[r].known /\ refund[r].locked = "no"
    /\ refund[r].locked # "no" => refund[r].status = "PROCESSING" /\ ~refund[r].known
    /\ refund[r].known => /\ refund[r].status \in {"PROCESSING", "PROCESSED"}
                          /\ atProvider[r] # "none"
    /\ refund[r].confirmed => refund[r].known
    /\ atProvider[r] # "none" => refund[r].reserved
    /\ atProvider[r] # "failed"

Beginning == {"plan", "reserve", "mark"}
Calling   == {"adopt", "call", "unknown", "release", "fail", "record"}
Verifying == {"ask", "found", "missing", "forget"}
Settling  == {"reverse", "take", "taken", "unheard", "refused", "book", "confirm", "settle"}
Owning    == Beginning \cup Calling \cup Verifying \cup Settling

\* What a worker at a step knows of its refund.
WorkerAgrees(w) ==
    LET s == worker[w].step
        r == worker[w].of
        row == worker[w].row
    IN  /\ s # "idle" => r \in Refunds
        /\ s \in {"approve", "claim", "reverse", "take", "taken", "unheard", "refused"}
                \cup Beginning \cup Calling => w \in Executors
        /\ s = "approve" => w \in Approvers /\ refund[r].status = "REQUESTED"
        /\ s \in {"claim", "plan"} => Executable(row.status) /\ ~row.reserved
        /\ s \in Beginning => refund[r].locked = "fresh" /\ ~refund[r].reserved
        /\ s \in Calling => refund[r].locked = "fresh" /\ refund[r].reserved
        /\ s \in Verifying => /\ w \in Reconcilers
                              /\ NeedsVerification(r) /\ ~refund[r].known
                              /\ row.reserved = refund[r].reserved
        /\ s \in {"release", "fail", "missing", "forget"} => atProvider[r] = "none"
        /\ s \in {"record", "found"} => atProvider[r] # "none"
        /\ s \in Settling => refund[r].known
        /\ s \in {"confirm", "settle"} => ~refund[r].confirmed
        /\ s = "confirm" => row.reserved

OneOwner ==
    \A v, w \in RefundWorkers :
        worker[v].of = worker[w].of /\ worker[v].step \in Owning /\ worker[w].step \in Owning => v = w

\* The types once more, with the parts that no step looks into kept closed.
Plans == [Parts -> Nat]
PartSets == SUBSET Parts
Targets == Refunds \cup {"none"}
WorkerState == [step: RefundSteps, of: Targets, row: RefundRow, plan: Plans, left: PartSets]
ReversalRow == [status: ReversalStatuses, amount: Nat]
Reversals == [Parts -> ReversalRow]

Typed ==
    /\ order \in [refunded: Nat, reserved: Nat, status: OrderStatuses]
    /\ refund \in [Refunds -> RefundRow]
    /\ transfer \in [Parts -> [reversed: Nat, reserved: Nat]]
    /\ reversal \in [Refunds -> Reversals]
    /\ atProvider \in [Refunds -> {"none", "pending", "processed", "failed"}]
    /\ returned \in [Refunds -> Plans]
    /\ worker \in [RefundWorkers -> WorkerState]
    /\ refundCrashes \in 0..MaxRefundCrashes

Control ==
    /\ Typed
    /\ \A r \in Refunds : RowAgrees(r)
    /\ \A w \in RefundWorkers : WorkerAgrees(w)
    /\ OneOwner

Books ==
    /\ order.reserved = AmountOf(HoldingCapacity)
    /\ order.refunded = AmountOf(Booked)
    /\ order.reserved + order.refunded <= Paid

RefundInvariant == Control /\ Books

-------------------------------------------------------------------------------
LEMMA TypesClosed == RefundsTypeOK <=> Typed
BY DEF RefundsTypeOK, Typed, Plans, PartSets, Targets, WorkerState, ReversalRow, Reversals

\* What a step of one worker on one refund leaves alone.
OthersStay(w) == \A v \in RefundWorkers : v # w => worker'[v] = worker[v]
RowsStay(r) ==
    \A q \in Refunds : q # r => refund'[q] = refund[q] /\ atProvider'[q] = atProvider[q]

LEMMA RowType ==
    ASSUME Typed, NEW r \in Refunds
    PROVE  /\ refund[r] \in RefundRow
           /\ refund[r].status \in RefundStatuses /\ refund[r].locked \in {"no", "fresh", "stale"}
           /\ refund[r].reserved \in BOOLEAN /\ refund[r].confirmed \in BOOLEAN
           /\ refund[r].known \in BOOLEAN
           /\ atProvider[r] \in {"none", "pending", "processed", "failed"}
BY DEF Typed, RefundRow

\* What a worker owns a refund for: nobody else acts on it meanwhile.
Owns(w, r) == worker[w].step \in Owning /\ worker[w].of = r

\* An owner's refund is not at rest.
LEMMA OwnedIsTaken ==
    ASSUME Control, NEW w \in RefundWorkers, NEW r \in Refunds, Owns(w, r)
    PROVE  RowAgrees(r) /\ WorkerAgrees(w) /\ refund[r].status \notin Untouched
<1>1. WorkerAgrees(w) /\ RowAgrees(r)
  BY DEF Control
<1> QED
  BY <1>1 DEF Owns, WorkerAgrees, RowAgrees, NeedsVerification, Untouched, Owning

\* A step of the worker that owns a refund keeps control if it keeps the types, that
\* worker's knowledge and that row.
LEMMA OwnerKeepsControl ==
    ASSUME Control, NEW w \in RefundWorkers, NEW r \in Refunds, Owns(w, r),
           Typed', OthersStay(w), RowsStay(r), RowAgrees(r)', WorkerAgrees(w)',
           worker'[w].step = "idle" \/ worker'[w].of = r
    PROVE  Control'
<1>1. refund[r].status \notin Untouched
  BY OwnedIsTaken
<1>2. \A q \in Refunds : RowAgrees(q)'
  <2> SUFFICES ASSUME NEW q \in Refunds, q # r
               PROVE  RowAgrees(q)'
    OBVIOUS
  <2> QED
    BY DEF Control, RowAgrees, RowsStay
<1>3. \A v \in RefundWorkers : WorkerAgrees(v)'
  <2> SUFFICES ASSUME NEW v \in RefundWorkers, v # w
               PROVE  WorkerAgrees(v)'
    OBVIOUS
  <2>1. WorkerAgrees(v) /\ worker'[v] = worker[v]
    BY DEF Control, OthersStay
  <2>2. CASE worker[v].of # r
    <3>1. worker[v].step # "idle" => /\ refund'[worker[v].of] = refund[worker[v].of]
                                     /\ atProvider'[worker[v].of] = atProvider[worker[v].of]
      BY <2>1, <2>2 DEF WorkerAgrees, RowsStay
    <3> QED
      BY <2>1, <3>1 DEF WorkerAgrees, NeedsVerification, Executable, Owning, Beginning, Calling,
         Verifying, Settling
  <2>3. CASE worker[v].of = r
    <3>1. worker[v].step \notin Owning
      BY <2>3 DEF Control, OneOwner, Owns
    <3>2. worker[v].step # "approve"
      BY <1>1, <2>1, <2>3 DEF WorkerAgrees, Untouched
    <3> QED
      BY <2>1, <3>1, <3>2 DEF WorkerAgrees, Owning, Beginning, Calling, Verifying, Settling
  <2> QED
    BY <2>2, <2>3
<1>4. OneOwner'
  BY DEF Control, OneOwner, OthersStay, Owns, Owning, Beginning, Calling, Verifying, Settling
<1> QED
  BY <1>2, <1>3, <1>4 DEF Control

LEMMA PartsAreFinite ==
    /\ Parts \in SUBSET Int /\ Parts \subseteq Nat /\ IsFiniteSet(Parts)
    /\ \A i \in Parts : Transferred[i] \in Nat
<1>1. Parts = 1..Len(Transferred) /\ Len(Transferred) \in Nat
  BY RefundAmountsAssumption DEF Parts
<1>2. \A i \in Parts : Transferred[i] \in Nat
  BY RefundAmountsAssumption DEF Parts
<1> QED
  BY <1>1, <1>2, FS_Interval

LEMMA IdleType == Idle \in WorkerState /\ Idle.step = "idle" /\ Idle.row \in RefundRow
BY DEF Idle, WorkerState, RefundSteps, Targets, RefundRow, RefundStatuses, Plans, PartSets

\* What the owner of a refund starts from.
LEMMA OwnerKnows ==
    ASSUME Control, NEW w \in RefundWorkers, NEW r \in Refunds, Owns(w, r)
    PROVE  /\ Typed /\ RowAgrees(r) /\ WorkerAgrees(w) /\ worker[w].of = r
           /\ worker[w].step \in RefundSteps /\ worker[w] \in WorkerState
           /\ refund[r] \in RefundRow /\ Amount[r] \in Nat \ {0}
           /\ refund[r].status \in RefundStatuses /\ refund[r].locked \in {"no", "fresh", "stale"}
           /\ refund[r].reserved \in BOOLEAN /\ refund[r].confirmed \in BOOLEAN
           /\ refund[r].known \in BOOLEAN
           /\ atProvider[r] \in {"none", "pending", "processed", "failed"}
<1>1. Typed
  BY DEF Control
<1>2. worker[w] \in WorkerState
  BY <1>1 DEF Typed
<1>3. worker[w].step \in RefundSteps
  BY <1>2 DEF WorkerState
<1>4. Amount[r] \in Nat \ {0}
  BY RefundAmountsAssumption
<1> QED
  BY <1>1, <1>2, <1>3, <1>4, OwnedIsTaken, RowType DEF Owns

LEMMA PlanKeeps ==
    ASSUME Control, NEW w \in RefundWorkers, NEW r \in Refunds, Owns(w, r), Plan(w)
    PROVE  Control'
<1> DEFINE rows == [i \in Parts |-> [amount |-> Transferred[i], reversed |-> transfer[i].reversed,
                                     primary |-> FALSE]]
           plan == IF Parts = {} THEN [i \in Parts |-> 0]
                   ELSE PlanReversals(Amount[r], rows, "PROPORTIONAL").amounts
<1>1. Typed /\ WorkerAgrees(w) /\ RowAgrees(r) /\ worker[w].step = "plan" /\ worker[w].of = r
  BY OwnerKnows DEF Plan, RefundAt
<1>2. plan \in Plans
  <2>1. rows \in [Parts -> [amount : Nat, reversed : Nat, primary : BOOLEAN]]
    BY <1>1, PartsAreFinite DEF Typed
  <2>2. Amount[r] \in Nat
    BY RefundAmountsAssumption
  <2> HIDE DEF rows
  <2>3. PlanReversals(Amount[r], rows, "PROPORTIONAL").amounts \in [Parts -> Nat]
    BY <2>1, <2>2, PartsAreFinite, PlanBalances
  <2> QED
    BY <2>3 DEF Plans
<1>3. /\ worker' = [worker EXCEPT ![w].plan = plan, ![w].step =
                        IF worker[w].row.reserved THEN "adopt" ELSE "reserve"]
      /\ reversal' = IF \E i \in Parts : reversal[r][i].status # "none" THEN reversal
                       ELSE [reversal EXCEPT ![r] = [i \in Parts |->
                                IF plan[i] > 0 THEN [status |-> "PENDING", amount |-> plan[i]]
                                ELSE @[i]]]
      /\ UNCHANGED <<order, refund, transfer, atProvider, returned, refundCrashes>>
  BY <1>1 DEF Plan
<1> HIDE DEF plan
<1>4. worker'[w].of = r /\ worker'[w].step = "reserve" /\ OthersStay(w) /\ RowsStay(r)
  BY <1>1, <1>3 DEF WorkerAgrees, Beginning, Calling, Typed, WorkerState, OthersStay, RowsStay
<1>5. Typed'
  <2>1. reversal' \in [Refunds -> Reversals]
    BY <1>1, <1>2, <1>3 DEF Typed, Reversals, ReversalRow, Plans, ReversalStatuses
  <2>2. worker' \in [RefundWorkers -> WorkerState]
    BY <1>1, <1>2, <1>3 DEF Typed, WorkerState, RefundSteps
  <2> QED
    BY <1>1, <1>3, <2>1, <2>2 DEF Typed
<1>6. RowAgrees(r)'
  BY <1>1, <1>3 DEF RowAgrees
<1>7. WorkerAgrees(w)'
  BY <1>1, <1>3, <1>4 DEF WorkerAgrees, Beginning, Calling, Verifying, Settling
<1> QED
  BY <1>4, <1>5, <1>6, <1>7, OwnerKeepsControl

\* The moves of a handler.
WentTo(w, step) ==
    /\ worker' \in [RefundWorkers -> WorkerState]
    /\ worker'[w].step = step /\ worker'[w].of = worker[w].of /\ worker'[w].row = worker[w].row
    /\ worker'[w].plan = worker[w].plan /\ worker'[w].left = worker[w].left
    /\ OthersStay(w)

LEMMA GoToIs ==
    ASSUME Typed, NEW w \in RefundWorkers, NEW step \in RefundSteps, GoTo(w, step)
    PROVE  WentTo(w, step)
BY DEF WentTo, GoTo, Typed, WorkerState, OthersStay

Ended(w) ==
    /\ worker' \in [RefundWorkers -> WorkerState]
    /\ worker'[w].step = "idle"
    /\ OthersStay(w)

LEMMA DoneIs ==
    ASSUME Typed, NEW w \in RefundWorkers, Done(w)
    PROVE  Ended(w)
BY IdleType DEF Ended, Done, Typed, OthersStay

LEMMA IdleAgrees ==
    ASSUME NEW w \in RefundWorkers, Ended(w)
    PROVE  WorkerAgrees(w)'
BY DEF Ended, WorkerAgrees, Beginning, Calling, Verifying, Settling

\* One row is written.
RowBecame(r, row) == /\ refund' \in [Refunds -> RefundRow]
                     /\ refund'[r] = row
                     /\ \A q \in Refunds : q # r => refund'[q] = refund[q]

LEMMA SetRefundIs ==
    ASSUME Typed, NEW r \in Refunds, NEW row \in RefundRow, SetRefund(r, row)
    PROVE  RowBecame(r, row)
BY DEF RowBecame, SetRefund, Typed

\* What a handler writes into a row.
LEMMA RowWith ==
    ASSUME NEW row \in RefundRow, NEW s \in RefundStatuses, NEW l \in {"no", "fresh", "stale"}
    PROVE  /\ [row EXCEPT !.status = s, !.locked = l] \in RefundRow
           /\ [row EXCEPT !.status = s, !.locked = l, !.reserved = FALSE] \in RefundRow
           /\ [row EXCEPT !.status = s, !.locked = l, !.known = TRUE] \in RefundRow
           /\ [row EXCEPT !.status = s] \in RefundRow
           /\ [row EXCEPT !.locked = l] \in RefundRow
BY DEF RefundRow

LEMMA RowMarked ==
    ASSUME NEW row \in RefundRow
    PROVE  /\ [row EXCEPT !.reserved = TRUE] \in RefundRow
           /\ [row EXCEPT !.confirmed = TRUE] \in RefundRow
BY DEF RefundRow

LEMMA ReserveKeeps ==
    ASSUME Control, NEW w \in RefundWorkers, NEW r \in Refunds, Owns(w, r), Reserve(w)
    PROVE  Control'
<1>1. /\ Typed /\ WorkerAgrees(w) /\ RowAgrees(r) /\ refund[r] \in RefundRow
      /\ worker[w].step = "reserve" /\ worker[w].of = r
  BY OwnerKnows DEF Reserve, RefundAt
<1>2. CASE HasRoom(Amount[r]) /\ TransferHasRoom(worker[w].plan)
  <2>1. WentTo(w, "mark")
    BY <1>1, <1>2, GoToIs DEF Reserve, RefundSteps
  <2>2. /\ order' = [order EXCEPT !.reserved = @ + Amount[r]]
        /\ transfer' = [i \in Parts |->
                          [transfer[i] EXCEPT !.reserved = @ + worker[w].plan[i]]]
        /\ UNCHANGED <<refund, reversal, atProvider, returned, refundCrashes>>
    BY <1>1, <1>2 DEF Reserve
  <2>3. order' \in [refunded: Nat, reserved: Nat, status: OrderStatuses]
    BY <1>1, <2>2, OwnerKnows DEF Typed
  <2>4. transfer' \in [Parts -> [reversed: Nat, reserved: Nat]]
    <3>1. worker[w].plan \in [Parts -> Nat]
      BY <1>1 DEF Typed, WorkerState, Plans
    <3> QED
      BY <1>1, <2>2, <3>1 DEF Typed
  <2>5. Typed'
    BY <1>1, <2>1, <2>2, <2>3, <2>4 DEF Typed, WentTo
  <2>6. RowAgrees(r)' /\ RowsStay(r)
    BY <1>1, <2>2 DEF RowAgrees, RowsStay
  <2>7. WorkerAgrees(w)'
    BY <1>1, <2>1, <2>2 DEF WentTo, WorkerAgrees, Beginning, Calling, Verifying, Settling
  <2> QED
    BY <1>1, <2>1, <2>5, <2>6, <2>7, OwnerKeepsControl DEF WentTo
<1>3. CASE ~(HasRoom(Amount[r]) /\ TransferHasRoom(worker[w].plan))
  <2>1. Ended(w)
    BY <1>1, <1>3, DoneIs DEF Reserve
  <2>2. /\ SetRefund(r, [refund[r] EXCEPT !.status = "APPROVED", !.locked = "no"])
        /\ UNCHANGED <<order, transfer, reversal, atProvider, returned, refundCrashes>>
    BY <1>1, <1>3 DEF Reserve
  <2>3. RowBecame(r, [refund[r] EXCEPT !.status = "APPROVED", !.locked = "no"])
    BY <1>1, <2>2, RowWith, SetRefundIs DEF RefundStatuses
  <2>4. Typed'
    BY <1>1, <2>1, <2>2, <2>3 DEF Typed, Ended, RowBecame
  <2>5. RowAgrees(r)' /\ RowsStay(r)
    BY <1>1, <2>2, <2>3, OwnerKnows DEF RowAgrees, RowsStay, RowBecame, RefundRow, WorkerAgrees, Beginning, Calling, Verifying, Settling
  <2> QED
    BY <1>1, <2>1, <2>4, <2>5, IdleAgrees, OwnerKeepsControl DEF Ended
<1> QED
  BY <1>2, <1>3

LEMMA MarkReservedKeeps ==
    ASSUME Control, NEW w \in RefundWorkers, NEW r \in Refunds, Owns(w, r), MarkReserved(w)
    PROVE  Control'
<1>1. /\ Typed /\ WorkerAgrees(w) /\ RowAgrees(r) /\ refund[r] \in RefundRow
      /\ worker[w].step = "mark" /\ worker[w].of = r
  BY OwnerKnows DEF MarkReserved, RefundAt
<1>2. WentTo(w, "adopt")
  BY <1>1, GoToIs DEF MarkReserved, RefundSteps
<1>3. SetRefund(r, [refund[r] EXCEPT !.reserved = TRUE])
      /\ UNCHANGED <<order, transfer, reversal, atProvider, returned, refundCrashes>>
  BY <1>1 DEF MarkReserved, SetRefund
<1>4. RowBecame(r, [refund[r] EXCEPT !.reserved = TRUE])
  BY <1>1, <1>3, RowMarked, SetRefundIs
<1>5. Typed'
  BY <1>1, <1>2, <1>3, <1>4 DEF Typed, WentTo, RowBecame
<1>6. RowAgrees(r)' /\ RowsStay(r)
  BY <1>1, <1>3, <1>4, OwnerKnows DEF RowAgrees, RowsStay, RowBecame, RefundRow, WorkerAgrees, Beginning, Calling, Verifying, Settling, RowAgrees
<1>7. WorkerAgrees(w)'
  BY <1>1, <1>2, <1>3, <1>4, OwnerKnows DEF WentTo, RowBecame, RefundRow, WorkerAgrees, Beginning, Calling, Verifying, Settling, RowAgrees
<1> QED
  BY <1>1, <1>2, <1>5, <1>6, <1>7, OwnerKeepsControl DEF WentTo

LEMMA HoldForVerificationKeeps ==
    ASSUME Control, NEW w \in RefundWorkers, NEW r \in Refunds, Owns(w, r), HoldForVerification(w)
    PROVE  Control'
<1>1. /\ Typed /\ WorkerAgrees(w) /\ RowAgrees(r) /\ refund[r] \in RefundRow
      /\ worker[w].step = "unknown" /\ worker[w].of = r
  BY OwnerKnows DEF HoldForVerification, RefundAt
<1>2. Ended(w)
  BY <1>1, DoneIs DEF HoldForVerification
<1>3. SetRefund(r, [refund[r] EXCEPT !.status = "PENDING_VERIFICATION", !.locked = "no"])
      /\ UNCHANGED <<order, transfer, reversal, atProvider, returned, refundCrashes>>
  BY <1>1 DEF HoldForVerification, SetRefund
<1>4. RowBecame(r, [refund[r] EXCEPT !.status = "PENDING_VERIFICATION", !.locked = "no"])
  BY <1>1, <1>3, RowWith, SetRefundIs DEF RefundStatuses
<1>5. Typed'
  BY <1>1, <1>2, <1>3, <1>4 DEF Typed, Ended, RowBecame
<1>6. RowAgrees(r)' /\ RowsStay(r)
  <2>1. refund[r].locked = "fresh" /\ refund[r].reserved
    BY <1>1 DEF WorkerAgrees, Calling
  <2>2. ~refund[r].known /\ ~refund[r].confirmed /\ atProvider[r] # "failed"
    BY <1>1, <2>1 DEF RowAgrees
  <2>3. /\ refund'[r].status = "PENDING_VERIFICATION" /\ refund'[r].locked = "no"
        /\ refund'[r].known = refund[r].known /\ refund'[r].confirmed = refund[r].confirmed
        /\ refund'[r].reserved = refund[r].reserved
    BY <1>1, <1>4 DEF RowBecame, RefundRow
  <2> QED
    BY <1>3, <1>4, <2>1, <2>2, <2>3 DEF RowAgrees, RowsStay, RowBecame, Untouched
<1> QED
  BY <1>2, <1>5, <1>6, IdleAgrees, OwnerKeepsControl DEF Ended

LEMMA FailRefundKeeps ==
    ASSUME Control, NEW w \in RefundWorkers, NEW r \in Refunds, Owns(w, r), FailRefund(w)
    PROVE  Control'
<1>1. /\ Typed /\ WorkerAgrees(w) /\ RowAgrees(r) /\ refund[r] \in RefundRow
      /\ worker[w].step = "fail" /\ worker[w].of = r
  BY OwnerKnows DEF FailRefund, RefundAt
<1>2. Ended(w)
  BY <1>1, DoneIs DEF FailRefund
<1>3. SetRefund(r, [refund[r] EXCEPT !.status = "FAILED", !.locked = "no", !.reserved = FALSE])
      /\ UNCHANGED <<order, transfer, reversal, atProvider, returned, refundCrashes>>
  BY <1>1 DEF FailRefund, SetRefund
<1>4. RowBecame(r, [refund[r] EXCEPT !.status = "FAILED", !.locked = "no", !.reserved = FALSE])
  BY <1>1, <1>3, RowWith, SetRefundIs DEF RefundStatuses
<1>5. Typed'
  BY <1>1, <1>2, <1>3, <1>4 DEF Typed, Ended, RowBecame
<1>6. RowAgrees(r)' /\ RowsStay(r)
  BY <1>1, <1>3, <1>4, OwnerKnows DEF RowAgrees, RowsStay, RowBecame, RefundRow, WorkerAgrees, Beginning, Calling, Verifying, Settling
<1> QED
  BY <1>2, <1>5, <1>6, IdleAgrees, OwnerKeepsControl DEF Ended

LEMMA FailVerifiedKeeps ==
    ASSUME Control, NEW w \in RefundWorkers, NEW r \in Refunds, Owns(w, r), FailVerified(w)
    PROVE  Control'
<1>1. /\ Typed /\ WorkerAgrees(w) /\ RowAgrees(r) /\ refund[r] \in RefundRow
      /\ worker[w].step = "forget" /\ worker[w].of = r
  BY OwnerKnows DEF FailVerified, RefundAt
<1>2. Ended(w)
  BY <1>1, DoneIs DEF FailVerified
<1>3. SetRefund(r, [refund[r] EXCEPT !.status = "FAILED", !.locked = "no", !.reserved = FALSE])
      /\ UNCHANGED <<order, transfer, reversal, atProvider, returned, refundCrashes>>
  BY <1>1 DEF FailVerified, SetRefund
<1>4. RowBecame(r, [refund[r] EXCEPT !.status = "FAILED", !.locked = "no", !.reserved = FALSE])
  BY <1>1, <1>3, RowWith, SetRefundIs DEF RefundStatuses
<1>5. Typed'
  BY <1>1, <1>2, <1>3, <1>4 DEF Typed, Ended, RowBecame
<1>6. RowAgrees(r)' /\ RowsStay(r)
  BY <1>1, <1>3, <1>4, OwnerKnows DEF RowAgrees, RowsStay, RowBecame, RefundRow, WorkerAgrees, Beginning, Calling, Verifying, Settling
<1> QED
  BY <1>2, <1>5, <1>6, IdleAgrees, OwnerKeepsControl DEF Ended

\* A step that writes neither the row nor the provider.
LEMMA MoveKeepsControl ==
    ASSUME Control, NEW w \in RefundWorkers, NEW r \in Refunds, Owns(w, r),
           Typed', OthersStay(w), WorkerAgrees(w)', UNCHANGED <<refund, atProvider>>,
           worker'[w].step = "idle" \/ worker'[w].of = r
    PROVE  Control'
<1>1. RowAgrees(r) /\ Typed
  BY OwnerKnows
<1>2. RowAgrees(r)' /\ RowsStay(r)
  BY <1>1 DEF RowAgrees, RowsStay
<1> QED
  BY <1>2, OwnerKeepsControl

LEMMA AdoptKeeps ==
    ASSUME Control, NEW w \in RefundWorkers, NEW r \in Refunds, Owns(w, r), Adopt(w)
    PROVE  Control'
<1>1. /\ Typed /\ WorkerAgrees(w) /\ RowAgrees(r) /\ refund[r] \in RefundRow
      /\ worker[w].step = "adopt" /\ worker[w].of = r
  BY OwnerKnows DEF Adopt, RefundAt
<1>2. UNCHANGED <<order, refund, transfer, reversal, atProvider, returned, refundCrashes>>
  BY DEF Adopt
<1>3. CASE atProvider[r] # "none" /\ GoTo(w, "record")
  <2>1. WentTo(w, "record")
    BY <1>1, <1>3, GoToIs DEF RefundSteps
  <2>2. Typed' /\ WorkerAgrees(w)'
    BY <1>1, <1>2, <1>3, <2>1 DEF Typed, WentTo, WorkerAgrees, Beginning, Calling, Verifying, Settling
  <2> QED
    BY <1>1, <1>2, <2>1, <2>2, MoveKeepsControl DEF WentTo
<1>4. CASE GoTo(w, "call")
  <2>1. WentTo(w, "call")
    BY <1>1, <1>4, GoToIs DEF RefundSteps
  <2>2. Typed' /\ WorkerAgrees(w)'
    BY <1>1, <1>2, <2>1 DEF Typed, WentTo, WorkerAgrees, Beginning, Calling, Verifying, Settling
  <2> QED
    BY <1>1, <1>2, <2>1, <2>2, MoveKeepsControl DEF WentTo
<1> QED
  BY <1>1, <1>3, <1>4 DEF Adopt

LEMMA CallProviderKeeps ==
    ASSUME Control, NEW w \in RefundWorkers, NEW r \in Refunds, Owns(w, r), CallProvider(w)
    PROVE  Control'
<1>1. /\ Typed /\ WorkerAgrees(w) /\ RowAgrees(r) /\ refund[r] \in RefundRow
      /\ worker[w].step = "call" /\ worker[w].of = r
  BY OwnerKnows DEF CallProvider, RefundAt
<1>2. UNCHANGED <<order, refund, transfer, reversal, returned, refundCrashes>>
  BY DEF CallProvider
<1>3. /\ refund[r].reserved /\ refund[r].status = "PROCESSING" /\ ~refund[r].known
      /\ refund[r].locked = "fresh" /\ w \in Executors
  BY <1>1 DEF WorkerAgrees, RowAgrees, Calling
<1>4. PICK step \in {"record", "unknown", "release"} :
          /\ GoTo(w, step)
          /\ step = "release" => atProvider[r] = "none"
          /\ \/ UNCHANGED atProvider /\ step # "record"
             \/ /\ step # "release"
                /\ \E outcome \in {"pending", "processed"} :
                   atProvider' = [atProvider EXCEPT ![r] = IF @ = "none" THEN outcome ELSE @]
  BY <1>1 DEF CallProvider
<1>5. WentTo(w, step)
  BY <1>1, <1>4, GoToIs DEF RefundSteps
<1>6. /\ atProvider' \in [Refunds -> {"none", "pending", "processed", "failed"}]
      /\ atProvider'[r] # "failed" /\ (step = "record" => atProvider'[r] # "none")
      /\ (step = "release" => atProvider'[r] = "none")
      /\ \A q \in Refunds : q # r => atProvider'[q] = atProvider[q]
  <2>1. atProvider \in [Refunds -> {"none", "pending", "processed", "failed"}] /\ atProvider[r] # "failed"
    BY <1>1 DEF Typed, RowAgrees
  <2> QED
    BY <1>4, <2>1
<1>7. Typed'
  BY <1>1, <1>2, <1>5, <1>6 DEF Typed, WentTo
<1>8. RowAgrees(r)' /\ RowsStay(r)
  BY <1>1, <1>2, <1>3, <1>6 DEF RowAgrees, RowsStay, Untouched
<1>9. WorkerAgrees(w)'
  BY <1>1, <1>2, <1>3, <1>5, <1>6 DEF WentTo, WorkerAgrees, Beginning, Calling, Verifying, Settling
<1> QED
  BY <1>1, <1>5, <1>7, <1>8, <1>9, OwnerKeepsControl DEF WentTo

\* releaseAll() never makes a reservation negative.
LEMMA ReleaseAllType ==
    ASSUME Typed, NEW amount \in Nat, NEW plan \in Plans, ReleaseAll(amount, plan)
    PROVE  /\ order' \in [refunded: Nat, reserved: Nat, status: OrderStatuses]
           /\ transfer' \in [Parts -> [reversed: Nat, reserved: Nat]]
<1>1. \A a, b \in Nat : Released(a, b) \in Nat
  BY DEF Released
<1>2. order.reserved \in Nat /\ order \in [refunded: Nat, reserved: Nat, status: OrderStatuses]
  BY DEF Typed
<1>3. Released(order.reserved, amount) \in Nat
  BY <1>1, <1>2
<1>4. order' \in [refunded: Nat, reserved: Nat, status: OrderStatuses]
  BY <1>2, <1>3 DEF ReleaseAll
<1>5. \A i \in Parts : /\ transfer[i] \in [reversed: Nat, reserved: Nat]
                       /\ Released(transfer[i].reserved, plan[i]) \in Nat
  BY <1>1 DEF Typed, Plans
<1>6. transfer' \in [Parts -> [reversed: Nat, reserved: Nat]]
  BY <1>5 DEF ReleaseAll
<1> QED
  BY <1>4, <1>6

LEMMA ReleaseCapacityKeeps ==
    ASSUME Control, NEW w \in RefundWorkers, NEW r \in Refunds, Owns(w, r), ReleaseCapacity(w)
    PROVE  Control'
<1>1. /\ Typed /\ WorkerAgrees(w) /\ RowAgrees(r) /\ refund[r] \in RefundRow
      /\ worker[w].step = "release" /\ worker[w].of = r
  BY OwnerKnows DEF ReleaseCapacity, RefundAt
<1>2. /\ ReleaseAll(Amount[r], worker[w].plan)
      /\ UNCHANGED <<refund, reversal, atProvider, returned, refundCrashes>>
  BY <1>1 DEF ReleaseCapacity
<1>3. WentTo(w, "fail")
  BY <1>1, GoToIs DEF ReleaseCapacity, RefundSteps
<1>4. Amount[r] \in Nat /\ worker[w].plan \in Plans
  BY <1>1, OwnerKnows DEF WorkerState
<1>5. Typed'
  BY <1>1, <1>2, <1>3, <1>4, ReleaseAllType DEF Typed, WentTo
<1>6. WorkerAgrees(w)'
  BY <1>1, <1>2, <1>3 DEF WentTo, WorkerAgrees, Beginning, Calling, Verifying, Settling
<1> QED
  BY <1>1, <1>2, <1>3, <1>5, <1>6, MoveKeepsControl DEF WentTo

LEMMA RecordProviderKeeps ==
    ASSUME Control, NEW w \in RefundWorkers, NEW r \in Refunds, Owns(w, r), RecordProvider(w)
    PROVE  Control'
<1>1. /\ Typed /\ WorkerAgrees(w) /\ RowAgrees(r) /\ refund[r] \in RefundRow
      /\ worker[w].step = "record" /\ worker[w].of = r
  BY OwnerKnows DEF RecordProvider, RefundAt
<1> DEFINE row == [refund[r] EXCEPT !.status = AdoptedStatus(r), !.locked = "no", !.known = TRUE]
<1>2. /\ SetRefund(r, row)
      /\ UNCHANGED <<order, transfer, reversal, atProvider, returned, refundCrashes>>
  BY <1>1 DEF RecordProvider
<1>3. AdoptedStatus(r) \in {"PROCESSING", "PROCESSED"}
  BY DEF AdoptedStatus
<1>4. /\ row \in RefundRow /\ row.known /\ row.locked = "no" /\ row.status = AdoptedStatus(r)
      /\ row.reserved = refund[r].reserved /\ row.confirmed = refund[r].confirmed
  BY <1>1, <1>3 DEF RefundRow, RefundStatuses
<1> HIDE DEF row
<1>5. RowBecame(r, row)
  BY <1>1, <1>2, <1>4, SetRefundIs
<1>6. atProvider[r] # "none" /\ atProvider[r] # "failed" /\ refund[r].reserved
  BY <1>1 DEF WorkerAgrees, RowAgrees
<1>7. RowAgrees(r)' /\ RowsStay(r)
  BY <1>2, <1>3, <1>4, <1>5, <1>6 DEF RowAgrees, RowsStay, RowBecame, Untouched
<1>8. /\ worker' \in [RefundWorkers -> WorkerState] /\ OthersStay(w)
      /\ worker'[w].step = "reverse" /\ worker'[w].of = r
  <2> DEFINE parts == {i \in Parts : worker[w].plan[i] > 0}
  <2>1. worker' = [worker EXCEPT ![w].step = "reverse", ![w].left = parts]
    BY DEF RecordProvider
  <2>2. parts \in PartSets
    BY DEF PartSets
  <2> HIDE DEF parts
  <2> QED
    BY ZenonT(30), <1>1, <2>1, <2>2 DEF Typed, WorkerState, RefundSteps, OthersStay
<1>9. Typed'
  BY <1>1, <1>2, <1>5, <1>8 DEF Typed, RowBecame
<1>10. WorkerAgrees(w)'
  BY <1>1, <1>4, <1>5, <1>8 DEF RowBecame, WorkerAgrees, Beginning, Calling, Verifying, Settling
<1> QED
  BY <1>1, <1>7, <1>8, <1>9, <1>10, OwnerKeepsControl

LEMMA AdoptVerifiedKeeps ==
    ASSUME Control, NEW w \in RefundWorkers, NEW r \in Refunds, Owns(w, r), AdoptVerified(w)
    PROVE  Control'
<1>1. /\ Typed /\ WorkerAgrees(w) /\ RowAgrees(r) /\ refund[r] \in RefundRow
      /\ worker[w].step = "found" /\ worker[w].of = r
  BY OwnerKnows DEF AdoptVerified, RefundAt
<1> DEFINE row == [refund[r] EXCEPT !.status = AdoptedStatus(r), !.locked = "no", !.known = TRUE]
<1>2. /\ SetRefund(r, row)
      /\ UNCHANGED <<order, transfer, reversal, atProvider, returned, refundCrashes>>
  BY <1>1 DEF AdoptVerified
<1>3. AdoptedStatus(r) \in {"PROCESSING", "PROCESSED"}
  BY DEF AdoptedStatus
<1>4. /\ row \in RefundRow /\ row.known /\ row.locked = "no" /\ row.status = AdoptedStatus(r)
      /\ row.reserved = refund[r].reserved /\ row.confirmed = refund[r].confirmed
  BY <1>1, <1>3 DEF RefundRow, RefundStatuses
<1> HIDE DEF row
<1>5. RowBecame(r, row)
  BY <1>1, <1>2, <1>4, SetRefundIs
<1>6. atProvider[r] # "none" /\ atProvider[r] # "failed" /\ refund[r].reserved
  BY <1>1 DEF WorkerAgrees, RowAgrees
<1>7. RowAgrees(r)' /\ RowsStay(r)
  BY <1>2, <1>3, <1>4, <1>5, <1>6 DEF RowAgrees, RowsStay, RowBecame, Untouched
<1>8. CASE atProvider[r] = "processed"
  <2>1. WentTo(w, "book")
    BY <1>1, <1>8, GoToIs DEF AdoptVerified, RefundSteps
  <2>2. Typed'
    BY <1>1, <1>2, <1>5, <2>1 DEF Typed, RowBecame, WentTo
  <2>3. WorkerAgrees(w)'
    BY <1>1, <1>4, <1>5, <2>1 DEF RowBecame, WentTo, WorkerAgrees, Beginning, Calling, Verifying, Settling
  <2> QED
    BY <1>1, <1>7, <2>1, <2>2, <2>3, OwnerKeepsControl DEF WentTo
<1>9. CASE atProvider[r] # "processed"
  <2>1. Ended(w)
    BY <1>1, <1>9, DoneIs DEF AdoptVerified
  <2>2. Typed'
    BY <1>1, <1>2, <1>5, <2>1 DEF Typed, RowBecame, Ended
  <2> QED
    BY <1>1, <1>7, <2>1, <2>2, IdleAgrees, OwnerKeepsControl DEF Ended
<1> QED
  BY <1>8, <1>9

\* The next transfer of a plan is one of those that are left.
LEMMA NextPartIsLeft ==
    ASSUME NEW w, worker[w].left \in PartSets, worker[w].left # {}
    PROVE  NextPart(w) \in worker[w].left /\ NextPart(w) \in Parts
<1>1. worker[w].left \subseteq Nat
  BY PartsAreFinite DEF PartSets
<1>2. \E i \in worker[w].left : \A j \in worker[w].left : i <= j
  BY <1>1, LeastNumber
<1> QED
  BY <1>2 DEF NextPart, PartSets

LEMMA StartReversalKeeps ==
    ASSUME Control, NEW w \in RefundWorkers, NEW r \in Refunds, Owns(w, r), StartReversal(w)
    PROVE  Control'
<1>1. /\ Typed /\ WorkerAgrees(w) /\ RowAgrees(r) /\ refund[r] \in RefundRow
      /\ worker[w].step = "reverse" /\ worker[w].of = r
  BY OwnerKnows DEF StartReversal, RefundAt
<1> DEFINE i == NextPart(w)
           amount == Least(worker[w].plan[i], AtLeastZero(Transferred[i] - transfer[i].reversed))
<1>2. /\ worker' = [worker EXCEPT ![w].plan[i] = amount,
                                    ![w].step = IF amount = 0 THEN @ ELSE "take",
                                    ![w].left = IF amount = 0 THEN @ \ {i} ELSE @]
      /\ reversal' = [reversal EXCEPT ![r][i] = Opened(@, amount)]
      /\ UNCHANGED <<order, refund, transfer, atProvider, returned, refundCrashes>>
      /\ worker[w].left # {}
  BY <1>1 DEF StartReversal
<1>3. worker[w].plan \in Plans /\ worker[w].left \in PartSets /\ reversal \in [Refunds -> Reversals]
  BY <1>1, OwnerKnows DEF WorkerState, Typed
<1>4. i \in Parts
  BY <1>2, <1>3, NextPartIsLeft
<1>5. amount \in Nat
  <2>1. worker[w].plan[i] \in Nat /\ Transferred[i] \in Nat /\ transfer[i].reversed \in Nat
    BY <1>1, <1>3, <1>4, PartsAreFinite DEF Plans, Typed
  <2> HIDE DEF i
  <2> QED
    BY <2>1 DEF Least, AtLeastZero
<1> HIDE DEF i, amount
<1>6. reversal' \in [Refunds -> Reversals]
  <2>1. reversal[r][i] \in ReversalRow
    BY <1>3, <1>4 DEF Reversals
  <2>2. Opened(reversal[r][i], amount) \in ReversalRow
    BY <1>5, <2>1 DEF Opened, ReversalRow, ReversalStatuses
  <2> QED
    BY <1>2, <1>3, <1>4, <2>2 DEF Reversals
<1>7. /\ worker' \in [RefundWorkers -> WorkerState] /\ OthersStay(w)
      /\ worker'[w].step \in {"reverse", "take"} /\ worker'[w].of = r
  <2>1. [worker[w].plan EXCEPT ![i] = amount] \in Plans
    BY <1>3, <1>4, <1>5 DEF Plans
  <2>2. worker[w].left \ {i} \in PartSets
    BY <1>3 DEF PartSets
  <2>3. worker \in [RefundWorkers -> WorkerState] /\ worker[w] \in WorkerState
    BY <1>1, OwnerKnows DEF Typed
  <2> DEFINE p == [worker[w].plan EXCEPT ![i] = amount]
  <2>4. worker' = [worker EXCEPT ![w].plan = p,
                                 ![w].step = IF amount = 0 THEN @ ELSE "take",
                                 ![w].left = IF amount = 0 THEN @ \ {i} ELSE @]
    BY <1>2
  <2>5. p \in Plans
    BY <2>1
  <2> HIDE DEF p
  <2>6. CASE amount = 0
    <3>1. worker' = [worker EXCEPT ![w].plan = p, ![w].left = worker[w].left \ {i}]
      BY <2>3, <2>4, <2>6 DEF WorkerState
    <3> QED
      BY <1>1, <2>2, <2>3, <2>5, <3>1 DEF WorkerState, OthersStay
  <2>7. CASE amount # 0
    <3>1. worker' = [worker EXCEPT ![w].plan = p, ![w].step = "take"]
      BY <2>3, <2>4, <2>7 DEF WorkerState
    <3> QED
      BY <1>1, <2>3, <2>5, <3>1 DEF WorkerState, RefundSteps, OthersStay
  <2> QED
    BY <2>6, <2>7
<1>8. Typed'
  BY <1>1, <1>2, <1>6, <1>7 DEF Typed
<1>9. WorkerAgrees(w)'
  BY <1>1, <1>2, <1>7 DEF WorkerAgrees, Beginning, Calling, Verifying, Settling
<1> QED
  BY <1>1, <1>2, <1>7, <1>8, <1>9, MoveKeepsControl

\* A partner was asked, and the worker knows what came of it.
LEMMA ReverseTransferKeeps ==
    ASSUME Control, NEW w \in RefundWorkers, NEW r \in Refunds, Owns(w, r), ReverseTransfer(w)
    PROVE  Control'
<1>1. /\ Typed /\ WorkerAgrees(w) /\ RowAgrees(r) /\ refund[r] \in RefundRow
      /\ worker[w].step = "take" /\ worker[w].of = r
  BY OwnerKnows DEF ReverseTransfer, RefundAt
<1> DEFINE i == NextPart(w)
           back == [returned[r] EXCEPT ![i] = @ + worker[w].plan[i]]
<1>2. /\ UNCHANGED <<order, refund, transfer, reversal, atProvider, refundCrashes>>
      /\ returned' = returned \/ returned' = [returned EXCEPT ![r] = back]
  BY <1>1 DEF ReverseTransfer
<1>3. PICK step \in {"taken", "unheard", "refused"} : GoTo(w, step)
  BY DEF ReverseTransfer
<1>4. WentTo(w, step)
  BY <1>1, <1>3, GoToIs DEF RefundSteps
<1>5. returned' \in [Refunds -> Plans]
  <2>1. returned \in [Refunds -> Plans] /\ returned[r] \in Plans /\ worker[w].plan \in Plans
    BY <1>1, OwnerKnows DEF WorkerState, Typed
  <2> HIDE DEF i
  <2>2. back \in Plans
    <3>1. CASE i \in Parts
      <4>1. returned[r][i] \in Nat /\ worker[w].plan[i] \in Nat
        BY <2>1, <3>1 DEF Plans
      <4>2. returned[r][i] + worker[w].plan[i] \in Nat
        BY <4>1
      <4> QED
        BY <2>1, <3>1, <4>2 DEF Plans
    <3>2. CASE i \notin Parts
      <4>1. back = returned[r]
        BY <2>1, <3>2 DEF Plans
      <4> QED
        BY <2>1, <4>1
    <3> QED
      BY <3>1, <3>2
  <2> HIDE DEF back
  <2> QED
    BY <1>2, <2>1, <2>2
<1> HIDE DEF back
<1>6. Typed'
  BY <1>1, <1>2, <1>4, <1>5 DEF Typed, WentTo
<1>7. WorkerAgrees(w)'
  BY <1>1, <1>2, <1>3, <1>4 DEF WentTo, WorkerAgrees, Beginning, Calling, Verifying, Settling
<1> QED
  BY <1>1, <1>2, <1>4, <1>6, <1>7, MoveKeepsControl DEF WentTo

\* The worker goes on to the next transfer.
PassedOn(w, r, i) ==
    /\ worker' \in [RefundWorkers -> WorkerState] /\ OthersStay(w)
    /\ worker'[w].step = "reverse" /\ worker'[w].of = r /\ worker'[w].plan = worker[w].plan
    /\ worker'[w].left = worker[w].left \ {i}

LEMMA PassedIs ==
    ASSUME Typed, NEW w \in RefundWorkers, NEW r, worker[w].of = r, Passed(w)
    PROVE  PassedOn(w, r, NextPart(w))
<1> DEFINE rest == worker[w].left \ {NextPart(w)}
<1>1. worker[w] \in WorkerState /\ worker \in [RefundWorkers -> WorkerState]
  BY DEF Typed
<1>2. rest \in PartSets
  BY <1>1 DEF WorkerState, PartSets
<1>3. worker' = [worker EXCEPT ![w].step = "reverse", ![w].left = rest]
  BY <1>1 DEF Passed, WorkerState
<1>4. PassedOn(w, r, NextPart(w)) <=>
        /\ worker' \in [RefundWorkers -> WorkerState] /\ OthersStay(w)
        /\ worker'[w].step = "reverse" /\ worker'[w].of = r /\ worker'[w].plan = worker[w].plan
        /\ worker'[w].left = rest
  BY DEF PassedOn
<1> HIDE DEF rest
<1> QED
  BY ZenonT(30), <1>1, <1>2, <1>3, <1>4 DEF WorkerState, RefundSteps, OthersStay

LEMMA RecordReversalKeeps ==
    ASSUME Control, NEW w \in RefundWorkers, NEW r \in Refunds, Owns(w, r), RecordReversal(w)
    PROVE  Control'
<1>1. /\ Typed /\ WorkerAgrees(w) /\ RowAgrees(r) /\ refund[r] \in RefundRow
      /\ worker[w].step = "taken" /\ worker[w].of = r
  BY OwnerKnows DEF RecordReversal, RefundAt
<1> DEFINE i == NextPart(w)
           amount == worker[w].plan[i]
<1>2. UNCHANGED <<order, refund, atProvider, returned, refundCrashes>>
  BY DEF RecordReversal
<1>3. CASE ~Reversible(i, amount)
  <2>1. UNCHANGED <<transfer, reversal>> /\ WentTo(w, "unheard")
    BY <1>1, <1>3, GoToIs DEF RecordReversal, RefundSteps
  <2>2. Typed' /\ WorkerAgrees(w)'
    BY <1>1, <1>2, <2>1 DEF Typed, WentTo, WorkerAgrees, Beginning, Calling, Verifying, Settling
  <2> QED
    BY <1>1, <1>2, <2>1, <2>2, MoveKeepsControl DEF WentTo
<1>4. CASE Reversible(i, amount)
  <2>1. /\ transfer' = [transfer EXCEPT ![i] = AfterReversal(i, amount)]
        /\ reversal' = [reversal EXCEPT ![r][i] = [status |-> "PROCESSED", amount |-> amount]]
        /\ PassedOn(w, r, i)
    BY <1>1, <1>4, PassedIs DEF RecordReversal
  <2>2. /\ worker[w].plan \in Plans /\ reversal \in [Refunds -> Reversals]
        /\ transfer \in [Parts -> [reversed: Nat, reserved: Nat]]
    BY <1>1, OwnerKnows DEF WorkerState, Typed
  <2>3. transfer' \in [Parts -> [reversed: Nat, reserved: Nat]] /\ reversal' \in [Refunds -> Reversals]
    <3>1. CASE i \in Parts
      <4>1. amount \in Nat /\ transfer[i] \in [reversed: Nat, reserved: Nat]
        BY <2>2, <3>1 DEF Plans
      <4> HIDE DEF i, amount
      <4>2. AfterReversal(i, amount) \in [reversed: Nat, reserved: Nat]
        <5> DEFINE more == transfer[i].reversed + amount
                   less == Released(transfer[i].reserved, amount)
        <5>1. more \in Nat /\ less \in Nat
          BY <4>1 DEF Released
        <5>2. AfterReversal(i, amount) = [transfer[i] EXCEPT !.reversed = more, !.reserved = less]
          BY <4>1 DEF AfterReversal
        <5> HIDE DEF more, less
        <5> QED
          BY <4>1, <5>1, <5>2
      <4>3. transfer' \in [Parts -> [reversed: Nat, reserved: Nat]]
        BY <2>1, <2>2, <4>2
      <4>4. reversal' \in [Refunds -> Reversals]
        BY <2>1, <2>2, <3>1, <4>1 DEF Reversals, ReversalRow, ReversalStatuses
      <4> QED
        BY <4>3, <4>4
    <3>2. CASE i \notin Parts
      <4> HIDE DEF i, amount
      <4>1. transfer' = transfer
        BY <2>1, <2>2, <3>2
      <4>2. reversal' = reversal
        <5>1. reversal[r] \in Reversals
          BY <2>2
        <5>2. [reversal[r] EXCEPT ![i] = [status |-> "PROCESSED", amount |-> amount]] = reversal[r]
          BY <3>2, <5>1 DEF Reversals
        <5> QED
          BY <2>1, <2>2, <5>2
      <4> QED
        BY <2>2, <4>1, <4>2
    <3> QED
      BY <3>1, <3>2
  <2> HIDE DEF i, amount
  <2>5. Typed'
    BY <1>1, <1>2, <2>1, <2>3 DEF Typed, PassedOn
  <2>6. WorkerAgrees(w)'
    BY <1>1, <1>2, <2>1 DEF PassedOn, WorkerAgrees, Beginning, Calling, Verifying, Settling
  <2> QED
    BY <1>1, <1>2, <2>1, <2>5, <2>6, MoveKeepsControl DEF PassedOn
<1> QED
  BY <1>3, <1>4

LEMMA ParkReversalKeeps ==
    ASSUME Control, NEW w \in RefundWorkers, NEW r \in Refunds, Owns(w, r), ParkReversal(w)
    PROVE  Control'
<1>1. /\ Typed /\ WorkerAgrees(w) /\ RowAgrees(r) /\ refund[r] \in RefundRow
      /\ worker[w].step \in {"unheard", "refused"} /\ worker[w].of = r
  BY OwnerKnows DEF ParkReversal, RefundAt
<1> DEFINE i == NextPart(w)
<1>2. /\ UNCHANGED <<order, refund, transfer, atProvider, returned, refundCrashes>>
      /\ PassedOn(w, r, i)
  BY <1>1, PassedIs DEF ParkReversal
<1>3. PICK status \in ReversalStatuses : reversal' = [reversal EXCEPT ![r][i].status = status]
  BY <1>1 DEF ParkReversal, ReversalStatuses
<1> HIDE DEF i
<1>4. reversal' \in [Refunds -> Reversals]
  <2>1. reversal \in [Refunds -> Reversals] /\ reversal[r] \in Reversals
    BY <1>1 DEF Typed
  <2>2. reversal' = [reversal EXCEPT ![r] = [@ EXCEPT ![i].status = status]]
    BY <1>3, <2>1
  <2>3. [reversal[r] EXCEPT ![i].status = status] \in Reversals
    BY <1>3, <2>1 DEF Reversals, ReversalRow
  <2> QED
    BY <2>1, <2>2, <2>3
<1>5. Typed'
  BY <1>1, <1>2, <1>4 DEF Typed, PassedOn
<1>6. WorkerAgrees(w)'
  BY <1>1, <1>2 DEF PassedOn, WorkerAgrees, Beginning, Calling, Verifying, Settling
<1> QED
  BY <1>1, <1>2, <1>5, <1>6, MoveKeepsControl DEF PassedOn

LEMMA BeginBookingKeeps ==
    ASSUME Control, NEW w \in RefundWorkers, NEW r \in Refunds, Owns(w, r), BeginBooking(w)
    PROVE  Control'
<1>1. /\ Typed /\ WorkerAgrees(w) /\ RowAgrees(r) /\ refund[r] \in RefundRow
      /\ worker[w].step = "reverse" /\ worker[w].of = r
  BY OwnerKnows DEF BeginBooking, RefundAt
<1>2. UNCHANGED <<order, refund, transfer, reversal, atProvider, returned, refundCrashes>>
  BY DEF BeginBooking
<1>3. WentTo(w, "book")
  BY <1>1, GoToIs DEF BeginBooking, RefundSteps
<1>4. Typed' /\ WorkerAgrees(w)'
  BY <1>1, <1>2, <1>3 DEF Typed, WentTo, WorkerAgrees, Beginning, Calling, Verifying, Settling
<1> QED
  BY <1>1, <1>2, <1>3, <1>4, MoveKeepsControl DEF WentTo

LEMMA ReadForBookingKeeps ==
    ASSUME Control, NEW w \in RefundWorkers, NEW r \in Refunds, Owns(w, r), ReadForBooking(w)
    PROVE  Control'
<1>1. /\ Typed /\ WorkerAgrees(w) /\ RowAgrees(r) /\ refund[r] \in RefundRow
      /\ worker[w].step = "book" /\ worker[w].of = r
  BY OwnerKnows DEF ReadForBooking, RefundAt
<1>2. UNCHANGED <<order, refund, transfer, reversal, atProvider, returned, refundCrashes>>
  BY DEF ReadForBooking
<1>3. CASE refund[r].confirmed
  <2>1. Ended(w)
    BY <1>1, <1>3, DoneIs DEF ReadForBooking
  <2>2. Typed'
    BY <1>1, <1>2, <2>1 DEF Typed, Ended
  <2> QED
    BY <1>2, <2>1, <2>2, IdleAgrees, MoveKeepsControl DEF Ended
<1>4. CASE ~refund[r].confirmed
  <2>1. worker' = [worker EXCEPT ![w].step = "confirm", ![w].row = refund[r]]
    BY <1>1, <1>4 DEF ReadForBooking
  <2>2. /\ worker' \in [RefundWorkers -> WorkerState] /\ OthersStay(w)
        /\ worker'[w].step = "confirm" /\ worker'[w].of = r /\ worker'[w].row = refund[r]
    BY ZenonT(30), <1>1, <2>1 DEF Typed, WorkerState, RefundSteps, OthersStay
  <2>3. refund[r].known /\ refund[r].reserved
    BY <1>1 DEF WorkerAgrees, Settling, RowAgrees
  <2>4. Typed' /\ WorkerAgrees(w)'
    BY <1>1, <1>2, <1>4, <2>2, <2>3 DEF Typed, WorkerAgrees, Beginning, Calling, Verifying, Settling
  <2> QED
    BY <1>2, <2>2, <2>4, MoveKeepsControl
<1> QED
  BY <1>3, <1>4

LEMMA ConfirmOnOrderKeeps ==
    ASSUME Control, NEW w \in RefundWorkers, NEW r \in Refunds, Owns(w, r), ConfirmOnOrder(w)
    PROVE  Control'
<1>1. /\ Typed /\ WorkerAgrees(w) /\ RowAgrees(r) /\ refund[r] \in RefundRow
      /\ worker[w].step = "confirm" /\ worker[w].of = r
  BY OwnerKnows DEF ConfirmOnOrder, RefundAt
<1>2. UNCHANGED <<refund, transfer, reversal, atProvider, returned, refundCrashes>>
  BY DEF ConfirmOnOrder
<1>3. order' \in [refunded: Nat, reserved: Nat, status: OrderStatuses]
  <2>1. order \in [refunded: Nat, reserved: Nat, status: OrderStatuses] /\ Amount[r] \in Nat
    BY <1>1, OwnerKnows DEF Typed
  <2>2. CASE worker[w].row.reserved /\ order.reserved >= Amount[r]
    <3>1. order' = [order EXCEPT !.reserved = @ - Amount[r], !.refunded = @ + Amount[r]]
      BY <1>1, <2>2 DEF ConfirmOnOrder
    <3>2. order.reserved - Amount[r] \in Nat /\ order.refunded + Amount[r] \in Nat
      BY <2>1, <2>2
    <3> QED
      BY <2>1, <3>1, <3>2
  <2>3. CASE ~(worker[w].row.reserved /\ order.reserved >= Amount[r])
    <3>1. order' = [order EXCEPT !.refunded = @ + Amount[r]] \/ order' = order
      BY <1>1, <2>3 DEF ConfirmOnOrder
    <3> QED
      BY <2>1, <3>1
  <2> QED
    BY <2>2, <2>3
<1>4. CASE GoTo(w, "settle")
  <2>1. WentTo(w, "settle")
    BY <1>1, <1>4, GoToIs DEF RefundSteps
  <2>2. Typed' /\ WorkerAgrees(w)'
    BY <1>1, <1>2, <1>3, <2>1 DEF Typed, WentTo, WorkerAgrees, Beginning, Calling, Verifying, Settling
  <2> QED
    BY <1>1, <1>2, <2>1, <2>2, MoveKeepsControl DEF WentTo
<1>5. CASE Done(w)
  <2>1. Ended(w)
    BY <1>1, <1>5, DoneIs
  <2>2. Typed'
    BY <1>1, <1>2, <1>3, <2>1 DEF Typed, Ended
  <2> QED
    BY <1>2, <2>1, <2>2, IdleAgrees, MoveKeepsControl DEF Ended
<1> QED
  BY <1>4, <1>5 DEF ConfirmOnOrder

LEMMA SettleOrderKeeps ==
    ASSUME Control, NEW w \in RefundWorkers, NEW r \in Refunds, Owns(w, r), SettleOrder(w)
    PROVE  Control'
<1>1. /\ Typed /\ WorkerAgrees(w) /\ RowAgrees(r) /\ refund[r] \in RefundRow
      /\ worker[w].step = "settle" /\ worker[w].of = r
  BY OwnerKnows DEF SettleOrder, RefundAt
<1>2. Ended(w)
  BY <1>1, DoneIs DEF SettleOrder
<1>3. SetRefund(r, [refund[r] EXCEPT !.confirmed = TRUE])
      /\ UNCHANGED <<transfer, reversal, atProvider, returned, refundCrashes>>
  BY <1>1 DEF SettleOrder, SetRefund
<1>4. RowBecame(r, [refund[r] EXCEPT !.confirmed = TRUE])
  BY <1>1, <1>3, RowMarked, SetRefundIs
<1>5. order' \in [refunded: Nat, reserved: Nat, status: OrderStatuses]
  BY <1>1 DEF SettleOrder, Typed, OrderStatuses
<1>6. Typed'
  BY <1>1, <1>2, <1>3, <1>4, <1>5 DEF Typed, Ended, RowBecame
<1>7. RowAgrees(r)' /\ RowsStay(r)
  BY <1>1, <1>3, <1>4, OwnerKnows DEF RowAgrees, RowsStay, RowBecame, RefundRow, WorkerAgrees, Beginning, Calling, Verifying, Settling
<1> QED
  BY <1>2, <1>6, <1>7, IdleAgrees, OwnerKeepsControl DEF Ended

LEMMA AskForRefundKeeps ==
    ASSUME Control, NEW w \in RefundWorkers, NEW r \in Refunds, Owns(w, r), AskForRefund(w)
    PROVE  Control'
<1>1. /\ Typed /\ WorkerAgrees(w) /\ RowAgrees(r) /\ refund[r] \in RefundRow
      /\ worker[w].step = "ask" /\ worker[w].of = r
  BY OwnerKnows DEF AskForRefund, RefundAt
<1> DEFINE step == IF atProvider[r] = "none" THEN "missing" ELSE "found"
<1>2. UNCHANGED <<order, refund, transfer, reversal, atProvider, returned, refundCrashes>>
  BY DEF AskForRefund
<1>3. WentTo(w, step)
  BY <1>1, GoToIs DEF AskForRefund, RefundSteps
<1>4. Typed' /\ WorkerAgrees(w)'
  BY <1>1, <1>2, <1>3 DEF Typed, WentTo, NeedsVerification, WorkerAgrees, Beginning, Calling, Verifying, Settling
<1> QED
  BY <1>1, <1>2, <1>3, <1>4, MoveKeepsControl DEF WentTo

LEMMA ProviderUnreachableKeeps ==
    ASSUME Control, NEW w \in RefundWorkers, NEW r \in Refunds, Owns(w, r), ProviderUnreachable(w)
    PROVE  Control'
<1>1. /\ Typed /\ WorkerAgrees(w) /\ RowAgrees(r) /\ refund[r] \in RefundRow
      /\ worker[w].step = "ask" /\ worker[w].of = r
  BY OwnerKnows DEF ProviderUnreachable, RefundAt
<1>2. UNCHANGED <<order, refund, transfer, reversal, atProvider, returned, refundCrashes>>
  BY DEF ProviderUnreachable
<1>3. Ended(w)
  BY <1>1, DoneIs DEF ProviderUnreachable
<1>4. Typed'
  BY <1>1, <1>2, <1>3 DEF Typed, Ended
<1> QED
  BY <1>2, <1>3, <1>4, IdleAgrees, MoveKeepsControl DEF Ended

LEMMA ReleaseVerifiedKeeps ==
    ASSUME Control, NEW w \in RefundWorkers, NEW r \in Refunds, Owns(w, r), ReleaseVerified(w)
    PROVE  Control'
<1>1. /\ Typed /\ WorkerAgrees(w) /\ RowAgrees(r) /\ refund[r] \in RefundRow
      /\ worker[w].step = "missing" /\ worker[w].of = r
  BY OwnerKnows DEF ReleaseVerified, RefundAt
<1> DEFINE open == [i \in Parts |->
                     IF reversal[r][i].status \in {"PENDING", "PENDING_VERIFICATION"}
                     THEN reversal[r][i].amount ELSE 0]
<1>2. /\ IF worker[w].row.reserved THEN ReleaseAll(Amount[r], open)
         ELSE UNCHANGED <<order, transfer>>
      /\ UNCHANGED <<refund, reversal, atProvider, returned, refundCrashes>>
  BY <1>1 DEF ReleaseVerified
<1>3. open \in Plans /\ Amount[r] \in Nat
  BY <1>1, OwnerKnows DEF Plans, Typed, Reversals, ReversalRow
<1> HIDE DEF open
<1>4. WentTo(w, "forget")
  BY <1>1, GoToIs DEF ReleaseVerified, RefundSteps
<1>5. Typed'
  BY <1>1, <1>2, <1>3, <1>4, ReleaseAllType DEF Typed, WentTo
<1>6. WorkerAgrees(w)'
  BY <1>1, <1>2, <1>4 DEF WentTo, NeedsVerification, WorkerAgrees, Beginning, Calling, Verifying, Settling
<1> QED
  BY <1>1, <1>2, <1>4, <1>5, <1>6, MoveKeepsControl DEF WentTo

-------------------------------------------------------------------------------
\* Nobody owns a refund at rest.
LEMMA RestingIsFree ==
    ASSUME Control, NEW r \in Refunds, refund[r].status \in Untouched, NEW v \in RefundWorkers,
           worker[v].of = r
    PROVE  worker[v].step \notin Owning
BY OwnedIsTaken DEF Owns

\* A step that only moves a worker, to a step where nobody else is.
LEMMA WorkerStepKeepsControl ==
    ASSUME Control, NEW w \in RefundWorkers, UNCHANGED <<refund, atProvider>>,
           Typed', OthersStay(w), WorkerAgrees(w)',
           \A v \in RefundWorkers : v # w /\ worker'[w].step \in Owning
                                      => ~Owns(v, worker'[w].of)
    PROVE  Control'
<1>1. \A r \in Refunds : RowAgrees(r)'
  BY DEF Control, RowAgrees
<1>2. \A v \in RefundWorkers : WorkerAgrees(v)'
  <2> SUFFICES ASSUME NEW v \in RefundWorkers, v # w
               PROVE  WorkerAgrees(v)'
    OBVIOUS
  <2>1. WorkerAgrees(v) /\ worker'[v] = worker[v]
    BY DEF Control, OthersStay
  <2> QED
    BY <2>1 DEF WorkerAgrees, NeedsVerification
<1>3. OneOwner'
  BY DEF Control, OneOwner, OthersStay, Owns, Owning, Beginning, Calling, Verifying, Settling
<1> QED
  BY <1>1, <1>2, <1>3 DEF Control

\* A step that only writes one row, here or at the provider.
LEMMA RowStepKeepsControl ==
    ASSUME Control, NEW r \in Refunds, UNCHANGED worker, Typed', RowsStay(r), RowAgrees(r)',
           \A v \in RefundWorkers : worker[v].of = r => WorkerAgrees(v)'
    PROVE  Control'
<1>1. \A q \in Refunds : RowAgrees(q)'
  <2> SUFFICES ASSUME NEW q \in Refunds, q # r
               PROVE  RowAgrees(q)'
    OBVIOUS
  <2> QED
    BY DEF Control, RowAgrees, RowsStay
<1>2. \A v \in RefundWorkers : WorkerAgrees(v)'
  <2> SUFFICES ASSUME NEW v \in RefundWorkers, worker[v].of # r
               PROVE  WorkerAgrees(v)'
    OBVIOUS
  <2>1. WorkerAgrees(v) /\ worker'[v] = worker[v]
    BY DEF Control
  <2>2. worker[v].step # "idle" => /\ refund'[worker[v].of] = refund[worker[v].of]
                                   /\ atProvider'[worker[v].of] = atProvider[worker[v].of]
    BY <2>1 DEF WorkerAgrees, RowsStay
  <2> QED
    BY <2>1, <2>2 DEF WorkerAgrees, NeedsVerification, Beginning, Calling, Verifying, Settling
<1>3. OneOwner'
  BY DEF Control, OneOwner
<1> QED
  BY <1>1, <1>2, <1>3 DEF Control

LEMMA RequestKeeps ==
    ASSUME Control, NEW r \in Refunds, Request(r)
    PROVE  Control'
<1> DEFINE row == [Idle.row EXCEPT !.status = "REQUESTED"]
<1>1. /\ Typed /\ RowAgrees(r) /\ refund[r].status = "NONE" /\ SetRefund(r, row)
      /\ UNCHANGED <<order, transfer, reversal, atProvider, returned, worker, refundCrashes>>
  BY DEF Control, Request
<1>2. /\ row \in RefundRow /\ row.status = "REQUESTED" /\ row.locked = "no"
      /\ ~row.reserved /\ ~row.confirmed /\ ~row.known
  BY DEF Idle, RefundRow, RefundStatuses
<1> HIDE DEF row
<1>3. RowBecame(r, row)
  BY <1>1, <1>2, SetRefundIs
<1>4. Typed'
  BY <1>1, <1>3 DEF Typed, RowBecame
<1>5. RowAgrees(r)' /\ RowsStay(r)
  BY <1>1, <1>2, <1>3 DEF RowAgrees, RowsStay, RowBecame, Untouched
<1>6. \A v \in RefundWorkers : worker[v].of = r => WorkerAgrees(v)'
  <2> SUFFICES ASSUME NEW v \in RefundWorkers, worker[v].of = r
               PROVE  WorkerAgrees(v)'
    OBVIOUS
  <2>1. WorkerAgrees(v) /\ worker[v].step \notin Owning
    BY <1>1, RestingIsFree DEF Control, Untouched
  <2> QED
    BY <1>1, <2>1 DEF Owning, WorkerAgrees, Beginning, Calling, Verifying, Settling
<1> QED
  BY <1>1, <1>4, <1>5, <1>6, RowStepKeepsControl

\* A handler that begins with a refund.
BeganWith(w, r, step, row) ==
    /\ worker' \in [RefundWorkers -> WorkerState]
    /\ worker'[w].step = step /\ worker'[w].of = r /\ worker'[w].row = row
    /\ OthersStay(w)

LEMMA Begins ==
    ASSUME Typed, NEW w \in RefundWorkers, NEW r \in Refunds, NEW step \in RefundSteps,
           NEW row \in RefundRow
    PROVE  /\ worker' = [worker EXCEPT ![w] = [Idle EXCEPT !.step = step, !.of = r, !.row = row]]
              => BeganWith(w, r, step, row)
           /\ worker' = [worker EXCEPT ![w] = [Idle EXCEPT !.step = step, !.of = r]]
              => BeganWith(w, r, step, Idle.row)
<1>1. Idle \in [step: RefundSteps, of: Targets, row: RefundRow, plan: Plans, left: PartSets]
  BY IdleType DEF WorkerState
<1>2. worker \in [RefundWorkers -> WorkerState] /\ r \in Targets
  BY DEF Typed, Targets
<1> QED
  BY ZenonT(30), <1>1, <1>2 DEF BeganWith, WorkerState, OthersStay

LEMMA StartApproveKeeps ==
    ASSUME Control, NEW w \in Approvers, NEW r \in Refunds, StartApprove(w, r)
    PROVE  Control'
<1>1. /\ Typed /\ refund[r].status = "REQUESTED" /\ refund[r] \in RefundRow
      /\ w \in RefundWorkers /\ w \in Executors
      /\ UNCHANGED <<order, refund, transfer, reversal, atProvider, returned, refundCrashes>>
  BY RefundAmountsAssumption, RowType DEF Control, StartApprove, RefundWorkers
<1>2. BeganWith(w, r, "approve", Idle.row)
  BY <1>1, Begins DEF StartApprove, RefundSteps
<1>3. Typed' /\ WorkerAgrees(w)'
  BY <1>1, <1>2 DEF Typed, BeganWith, WorkerAgrees, Beginning, Calling, Verifying, Settling
<1> QED
  BY <1>1, <1>2, <1>3, WorkerStepKeepsControl DEF BeganWith, Owning, Beginning, Calling, Verifying,
     Settling

LEMMA StartExecuteKeeps ==
    ASSUME Control, NEW w \in Executors, NEW r \in Refunds, StartExecute(w, r)
    PROVE  Control'
<1>1. /\ Typed /\ Executable(refund[r].status) /\ refund[r] \in RefundRow /\ RowAgrees(r)
      /\ w \in RefundWorkers
      /\ UNCHANGED <<order, refund, transfer, reversal, atProvider, returned, refundCrashes>>
  BY RowType DEF Control, StartExecute, RefundWorkers
<1>2. BeganWith(w, r, "claim", refund[r])
  BY <1>1, Begins DEF StartExecute, RefundSteps
<1>3. ~refund[r].reserved
  BY <1>1 DEF Executable, RowAgrees, Untouched
<1>4. Typed' /\ WorkerAgrees(w)'
  BY <1>1, <1>2, <1>3 DEF Typed, BeganWith, WorkerAgrees, Beginning, Calling, Verifying, Settling
<1> QED
  BY <1>1, <1>2, <1>4, WorkerStepKeepsControl DEF BeganWith, Owning, Beginning, Calling, Verifying,
     Settling

LEMMA VerifyRefundKeeps ==
    ASSUME Control, OneAtATime, NEW w \in Reconcilers, NEW r \in Refunds, VerifyRefund(w, r)
    PROVE  Control'
<1>1. /\ Typed /\ NeedsVerification(r) /\ refund[r] \in RefundRow /\ RowAgrees(r)
      /\ w \in RefundWorkers
      /\ UNCHANGED <<order, refund, transfer, reversal, atProvider, returned, refundCrashes>>
  BY RowType DEF Control, VerifyRefund, RefundWorkers
<1>2. BeganWith(w, r, "ask", refund[r])
  BY <1>1, Begins DEF VerifyRefund, RefundSteps
<1>3. ~refund[r].known /\ refund[r].locked # "fresh"
  BY <1>1 DEF NeedsVerification, RowAgrees
<1>4. Typed' /\ WorkerAgrees(w)'
  BY <1>1, <1>2, <1>3 DEF Typed, BeganWith, NeedsVerification, WorkerAgrees, Beginning, Calling, Verifying, Settling
<1>5. \A v \in RefundWorkers : v # w => ~Owns(v, r)
  <2> SUFFICES ASSUME NEW v \in RefundWorkers, v # w, Owns(v, r)
               PROVE  FALSE
    OBVIOUS
  <2>1. WorkerAgrees(v)
    BY DEF Control
  <2>2. worker[v].step \in Verifying
    BY <1>3, <2>1 DEF Owns, Owning, WorkerAgrees
  <2> QED
    BY <2>1, <2>2 DEF WorkerAgrees, OneAtATime
<1> QED
  BY <1>1, <1>2, <1>4, <1>5, WorkerStepKeepsControl DEF BeganWith

LEMMA WorkerDiesKeeps ==
    ASSUME Control, NEW w \in RefundWorkers, WorkerDies(w)
    PROVE  Control'
<1>1. Typed /\ UNCHANGED <<order, refund, transfer, reversal, atProvider, returned>>
  BY DEF Control, WorkerDies
<1>2. Ended(w)
  BY <1>1, DoneIs DEF WorkerDies
<1>3. refundCrashes' \in 0..MaxRefundCrashes
  BY <1>1, RefundAmountsAssumption DEF WorkerDies, Typed
<1>4. Typed'
  BY <1>1, <1>2, <1>3 DEF Typed, Ended
<1> QED
  BY <1>1, <1>2, <1>4, IdleAgrees, WorkerStepKeepsControl DEF Ended, Owning, Beginning, Calling,
     Verifying, Settling

LEMMA ProviderSettlesKeeps ==
    ASSUME Control, ProviderKeepsItsWord, NEW r \in Refunds, ProviderSettles(r)
    PROVE  Control'
<1>1. /\ Typed /\ RowAgrees(r) /\ atProvider[r] = "pending"
      /\ atProvider' = [atProvider EXCEPT ![r] = "processed"]
      /\ UNCHANGED <<order, refund, transfer, reversal, returned, worker, refundCrashes>>
  BY DEF Control, ProviderSettles, ProviderKeepsItsWord
<1>2. /\ atProvider' \in [Refunds -> {"none", "pending", "processed", "failed"}]
      /\ atProvider'[r] = "processed"
      /\ \A q \in Refunds : q # r => atProvider'[q] = atProvider[q]
  BY <1>1 DEF Typed
<1>3. Typed' /\ RowAgrees(r)' /\ RowsStay(r)
  BY <1>1, <1>2 DEF Typed, RowAgrees, RowsStay
<1>4. \A v \in RefundWorkers : worker[v].of = r => WorkerAgrees(v)'
  BY <1>1, <1>2 DEF Control, WorkerAgrees, NeedsVerification
<1> QED
  BY <1>1, <1>3, <1>4, RowStepKeepsControl

LEMMA OnRefundKeeps ==
    ASSUME Control, NEW r \in Refunds, OnRefund(r)
    PROVE  Control'
<1>1. /\ Typed /\ RowAgrees(r) /\ refund[r].known /\ refund[r] \in RefundRow
      /\ UNCHANGED <<order, transfer, reversal, atProvider, returned, worker, refundCrashes>>
      /\ atProvider[r] \in {"pending", "processed"}
  <2>1. Typed /\ RowAgrees(r) /\ refund[r].known
    BY DEF Control, OnRefund
  <2>2. atProvider[r] \notin {"none", "failed"}
    BY <2>1 DEF RowAgrees
  <2> QED
    BY <2>1, <2>2, RowType DEF OnRefund
<1>2. PICK status \in SentEvents(r) : SetRefund(r, [refund[r] EXCEPT !.status = status])
  BY DEF OnRefund
<1>3. status \in {"PROCESSING", "PROCESSED"}
  BY <1>1, <1>2 DEF SentEvents
<1> DEFINE row == [refund[r] EXCEPT !.status = status]
<1>4. /\ row \in RefundRow /\ row.status = status /\ row.locked = refund[r].locked
      /\ row.reserved = refund[r].reserved /\ row.known = refund[r].known
      /\ row.confirmed = refund[r].confirmed
  BY <1>1, <1>3 DEF RefundRow, RefundStatuses
<1>5. SetRefund(r, row)
  BY <1>2
<1> HIDE DEF row
<1>6. RowBecame(r, row)
  BY <1>1, <1>4, <1>5, SetRefundIs
<1>7. Typed'
  BY <1>1, <1>6 DEF Typed, RowBecame
<1>8. refund[r].locked = "no"
  BY <1>1, RowType DEF RowAgrees
<1>9. RowAgrees(r)' /\ RowsStay(r)
  BY <1>1, <1>3, <1>4, <1>6, <1>8 DEF RowAgrees, RowsStay, RowBecame, Untouched
<1>10. \A v \in RefundWorkers : worker[v].of = r => WorkerAgrees(v)'
  <2> SUFFICES ASSUME NEW v \in RefundWorkers, worker[v].of = r
               PROVE  WorkerAgrees(v)'
    OBVIOUS
  <2>1. WorkerAgrees(v)
    BY DEF Control
  <2>2. worker[v].step # "approve"
    BY <1>1, <2>1 DEF WorkerAgrees, RowAgrees, Untouched
  <2>3. worker[v].step \notin Verifying
    BY <1>1, <2>1 DEF WorkerAgrees
  <2> QED
    BY <1>1, <1>4, <1>6, <2>1, <2>2, <2>3 DEF RowBecame, WorkerAgrees, Beginning, Calling, Verifying, Settling
<1> QED
  BY <1>1, <1>7, <1>9, <1>10, RowStepKeepsControl

LEMMA LockGoesStaleKeeps ==
    ASSUME Control, CallsEnd, NEW r \in Refunds, LockGoesStale(r)
    PROVE  Control'
<1>1. /\ Typed /\ RowAgrees(r) /\ refund[r].locked = "fresh" /\ refund[r] \in RefundRow
      /\ \A w \in Executors : ~Executes(w, r)
      /\ UNCHANGED <<order, transfer, reversal, atProvider, returned, worker, refundCrashes>>
  BY RowType DEF Control, LockGoesStale, CallsEnd
<1> DEFINE row == [refund[r] EXCEPT !.locked = "stale"]
<1>2. /\ row \in RefundRow /\ row.status = refund[r].status /\ row.locked = "stale"
      /\ row.reserved = refund[r].reserved /\ row.known = refund[r].known
      /\ row.confirmed = refund[r].confirmed
  BY <1>1 DEF RefundRow
<1>3. SetRefund(r, row)
  BY <1>1 DEF LockGoesStale, SetRefund
<1> HIDE DEF row
<1>4. RowBecame(r, row)
  BY <1>1, <1>2, <1>3, SetRefundIs
<1>5. Typed'
  BY <1>1, <1>4 DEF Typed, RowBecame
<1>6. RowAgrees(r)' /\ RowsStay(r)
  BY <1>1, <1>2, <1>4 DEF RowAgrees, RowsStay, RowBecame, Untouched
<1>7. \A v \in RefundWorkers : worker[v].of = r => WorkerAgrees(v)'
  <2> SUFFICES ASSUME NEW v \in RefundWorkers, worker[v].of = r
               PROVE  WorkerAgrees(v)'
    OBVIOUS
  <2>1. WorkerAgrees(v)
    BY DEF Control
  <2>2. v \in Executors => worker[v].step \in {"idle", "claim"}
    BY <1>1 DEF Executes, RefundAt
  <2>3. worker[v].step \notin Verifying \cup Settling
    BY <1>1, <2>1 DEF WorkerAgrees, RowAgrees, NeedsVerification
  <2> QED
    BY <1>1, <2>1, <2>2, <2>3 DEF WorkerAgrees, Beginning, Calling, Verifying, Settling
<1> QED
  BY <1>1, <1>5, <1>6, <1>7, RowStepKeepsControl

\* The two steps by which a worker that owns nothing writes a row.
LEMMA OutsiderKeepsControl ==
    ASSUME Control, NEW w \in RefundWorkers, NEW r \in Refunds,
           refund[r].status \in Untouched, Typed', OthersStay(w), RowsStay(r),
           RowAgrees(r)', WorkerAgrees(w)', worker'[w].step = "idle" \/ worker'[w].of = r,
           \A v \in RefundWorkers : v # w => ~(worker[v].step = "approve" /\ worker[v].of = r)
    PROVE  Control'
<1>1. \A q \in Refunds : RowAgrees(q)'
  <2> SUFFICES ASSUME NEW q \in Refunds, q # r
               PROVE  RowAgrees(q)'
    OBVIOUS
  <2> QED
    BY DEF Control, RowAgrees, RowsStay
<1>2. \A v \in RefundWorkers : worker[v].of = r => worker[v].step \notin Owning
  BY RestingIsFree
<1>3. \A v \in RefundWorkers : WorkerAgrees(v)'
  <2> SUFFICES ASSUME NEW v \in RefundWorkers, v # w
               PROVE  WorkerAgrees(v)'
    OBVIOUS
  <2>1. WorkerAgrees(v) /\ worker'[v] = worker[v]
    BY DEF Control, OthersStay
  <2>2. CASE worker[v].of # r
    <3>1. worker[v].step # "idle" => /\ refund'[worker[v].of] = refund[worker[v].of]
                                     /\ atProvider'[worker[v].of] = atProvider[worker[v].of]
      BY <2>1, <2>2 DEF WorkerAgrees, RowsStay
    <3> QED
      BY <2>1, <3>1 DEF WorkerAgrees, NeedsVerification, Executable, Beginning, Calling,
         Verifying, Settling
  <2>3. CASE worker[v].of = r
    BY <1>2, <2>1, <2>3 DEF WorkerAgrees, Owning, Beginning, Calling, Verifying, Settling
  <2> QED
    BY <2>2, <2>3
<1>4. OneOwner'
  BY <1>2 DEF Control, OneOwner, OthersStay, Owning, Beginning, Calling, Verifying, Settling
<1> QED
  BY <1>1, <1>3, <1>4 DEF Control

LEMMA ApproveKeeps ==
    ASSUME Control, OneAtATime, NEW w \in RefundWorkers, Approve(w)
    PROVE  Control'
<1> DEFINE r == worker[w].of
           row == [refund[r] EXCEPT !.status = "APPROVED"]
<1>1. /\ Typed /\ WorkerAgrees(w) /\ worker[w].step = "approve" /\ r \in Refunds
      /\ w \in Approvers /\ refund[r].status = "REQUESTED"
      /\ SetRefund(r, row)
      /\ UNCHANGED <<order, transfer, reversal, atProvider, returned, refundCrashes>>
  BY DEF Control, Approve, RefundAt, WorkerAgrees, SetRefund
<1>2. Ended(w)
  BY <1>1, DoneIs DEF Approve
<1> HIDE DEF r
<1>3. RowAgrees(r) /\ refund[r] \in RefundRow
  BY <1>1, RowType DEF Control
<1>4. /\ row \in RefundRow /\ row.status = "APPROVED" /\ row.locked = refund[r].locked
      /\ row.reserved = refund[r].reserved /\ row.known = refund[r].known
      /\ row.confirmed = refund[r].confirmed
  BY <1>3 DEF RefundRow, RefundStatuses
<1> HIDE DEF row
<1>5. RowBecame(r, row)
  BY <1>1, <1>4, SetRefundIs
<1>6. Typed'
  BY <1>1, <1>2, <1>5 DEF Typed, RowBecame, Ended
<1>7. \A q \in Refunds : q = r => RowAgrees(q)'
  BY <1>1, <1>3, <1>4, <1>5 DEF RowAgrees, RowBecame, Untouched
<1>8. RowsStay(r)
  BY <1>1, <1>5 DEF RowsStay, RowBecame
<1>9. \A v \in RefundWorkers : v # w => ~(worker[v].step = "approve" /\ worker[v].of = r)
  BY <1>1 DEF Control, WorkerAgrees, OneAtATime
<1> QED
  <2>1. PICK q \in Refunds : q = r
    BY <1>1
  <2>2. refund[q].status \in Untouched
    BY <1>1, <2>1 DEF Untouched
  <2> QED
    BY <1>2, <1>6, <1>7, <1>8, <1>9, <2>1, <2>2, IdleAgrees, OutsiderKeepsControl DEF Ended

LEMMA ClaimKeeps ==
    ASSUME Control, NEW w \in RefundWorkers, NEW r \in Refunds, worker[w].of = r, Claim(w)
    PROVE  Control'
<1>1. /\ Typed /\ WorkerAgrees(w) /\ RowAgrees(r) /\ worker[w].step = "claim"
      /\ w \in Executors /\ Executable(worker[w].row.status) /\ ~worker[w].row.reserved
      /\ refund[r] \in RefundRow
      /\ UNCHANGED <<order, transfer, reversal, atProvider, returned, refundCrashes>>
  BY RowType DEF Control, Claim, RefundAt, WorkerAgrees
<1>2. CASE Claimable(w)
  <2> DEFINE row == [refund[r] EXCEPT !.status = "PROCESSING", !.locked = "fresh"]
  <2>1. refund[r].status \in {"APPROVED", "FAILED"}
    BY <1>1, <1>2 DEF Claimable, Executable
  <2>2. /\ row \in RefundRow /\ row.status = "PROCESSING" /\ row.locked = "fresh"
        /\ row.reserved = refund[r].reserved /\ row.known = refund[r].known
        /\ row.confirmed = refund[r].confirmed
    BY <1>1 DEF RefundRow, RefundStatuses
  <2>3. SetRefund(r, row) /\ GoTo(w, "plan")
    BY <1>2 DEF Claim
  <2> HIDE DEF row
  <2>4. RowBecame(r, row) /\ WentTo(w, "plan")
    BY <1>1, <2>2, <2>3, SetRefundIs, GoToIs DEF RefundSteps
  <2>5. Typed'
    BY <1>1, <2>4 DEF Typed, RowBecame, WentTo
  <2>6. ~refund[r].reserved /\ ~refund[r].known /\ ~refund[r].confirmed
    BY <1>1, <2>1 DEF RowAgrees, Untouched
  <2>7. RowAgrees(r)' /\ RowsStay(r)
    BY <1>1, <2>2, <2>4, <2>6 DEF RowAgrees, RowsStay, RowBecame, Untouched
  <2>8. WorkerAgrees(w)'
    BY <1>1, <2>2, <2>4, <2>6 DEF RowBecame, WentTo, WorkerAgrees, Beginning, Calling, Verifying, Settling
  <2>9. \A v \in RefundWorkers : v # w => ~(worker[v].step = "approve" /\ worker[v].of = r)
    BY <2>1 DEF Control, WorkerAgrees
  <2>10. refund[r].status \in Untouched
    BY <2>1 DEF Untouched
  <2> QED
    BY <2>4, <2>5, <2>7, <2>8, <2>9, <2>10, OutsiderKeepsControl DEF WentTo
<1>3. CASE ~Claimable(w)
  <2>1. Ended(w) /\ UNCHANGED refund
    BY <1>1, <1>3, DoneIs DEF Claim
  <2>2. Typed'
    BY <1>1, <2>1 DEF Typed, Ended
  <2> QED
    BY <1>1, <2>1, <2>2, IdleAgrees, WorkerStepKeepsControl DEF Ended, Owning, Beginning,
       Calling, Verifying, Settling
<1> QED
  BY <1>2, <1>3

\* A worker at a step of an execution or a verification owns its refund.
LEMMA ActsAsOwner ==
    ASSUME Control, NEW w \in RefundWorkers, worker[w].step \in Owning
    PROVE  worker[w].of \in Refunds /\ Owns(w, worker[w].of)
<1>1. WorkerAgrees(w)
  BY DEF Control
<1> QED
  BY <1>1 DEF Owns, WorkerAgrees, Owning, Beginning, Calling, Verifying, Settling

LEMMA ExecutionKeeps ==
    ASSUME Control, NEW w \in RefundWorkers, Execution(w)
    PROVE  Control'
<1> DEFINE r == worker[w].of
<1>1. CASE Claim(w)
  <2>1. worker[w].step = "claim" /\ WorkerAgrees(w)
    BY <1>1 DEF Claim, RefundAt, Control
  <2>2. r \in Refunds
    BY <2>1 DEF WorkerAgrees
  <2> QED
    BY <1>1, <2>2, ClaimKeeps
<1>2. CASE ~Claim(w)
  <2>1. worker[w].step \in Owning
    BY <1>2 DEF Execution, RefundAt, Owning, Beginning, Calling, Verifying, Settling,
       Plan, Reserve, MarkReserved, Adopt, CallProvider, HoldForVerification,
       ReleaseCapacity, FailRefund, RecordProvider, StartReversal,
       ReverseTransfer, RecordReversal, ParkReversal, Passed, BeginBooking, ReadForBooking, ConfirmOnOrder, SettleOrder
  <2>2. r \in Refunds /\ Owns(w, r)
    BY <2>1, ActsAsOwner
  <2> QED
    BY <1>2, <2>2, PlanKeeps, ReserveKeeps, MarkReservedKeeps, AdoptKeeps, CallProviderKeeps,
       HoldForVerificationKeeps, ReleaseCapacityKeeps, FailRefundKeeps, RecordProviderKeeps, StartReversalKeeps,
       ReverseTransferKeeps, RecordReversalKeeps, ParkReversalKeeps,
       BeginBookingKeeps, ReadForBookingKeeps, ConfirmOnOrderKeeps, SettleOrderKeeps DEF Execution
<1> QED
  BY <1>1, <1>2

LEMMA VerificationKeeps ==
    ASSUME Control, NEW w \in RefundWorkers, Verification(w)
    PROVE  Control'
<1> DEFINE r == worker[w].of
<1>1. worker[w].step \in Owning
  BY DEF Verification, RefundAt, Owning, Beginning, Calling, Verifying, Settling,
     AskForRefund, ProviderUnreachable, AdoptVerified, ReleaseVerified, FailVerified,
     ReadForBooking, ConfirmOnOrder, SettleOrder
<1>2. r \in Refunds /\ Owns(w, r)
  BY <1>1, ActsAsOwner
<1> QED
  BY <1>2, AskForRefundKeeps, ProviderUnreachableKeeps, AdoptVerifiedKeeps, ReleaseVerifiedKeeps,
     FailVerifiedKeeps, ReadForBookingKeeps, ConfirmOnOrderKeeps, SettleOrderKeeps DEF Verification

LEMMA ControlStarts == RefundsInit => Control
<1> SUFFICES ASSUME RefundsInit PROVE Control
  OBVIOUS
<1>1. Idle.row \in RefundRow /\ Idle \in WorkerState /\ Idle.step = "idle"
      /\ Idle.row.status = "NONE" /\ Idle.row.locked = "no" /\ ~Idle.row.reserved
      /\ ~Idle.row.confirmed /\ ~Idle.row.known
  BY IdleType DEF Idle
<1>2. Typed
  <2>1. [i \in Parts |-> [status |-> "none", amount |-> 0]] \in Reversals
    BY DEF Reversals, ReversalRow, ReversalStatuses
  <2>2. [i \in Parts |-> 0] \in Plans
    BY DEF Plans
  <2>3. order \in [refunded: Nat, reserved: Nat, status: OrderStatuses]
    BY DEF RefundsInit, OrderStatuses
  <2>4. transfer \in [Parts -> [reversed: Nat, reserved: Nat]]
    BY DEF RefundsInit
  <2>5. refundCrashes \in 0..MaxRefundCrashes
    BY RefundAmountsAssumption DEF RefundsInit
  <2>6. /\ reversal \in [Refunds -> Reversals] /\ returned \in [Refunds -> Plans]
        /\ refund \in [Refunds -> RefundRow] /\ worker \in [RefundWorkers -> WorkerState]
        /\ atProvider \in [Refunds -> {"none", "pending", "processed", "failed"}]
    BY <1>1, <2>1, <2>2 DEF RefundsInit
  <2> QED
    BY <2>3, <2>4, <2>5, <2>6 DEF Typed
<1>3. \A r \in Refunds : RowAgrees(r)
  BY <1>1 DEF RefundsInit, RowAgrees
<1>4. \A w \in RefundWorkers : WorkerAgrees(w)
  BY <1>1 DEF RefundsInit, WorkerAgrees, Beginning, Calling, Verifying, Settling
<1>5. OneOwner
  BY <1>1 DEF RefundsInit, OneOwner, Owning, Beginning, Calling, Verifying, Settling
<1> QED
  BY <1>2, <1>3, <1>4, <1>5 DEF Control

LEMMA ControlKept ==
    ASSUME Control, OneAtATime, CallsEnd, ProviderKeepsItsWord, [RefundsNext]_refundVars
    PROVE  Control'
<1>1. CASE \E r \in Refunds : Request(r) \/ ProviderSettles(r) \/ OnRefund(r) \/ LockGoesStale(r)
  BY <1>1, RequestKeeps, ProviderSettlesKeeps, OnRefundKeeps, LockGoesStaleKeeps
<1>2. CASE \E w \in Approvers, r \in Refunds : StartApprove(w, r)
  BY <1>2, StartApproveKeeps
<1>3. CASE \E w \in Executors, r \in Refunds : StartExecute(w, r)
  BY <1>3, StartExecuteKeeps
<1>4. CASE \E w \in Reconcilers, r \in Refunds : VerifyRefund(w, r)
  BY <1>4, VerifyRefundKeeps
<1>5. CASE \E w \in Executors : Approve(w) \/ Execution(w)
  BY <1>5, ApproveKeeps, ExecutionKeeps DEF RefundWorkers
<1>6. CASE \E w \in Reconcilers : Verification(w)
  BY <1>6, VerificationKeeps DEF RefundWorkers
<1>7. CASE \E w \in RefundWorkers : WorkerDies(w)
  BY <1>7, WorkerDiesKeeps
<1>8. CASE UNCHANGED refundVars
  BY <1>8 DEF refundVars, Control, Typed, RowAgrees, WorkerAgrees, OneOwner, NeedsVerification
<1> QED
  BY <1>1, <1>2, <1>3, <1>4, <1>5, <1>6, <1>7, <1>8 DEF RefundsNext

LEMMA ControlHolds ==
    ASSUME OneAtATime, CallsEnd, ProviderKeepsItsWord
    PROVE  RefundsSpec => []Control
<1>1. RefundsInit => Control
  BY ControlStarts
<1>2. Control /\ [RefundsNext]_refundVars => Control'
  BY ControlKept
<1> QED
  BY <1>1, <1>2, PTL DEF RefundsSpec

\* Every row, every handler and every amount has a value the code knows: what is
\* reserved, refunded and reversed is never negative.
THEOREM RefundsTypeCorrect ==
    ASSUME OneAtATime, CallsEnd, ProviderKeepsItsWord
    PROVE  RefundsSpec => []RefundsTypeOK
<1>1. Control => RefundsTypeOK
  BY TypesClosed DEF Control
<1> QED
  BY <1>1, ControlHolds, PTL

\* claimForExecution(), verifyPendingRefunds(): whatever they read and whenever they die,
\* no two workers are between the claim of a refund and the row that records its outcome.
THEOREM OneActs ==
    ASSUME OneAtATime, CallsEnd, ProviderKeepsItsWord
    PROVE  RefundsSpec => []OneWorkerActs
<1>1. Control => OneWorkerActs
  <2> SUFFICES ASSUME Control, NEW r \in Refunds
               PROVE  Cardinality({w \in RefundWorkers :
                          worker[w].of = r /\ worker[w].step \in Acting}) <= 1
    BY DEF OneWorkerActs
  <2> DEFINE S == {w \in RefundWorkers : worker[w].of = r /\ worker[w].step \in Acting}
  <2>1. \A v, w \in S : v = w
    BY DEF Control, OneOwner, Acting, Owning, Beginning, Calling, Verifying
  <2>2. S = {} \/ \E w : S = {w}
    BY <2>1
  <2> HIDE DEF S
  <2>3. CASE S = {}
    BY <2>3, FS_EmptySet DEF S
  <2>4. CASE \E w : S = {w}
    <3>1. PICK w : S = {w}
      BY <2>4
    <3>2. Cardinality({w}) = 1
      BY FS_Singleton
    <3> QED
      BY <3>1, <3>2 DEF S
  <2> QED
    BY <2>2, <2>3, <2>4
<1> QED
  BY <1>1, ControlHolds, PTL

-------------------------------------------------------------------------------
\* What a refund's amount is to its order's books, given its row and where the handler
\* that owns it is.
HoldsAt(row, step) ==
    \/ step = "mark"
    \/ row.reserved /\ ~row.confirmed /\ step \notin {"fail", "forget", "settle"}
BookedAt(row, step) == row.confirmed \/ step = "settle"

\* The steps between the two halves of a write to the books.
Marked == {"mark", "fail", "forget", "settle"}

LEMMA AmountOfSets ==
    ASSUME NEW S \in SUBSET Refunds
    PROVE  /\ AmountOf(S) \in Nat
           /\ \A r \in S : AmountOf(S) = Amount[r] + AmountOf(S \ {r})
           /\ \A r \in Refunds \ S : AmountOf(S \cup {r}) = Amount[r] + AmountOf(S)
           /\ \A T \in SUBSET S : AmountOf(T) <= AmountOf(S)
<1>1. IsFiniteSet(S) /\ \A r \in Refunds : Amount[r] \in Nat
  BY RefundAmountsAssumption, FS_Subset
<1>2. AmountOf(S) \in Nat
  BY <1>1, SumIsNat DEF AmountOf
<1>3. \A r \in S : AmountOf(S) = Amount[r] + AmountOf(S \ {r})
  BY <1>1, SumWithout DEF AmountOf
<1>4. \A r \in Refunds \ S : AmountOf(S \cup {r}) = Amount[r] + AmountOf(S)
  <2> SUFFICES ASSUME NEW r \in Refunds \ S
               PROVE  AmountOf(S \cup {r}) = Amount[r] + AmountOf(S)
    OBVIOUS
  <2>1. \A x \in S \cup {r} : Amount[x] \in Int
    BY <1>1
  <2> QED
    BY <1>1, <2>1, SumWith DEF AmountOf
<1>5. \A T \in SUBSET S : AmountOf(T) <= AmountOf(S)
  BY <1>1, SumOfSubset DEF AmountOf
<1> QED
  BY <1>2, <1>3, <1>4, <1>5

\* For the refund that a worker owns, the books depend on that worker's step alone.
LEMMA OwnerHolds ==
    ASSUME Control, NEW w \in RefundWorkers, NEW r \in Refunds, Owns(w, r)
    PROVE  /\ r \in HoldingCapacity <=> HoldsAt(refund[r], worker[w].step)
           /\ r \in Booked <=> BookedAt(refund[r], worker[w].step)
<1>1. \A step \in Marked : On(r, step) <=> worker[w].step = step
  BY DEF On, RefundAt, Control, OneOwner, Owns, Owning, Beginning, Calling, Verifying, Settling,
     Marked
<1> QED
  BY <1>1 DEF HoldingCapacity, Booked, HoldsAt, BookedAt, Marked

LEMMA OwnerHoldsAfter ==
    ASSUME Control, NEW w \in RefundWorkers, NEW r \in Refunds, Owns(w, r), OthersStay(w),
           worker'[w].step = "idle" \/ worker'[w].of = r
    PROVE  /\ r \in HoldingCapacity' <=> HoldsAt(refund'[r], worker'[w].step)
           /\ r \in Booked' <=> BookedAt(refund'[r], worker'[w].step)
<1>1. \A step \in Marked : On(r, step)' <=> worker'[w].step = step
  BY DEF On, RefundAt, Control, OneOwner, OthersStay, Owns, Owning, Beginning, Calling, Verifying,
     Settling, Marked
<1> QED
  BY <1>1 DEF HoldingCapacity, Booked, HoldsAt, BookedAt, Marked

\* And nobody else's refund moves on the books.
LEMMA OthersHold ==
    ASSUME NEW w \in RefundWorkers, NEW r \in Refunds, Owns(w, r), OthersStay(w),
           RowsStay(r), worker'[w].step = "idle" \/ worker'[w].of = r, NEW q \in Refunds, q # r
    PROVE  /\ q \in HoldingCapacity' <=> q \in HoldingCapacity
           /\ q \in Booked' <=> q \in Booked
<1>1. \A step \in Marked : On(q, step)' <=> On(q, step)
  BY DEF On, RefundAt, OthersStay, Owns, Marked
<1>2. refund'[q] = refund[q]
  BY DEF RowsStay
<1> QED
  BY <1>1, <1>2 DEF HoldingCapacity, Booked, Marked

\* An owner's step that writes half of the books has this effect on them.
LEMMA OwnerMovesBooks ==
    ASSUME Control, NEW w \in RefundWorkers, NEW r \in Refunds, Owns(w, r), OthersStay(w),
           RowsStay(r), worker'[w].step = "idle" \/ worker'[w].of = r
    PROVE  /\ HoldsAt(refund'[r], worker'[w].step) => HoldingCapacity' = HoldingCapacity \cup {r}
           /\ ~HoldsAt(refund'[r], worker'[w].step) => HoldingCapacity' = HoldingCapacity \ {r}
           /\ BookedAt(refund'[r], worker'[w].step) => Booked' = Booked \cup {r}
           /\ ~BookedAt(refund'[r], worker'[w].step) => Booked' = Booked \ {r}
           /\ r \in HoldingCapacity => HoldingCapacity = HoldingCapacity \cup {r}
           /\ r \notin HoldingCapacity => HoldingCapacity = HoldingCapacity \ {r}
           /\ r \in Booked => Booked = Booked \cup {r}
           /\ r \notin Booked => Booked = Booked \ {r}
<1>1. /\ HoldingCapacity \subseteq Refunds /\ HoldingCapacity' \subseteq Refunds
      /\ Booked \subseteq Refunds /\ Booked' \subseteq Refunds
  BY DEF HoldingCapacity, Booked
<1>2. /\ r \in HoldingCapacity' <=> HoldsAt(refund'[r], worker'[w].step)
      /\ r \in Booked' <=> BookedAt(refund'[r], worker'[w].step)
  BY OwnerHoldsAfter
<1>3. \A q \in Refunds : q # r => /\ q \in HoldingCapacity' <=> q \in HoldingCapacity
                                  /\ q \in Booked' <=> q \in Booked
  BY OthersHold
<1> QED
  BY <1>1, <1>2, <1>3

\* A step of which neither end is between two halves.
LEMMA QuietStep ==
    ASSUME \A v \in RefundWorkers : \/ worker'[v].of = worker[v].of /\ worker'[v].step = worker[v].step
                                    \/ worker[v].step \notin Marked /\ worker'[v].step \notin Marked,
           \A q \in Refunds : /\ refund'[q].reserved = refund[q].reserved
                              /\ refund'[q].confirmed = refund[q].confirmed
    PROVE  HoldingCapacity' = HoldingCapacity /\ Booked' = Booked
<1>1. \A q \in Refunds, step \in Marked : On(q, step)' <=> On(q, step)
  BY DEF On, RefundAt
<1>2. \A q \in Refunds : /\ q \in HoldingCapacity' <=> q \in HoldingCapacity
                         /\ q \in Booked' <=> q \in Booked
  BY <1>1 DEF HoldingCapacity, Booked, Marked
<1>3. /\ HoldingCapacity \subseteq Refunds /\ HoldingCapacity' \subseteq Refunds
      /\ Booked \subseteq Refunds /\ Booked' \subseteq Refunds
  BY DEF HoldingCapacity, Booked
<1> QED
  BY <1>2, <1>3

\* The order's columns as numbers.
LEMMA OrderNumbers ==
    ASSUME Typed, NEW r \in Refunds
    PROVE  /\ order.reserved \in Nat /\ order.refunded \in Nat /\ Amount[r] \in Nat /\ Paid \in Nat
           /\ order \in [refunded: Nat, reserved: Nat, status: OrderStatuses]
BY RefundAmountsAssumption DEF Typed

LEMMA ReserveBalances ==
    ASSUME Control, Books, NEW w \in RefundWorkers, NEW r \in Refunds, Owns(w, r), Reserve(w)
    PROVE  Books'
<1>1. /\ Typed /\ WorkerAgrees(w) /\ RowAgrees(r) /\ refund[r] \in RefundRow
      /\ worker[w].step = "reserve" /\ worker[w].of = r
  BY OwnerKnows DEF Reserve, RefundAt
<1>2. CASE HasRoom(Amount[r]) /\ TransferHasRoom(worker[w].plan)
  <2>1. WentTo(w, "mark") /\ UNCHANGED refund /\ RowsStay(r)
    BY <1>1, <1>2, GoToIs DEF Reserve, RefundSteps, RowsStay
  <2>2. /\ order.reserved \in Nat /\ order.refunded \in Nat /\ Amount[r] \in Nat /\ Paid \in Nat
        /\ order' = [order EXCEPT !.reserved = @ + Amount[r]]
    BY <1>1, <1>2, OrderNumbers DEF Reserve
  <2>3. order'.reserved = order.reserved + Amount[r] /\ order'.refunded = order.refunded
    BY <1>1, <2>2, OrderNumbers
  <2>4. ~refund[r].reserved /\ ~refund[r].confirmed
    BY <1>1 DEF WorkerAgrees, Beginning, RowAgrees
  <2>5. r \notin HoldingCapacity /\ r \notin Booked
    BY <1>1, <2>4, OwnerHolds DEF HoldsAt, BookedAt
  <2>6. HoldingCapacity' = HoldingCapacity \cup {r} /\ Booked' = Booked
    <3>1. HoldsAt(refund'[r], worker'[w].step) /\ ~BookedAt(refund'[r], worker'[w].step)
      BY <2>1, <2>4 DEF HoldsAt, BookedAt, WentTo
    <3>2. OthersStay(w) /\ worker'[w].of = r
      BY <1>1, <2>1 DEF WentTo
    <3> QED
      BY <2>1, <2>5, <3>1, <3>2, OwnerMovesBooks
  <2>7. HoldingCapacity \subseteq Refunds
    BY DEF HoldingCapacity
  <2>8. AmountOf(HoldingCapacity') = Amount[r] + AmountOf(HoldingCapacity)
    BY <2>5, <2>6, <2>7, AmountOfSets
  <2> QED
    BY <1>2, <2>2, <2>3, <2>6, <2>8 DEF Books, HasRoom, AmountOf
<1>3. CASE ~(HasRoom(Amount[r]) /\ TransferHasRoom(worker[w].plan))
  <2>1. Ended(w) /\ UNCHANGED order
    BY <1>1, <1>3, DoneIs DEF Reserve
  <2>2. SetRefund(r, [refund[r] EXCEPT !.status = "APPROVED", !.locked = "no"])
    BY <1>1, <1>3 DEF Reserve
  <2>3. RowBecame(r, [refund[r] EXCEPT !.status = "APPROVED", !.locked = "no"])
    BY <1>1, <2>2, RowWith, SetRefundIs DEF RefundStatuses
  <2>4. \A q \in Refunds : /\ refund'[q].reserved = refund[q].reserved
                           /\ refund'[q].confirmed = refund[q].confirmed
    BY ZenonT(30), <1>1, <2>3 DEF RowBecame, RefundRow
  <2>5. HoldingCapacity' = HoldingCapacity /\ Booked' = Booked
    BY <1>1, <2>1, <2>4, QuietStep DEF Ended, OthersStay, Marked
  <2> QED
    BY <2>1, <2>5 DEF Books, AmountOf
<1> QED
  BY <1>2, <1>3

LEMMA MarkReservedBalances ==
    ASSUME Control, Books, NEW w \in RefundWorkers, NEW r \in Refunds, Owns(w, r), MarkReserved(w)
    PROVE  Books'
<1>1. /\ Typed /\ WorkerAgrees(w) /\ RowAgrees(r) /\ refund[r] \in RefundRow
      /\ worker[w].step = "mark" /\ worker[w].of = r
  BY OwnerKnows DEF MarkReserved, RefundAt
<1>2. WentTo(w, "adopt")
  BY <1>1, GoToIs DEF MarkReserved, RefundSteps
<1>3. order'.reserved = order.reserved /\ order'.refunded = order.refunded
  BY <1>1 DEF MarkReserved
<1>4. RowBecame(r, [refund[r] EXCEPT !.reserved = TRUE])
  <2>1. SetRefund(r, [refund[r] EXCEPT !.reserved = TRUE])
    BY <1>1 DEF MarkReserved, SetRefund
  <2> QED
    BY <1>1, <2>1, RowMarked, SetRefundIs
<1>5. ~refund[r].confirmed
  BY <1>1 DEF WorkerAgrees, Calling, Settling, Beginning, Verifying, RowAgrees
<1>6. HoldingCapacity' = HoldingCapacity /\ Booked' = Booked
  <2>1. RowsStay(r) /\ (worker'[w].step = "idle" \/ worker'[w].of = r) /\ OthersStay(w)
    BY <1>1, <1>2, <1>4 DEF RowsStay, RowBecame, WentTo, MarkReserved
  <2>2. HoldsAt(refund'[r], worker'[w].step) <=> HoldsAt(refund[r], worker[w].step)
    BY <1>1, <1>2, <1>4, <1>5 DEF RowBecame, RefundRow, WentTo, HoldsAt
  <2>3. BookedAt(refund'[r], worker'[w].step) <=> BookedAt(refund[r], worker[w].step)
    BY <1>1, <1>2, <1>4, <1>5 DEF RowBecame, RefundRow, WentTo, BookedAt
  <2>4. /\ r \in HoldingCapacity <=> HoldsAt(refund[r], worker[w].step)
        /\ r \in Booked <=> BookedAt(refund[r], worker[w].step)
    BY OwnerHolds
  <2>5. /\ r \in HoldingCapacity <=> HoldsAt(refund'[r], worker'[w].step)
        /\ r \in Booked <=> BookedAt(refund'[r], worker'[w].step)
    BY <2>2, <2>3, <2>4
  <2> QED
    BY <2>1, <2>5, OwnerMovesBooks
<1> QED
  BY <1>3, <1>6 DEF Books, AmountOf

LEMMA FailRefundBalances ==
    ASSUME Control, Books, NEW w \in RefundWorkers, NEW r \in Refunds, Owns(w, r), FailRefund(w)
    PROVE  Books'
<1>1. /\ Typed /\ WorkerAgrees(w) /\ RowAgrees(r) /\ refund[r] \in RefundRow
      /\ worker[w].step = "fail" /\ worker[w].of = r
  BY OwnerKnows DEF FailRefund, RefundAt
<1>2. Ended(w)
  BY <1>1, DoneIs DEF FailRefund
<1>3. order'.reserved = order.reserved /\ order'.refunded = order.refunded
  BY <1>1 DEF FailRefund
<1>4. RowBecame(r, [refund[r] EXCEPT !.status = "FAILED", !.locked = "no", !.reserved = FALSE])
  <2>1. SetRefund(r, [refund[r] EXCEPT !.status = "FAILED", !.locked = "no", !.reserved = FALSE])
    BY <1>1 DEF FailRefund, SetRefund
  <2> QED
    BY <1>1, <2>1, RowWith, SetRefundIs DEF RefundStatuses
<1>5. ~refund[r].confirmed
  BY <1>1 DEF WorkerAgrees, Calling, Settling, Beginning, Verifying, RowAgrees
<1>6. HoldingCapacity' = HoldingCapacity /\ Booked' = Booked
  <2>1. RowsStay(r) /\ (worker'[w].step = "idle" \/ worker'[w].of = r) /\ OthersStay(w)
    BY <1>1, <1>2, <1>4 DEF RowsStay, RowBecame, Ended, FailRefund
  <2>2. HoldsAt(refund'[r], worker'[w].step) <=> HoldsAt(refund[r], worker[w].step)
    BY <1>1, <1>2, <1>4, <1>5 DEF RowBecame, RefundRow, Ended, HoldsAt
  <2>3. BookedAt(refund'[r], worker'[w].step) <=> BookedAt(refund[r], worker[w].step)
    BY <1>1, <1>2, <1>4, <1>5 DEF RowBecame, RefundRow, Ended, BookedAt
  <2>4. /\ r \in HoldingCapacity <=> HoldsAt(refund[r], worker[w].step)
        /\ r \in Booked <=> BookedAt(refund[r], worker[w].step)
    BY OwnerHolds
  <2>5. /\ r \in HoldingCapacity <=> HoldsAt(refund'[r], worker'[w].step)
        /\ r \in Booked <=> BookedAt(refund'[r], worker'[w].step)
    BY <2>2, <2>3, <2>4
  <2> QED
    BY <2>1, <2>5, OwnerMovesBooks
<1> QED
  BY <1>3, <1>6 DEF Books, AmountOf

LEMMA FailVerifiedBalances ==
    ASSUME Control, Books, NEW w \in RefundWorkers, NEW r \in Refunds, Owns(w, r), FailVerified(w)
    PROVE  Books'
<1>1. /\ Typed /\ WorkerAgrees(w) /\ RowAgrees(r) /\ refund[r] \in RefundRow
      /\ worker[w].step = "forget" /\ worker[w].of = r
  BY OwnerKnows DEF FailVerified, RefundAt
<1>2. Ended(w)
  BY <1>1, DoneIs DEF FailVerified
<1>3. order'.reserved = order.reserved /\ order'.refunded = order.refunded
  BY <1>1 DEF FailVerified
<1>4. RowBecame(r, [refund[r] EXCEPT !.status = "FAILED", !.locked = "no", !.reserved = FALSE])
  <2>1. SetRefund(r, [refund[r] EXCEPT !.status = "FAILED", !.locked = "no", !.reserved = FALSE])
    BY <1>1 DEF FailVerified, SetRefund
  <2> QED
    BY <1>1, <2>1, RowWith, SetRefundIs DEF RefundStatuses
<1>5. ~refund[r].confirmed
  BY <1>1 DEF WorkerAgrees, Calling, Settling, Beginning, Verifying, RowAgrees
<1>6. HoldingCapacity' = HoldingCapacity /\ Booked' = Booked
  <2>1. RowsStay(r) /\ (worker'[w].step = "idle" \/ worker'[w].of = r) /\ OthersStay(w)
    BY <1>1, <1>2, <1>4 DEF RowsStay, RowBecame, Ended, FailVerified
  <2>2. HoldsAt(refund'[r], worker'[w].step) <=> HoldsAt(refund[r], worker[w].step)
    BY <1>1, <1>2, <1>4, <1>5 DEF RowBecame, RefundRow, Ended, HoldsAt
  <2>3. BookedAt(refund'[r], worker'[w].step) <=> BookedAt(refund[r], worker[w].step)
    BY <1>1, <1>2, <1>4, <1>5 DEF RowBecame, RefundRow, Ended, BookedAt
  <2>4. /\ r \in HoldingCapacity <=> HoldsAt(refund[r], worker[w].step)
        /\ r \in Booked <=> BookedAt(refund[r], worker[w].step)
    BY OwnerHolds
  <2>5. /\ r \in HoldingCapacity <=> HoldsAt(refund'[r], worker'[w].step)
        /\ r \in Booked <=> BookedAt(refund'[r], worker'[w].step)
    BY <2>2, <2>3, <2>4
  <2> QED
    BY <2>1, <2>5, OwnerMovesBooks
<1> QED
  BY <1>3, <1>6 DEF Books, AmountOf

LEMMA SettleOrderBalances ==
    ASSUME Control, Books, NEW w \in RefundWorkers, NEW r \in Refunds, Owns(w, r), SettleOrder(w)
    PROVE  Books'
<1>1. /\ Typed /\ WorkerAgrees(w) /\ RowAgrees(r) /\ refund[r] \in RefundRow
      /\ worker[w].step = "settle" /\ worker[w].of = r
  BY OwnerKnows DEF SettleOrder, RefundAt
<1>2. Ended(w)
  BY <1>1, DoneIs DEF SettleOrder
<1>3. order'.reserved = order.reserved /\ order'.refunded = order.refunded
  BY <1>1, OrderNumbers DEF SettleOrder
<1>4. RowBecame(r, [refund[r] EXCEPT !.confirmed = TRUE])
  <2>1. SetRefund(r, [refund[r] EXCEPT !.confirmed = TRUE])
    BY <1>1 DEF SettleOrder, SetRefund
  <2> QED
    BY <1>1, <2>1, RowMarked, SetRefundIs
<1>5. ~refund[r].confirmed
  BY <1>1 DEF WorkerAgrees, Calling, Settling, Beginning, Verifying, RowAgrees
<1>6. HoldingCapacity' = HoldingCapacity /\ Booked' = Booked
  <2>1. RowsStay(r) /\ (worker'[w].step = "idle" \/ worker'[w].of = r) /\ OthersStay(w)
    BY <1>1, <1>2, <1>4 DEF RowsStay, RowBecame, Ended, SettleOrder
  <2>2. HoldsAt(refund'[r], worker'[w].step) <=> HoldsAt(refund[r], worker[w].step)
    BY <1>1, <1>2, <1>4, <1>5 DEF RowBecame, RefundRow, Ended, HoldsAt
  <2>3. BookedAt(refund'[r], worker'[w].step) <=> BookedAt(refund[r], worker[w].step)
    BY <1>1, <1>2, <1>4, <1>5 DEF RowBecame, RefundRow, Ended, BookedAt
  <2>4. /\ r \in HoldingCapacity <=> HoldsAt(refund[r], worker[w].step)
        /\ r \in Booked <=> BookedAt(refund[r], worker[w].step)
    BY OwnerHolds
  <2>5. /\ r \in HoldingCapacity <=> HoldsAt(refund'[r], worker'[w].step)
        /\ r \in Booked <=> BookedAt(refund'[r], worker'[w].step)
    BY <2>2, <2>3, <2>4
  <2> QED
    BY <2>1, <2>5, OwnerMovesBooks
<1> QED
  BY <1>3, <1>6 DEF Books, AmountOf

\* releaseAll() of a refund that is held takes exactly its amount off the order.
LEMMA ReleasedIsGone ==
    ASSUME Typed, Books, NEW r \in Refunds, r \in HoldingCapacity, NEW plan,
           ReleaseAll(Amount[r], plan), HoldingCapacity' = HoldingCapacity \ {r}, Booked' = Booked
    PROVE  Books'
<1>1. /\ order.reserved \in Nat /\ order.refunded \in Nat /\ Amount[r] \in Nat /\ Paid \in Nat
      /\ order \in [refunded: Nat, reserved: Nat, status: OrderStatuses]
  BY OrderNumbers
<1>2. HoldingCapacity \subseteq Refunds /\ HoldingCapacity \ {r} \subseteq Refunds
  BY DEF HoldingCapacity
<1>3. /\ AmountOf(HoldingCapacity) = Amount[r] + AmountOf(HoldingCapacity \ {r})
      /\ AmountOf(HoldingCapacity \ {r}) \in Nat
  BY <1>2, AmountOfSets
<1>4. Released(order.reserved, Amount[r]) = order.reserved - Amount[r]
  BY <1>1, <1>3 DEF Books, Released
<1>5. order'.reserved = order.reserved - Amount[r] /\ order'.refunded = order.refunded
  BY <1>1, <1>4 DEF ReleaseAll
<1> QED
  BY <1>1, <1>3, <1>5 DEF Books, AmountOf

LEMMA ReleaseCapacityBalances ==
    ASSUME Control, Books, NEW w \in RefundWorkers, NEW r \in Refunds, Owns(w, r), ReleaseCapacity(w)
    PROVE  Books'
<1>1. /\ Typed /\ WorkerAgrees(w) /\ RowAgrees(r) /\ refund[r] \in RefundRow
      /\ worker[w].step = "release" /\ worker[w].of = r
  BY OwnerKnows DEF ReleaseCapacity, RefundAt
<1>2. ReleaseAll(Amount[r], worker[w].plan) /\ UNCHANGED refund /\ RowsStay(r)
  BY <1>1 DEF ReleaseCapacity, RowsStay
<1>3. WentTo(w, "fail")
  BY <1>1, GoToIs DEF ReleaseCapacity, RefundSteps
<1>4. refund[r].reserved /\ ~refund[r].confirmed
  BY <1>1 DEF WorkerAgrees, Calling, RowAgrees
<1>5. r \in HoldingCapacity /\ r \notin Booked
  BY <1>1, <1>4, OwnerHolds DEF HoldsAt, BookedAt
<1>6. HoldingCapacity' = HoldingCapacity \ {r} /\ Booked' = Booked
  <2>1. ~HoldsAt(refund'[r], worker'[w].step) /\ ~BookedAt(refund'[r], worker'[w].step)
    BY <1>2, <1>3, <1>4 DEF HoldsAt, BookedAt, WentTo
  <2>2. OthersStay(w) /\ worker'[w].of = r
    BY <1>1, <1>3 DEF WentTo
  <2> QED
    BY <1>2, <1>5, <2>1, <2>2, OwnerMovesBooks
<1> QED
  BY <1>1, <1>2, <1>5, <1>6, ReleasedIsGone

LEMMA ReleaseVerifiedBalances ==
    ASSUME Control, Books, NEW w \in RefundWorkers, NEW r \in Refunds, Owns(w, r), ReleaseVerified(w)
    PROVE  Books'
<1>1. /\ Typed /\ WorkerAgrees(w) /\ RowAgrees(r) /\ refund[r] \in RefundRow
      /\ worker[w].step = "missing" /\ worker[w].of = r
  BY OwnerKnows DEF ReleaseVerified, RefundAt
<1> DEFINE open == [i \in Parts |->
                     IF reversal[r][i].status \in {"PENDING", "PENDING_VERIFICATION"}
                     THEN reversal[r][i].amount ELSE 0]
<1>2. /\ IF worker[w].row.reserved THEN ReleaseAll(Amount[r], open) ELSE UNCHANGED order
      /\ UNCHANGED refund /\ RowsStay(r)
  BY <1>1 DEF ReleaseVerified, RowsStay
<1>3. WentTo(w, "forget")
  BY <1>1, GoToIs DEF ReleaseVerified, RefundSteps
<1>4. worker[w].row.reserved = refund[r].reserved /\ ~refund[r].confirmed
  BY <1>1 DEF WorkerAgrees, Verifying, RowAgrees
<1>5. r \in HoldingCapacity <=> refund[r].reserved
  BY <1>1, <1>4, OwnerHolds DEF HoldsAt
<1>6. r \notin Booked
  BY <1>1, <1>4, OwnerHolds DEF BookedAt
<1>7. HoldingCapacity' = HoldingCapacity \ {r} /\ Booked' = Booked
  <2>1. ~HoldsAt(refund'[r], worker'[w].step) /\ ~BookedAt(refund'[r], worker'[w].step)
    BY <1>2, <1>3, <1>4 DEF HoldsAt, BookedAt, WentTo
  <2>2. OthersStay(w) /\ worker'[w].of = r
    BY <1>1, <1>3 DEF WentTo
  <2> QED
    BY <1>2, <1>6, <2>1, <2>2, OwnerMovesBooks
<1> HIDE DEF open
<1>8. CASE worker[w].row.reserved
  BY <1>1, <1>2, <1>4, <1>5, <1>7, <1>8, ReleasedIsGone
<1>9. CASE ~worker[w].row.reserved
  <2>1. HoldingCapacity' = HoldingCapacity /\ UNCHANGED order
    BY <1>2, <1>4, <1>5, <1>7, <1>9
  <2> QED
    BY <1>7, <2>1 DEF Books, AmountOf
<1> QED
  BY <1>8, <1>9

LEMMA ConfirmOnOrderBalances ==
    ASSUME Control, Books, NEW w \in RefundWorkers, NEW r \in Refunds, Owns(w, r), ConfirmOnOrder(w)
    PROVE  Books'
<1>1. /\ Typed /\ WorkerAgrees(w) /\ RowAgrees(r) /\ refund[r] \in RefundRow
      /\ worker[w].step = "confirm" /\ worker[w].of = r
  BY OwnerKnows DEF ConfirmOnOrder, RefundAt
<1>2. /\ order.reserved \in Nat /\ order.refunded \in Nat /\ Amount[r] \in Nat /\ Paid \in Nat
      /\ order \in [refunded: Nat, reserved: Nat, status: OrderStatuses]
  BY <1>1, OrderNumbers
<1>3. worker[w].row.reserved /\ refund[r].reserved /\ ~refund[r].confirmed
  BY <1>1 DEF WorkerAgrees, Settling, RowAgrees
<1>4. r \in HoldingCapacity /\ r \notin Booked
  BY <1>1, <1>3, OwnerHolds DEF HoldsAt, BookedAt
<1>5. HoldingCapacity \subseteq Refunds /\ Booked \subseteq Refunds
      /\ HoldingCapacity \ {r} \subseteq Refunds
  BY DEF HoldingCapacity, Booked
<1>6. /\ AmountOf(HoldingCapacity) = Amount[r] + AmountOf(HoldingCapacity \ {r})
      /\ AmountOf(Booked \cup {r}) = Amount[r] + AmountOf(Booked)
      /\ AmountOf(HoldingCapacity \ {r}) \in Nat
  BY <1>4, <1>5, AmountOfSets
<1>7. order.reserved >= Amount[r]
  BY <1>2, <1>6 DEF Books
<1>8. /\ order' = [order EXCEPT !.reserved = @ - Amount[r], !.refunded = @ + Amount[r]]
      /\ GoTo(w, "settle")
      /\ UNCHANGED refund /\ RowsStay(r)
  BY <1>1, <1>3, <1>7 DEF ConfirmOnOrder, RowsStay
<1>9. WentTo(w, "settle")
  BY <1>1, <1>8, GoToIs DEF RefundSteps
<1>10. HoldingCapacity' = HoldingCapacity \ {r} /\ Booked' = Booked \cup {r}
  BY <1>1, <1>3, <1>8, <1>9, OwnerMovesBooks DEF HoldsAt, BookedAt, WentTo
<1>11. order'.reserved = order.reserved - Amount[r] /\ order'.refunded = order.refunded + Amount[r]
  BY <1>2, <1>8
<1> QED
  BY <1>2, <1>6, <1>10, <1>11 DEF Books, AmountOf

\* No refund's row changes what it says of the books.
HoldsUnchanged ==
    \A q \in Refunds : /\ refund'[q].reserved = refund[q].reserved
                       /\ refund'[q].confirmed = refund[q].confirmed

LEMMA QuietRowBalances ==
    ASSUME Books, UNCHANGED <<order, worker>>, HoldsUnchanged
    PROVE  Books'
<1>1. HoldingCapacity' = HoldingCapacity /\ Booked' = Booked
  BY QuietStep DEF HoldsUnchanged
<1> QED
  BY <1>1 DEF Books, AmountOf

LEMMA QuietWorkerBalances ==
    ASSUME Books, UNCHANGED order, NEW w \in RefundWorkers, OthersStay(w), HoldsUnchanged,
           worker[w].step \notin Marked, worker'[w].step \notin Marked
    PROVE  Books'
<1>1. HoldingCapacity' = HoldingCapacity /\ Booked' = Booked
  BY QuietStep DEF HoldsUnchanged, OthersStay
<1> QED
  BY <1>1 DEF Books, AmountOf

\* Writing a row without touching those two columns.
LEMMA RowKeepsHolds ==
    ASSUME Typed, NEW r \in Refunds, NEW row, SetRefund(r, row),
           row.reserved = refund[r].reserved, row.confirmed = refund[r].confirmed
    PROVE  HoldsUnchanged
BY DEF HoldsUnchanged, SetRefund, Typed

LEMMA WrittenRowHolds ==
    ASSUME NEW row \in RefundRow, NEW s, NEW l
    PROVE  /\ [row EXCEPT !.status = s].reserved = row.reserved
           /\ [row EXCEPT !.status = s].confirmed = row.confirmed
           /\ [row EXCEPT !.locked = l].reserved = row.reserved
           /\ [row EXCEPT !.locked = l].confirmed = row.confirmed
           /\ [row EXCEPT !.status = s, !.locked = l].reserved = row.reserved
           /\ [row EXCEPT !.status = s, !.locked = l].confirmed = row.confirmed
           /\ [row EXCEPT !.status = s, !.locked = l, !.known = TRUE].reserved = row.reserved
           /\ [row EXCEPT !.status = s, !.locked = l, !.known = TRUE].confirmed = row.confirmed
BY DEF RefundRow

LEMMA RowStepBalances ==
    ASSUME Control, Books, NEW r \in Refunds,
           Request(r) \/ ProviderSettles(r) \/ OnRefund(r) \/ LockGoesStale(r)
    PROVE  Books'
<1>1. Typed /\ RowAgrees(r) /\ refund[r] \in RefundRow
  BY RowType DEF Control
<1>2. UNCHANGED <<order, worker>>
  BY DEF Request, ProviderSettles, OnRefund, LockGoesStale
<1>3. CASE Request(r)
  <2> DEFINE row == [Idle.row EXCEPT !.status = "REQUESTED"]
  <2>1. row.reserved = FALSE /\ row.confirmed = FALSE
    BY DEF Idle
  <2>2. refund[r].reserved = FALSE /\ refund[r].confirmed = FALSE
    BY <1>1, <1>3, RowType DEF Request, RowAgrees, Untouched
  <2>3. SetRefund(r, row)
    BY <1>3 DEF Request
  <2> HIDE DEF row
  <2> QED
    BY <1>1, <1>2, <2>1, <2>2, <2>3, RowKeepsHolds, QuietRowBalances
<1>4. CASE ProviderSettles(r)
  BY <1>2, <1>4, QuietRowBalances DEF ProviderSettles, HoldsUnchanged
<1>5. CASE OnRefund(r)
  <2>1. PICK status \in SentEvents(r) : SetRefund(r, [refund[r] EXCEPT !.status = status])
    BY <1>5 DEF OnRefund
  <2> QED
    BY <1>1, <1>2, <2>1, WrittenRowHolds, RowKeepsHolds, QuietRowBalances
<1>6. CASE LockGoesStale(r)
  <2>1. SetRefund(r, [refund[r] EXCEPT !.locked = "stale"])
    BY <1>1, <1>6 DEF LockGoesStale, SetRefund
  <2> QED
    BY <1>1, <1>2, <2>1, WrittenRowHolds, RowKeepsHolds, QuietRowBalances
<1> QED
  BY <1>3, <1>4, <1>5, <1>6

\* A handler that begins, or that ends without having written.
LEMMA BeginningBalances ==
    ASSUME Control, Books, NEW w \in RefundWorkers, NEW r \in Refunds,
           StartApprove(w, r) \/ StartExecute(w, r) \/ VerifyRefund(w, r)
    PROVE  Books'
<1>1. Typed /\ refund[r] \in RefundRow
  BY RowType DEF Control
<1>2. UNCHANGED <<order, refund>> /\ worker[w].step = "idle"
  BY DEF StartApprove, StartExecute, VerifyRefund, RefundAt
<1>3. PICK step \in {"approve", "claim", "ask"}, row \in RefundRow : BeganWith(w, r, step, row)
  BY <1>1, IdleType, Begins DEF StartApprove, StartExecute, VerifyRefund, RefundSteps
<1> QED
  BY <1>2, <1>3, QuietWorkerBalances DEF BeganWith, HoldsUnchanged, Marked

LEMMA WorkerDiesBalances ==
    ASSUME Control, Books, WritesComplete, NEW w \in RefundWorkers, WorkerDies(w)
    PROVE  Books'
<1>1. Typed /\ UNCHANGED <<order, refund>> /\ worker[w].step \in MortalSteps
  BY DEF Control, WorkerDies
<1>2. Ended(w)
  BY <1>1, DoneIs DEF WorkerDies
<1>3. worker[w].step \notin Marked
  BY <1>1 DEF WritesComplete, Marked
<1> QED
  BY <1>1, <1>2, <1>3, QuietWorkerBalances DEF Ended, HoldsUnchanged, Marked

LEMMA ApproveBalances ==
    ASSUME Control, Books, NEW w \in RefundWorkers, Approve(w)
    PROVE  Books'
<1>1. /\ Typed /\ worker[w].step = "approve" /\ worker[w].of \in Refunds /\ UNCHANGED order
      /\ SetRefund(worker[w].of, [refund[worker[w].of] EXCEPT !.status = "APPROVED"])
  BY DEF Control, Approve, RefundAt, WorkerAgrees, SetRefund, Typed
<1>2. Ended(w)
  BY <1>1, DoneIs DEF Approve
<1>3. HoldsUnchanged
  <2>1. refund[worker[w].of] \in RefundRow
    BY <1>1, RowType
  <2> QED
    BY <1>1, <2>1, WrittenRowHolds, RowKeepsHolds
<1> QED
  BY <1>1, <1>2, <1>3, QuietWorkerBalances DEF Ended, Marked

LEMMA ClaimBalances ==
    ASSUME Control, Books, NEW w \in RefundWorkers, NEW r \in Refunds, worker[w].of = r, Claim(w)
    PROVE  Books'
<1>1. Typed /\ worker[w].step = "claim" /\ refund[r] \in RefundRow /\ UNCHANGED order
  BY RowType DEF Control, Claim, RefundAt
<1>2. CASE Claimable(w)
  <2>1. WentTo(w, "plan")
    BY <1>1, <1>2, GoToIs DEF Claim, RefundSteps
  <2>2. SetRefund(r, [refund[r] EXCEPT !.status = "PROCESSING", !.locked = "fresh"])
    BY <1>2 DEF Claim
  <2>3. HoldsUnchanged
    <3> DEFINE row == [refund[r] EXCEPT !.status = "PROCESSING", !.locked = "fresh"]
    <3>1. row.reserved = refund[r].reserved /\ row.confirmed = refund[r].confirmed
      BY <1>1, WrittenRowHolds
    <3>2. SetRefund(r, row)
      BY <2>2
    <3> HIDE DEF row
    <3> QED
      BY <1>1, <3>1, <3>2, RowKeepsHolds
  <2> QED
    BY <1>1, <2>1, <2>3, QuietWorkerBalances DEF WentTo, Marked
<1>3. CASE ~Claimable(w)
  <2>1. Ended(w) /\ UNCHANGED refund
    BY <1>1, <1>3, DoneIs DEF Claim
  <2> QED
    BY <1>1, <2>1, QuietWorkerBalances DEF Ended, Marked, HoldsUnchanged
<1> QED
  BY <1>2, <1>3

\* The owner's steps that write nothing of the books.
Quiet(w) ==
    \/ Plan(w) \/ Adopt(w) \/ CallProvider(w) \/ HoldForVerification(w) \/ RecordProvider(w)
    \/ StartReversal(w) \/ ReverseTransfer(w) \/ RecordReversal(w) \/ ParkReversal(w) \/ BeginBooking(w) \/ ReadForBooking(w)
    \/ AskForRefund(w) \/ ProviderUnreachable(w) \/ AdoptVerified(w)

LEMMA QuietBalances ==
    ASSUME Control, Books, NEW w \in RefundWorkers, NEW r \in Refunds, worker[w].of = r, Quiet(w)
    PROVE  Books'
<1>1. /\ Typed /\ refund[r] \in RefundRow /\ UNCHANGED order
      /\ worker \in [RefundWorkers -> WorkerState]
  BY RowType DEF Control, Quiet, Plan, Adopt, CallProvider, HoldForVerification, RecordProvider,
     StartReversal, ReverseTransfer, RecordReversal, ParkReversal, Passed, BeginBooking, ReadForBooking, AskForRefund,
     ProviderUnreachable, AdoptVerified, Typed
<1>2. worker[w].step \notin Marked
  BY DEF Quiet, Plan, Adopt, CallProvider, HoldForVerification, RecordProvider,
     StartReversal, ReverseTransfer, RecordReversal, ParkReversal, Passed, BeginBooking, ReadForBooking, AskForRefund,
     ProviderUnreachable, AdoptVerified, RefundAt, Marked
<1>3. OthersStay(w)
  BY <1>1 DEF Quiet, Plan, Adopt, CallProvider, HoldForVerification, RecordProvider,
     StartReversal, ReverseTransfer, RecordReversal, ParkReversal, Passed, BeginBooking, ReadForBooking, AskForRefund,
     ProviderUnreachable, AdoptVerified, GoTo, Done, OthersStay
<1>4. worker'[w].step \notin Marked
  <2>1. worker[w] \in WorkerState /\ Idle.step = "idle"
    BY <1>1, IdleType
  <2> QED
    BY SMTT(30), <1>1, <1>2, <2>1 DEF Quiet, Plan, Adopt, CallProvider, HoldForVerification, RecordProvider,
       StartReversal, ReverseTransfer, RecordReversal, ParkReversal, Passed, BeginBooking, ReadForBooking, AskForRefund,
       ProviderUnreachable, AdoptVerified, GoTo, Done, Marked, WorkerState, RefundAt
<1>5. HoldsUnchanged
  <2>1. CASE UNCHANGED refund
    BY <2>1 DEF HoldsUnchanged
  <2>2. CASE HoldForVerification(w)
    <3> DEFINE row == [refund[r] EXCEPT !.status = "PENDING_VERIFICATION", !.locked = "no"]
    <3>1. SetRefund(r, row)
      BY <2>2 DEF HoldForVerification
    <3>2. row.reserved = refund[r].reserved /\ row.confirmed = refund[r].confirmed
      BY <1>1, WrittenRowHolds
    <3> HIDE DEF row
    <3> QED
      BY <1>1, <3>1, <3>2, RowKeepsHolds
  <2>3. CASE RecordProvider(w) \/ AdoptVerified(w)
    <3> DEFINE row == [refund[r] EXCEPT !.status = AdoptedStatus(r), !.locked = "no", !.known = TRUE]
    <3>1. SetRefund(r, row)
      BY <2>3 DEF RecordProvider, AdoptVerified
    <3>2. row.reserved = refund[r].reserved /\ row.confirmed = refund[r].confirmed
      BY <1>1, WrittenRowHolds
    <3> HIDE DEF row
    <3> QED
      BY <1>1, <3>1, <3>2, RowKeepsHolds
  <2> QED
    BY <2>1, <2>2, <2>3 DEF Quiet, Plan, Adopt, CallProvider, StartReversal, ReverseTransfer, RecordReversal, ParkReversal, Passed,
       BeginBooking, ReadForBooking, AskForRefund, ProviderUnreachable
<1> QED
  BY <1>1, <1>2, <1>3, <1>4, <1>5, QuietWorkerBalances

LEMMA HandlerBalances ==
    ASSUME Control, Books, NEW w \in RefundWorkers, Execution(w) \/ Verification(w)
    PROVE  Books'
<1> DEFINE r == worker[w].of
<1>1. CASE Claim(w)
  <2>1. worker[w].step = "claim" /\ WorkerAgrees(w)
    BY <1>1 DEF Claim, RefundAt, Control
  <2>2. r \in Refunds
    BY <2>1 DEF WorkerAgrees
  <2> QED
    BY <1>1, <2>2, ClaimBalances
<1>2. CASE Quiet(w)
  <2>1. worker[w].step \in Owning
    BY <1>2 DEF Quiet, Plan, Adopt, CallProvider, HoldForVerification, RecordProvider,
       StartReversal, ReverseTransfer, RecordReversal, ParkReversal, Passed, BeginBooking, ReadForBooking, AskForRefund,
       ProviderUnreachable, AdoptVerified, RefundAt, Owning, Beginning, Calling, Verifying, Settling
  <2> QED
    BY <1>2, <2>1, ActsAsOwner, QuietBalances
<1>3. CASE \/ Reserve(w) \/ MarkReserved(w) \/ ReleaseCapacity(w) \/ FailRefund(w)
           \/ ConfirmOnOrder(w) \/ SettleOrder(w) \/ ReleaseVerified(w) \/ FailVerified(w)
  <2>1. worker[w].step \in Owning
    BY <1>3 DEF Reserve, MarkReserved, ReleaseCapacity, FailRefund, ConfirmOnOrder, SettleOrder,
       ReleaseVerified, FailVerified, RefundAt, Owning, Beginning, Calling, Verifying, Settling
  <2>2. r \in Refunds /\ Owns(w, r)
    BY <2>1, ActsAsOwner
  <2> QED
    BY <1>3, <2>2, ReserveBalances, MarkReservedBalances, ReleaseCapacityBalances,
       FailRefundBalances, ConfirmOnOrderBalances, SettleOrderBalances, ReleaseVerifiedBalances,
       FailVerifiedBalances
<1> QED
  BY <1>1, <1>2, <1>3 DEF Execution, Verification, Quiet

LEMMA BooksKept ==
    ASSUME Control, Books, WritesComplete, [RefundsNext]_refundVars
    PROVE  Books'
<1>1. CASE \E r \in Refunds : Request(r) \/ ProviderSettles(r) \/ OnRefund(r) \/ LockGoesStale(r)
  BY <1>1, RowStepBalances
<1>2. CASE \/ \E w \in Approvers, r \in Refunds : StartApprove(w, r)
           \/ \E w \in Executors, r \in Refunds : StartExecute(w, r)
           \/ \E w \in Reconcilers, r \in Refunds : VerifyRefund(w, r)
  BY <1>2, RefundAmountsAssumption, BeginningBalances DEF RefundWorkers
<1>3. CASE \E w \in Executors : Approve(w) \/ Execution(w)
  BY <1>3, ApproveBalances, HandlerBalances DEF RefundWorkers
<1>4. CASE \E w \in Reconcilers : Verification(w)
  BY <1>4, HandlerBalances DEF RefundWorkers
<1>5. CASE \E w \in RefundWorkers : WorkerDies(w)
  BY <1>5, WorkerDiesBalances
<1>6. CASE UNCHANGED refundVars
  BY <1>6, QuietRowBalances DEF refundVars, HoldsUnchanged
<1> QED
  BY <1>1, <1>2, <1>3, <1>4, <1>5, <1>6 DEF RefundsNext

LEMMA BooksStart == RefundsInit => Books
<1> SUFFICES ASSUME RefundsInit PROVE Books
  OBVIOUS
<1>1. HoldingCapacity = {} /\ Booked = {}
  BY DEF RefundsInit, HoldingCapacity, Booked, On, RefundAt, Idle
<1>2. AmountOf({}) = 0
  BY SumOfNone DEF AmountOf
<1> QED
  BY <1>1, <1>2, RefundAmountsAssumption DEF RefundsInit, Books

LEMMA RefundInvariantHolds ==
    ASSUME Discipline
    PROVE  RefundsSpec => []RefundInvariant
<1>1. RefundsInit => RefundInvariant
  BY ControlStarts, BooksStart DEF RefundInvariant
<1>2. RefundInvariant /\ [RefundsNext]_refundVars => RefundInvariant'
  BY ControlKept, BooksKept DEF RefundInvariant, Discipline
<1> QED
  BY <1>1, <1>2, PTL DEF RefundsSpec

\* Money on its way out is held or booked.
LEMMA MovedIsOnTheBooks ==
    ASSUME Control
    PROVE  Moved \subseteq HoldingCapacity \cup Booked
<1> SUFFICES ASSUME NEW r \in Moved, r \notin Booked
             PROVE  r \in HoldingCapacity
  OBVIOUS
<1>1. r \in Refunds /\ atProvider[r] # "none" /\ RowAgrees(r)
  BY DEF Moved, Control
<1>2. refund[r].reserved /\ ~refund[r].confirmed /\ ~On(r, "settle")
  BY <1>1 DEF RowAgrees, Booked
<1>3. ~On(r, "fail") /\ ~On(r, "forget")
  BY <1>1 DEF On, RefundAt, Control, WorkerAgrees
<1> QED
  BY <1>1, <1>2, <1>3 DEF HoldingCapacity

\* No amount is both held and booked.
LEMMA HeldOrBooked ==
    ASSUME Control
    PROVE  HoldingCapacity \cap Booked = {}
<1> SUFFICES ASSUME NEW r \in Refunds, r \in HoldingCapacity, r \in Booked
             PROVE  FALSE
  BY DEF HoldingCapacity
<1>1. On(r, "mark")
  BY DEF HoldingCapacity, Booked
<1>2. PICK w \in RefundWorkers : worker[w].of = r /\ worker[w].step = "mark"
  BY <1>1 DEF On, RefundAt
<1>3. WorkerAgrees(w) /\ RowAgrees(r)
  BY DEF Control
<1>4. refund[r].locked = "fresh" /\ ~refund[r].known
  BY <1>2, <1>3 DEF WorkerAgrees, Beginning, RowAgrees
<1>5. ~refund[r].confirmed
  BY <1>3, <1>4 DEF RowAgrees
<1>6. PICK v \in RefundWorkers : worker[v].of = r /\ worker[v].step = "settle"
  BY <1>5 DEF Booked, On, RefundAt
<1>7. refund[r].known
  BY <1>6 DEF Control, WorkerAgrees, Settling
<1> QED
  BY <1>4, <1>7

\* refundReservation.ts: whatever executes again, is adopted, verified or dies, the
\* order's two columns are the sums over its refunds, and no money leaves unbooked.
THEOREM BooksAlwaysBalance ==
    ASSUME Discipline
    PROVE  RefundsSpec => []BooksBalance
<1>1. RefundInvariant => BooksBalance
  BY MovedIsOnTheBooks DEF RefundInvariant, Books, BooksBalance
<1> QED
  BY <1>1, RefundInvariantHolds, PTL

\* The provider is never asked to pay out more than was paid, for any number of refunds
\* of any amounts, in any order of executions, retries, deaths and reconciliations.
THEOREM NeverPaysOutMore ==
    ASSUME Discipline
    PROVE  RefundsSpec => []NeverOverRefunded
<1>1. RefundInvariant => NeverOverRefunded
  <2> SUFFICES ASSUME RefundInvariant
               PROVE  AmountOf(Moved) <= Paid
    BY DEF NeverOverRefunded
  <2> DEFINE H == HoldingCapacity
             B == Booked
  <2>1. /\ Moved \subseteq H \cup B /\ H \cap B = {} /\ H \subseteq Refunds /\ B \subseteq Refunds
        /\ H \cup B \in SUBSET Refunds
    BY MovedIsOnTheBooks, HeldOrBooked DEF RefundInvariant, HoldingCapacity, Booked
  <2>2. AmountOf(H) + AmountOf(B) <= Paid
    BY DEF RefundInvariant, Books
  <2> HIDE DEF H, B
  <2>3. IsFiniteSet(H) /\ IsFiniteSet(B) /\ \A r \in H \cup B : Amount[r] \in Int
    BY <2>1, RefundAmountsAssumption, FS_Subset
  <2>4. AmountOf(H \cup B) = AmountOf(H) + AmountOf(B)
    BY <2>1, <2>3, SumOfTwoParts DEF AmountOf
  <2>5. AmountOf(Moved) <= AmountOf(H \cup B)
    BY <2>1, AmountOfSets
  <2>6. AmountOf(Moved) \in Nat /\ AmountOf(H) \in Nat /\ AmountOf(B) \in Nat /\ Paid \in Nat
    BY <2>1, AmountOfSets, RefundAmountsAssumption DEF Moved
  <2> QED
    BY <2>2, <2>4, <2>5, <2>6
<1> QED
  BY <1>1, RefundInvariantHolds, PTL

-------------------------------------------------------------------------------
\* A refund that awaits verification is nobody's but the reconciliation's.
LEMMA UnverifiedIsNotExecuted ==
    ASSUME Control, NEW r \in Refunds, refund[r].status = "PENDING_VERIFICATION",
           NEW w \in RefundWorkers, worker[w].of = r
    PROVE  worker[w].step \in {"idle", "claim"} \cup Verifying
<1>1. WorkerAgrees(w) /\ RowAgrees(r) /\ worker[w].step \in RefundSteps
  BY DEF Control, Typed, WorkerState
<1> QED
  BY <1>1 DEF WorkerAgrees, RowAgrees, RefundSteps, Beginning, Calling, Verifying, Settling

LEMMA OnlyVerificationMoves ==
    ASSUME Control, [RefundsNext]_refundVars, NEW r \in Refunds,
           refund[r].status = "PENDING_VERIFICATION",
           refund'[r].status # "PENDING_VERIFICATION"
    PROVE  \E w \in Reconcilers : worker[w].of = r /\ worker'[w] # worker[w]
<1>1. /\ refund \in [Refunds -> RefundRow] /\ RowAgrees(r)
      /\ worker \in [RefundWorkers -> WorkerState]
  BY DEF Control, Typed
<1>2. CASE \E q \in Refunds : Request(q) \/ ProviderSettles(q) \/ OnRefund(q) \/ LockGoesStale(q)
  BY <1>1, <1>2 DEF Request, ProviderSettles, OnRefund, LockGoesStale, SetRefund, RowAgrees, RefundRow
<1>3. CASE UNCHANGED refund
  BY <1>3
<1>4. CASE \E w \in RefundWorkers : Approve(w) \/ Execution(w) \/ Verification(w)
  <2>1. PICK w \in RefundWorkers : Approve(w) \/ Execution(w) \/ Verification(w)
    BY <1>4
  <2>2. WorkerAgrees(w) /\ worker[w] \in WorkerState
    BY <1>1 DEF Control
  <2> DEFINE Writes == \/ Claim(w) \/ Reserve(w) \/ HoldForVerification(w) \/ FailRefund(w)
                       \/ RecordProvider(w) \/ AdoptVerified(w) \/ FailVerified(w)
             Marks == Approve(w) \/ MarkReserved(w) \/ SettleOrder(w)
  <2>3. Writes \/ Marks
    BY <2>1 DEF Execution, Verification, Plan, Adopt, CallProvider, ReleaseCapacity,
       StartReversal, ReverseTransfer, RecordReversal, ParkReversal, Passed, BeginBooking, ReadForBooking, ConfirmOnOrder,
       AskForRefund, ProviderUnreachable, ReleaseVerified
  <2>4. worker[w].of = r
    <3> SUFFICES ASSUME worker[w].of # r PROVE refund'[r] = refund[r]
      OBVIOUS
    <3>1. CASE Marks
      BY <1>1, <3>1 DEF Approve, MarkReserved, SettleOrder
    <3>2. CASE Writes
      BY <1>1, <3>2 DEF Claim, Reserve, HoldForVerification, FailRefund, RecordProvider,
         AdoptVerified, FailVerified, SetRefund
    <3> QED
      BY <2>3, <3>1, <3>2
  <2>5. AdoptVerified(w) \/ FailVerified(w)
    <3>1. worker[w].step \in {"idle", "claim"} \cup Verifying
      BY <2>4, UnverifiedIsNotExecuted
    <3>2. ~Marks
      BY <3>1 DEF Approve, MarkReserved, SettleOrder, RefundAt, Verifying
    <3>3. ~(Reserve(w) \/ HoldForVerification(w) \/ FailRefund(w) \/ RecordProvider(w))
      BY <3>1 DEF Reserve, HoldForVerification, FailRefund, RecordProvider, RefundAt, Verifying
    <3>4. ~Claim(w)
      <4> SUFFICES ASSUME Claim(w) PROVE FALSE
        OBVIOUS
      <4>1. Executable(worker[w].row.status)
        BY <2>2 DEF WorkerAgrees, Claim, RefundAt
      <4>2. ~Claimable(w)
        BY <2>4, <4>1 DEF Claimable, Executable
      <4> QED
        BY <4>2 DEF Claim
    <3> QED
      BY <2>3, <3>2, <3>3, <3>4
  <2>6. w \in Reconcilers
    BY <2>2, <2>5 DEF WorkerAgrees, AdoptVerified, FailVerified, RefundAt, Verifying
  <2>7. worker'[w].step # worker[w].step
    BY <1>1, <2>5, IdleType DEF AdoptVerified, FailVerified, RefundAt, GoTo, Done, WorkerState
  <2> QED
    BY <2>4, <2>6, <2>7
<1> QED
  BY <1>2, <1>3, <1>4 DEF RefundsNext, RefundWorkers, StartApprove, StartExecute, VerifyRefund,
     WorkerDies, refundVars

\* reconciliation.service.ts:110: nothing but the reconciliation takes a refund out of
\* PENDING_VERIFICATION; a webhook cannot even find its row by the provider's id.
THEOREM OnlyReconciliationDecides ==
    ASSUME OneAtATime, CallsEnd, ProviderKeepsItsWord
    PROVE  RefundsSpec => OnlyReconciliationResolves
<1>1. Control /\ [RefundsNext]_refundVars =>
        [\A r \in Refunds :
            refund[r].status = "PENDING_VERIFICATION" /\ refund'[r].status # "PENDING_VERIFICATION"
            => \/ \E w \in Reconcilers : worker[w].of = r /\ worker'[w] # worker[w]
               \/ refund[r].known /\ refund'[r].status \in SentEvents(r)]_refundVars
  BY OnlyVerificationMoves
<1> QED
  BY <1>1, ControlHolds, PTL DEF RefundsSpec, OnlyReconciliationResolves
-------------------------------------------------------------------------------
(***************************************************************************)
(* What the partners give back                                             *)
(***************************************************************************)
\* The steps at which a worker has a plan, and those at which it carries it out.
Answered == {"taken", "unheard", "refused"}
Taking  == {"reverse", "take"} \cup Answered
Planned == {"reserve", "mark"} \cup Calling \cup Taking

\* Nothing comes back for a refund before the provider's answer is recorded; from then on
\* the worker that recorded it takes each transfer of its plan once. While it has not written
\* down what a partner answered, that transfer is still on its list.
Untaken(w) ==
    IF worker[w].step \in Answered THEN worker[w].left \ {NextPart(w)} ELSE worker[w].left
NothingBack(r) == \A i \in Parts : returned[r][i] = 0
RowGives(r) ==
    /\ ~refund[r].known => NothingBack(r)
    /\ Total(returned[r]) <= Amount[r]
WorkerGives(w) ==
    /\ worker[w].step \in Planned => Total(worker[w].plan) <= Amount[worker[w].of]
    /\ worker[w].step \in Taking =>
         \A i \in Parts : /\ returned[worker[w].of][i] <= worker[w].plan[i]
                          /\ i \in Untaken(w) => returned[worker[w].of][i] = 0
    /\ worker[w].step \in {"take"} \cup Answered => worker[w].left # {}
Gives ==
    /\ \A r \in Refunds : RowGives(r)
    /\ \A w \in RefundWorkers : WorkerGives(w)

LEMMA PlansSum ==
    ASSUME NEW p \in Plans
    PROVE  /\ Total(p) \in Nat
           /\ \A q \in Plans : (\A i \in Parts : q[i] <= p[i]) => Total(q) <= Total(p)
           /\ (\A i \in Parts : p[i] = 0) => Total(p) = 0
<1>1. DOMAIN p = Parts /\ \A i \in Parts : p[i] \in Nat
  BY DEF Plans
<1>2. Total(p) = SumFunctionOnSet(p, Parts)
  BY <1>1, TotalIs
<1>3. SumFunctionOnSet(p, Parts) \in Nat
  BY <1>1, PartsAreFinite, SumIsNat
<1>4. ASSUME NEW q \in Plans, \A i \in Parts : q[i] <= p[i]
      PROVE  Total(q) <= Total(p)
  <2>1. DOMAIN q = Parts /\ \A i \in Parts : q[i] \in Nat
    BY DEF Plans
  <2>2. Total(q) = SumFunctionOnSet(q, Parts)
    BY <2>1, TotalIs
  <2>3. \A i \in Parts : q[i] \in Int /\ p[i] \in Int /\ q[i] <= p[i]
    BY <1>1, <1>4, <2>1
  <2>4. SumFunctionOnSet(q, Parts) <= SumFunctionOnSet(p, Parts)
    BY <2>3, PartsAreFinite, SumAtMost
  <2> QED
    BY <1>2, <2>2, <2>4
<1>5. (\A i \in Parts : p[i] = 0) => SumFunctionOnSet(p, Parts) = 0
  BY PartsAreFinite, SumOfNothings
<1> QED
  BY <1>2, <1>3, <1>4, <1>5

\* A step that takes nothing back: no row forgets the provider, and a worker that has a
\* plan afterwards had it before.
KnownStays == \A r \in Refunds : refund[r].known => refund'[r].known
PlansStay ==
    \A w \in RefundWorkers : worker'[w].step \in Planned =>
        /\ worker[w].step \in Planned
        /\ worker'[w].of = worker[w].of /\ worker'[w].plan = worker[w].plan
        /\ worker'[w].left = worker[w].left
        /\ worker'[w].step \in Taking => worker'[w].step = worker[w].step

LEMMA StaysGiven ==
    ASSUME Gives, UNCHANGED returned, KnownStays, PlansStay
    PROVE  Gives'
<1>1. \A r \in Refunds : RowGives(r)'
  BY DEF Gives, RowGives, NothingBack, KnownStays
<1>2. \A w \in RefundWorkers : WorkerGives(w)'
  <2> SUFFICES ASSUME NEW w \in RefundWorkers PROVE WorkerGives(w)'
    OBVIOUS
  <2>1. CASE worker'[w].step \in Planned
    <3>1. /\ worker[w].step \in Planned /\ worker'[w].of = worker[w].of
          /\ worker'[w].plan = worker[w].plan /\ worker'[w].left = worker[w].left
          /\ worker'[w].step \in Taking => worker'[w].step = worker[w].step
      BY <2>1 DEF PlansStay
    <3>2. WorkerGives(w)
      BY DEF Gives
    <3>3. CASE worker'[w].step \in Taking
      <4>1. worker'[w].step = worker[w].step /\ Untaken(w)' = Untaken(w)
        BY <3>1, <3>3 DEF Untaken, NextPart
      <4> QED
        BY <3>1, <3>2, <3>3, <4>1 DEF WorkerGives
    <3>4. CASE worker'[w].step \notin Taking
      BY <3>1, <3>2, <3>4 DEF WorkerGives, Taking
    <3> QED
      BY <3>3, <3>4
  <2>2. CASE worker'[w].step \notin Planned
    BY <2>2 DEF WorkerGives, Planned, Taking
  <2> QED
    BY <2>1, <2>2
<1> QED
  BY <1>1, <1>2 DEF Gives

\* A worker that did not move gives what it gave.
LEMMA StandingGives ==
    ASSUME NEW v \in RefundWorkers, WorkerGives(v), worker'[v] = worker[v],
           worker[v].step \in Taking => returned'[worker[v].of] = returned[worker[v].of]
    PROVE  WorkerGives(v)'
<1>1. Untaken(v)' = Untaken(v)
  BY DEF Untaken, NextPart
<1>2. CASE worker[v].step \in Taking
  BY <1>1, <1>2 DEF WorkerGives
<1>3. CASE worker[v].step \notin Taking
  BY <1>3 DEF WorkerGives, Taking
<1> QED
  BY <1>2, <1>3

LEMMA GoingStays ==
    ASSUME Typed, NEW w \in RefundWorkers, NEW step, GoTo(w, step), step \notin Taking,
           step \in Planned => worker[w].step \in Planned
    PROVE  PlansStay
BY DEF Typed, WorkerState, GoTo, PlansStay

LEMMA LeavingStays ==
    ASSUME Typed, NEW w \in RefundWorkers, NEW job, job.step \notin Planned,
           worker' = [worker EXCEPT ![w] = job]
    PROVE  PlansStay
BY DEF Typed, WorkerState, PlansStay

LEMMA DoneStays ==
    ASSUME Typed, NEW w \in RefundWorkers, Done(w)
    PROVE  PlansStay
<1>1. Idle.step \notin Planned
  BY DEF Idle, Planned, Calling, Taking, Answered
<1> QED
  BY <1>1, LeavingStays DEF Done

LEMMA IdleHasNoPlan ==
    /\ Idle.step \notin Planned
    /\ \A step, r, row : step \notin Planned =>
         /\ [Idle EXCEPT !.step = step, !.of = r].step \notin Planned
         /\ [Idle EXCEPT !.step = step, !.of = r, !.row = row].step \notin Planned
BY DEF Idle, Planned, Calling, Taking, Answered

LEMMA StandingStays == UNCHANGED worker => PlansStay
BY DEF PlansStay

\* A row that is written keeps the provider's id.
LEMMA WrittenStaysKnown ==
    ASSUME Typed, NEW r \in Refunds, NEW row, SetRefund(r, row), refund[r].known => row.known
    PROVE  KnownStays
BY DEF Typed, SetRefund, KnownStays

LEMMA UnwrittenStaysKnown == UNCHANGED refund => KnownStays
BY DEF KnownStays

LEMMA RowKeepsKnown ==
    ASSUME NEW row \in RefundRow, NEW s, NEW l
    PROVE  /\ [row EXCEPT !.status = s, !.locked = l].known = row.known
           /\ [row EXCEPT !.status = s, !.locked = l, !.reserved = FALSE].known = row.known
           /\ [row EXCEPT !.status = s, !.locked = l, !.known = TRUE].known
           /\ [row EXCEPT !.status = s].known = row.known
           /\ [row EXCEPT !.locked = l].known = row.known
           /\ [row EXCEPT !.reserved = TRUE].known = row.known
           /\ [row EXCEPT !.confirmed = TRUE].known = row.known
BY DEF RefundRow

LEMMA PlanGives ==
    ASSUME Control, Gives, NEW w \in RefundWorkers, NEW r \in Refunds, Owns(w, r), Plan(w)
    PROVE  Gives'
<1> DEFINE rows == [i \in Parts |-> [amount |-> Transferred[i], reversed |-> transfer[i].reversed,
                                     primary |-> FALSE]]
           plan == IF Parts = {} THEN [i \in Parts |-> 0]
                   ELSE PlanReversals(Amount[r], rows, "PROPORTIONAL").amounts
<1>1. /\ Typed /\ WorkerAgrees(w) /\ worker[w].step = "plan" /\ worker[w].of = r
      /\ worker[w] \in WorkerState /\ Amount[r] \in Nat
  BY OwnerKnows DEF Plan, RefundAt
<1>2. Total(plan) <= Amount[r]
  <2>1. CASE Parts = {}
    <3>1. plan \in Plans /\ \A i \in Parts : plan[i] = 0
      BY <2>1 DEF Plans
    <3>2. Total(plan) = 0
      BY <3>1, PlansSum
    <3> QED
      BY <1>1, <3>2
  <2>2. CASE Parts # {}
    <3>1. rows \in [Parts -> [amount : Nat, reversed : Nat, primary : BOOLEAN]]
      BY <1>1, PartsAreFinite DEF Typed
    <3> HIDE DEF rows
    <3>2. Total(PlanReversals(Amount[r], rows, "PROPORTIONAL").amounts) <= Amount[r]
      BY <1>1, <3>1, PartsAreFinite, PlanBalances
    <3> QED
      BY <2>2, <3>2
  <2> QED
    BY <2>1, <2>2
<1>3. /\ worker' = [worker EXCEPT ![w].plan = plan, ![w].step =
                        IF worker[w].row.reserved THEN "adopt" ELSE "reserve"]
      /\ UNCHANGED <<refund, returned>>
  BY <1>1 DEF Plan
<1> HIDE DEF plan
<1>4. ~worker[w].row.reserved
  BY <1>1 DEF WorkerAgrees
<1>5. /\ worker'[w].step = "reserve" /\ worker'[w].of = r /\ worker'[w].plan = plan
      /\ OthersStay(w)
  BY <1>1, <1>3, <1>4 DEF Typed, WorkerState, OthersStay
<1>6. WorkerGives(w)'
  BY <1>2, <1>5 DEF WorkerGives, Taking, Answered
<1>7. \A v \in RefundWorkers : WorkerGives(v)'
  <2> SUFFICES ASSUME NEW v \in RefundWorkers, v # w PROVE WorkerGives(v)'
    BY <1>6
  <2> QED
    BY <1>3, <1>5, StandingGives DEF Gives, OthersStay
<1> QED
  BY <1>3, <1>7 DEF Gives, RowGives, NothingBack

LEMMA RecordProviderGives ==
    ASSUME Control, Gives, NEW w \in RefundWorkers, NEW r \in Refunds, Owns(w, r),
           RecordProvider(w)
    PROVE  Gives'
<1> DEFINE row == [refund[r] EXCEPT !.status = AdoptedStatus(r), !.locked = "no", !.known = TRUE]
           left == {i \in Parts : worker[w].plan[i] > 0}
<1>1. /\ Typed /\ WorkerAgrees(w) /\ RowAgrees(r) /\ worker[w].step = "record"
      /\ worker[w].of = r /\ worker[w] \in WorkerState /\ refund[r] \in RefundRow
  BY OwnerKnows DEF RecordProvider, RefundAt
<1>2. /\ SetRefund(r, row) /\ UNCHANGED returned
      /\ worker' = [worker EXCEPT ![w].step = "reverse", ![w].left = left]
  BY <1>1 DEF RecordProvider
<1>3. row.known
  BY <1>1, RowKeepsKnown
<1> HIDE DEF row, left
<1>4. KnownStays
  BY <1>1, <1>2, <1>3, WrittenStaysKnown
<1>5. ~refund[r].known
  BY <1>1 DEF WorkerAgrees, RowAgrees, Calling
<1>6. NothingBack(r)
  BY <1>5 DEF Gives, RowGives
<1>7. /\ worker'[w].step = "reverse" /\ worker'[w].of = r /\ worker'[w].plan = worker[w].plan
      /\ OthersStay(w)
  BY <1>1, <1>2 DEF Typed, WorkerState, OthersStay
<1>8. WorkerGives(w)'
  <2>1. Total(worker[w].plan) <= Amount[r]
    BY <1>1 DEF Gives, WorkerGives, Planned, Calling
  <2>2. \A i \in Parts : worker[w].plan[i] \in Nat
    BY <1>1 DEF WorkerState, Plans
  <2>3. \A i \in Parts : returned'[r][i] = 0
    BY <1>2, <1>6 DEF NothingBack
  <2>4. worker'[w].step \notin {"take"} \cup Answered
    BY <1>7 DEF Answered
  <2> QED
    BY <1>7, <2>1, <2>2, <2>3, <2>4 DEF WorkerGives
<1>9. \A v \in RefundWorkers : WorkerGives(v)'
  <2> SUFFICES ASSUME NEW v \in RefundWorkers, v # w PROVE WorkerGives(v)'
    BY <1>8
  <2> QED
    BY <1>2, <1>7, StandingGives DEF Gives, OthersStay
<1> QED
  BY <1>2, <1>4, <1>9 DEF Gives, RowGives, NothingBack, KnownStays

LEMMA StartReversalGives ==
    ASSUME Control, Gives, NEW w \in RefundWorkers, NEW r \in Refunds, Owns(w, r),
           StartReversal(w)
    PROVE  Gives'
<1> DEFINE i == NextPart(w)
           amount == Least(worker[w].plan[i], AtLeastZero(Transferred[i] - transfer[i].reversed))
           p == [worker[w].plan EXCEPT ![i] = amount]
<1>1. /\ Typed /\ WorkerAgrees(w) /\ worker[w].step = "reverse" /\ worker[w].of = r
      /\ worker[w] \in WorkerState /\ Amount[r] \in Nat
  BY OwnerKnows DEF StartReversal, RefundAt
<1>2. /\ worker' = [worker EXCEPT ![w].plan = p,
                                 ![w].step = IF amount = 0 THEN @ ELSE "take",
                                 ![w].left = IF amount = 0 THEN @ \ {i} ELSE @]
      /\ UNCHANGED <<refund, returned>>
      /\ worker[w].left # {}
  BY <1>1 DEF StartReversal
<1>3. worker[w].plan \in Plans /\ worker[w].left \in PartSets
  BY <1>1 DEF WorkerState
<1>4. i \in Parts /\ i \in worker[w].left
  BY <1>2, <1>3, NextPartIsLeft
<1>5. amount \in Nat /\ amount <= worker[w].plan[i]
  <2>1. worker[w].plan[i] \in Nat /\ Transferred[i] \in Nat /\ transfer[i].reversed \in Nat
    BY <1>1, <1>3, <1>4, PartsAreFinite DEF Plans, Typed
  <2> HIDE DEF i
  <2> QED
    BY <2>1 DEF Least, AtLeastZero
<1> HIDE DEF i, amount
<1>6. p \in Plans /\ p[i] = amount /\ \A j \in Parts : p[j] <= worker[w].plan[j]
                                                       /\ (j # i => p[j] = worker[w].plan[j])
  BY <1>3, <1>4, <1>5 DEF Plans
<1> HIDE DEF p
<1>7. /\ worker'[w].of = r /\ worker'[w].plan = p /\ OthersStay(w)
      /\ worker'[w].step \in {"reverse", "take"}
      /\ worker'[w].left = IF amount = 0 THEN worker[w].left \ {i} ELSE worker[w].left
      /\ worker'[w].step = "take" => amount # 0
  <2>1. CASE amount = 0
    <3>1. worker' = [worker EXCEPT ![w].plan = p, ![w].left = worker[w].left \ {i}]
      BY <1>1, <1>2, <2>1 DEF Typed, WorkerState
    <3> QED
      BY <1>1, <2>1, <3>1 DEF Typed, WorkerState, OthersStay
  <2>2. CASE amount # 0
    <3>1. worker' = [worker EXCEPT ![w].plan = p, ![w].step = "take"]
      BY <1>1, <1>2, <2>2 DEF Typed, WorkerState
    <3> QED
      BY <1>1, <2>2, <3>1 DEF Typed, WorkerState, OthersStay
  <2> QED
    BY <2>1, <2>2
<1>8. WorkerGives(w)'
  <2>1. /\ Total(worker[w].plan) <= Amount[r]
        /\ \A j \in Parts : /\ returned[r][j] <= worker[w].plan[j]
                            /\ j \in worker[w].left => returned[r][j] = 0
    BY <1>1 DEF Gives, WorkerGives, Untaken, Planned, Taking, Answered
  <2>2. Total(p) <= Amount[r]
    <3>1. Total(p) <= Total(worker[w].plan) /\ Total(p) \in Nat /\ Total(worker[w].plan) \in Nat
      BY <1>3, <1>6, PlansSum
    <3> QED
      BY <1>1, <2>1, <3>1
  <2>3. \A j \in Parts : returned[r][j] <= p[j]
    BY <1>4, <1>5, <1>6, <2>1
  <2>4. Untaken(w)' = worker'[w].left /\ worker'[w].left \subseteq worker[w].left
    BY <1>7 DEF Untaken, Answered
  <2>5. worker'[w].step \in {"take"} \cup Answered => worker'[w].left # {}
    BY <1>2, <1>7 DEF Answered
  <2>6. \A j \in Parts : /\ returned'[r][j] <= p[j]
                         /\ j \in Untaken(w)' => returned'[r][j] = 0
    BY <1>2, <2>1, <2>3, <2>4
  <2> QED
    BY <1>7, <2>2, <2>5, <2>6 DEF WorkerGives
<1>9. \A v \in RefundWorkers : WorkerGives(v)'
  <2> SUFFICES ASSUME NEW v \in RefundWorkers, v # w PROVE WorkerGives(v)'
    BY <1>8
  <2> QED
    BY <1>2, <1>7, StandingGives DEF Gives, OthersStay
<1> QED
  BY <1>2, <1>9 DEF Gives, RowGives, NothingBack

LEMMA ReverseTransferGives ==
    ASSUME Control, Gives, NEW w \in RefundWorkers, NEW r \in Refunds, Owns(w, r),
           ReverseTransfer(w)
    PROVE  Gives'
<1> DEFINE i == NextPart(w)
           back == [returned[r] EXCEPT ![i] = @ + worker[w].plan[i]]
<1>1. /\ Typed /\ WorkerAgrees(w) /\ worker[w].step = "take" /\ worker[w].of = r
      /\ worker[w] \in WorkerState /\ Amount[r] \in Nat
  BY OwnerKnows DEF ReverseTransfer, RefundAt
<1>2. /\ UNCHANGED refund
      /\ returned' = returned \/ returned' = [returned EXCEPT ![r][i] = @ + worker[w].plan[i]]
      /\ \E step \in Answered : GoTo(w, step)
  BY <1>1 DEF ReverseTransfer, Answered
<1>3. /\ worker[w].plan \in Plans /\ worker[w].left \in PartSets
      /\ Total(worker[w].plan) <= Amount[r]
      /\ \A j \in Parts : /\ returned[r][j] <= worker[w].plan[j]
                          /\ j \in worker[w].left => returned[r][j] = 0
      /\ worker[w].left # {}
  BY <1>1 DEF Gives, WorkerGives, WorkerState, Untaken, Planned, Taking, Answered
<1>4. i \in Parts /\ i \in worker[w].left
  BY <1>3, NextPartIsLeft
<1>5. returned \in [Refunds -> Plans] /\ returned[r] \in Plans
  BY <1>1 DEF Typed
<1>6. returned' = returned \/ returned' = [returned EXCEPT ![r] = back]
  BY <1>2
<1> HIDE DEF i
<1>7. /\ back \in Plans /\ back[i] = worker[w].plan[i]
      /\ \A j \in Parts : j # i => back[j] = returned[r][j]
  BY <1>3, <1>4, <1>5 DEF Plans
<1> HIDE DEF back
<1>8. /\ returned'[r] \in Plans
      /\ \A j \in Parts : /\ returned'[r][j] <= worker[w].plan[j]
                          /\ j \in worker[w].left \ {i} => returned'[r][j] = 0
      /\ \A q \in Refunds : q # r => returned'[q] = returned[q]
  <2>1. \A j \in Parts : worker[w].plan[j] \in Nat
    BY <1>3 DEF Plans
  <2>2. CASE returned' = returned
    BY <1>3, <1>5, <2>2
  <2>3. CASE returned' = [returned EXCEPT ![r] = back]
    <3>1. returned'[r] = back /\ \A q \in Refunds : q # r => returned'[q] = returned[q]
      BY <1>5, <2>3
    <3> QED
      BY <1>3, <1>4, <1>7, <2>1, <3>1
  <2> QED
    BY <1>6, <2>2, <2>3
<1>9. /\ worker'[w].step \in Answered /\ worker'[w].of = r /\ worker'[w].plan = worker[w].plan
      /\ worker'[w].left = worker[w].left /\ OthersStay(w)
  BY <1>1, <1>2 DEF Typed, WorkerState, GoTo, OthersStay
<1>10. WorkerGives(w)'
  <2>1. Untaken(w)' = worker[w].left \ {i}
    BY <1>9 DEF Untaken, NextPart, i
  <2> QED
    BY <1>3, <1>8, <1>9, <2>1 DEF WorkerGives
<1>11. \A v \in RefundWorkers : WorkerGives(v)'
  <2> SUFFICES ASSUME NEW v \in RefundWorkers, v # w PROVE WorkerGives(v)'
    BY <1>10
  <2>1. worker'[v] = worker[v] /\ WorkerGives(v)
    BY <1>9 DEF OthersStay, Gives
  <2>2. worker[v].step \in Taking => returned'[worker[v].of] = returned[worker[v].of]
    <3> SUFFICES ASSUME worker[v].step \in Taking PROVE returned'[worker[v].of] = returned[worker[v].of]
      OBVIOUS
    <3>1. Owns(v, worker[v].of) /\ worker[v].of \in Refunds
      BY ActsAsOwner DEF Owning, Settling, Taking, Answered
    <3>2. worker[v].of # r
      BY <3>1 DEF Control, OneOwner, Owns
    <3> QED
      BY <1>8, <3>1, <3>2
  <2> QED
    BY <2>1, <2>2, StandingGives
<1>12. refund[r].known
  BY <1>1 DEF WorkerAgrees, Settling
<1>13. \A q \in Refunds : RowGives(q)'
  <2>1. Total(returned'[r]) <= Amount[r]
    <3>1. /\ Total(returned'[r]) <= Total(worker[w].plan)
          /\ Total(returned'[r]) \in Nat /\ Total(worker[w].plan) \in Nat
      BY <1>3, <1>8, PlansSum
    <3> QED
      BY <1>1, <1>3, <3>1
  <2>2. RowGives(r)'
    BY <1>2, <1>12, <2>1 DEF RowGives
  <2> SUFFICES ASSUME NEW q \in Refunds, q # r PROVE RowGives(q)'
    BY <2>2
  <2>3. returned'[q] = returned[q] /\ RowGives(q)
    BY <1>8 DEF Gives
  <2> QED
    BY <1>2, <2>3 DEF RowGives, NothingBack
<1> QED
  BY <1>11, <1>13 DEF Gives

\* What was answered is written down; it changes nothing at the partners.
Recording(w) == RecordReversal(w) \/ ParkReversal(w)

LEMMA RecordingIs ==
    ASSUME Typed, NEW w \in RefundWorkers, NEW r \in Refunds, worker[w].of = r, Recording(w)
    PROVE  /\ worker[w].step \in Answered /\ UNCHANGED <<refund, returned>>
           /\ \/ PassedOn(w, r, NextPart(w))
              \/ WentTo(w, "unheard") /\ UNCHANGED <<transfer, reversal>>
<1>1. CASE RecordReversal(w)
  <2>1. worker[w].step \in Answered /\ UNCHANGED <<refund, returned>>
    BY <1>1 DEF RecordReversal, RefundAt, Answered
  <2>2. Passed(w) \/ (GoTo(w, "unheard") /\ UNCHANGED <<transfer, reversal>>)
    BY <1>1 DEF RecordReversal
  <2> QED
    BY <2>1, <2>2, PassedIs, GoToIs DEF RefundSteps
<1>2. CASE ParkReversal(w)
  <2>1. worker[w].step \in Answered /\ UNCHANGED <<refund, returned>> /\ Passed(w)
    BY <1>2 DEF ParkReversal, RefundAt, Answered
  <2> QED
    BY <2>1, PassedIs
<1> QED
  BY <1>1, <1>2 DEF Recording

LEMMA RecordingGives ==
    ASSUME Control, Gives, NEW w \in RefundWorkers, NEW r \in Refunds, Owns(w, r), Recording(w)
    PROVE  Gives'
<1> DEFINE i == NextPart(w)
<1>1. /\ Typed /\ worker[w].of = r /\ worker[w].step \in Answered /\ UNCHANGED <<refund, returned>>
      /\ PassedOn(w, r, i) \/ WentTo(w, "unheard")
  BY OwnerKnows, RecordingIs
<1>2. /\ Total(worker[w].plan) <= Amount[r]
      /\ \A j \in Parts : /\ returned[r][j] <= worker[w].plan[j]
                          /\ j \in worker[w].left \ {i} => returned[r][j] = 0
      /\ worker[w].left # {}
  BY <1>1 DEF Gives, WorkerGives, Untaken, Planned, Taking
<1>3. WorkerGives(w)'
  <2>1. CASE PassedOn(w, r, i)
    <3>1. worker'[w].step \notin {"take"} \cup Answered
      BY <2>1 DEF PassedOn, Answered
    <3>2. Untaken(w)' = worker[w].left \ {i}
      BY <2>1, <3>1 DEF PassedOn, Untaken
    <3> QED
      BY <1>1, <1>2, <2>1, <3>1, <3>2 DEF WorkerGives, PassedOn
  <2>2. CASE WentTo(w, "unheard")
    <3>1. /\ worker'[w].of = r /\ worker'[w].plan = worker[w].plan
          /\ worker'[w].left = worker[w].left /\ worker'[w].step \in Answered
      BY <1>1, <2>2 DEF WentTo, Answered
    <3>2. Untaken(w)' = worker[w].left \ {i}
      BY <3>1 DEF Untaken, NextPart
    <3> QED
      BY <1>1, <1>2, <3>1, <3>2 DEF WorkerGives
  <2> QED
    BY <1>1, <2>1, <2>2
<1>4. OthersStay(w)
  BY <1>1 DEF PassedOn, WentTo
<1>5. \A v \in RefundWorkers : WorkerGives(v)'
  <2> SUFFICES ASSUME NEW v \in RefundWorkers, v # w PROVE WorkerGives(v)'
    BY <1>3
  <2> QED
    BY <1>1, <1>4, StandingGives DEF Gives, OthersStay
<1> QED
  BY <1>1, <1>5 DEF Gives, RowGives, NothingBack

\* The other steps of a handler carry its plan on, or drop it.
Carrying(w) == Plan(w) \/ RecordProvider(w) \/ StartReversal(w) \/ ReverseTransfer(w) \/ RecordReversal(w) \/ ParkReversal(w)

LEMMA HandlersCarryOn ==
    ASSUME Control, NEW w \in RefundWorkers, NEW r \in Refunds, Owns(w, r),
           Execution(w) \/ Verification(w), ~Carrying(w), ~Claim(w)
    PROVE  UNCHANGED returned /\ KnownStays /\ PlansStay
<1>1. /\ Typed /\ worker[w].of = r /\ refund[r] \in RefundRow
  BY OwnerKnows
<1> USE DEF RefundAt
<1>2. CASE Reserve(w)
  <2>1. CASE GoTo(w, "mark") /\ UNCHANGED refund
    BY <1>1, <1>2, <2>1, GoingStays, UnwrittenStaysKnown DEF Reserve, Planned, Taking, Answered
  <2>2. CASE Done(w) /\ SetRefund(r, [refund[r] EXCEPT !.status = "APPROVED", !.locked = "no"])
    <3>1. KnownStays
      BY <1>1, <2>2 DEF Typed, RefundRow, SetRefund, KnownStays
    <3> QED
      BY <1>1, <1>2, <2>2, <3>1, DoneStays DEF Reserve
  <2> QED
    BY <1>1, <1>2, <2>1, <2>2 DEF Reserve
<1>3. CASE MarkReserved(w)
  <2>1. SetRefund(r, [refund[r] EXCEPT !.reserved = TRUE])
    BY <1>1, <1>3 DEF MarkReserved, SetRefund
  <2> QED
    BY <1>1, <1>3, <2>1, GoingStays, WrittenStaysKnown, RowKeepsKnown
       DEF MarkReserved, Planned, Calling, Taking, Answered
<1>4. CASE Adopt(w)
  <2>1. GoTo(w, "record") \/ GoTo(w, "call")
    BY <1>4 DEF Adopt
  <2> QED
    BY <1>1, <1>4, <2>1, GoingStays, UnwrittenStaysKnown DEF Adopt, Planned, Calling, Taking, Answered
<1>5. CASE CallProvider(w)
  <2>1. GoTo(w, "record") \/ GoTo(w, "unknown") \/ GoTo(w, "release")
    BY <1>5 DEF CallProvider
  <2> QED
    BY <1>1, <1>5, <2>1, GoingStays, UnwrittenStaysKnown DEF CallProvider, Planned, Calling, Taking, Answered
<1>6. CASE HoldForVerification(w)
  <2>1. /\ SetRefund(r, [refund[r] EXCEPT !.status = "PENDING_VERIFICATION", !.locked = "no"])
        /\ Done(w) /\ UNCHANGED returned
    BY <1>1, <1>6 DEF HoldForVerification
  <2>2. KnownStays
    BY <1>1, <2>1 DEF Typed, RefundRow, SetRefund, KnownStays
  <2> QED
    BY <1>1, <2>1, <2>2, DoneStays
<1>7. CASE ReleaseCapacity(w)
  BY <1>1, <1>7, GoingStays, UnwrittenStaysKnown DEF ReleaseCapacity, Planned, Calling, Taking, Answered
<1>8. CASE FailRefund(w)
  <2>1. /\ SetRefund(r, [refund[r] EXCEPT !.status = "FAILED", !.locked = "no", !.reserved = FALSE])
        /\ Done(w) /\ UNCHANGED returned
    BY <1>1, <1>8 DEF FailRefund
  <2>2. KnownStays
    BY <1>1, <2>1 DEF Typed, RefundRow, SetRefund, KnownStays
  <2> QED
    BY <1>1, <2>1, <2>2, DoneStays
<1>9. CASE BeginBooking(w)
  BY <1>1, <1>9, GoingStays, UnwrittenStaysKnown DEF BeginBooking, Planned, Calling, Taking, Answered
<1>10. CASE ReadForBooking(w)
  <2>1. CASE Done(w)
    BY <1>1, <1>10, <2>1, LeavingStays, IdleHasNoPlan, UnwrittenStaysKnown DEF ReadForBooking, Done
  <2>2. CASE worker' = [worker EXCEPT ![w].step = "confirm", ![w].row = refund[r]]
    <3>1. worker[w] \in WorkerState
      BY <1>1 DEF Typed
    <3>2. /\ worker'[w].step = "confirm" /\ OthersStay(w)
      BY <1>1, <2>2, <3>1 DEF Typed, WorkerState, OthersStay
    <3>3. PlansStay
      BY <3>2 DEF PlansStay, OthersStay, Planned, Calling, Taking, Answered
    <3> QED
      BY <1>1, <1>10, <3>3, UnwrittenStaysKnown DEF ReadForBooking
  <2> QED
    BY <1>1, <1>10, <2>1, <2>2 DEF ReadForBooking
<1>11. CASE ConfirmOnOrder(w)
  <2>1. Done(w) \/ GoTo(w, "settle")
    BY <1>11 DEF ConfirmOnOrder
  <2>2. PlansStay
    BY <1>1, <2>1, LeavingStays, IdleHasNoPlan, GoingStays DEF Done, Planned, Calling, Taking, Answered
  <2> QED
    BY <1>11, <2>2, UnwrittenStaysKnown DEF ConfirmOnOrder
<1>12. CASE SettleOrder(w)
  <2>1. SetRefund(r, [refund[r] EXCEPT !.confirmed = TRUE])
    BY <1>1, <1>12 DEF SettleOrder, SetRefund
  <2> QED
    BY <1>1, <1>12, <2>1, LeavingStays, IdleHasNoPlan, WrittenStaysKnown, RowKeepsKnown
       DEF SettleOrder, Done
<1>13. CASE AskForRefund(w)
  <2>1. GoTo(w, "missing") \/ GoTo(w, "found")
    BY <1>13 DEF AskForRefund
  <2> QED
    BY <1>1, <1>13, <2>1, GoingStays, UnwrittenStaysKnown DEF AskForRefund, Planned, Calling, Taking, Answered
<1>14. CASE ProviderUnreachable(w)
  BY <1>1, <1>14, LeavingStays, IdleHasNoPlan, UnwrittenStaysKnown DEF ProviderUnreachable, Done
<1>15. CASE AdoptVerified(w)
  <2>1. Done(w) \/ GoTo(w, "book")
    BY <1>15 DEF AdoptVerified
  <2>2. PlansStay
    BY <1>1, <2>1, LeavingStays, IdleHasNoPlan, GoingStays DEF Done, Planned, Calling, Taking, Answered
  <2> QED
    BY <1>1, <1>15, <2>2, WrittenStaysKnown, RowKeepsKnown DEF AdoptVerified
<1>16. CASE ReleaseVerified(w)
  BY <1>1, <1>16, GoingStays, UnwrittenStaysKnown DEF ReleaseVerified, Planned, Calling, Taking, Answered
<1>17. CASE FailVerified(w)
  <2>1. /\ SetRefund(r, [refund[r] EXCEPT !.status = "FAILED", !.locked = "no", !.reserved = FALSE])
        /\ Done(w) /\ UNCHANGED returned
    BY <1>1, <1>17 DEF FailVerified
  <2>2. KnownStays
    BY <1>1, <2>1 DEF Typed, RefundRow, SetRefund, KnownStays
  <2> QED
    BY <1>1, <2>1, <2>2, DoneStays
<1> QED
  BY <1>2, <1>3, <1>4, <1>5, <1>6, <1>7, <1>8, <1>9, <1>10, <1>11, <1>12, <1>13, <1>14, <1>15,
     <1>16, <1>17 DEF Execution, Verification, Carrying

LEMMA ClaimCarriesOn ==
    ASSUME Control, NEW w \in RefundWorkers, Claim(w)
    PROVE  UNCHANGED returned /\ KnownStays /\ PlansStay
<1>1. Typed /\ WorkerAgrees(w) /\ worker[w].step = "claim" /\ UNCHANGED returned
  BY DEF Control, Claim, RefundAt
<1>2. PICK r \in Refunds : r = worker[w].of
  BY <1>1 DEF WorkerAgrees
<1>3. refund[r] \in RefundRow
  BY <1>1, RowType
<1>4. CASE Claimable(w)
  <2>1. SetRefund(r, [refund[r] EXCEPT !.status = "PROCESSING", !.locked = "fresh"]) /\ GoTo(w, "plan")
    BY <1>2, <1>4 DEF Claim
  <2>2. PlansStay
    BY <1>1, <2>1, GoingStays DEF Planned, Calling, Taking, Answered
  <2>3. KnownStays
    BY <1>1, <2>1 DEF Typed, RefundRow, SetRefund, KnownStays
  <2> QED
    BY <1>1, <2>2, <2>3
<1>5. CASE ~Claimable(w)
  BY <1>1, <1>5, LeavingStays, IdleHasNoPlan, UnwrittenStaysKnown DEF Claim, Done
<1> QED
  BY <1>4, <1>5

LEMMA HandlersOwn ==
    ASSUME NEW w \in RefundWorkers, Execution(w) \/ Verification(w), ~Claim(w)
    PROVE  worker[w].step \in Owning
<1> USE DEF RefundAt, Owning, Beginning, Calling, Verifying, Settling
<1>1. CASE Execution(w)
  <2>1. CASE Plan(w) \/ Reserve(w) \/ MarkReserved(w) \/ Adopt(w) \/ CallProvider(w)
    BY <2>1 DEF Plan, Reserve, MarkReserved, Adopt, CallProvider
  <2>2. CASE HoldForVerification(w) \/ ReleaseCapacity(w) \/ FailRefund(w) \/ RecordProvider(w)
    BY <2>2 DEF HoldForVerification, ReleaseCapacity, FailRefund, RecordProvider
  <2>3. CASE \/ StartReversal(w) \/ ReverseTransfer(w) \/ RecordReversal(w) \/ ParkReversal(w) \/ BeginBooking(w) \/ ReadForBooking(w)
             \/ ConfirmOnOrder(w) \/ SettleOrder(w)
    BY <2>3 DEF StartReversal, ReverseTransfer, RecordReversal, ParkReversal, Passed, BeginBooking, ReadForBooking, ConfirmOnOrder,
       SettleOrder
  <2> QED
    BY <1>1, <2>1, <2>2, <2>3 DEF Execution
<1>2. CASE Verification(w)
  BY <1>2 DEF Verification, AskForRefund, ProviderUnreachable, AdoptVerified,
     ReleaseVerified, FailVerified, ReadForBooking, ConfirmOnOrder, SettleOrder
<1> QED
  BY <1>1, <1>2

LEMMA HandlersGive ==
    ASSUME Control, Gives, NEW w \in RefundWorkers, Execution(w) \/ Verification(w)
    PROVE  Gives'
<1>1. CASE Claim(w)
  BY <1>1, ClaimCarriesOn, StaysGiven
<1>2. CASE ~Claim(w)
  <2>1. worker[w].step \in Owning
    BY <1>2, HandlersOwn
  <2>2. PICK r \in Refunds : Owns(w, r)
    BY <2>1, ActsAsOwner
  <2>3. CASE Carrying(w)
    BY <2>2, <2>3, PlanGives, RecordProviderGives, StartReversalGives,
       ReverseTransferGives, RecordingGives DEF Carrying, Recording
  <2>4. CASE ~Carrying(w)
    BY <1>2, <2>2, <2>4, HandlersCarryOn, StaysGiven
  <2> QED
    BY <2>3, <2>4
<1> QED
  BY <1>1, <1>2

LEMMA ApproveGives ==
    ASSUME Control, Gives, NEW w \in RefundWorkers, Approve(w)
    PROVE  Gives'
<1>1. Typed /\ WorkerAgrees(w) /\ worker[w].step = "approve" /\ UNCHANGED returned
  BY DEF Control, Approve, RefundAt
<1>2. PICK r \in Refunds : r = worker[w].of
  BY <1>1 DEF WorkerAgrees
<1>3. SetRefund(r, [refund[r] EXCEPT !.status = "APPROVED"]) /\ refund[r] \in RefundRow
  BY <1>1, <1>2, RowType DEF Approve, SetRefund
<1>4. KnownStays
  BY <1>1, <1>3, WrittenStaysKnown, RowKeepsKnown
<1>5. PlansStay
  BY <1>1, LeavingStays, IdleHasNoPlan DEF Approve, Done
<1> QED
  BY <1>1, <1>4, <1>5, StaysGiven

LEMMA RowStepGives ==
    ASSUME Control, Gives, NEW r \in Refunds,
           Request(r) \/ ProviderSettles(r) \/ OnRefund(r) \/ LockGoesStale(r)
    PROVE  Gives'
<1>1. Typed /\ RowAgrees(r) /\ refund[r] \in RefundRow
  BY RowType DEF Control
<1>2. UNCHANGED <<returned, worker>>
  BY DEF Request, ProviderSettles, OnRefund, LockGoesStale
<1>3. KnownStays
  <2>1. CASE Request(r)
    <3>1. ~refund[r].known
      BY <1>1, <2>1 DEF Request, RowAgrees, Untouched
    <3> QED
      BY <1>1, <2>1, <3>1, WrittenStaysKnown DEF Request
  <2>2. CASE ProviderSettles(r)
    BY <2>2, UnwrittenStaysKnown DEF ProviderSettles
  <2>3. CASE OnRefund(r)
    <3>1. PICK status : SetRefund(r, [refund[r] EXCEPT !.status = status])
      BY <2>3 DEF OnRefund
    <3> QED
      BY <1>1, <3>1, WrittenStaysKnown, RowKeepsKnown
  <2>4. CASE LockGoesStale(r)
    <3>1. SetRefund(r, [refund[r] EXCEPT !.locked = "stale"])
      BY <2>4 DEF LockGoesStale, SetRefund
    <3> QED
      BY <1>1, <3>1, WrittenStaysKnown, RowKeepsKnown
  <2> QED
    BY <2>1, <2>2, <2>3, <2>4
<1> QED
  BY <1>2, <1>3, StandingStays, StaysGiven

LEMMA GivesStep ==
    ASSUME Control, Gives, [RefundsNext]_refundVars
    PROVE  Gives'
<1>1. CASE \E r \in Refunds : Request(r) \/ ProviderSettles(r) \/ OnRefund(r) \/ LockGoesStale(r)
  BY <1>1, RowStepGives
<1>2. Typed
  BY DEF Control
<1>3. ASSUME NEW w \in Approvers, NEW r \in Refunds, StartApprove(w, r) PROVE Gives'
  <2>1. w \in RefundWorkers
    BY RefundAmountsAssumption DEF RefundWorkers
  <2>2. PlansStay
    BY <1>2, <1>3, <2>1, LeavingStays, IdleHasNoPlan DEF StartApprove, Planned, Calling, Taking, Answered
  <2> QED
    BY <1>3, <2>2, UnwrittenStaysKnown, StaysGiven DEF StartApprove
<1>4. ASSUME NEW w \in Executors, NEW r \in Refunds, StartExecute(w, r) PROVE Gives'
  <2>1. PlansStay
    BY <1>2, <1>4, LeavingStays, IdleHasNoPlan
       DEF RefundWorkers, StartExecute, Planned, Calling, Taking, Answered
  <2> QED
    BY <1>4, <2>1, UnwrittenStaysKnown, StaysGiven DEF StartExecute
<1>5. ASSUME NEW w \in Reconcilers, NEW r \in Refunds, VerifyRefund(w, r) PROVE Gives'
  <2>1. PlansStay
    BY <1>2, <1>5, LeavingStays, IdleHasNoPlan
       DEF RefundWorkers, VerifyRefund, Planned, Calling, Taking, Answered
  <2> QED
    BY <1>5, <2>1, UnwrittenStaysKnown, StaysGiven DEF VerifyRefund
<1>6. CASE \E w \in Executors : Approve(w) \/ Execution(w)
  BY <1>6, ApproveGives, HandlersGive DEF RefundWorkers
<1>7. CASE \E w \in Reconcilers : Verification(w)
  BY <1>7, HandlersGive DEF RefundWorkers
<1>8. ASSUME NEW w \in RefundWorkers, WorkerDies(w) PROVE Gives'
  <2>1. PlansStay
    BY <1>2, <1>8, LeavingStays, IdleHasNoPlan DEF WorkerDies, Done
  <2> QED
    BY <1>8, <2>1, UnwrittenStaysKnown, StaysGiven DEF WorkerDies
<1>9. CASE UNCHANGED refundVars
  BY <1>9, UnwrittenStaysKnown, StandingStays, StaysGiven DEF refundVars
<1> QED
  BY <1>1, <1>3, <1>4, <1>5, <1>6, <1>7, <1>8, <1>9 DEF RefundsNext

LEMMA GivesStarts == RefundsInit => Gives
<1> SUFFICES ASSUME RefundsInit PROVE Gives
  OBVIOUS
<1> DEFINE none == [i \in Parts |-> 0]
<1>1. none \in Plans /\ \A i \in Parts : none[i] = 0
  BY DEF Plans
<1>2. \A r \in Refunds : returned[r] = none
  BY DEF RefundsInit
<1> HIDE DEF none
<1>3. Total(none) = 0
  BY <1>1, PlansSum
<1>4. \A r \in Refunds : RowGives(r)
  BY <1>1, <1>2, <1>3, RefundAmountsAssumption DEF RowGives, NothingBack
<1>5. \A w \in RefundWorkers : worker[w].step = "idle"
  BY IdleType DEF RefundsInit
<1>6. \A w \in RefundWorkers : WorkerGives(w)
  BY <1>5 DEF WorkerGives, Planned, Calling, Taking, Answered
<1> QED
  BY <1>4, <1>6 DEF Gives

\* executeReversals(): for one refund the partners never give back more than the refund is
\* worth, however its execution is retried: its plan is within its amount, and once the
\* provider is on record nobody executes the refund anew.
THEOREM NoMoreThanTheRefund ==
    ASSUME OneAtATime, CallsEnd, ProviderKeepsItsWord
    PROVE  RefundsSpec => []GivenOncePerRefund
<1>1. Control /\ Gives /\ [RefundsNext]_refundVars => Gives'
  BY GivesStep
<1>2. Gives => GivenOncePerRefund
  BY DEF Gives, RowGives, GivenOncePerRefund
<1> QED
  BY <1>1, <1>2, GivesStarts, ControlHolds, PTL DEF RefundsSpec

-------------------------------------------------------------------------------
(***************************************************************************)
(* One partner over all refunds                                            *)
(***************************************************************************)
\* The reconciliation releases what the rows of the first plan say, not what was
\* reserved for the last. With one transfer a later plan differs only where the transfer
\* has less left than the first plan asked, and then the release is refused; with two
\* it differs by rounding, too, and capacity of another refund is released.
OnePartner == \A i, j \in Parts : i = j

\* The steps at which a worker has a plan nothing is reserved for, and those at which it has
\* the reservation in hand.
Drafting == {"reserve", "mark"}
HoldingSteps == {"mark", "adopt", "call", "unknown", "release", "record", "reverse", "take"}
Staked == HoldingSteps \cup Drafting \cup {"taken"}
HoldsPart(w, i) == worker[w].step \in HoldingSteps /\ (worker[w].step \in Taking => i \in worker[w].left)

\* What the reconciliation would release for a refund, whether the transfer has it, and
\* whether it would release for it at all.
Open(row) == IF row.status \in {"PENDING", "PENDING_VERIFICATION"} THEN row.amount ELSE 0
Fits(i, amount) == transfer[i].reversed + amount <= Transferred[i]
Unanswered(r) == refund[r].reserved /\ ~refund[r].known /\ ~On(r, "fail") /\ ~On(r, "forget")

Back(i) == Total([r \in Refunds |-> returned[r][i]])

\* What is reserved on a transfer covers what the refunds will take or release, f of them,
\* and what has gone back and is not written down, out of them: the answer is not recorded
\* yet, it was not heard, or the worker that heard it is dead.
OwedByRow(r, i, f) ==
    LET open == Open(reversal[r][i]) IN
    ~refund[r].known => /\ open <= Amount[r]
                        /\ Unanswered(r) /\ Fits(i, open) => open <= f[r]
OwedByWorker(w, i, f) ==
    LET open == Open(reversal[worker[w].of][i]) IN
    /\ worker[w].step \in Drafting /\ Fits(i, open) => open <= worker[w].plan[i]
    /\ HoldsPart(w, i) => worker[w].plan[i] <= f[worker[w].of]
OutByWorker(w, i, out) ==
    worker[w].step = "taken" => worker[w].plan[i] <= out[worker[w].of]
Covered(i, f, out) ==
    /\ transfer[i].reversed + transfer[i].reserved <= Transferred[i]
    /\ Back(i) = transfer[i].reversed + SumFunctionOnSet(out, Refunds)
    /\ SumFunctionOnSet(f, Refunds) + SumFunctionOnSet(out, Refunds) <= transfer[i].reserved
Owing(i, f, out) ==
    /\ Covered(i, f, out)
    /\ \A r \in Refunds : OwedByRow(r, i, f)
    /\ \A w \in RefundWorkers : OwedByWorker(w, i, f) /\ OutByWorker(w, i, out)
Shares == [Refunds -> Nat]
Owes == \A i \in Parts : \E f \in Shares, out \in Shares : Owing(i, f, out)

\* A step that neither reserves nor releases: a worker that has something in hand
\* had it before, and nobody else comes under the reconciliation.
StakesStay ==
    \A w \in RefundWorkers :
        /\ worker'[w].step \in Staked =>
              /\ worker'[w].of = worker[w].of /\ worker'[w].plan = worker[w].plan
              /\ worker'[w].left = worker[w].left
        /\ worker'[w].step \in HoldingSteps =>
              /\ worker[w].step \in HoldingSteps
              /\ worker[w].step \in Taking <=> worker'[w].step \in Taking
        /\ worker'[w].step \in Drafting => worker[w].step \in Drafting
        /\ worker'[w].step = "taken" => worker[w].step = "taken"
UnansweredStays == \A r \in Refunds : Unanswered(r)' => Unanswered(r)

LEMMA OwingStays ==
    ASSUME NEW i \in Parts, NEW f \in Shares, NEW out \in Shares, Owing(i, f, out),
           UNCHANGED <<transfer, reversal, returned>>, KnownStays, StakesStay, UnansweredStays
    PROVE  Owing(i, f, out)'
<1>2. \A r \in Refunds : OwedByRow(r, i, f)'
  BY DEF Owing, OwedByRow, KnownStays, UnansweredStays, Fits
<1>3. \A w \in RefundWorkers : OwedByWorker(w, i, f)'
  <2> SUFFICES ASSUME NEW w \in RefundWorkers PROVE OwedByWorker(w, i, f)'
    OBVIOUS
  <2>1. OwedByWorker(w, i, f)
    BY DEF Owing
  <2>2. worker'[w].step \in Drafting /\ Fits(i, Open(reversal[worker'[w].of][i]))
          => Open(reversal[worker'[w].of][i]) <= worker'[w].plan[i]
    BY <2>1 DEF OwedByWorker, StakesStay, Staked
  <2>3. HoldsPart(w, i)' => worker'[w].plan[i] <= f[worker'[w].of]
    BY <2>1 DEF OwedByWorker, StakesStay, Staked, HoldsPart
  <2> QED
    BY <2>2, <2>3 DEF OwedByWorker, Fits
<1>4. \A w \in RefundWorkers : OutByWorker(w, i, out)'
  BY DEF Owing, OutByWorker, StakesStay, Staked
<1> QED
  BY <1>2, <1>3, <1>4 DEF Owing, Covered, Back

LEMMA OwesStay ==
    ASSUME Owes, UNCHANGED <<transfer, reversal, returned>>, KnownStays, StakesStay, UnansweredStays
    PROVE  Owes'
<1> SUFFICES ASSUME NEW i \in Parts PROVE \E f \in Shares, out \in Shares : Owing(i, f, out)'
  BY DEF Owes
<1>1. PICK f \in Shares, out \in Shares : Owing(i, f, out)
  BY DEF Owes
<1> QED
  BY <1>1, OwingStays

\* A worker goes to a step where it reserves nothing new, or drops what it had.
LEMMA GoingKeepsStakes ==
    ASSUME Typed, NEW w \in RefundWorkers, NEW step, GoTo(w, step), step \notin Drafting \cup Taking,
           step \in HoldingSteps => worker[w].step \in HoldingSteps \ Taking
    PROVE  StakesStay
BY DEF Typed, WorkerState, GoTo, StakesStay, Staked, Taking, Answered

LEMMA LeavingKeepsStakes ==
    ASSUME Typed, NEW w \in RefundWorkers, NEW job, job.step \notin Staked,
           worker' = [worker EXCEPT ![w] = job]
    PROVE  StakesStay
BY DEF Typed, WorkerState, StakesStay, Staked

LEMMA StandingKeepsStakes == UNCHANGED worker => StakesStay
BY DEF StakesStay

LEMMA IdleHasNoStake ==
    \A step, r, row : step \notin Staked =>
         /\ Idle.step \notin Staked
         /\ [Idle EXCEPT !.step = step, !.of = r].step \notin Staked
         /\ [Idle EXCEPT !.step = step, !.of = r, !.row = row].step \notin Staked
BY DEF Idle, Staked, HoldingSteps, Drafting, Taking, Answered

LEMMA DoneKeepsStakes ==
    ASSUME Typed, NEW w \in RefundWorkers, Done(w)
    PROVE  StakesStay
<1>1. Idle.step \notin Staked
  BY DEF Idle, Staked, HoldingSteps, Drafting, Taking, Answered
<1> QED
  BY <1>1, LeavingKeepsStakes DEF Done

\* Who is about to write that nothing is reserved any more goes on to do so.
LEMMA QuietWorkerAnswers ==
    ASSUME NEW w \in RefundWorkers, OthersStay(w), worker[w].step \notin {"fail", "forget"},
           \A r \in Refunds : refund[r].known => refund'[r].known,
           \A r \in Refunds : refund'[r].reserved /\ ~refund'[r].known => refund[r].reserved
    PROVE  UnansweredStays
<1> SUFFICES ASSUME NEW r \in Refunds, Unanswered(r)' PROVE Unanswered(r)
  BY DEF UnansweredStays
<1>1. \A step \in {"fail", "forget"} : On(r, step) => On(r, step)'
  BY DEF On, OthersStay, RefundAt
<1> QED
  BY <1>1 DEF Unanswered

LEMMA QuietRowsAnswer ==
    ASSUME UNCHANGED worker,
           \A r \in Refunds : refund[r].known => refund'[r].known,
           \A r \in Refunds : refund'[r].reserved /\ ~refund'[r].known => refund[r].reserved
    PROVE  UnansweredStays
BY DEF UnansweredStays, Unanswered, On, RefundAt

\* What is written into a row does not put it under the reconciliation.
ReservedStays == \A r \in Refunds : refund'[r].reserved /\ ~refund'[r].known => refund[r].reserved

LEMMA WrittenStaysReserved ==
    ASSUME Typed, NEW r \in Refunds, NEW row, SetRefund(r, row),
           row.reserved /\ ~row.known => refund[r].reserved
    PROVE  ReservedStays
BY DEF Typed, SetRefund, ReservedStays

LEMMA RowKeepsReserved ==
    ASSUME NEW row \in RefundRow, NEW s, NEW l
    PROVE  /\ [row EXCEPT !.status = s, !.locked = l].reserved = row.reserved
           /\ ~[row EXCEPT !.status = s, !.locked = l, !.reserved = FALSE].reserved
           /\ [row EXCEPT !.status = s, !.locked = l, !.known = TRUE].known
           /\ [row EXCEPT !.status = s].reserved = row.reserved
           /\ [row EXCEPT !.locked = l].reserved = row.reserved
           /\ [row EXCEPT !.confirmed = TRUE].reserved = row.reserved
BY DEF RefundRow

\* Nothing moves on the transfers, and nobody's stake in them grows.
Quietly ==
    /\ UNCHANGED <<transfer, reversal, returned>>
    /\ KnownStays /\ StakesStay /\ UnansweredStays

LEMMA RowForgotten ==
    ASSUME Typed, NEW w \in RefundWorkers, NEW r \in Refunds, worker[w].of = r, NEW row,
           SetRefund(r, row), ~row.reserved, Done(w)
    PROVE  UnansweredStays
<1> SUFFICES ASSUME NEW q \in Refunds, Unanswered(q)' PROVE Unanswered(q)
  BY DEF UnansweredStays
<1>1. refund'[r] = row /\ \A p \in Refunds : p # r => refund'[p] = refund[p]
  BY DEF Typed, SetRefund
<1>2. q # r
  BY <1>1 DEF Unanswered
<1>3. \A v \in RefundWorkers : v # w => worker'[v] = worker[v]
  BY DEF Typed, Done
<1>4. \A step : On(q, step) => On(q, step)'
  BY <1>2, <1>3 DEF On, RefundAt
<1> QED
  BY <1>1, <1>2, <1>4 DEF Unanswered

\* The steps of a handler that move nothing.
Moving(w) ==
    \/ Plan(w) \/ Reserve(w) \/ MarkReserved(w) \/ ReleaseCapacity(w) \/ RecordProvider(w)
    \/ StartReversal(w) \/ ReverseTransfer(w) \/ RecordReversal(w) \/ ParkReversal(w) \/ ReleaseVerified(w)

LEMMA HandlersMoveNothing ==
    ASSUME Control, NEW w \in RefundWorkers, NEW r \in Refunds, Owns(w, r),
           Execution(w) \/ Verification(w), ~Moving(w), ~Claim(w)
    PROVE  Quietly
<1>1. /\ Typed /\ worker[w].of = r /\ refund[r] \in RefundRow
  BY OwnerKnows
<1>2. KnownStays /\ UNCHANGED returned
  <2>1. ~Carrying(w)
    BY DEF Carrying, Moving
  <2> QED
    BY <2>1, HandlersCarryOn
<1>3. \A q \in Refunds : refund[q].known => refund'[q].known
  BY <1>2 DEF KnownStays
<1>4. UNCHANGED refund => ReservedStays
  BY DEF ReservedStays
<1>5. ASSUME UNCHANGED <<transfer, reversal>>, StakesStay, ReservedStays, OthersStay(w),
             worker[w].step \notin {"fail", "forget"}
      PROVE  Quietly
  <2>1. UnansweredStays
    BY <1>3, <1>5, QuietWorkerAnswers DEF ReservedStays
  <2> QED
    BY <1>2, <1>5, <2>1 DEF Quietly
<1>6. ASSUME NEW step, GoTo(w, step) PROVE OthersStay(w)
  BY <1>1, <1>6 DEF Typed, GoTo, OthersStay
<1>7. Done(w) => OthersStay(w)
  BY <1>1 DEF Typed, Done, OthersStay
<1> USE DEF RefundAt
<1>8. CASE Adopt(w)
  <2>1. GoTo(w, "record") \/ GoTo(w, "call")
    BY <1>8 DEF Adopt
  <2>2. StakesStay
    BY <1>1, <1>8, <2>1, GoingKeepsStakes DEF Adopt, Staked, HoldingSteps, Drafting, Taking, Answered
  <2> QED
    BY <1>4, <1>5, <1>6, <1>8, <2>1, <2>2 DEF Adopt
<1>9. CASE CallProvider(w)
  <2>1. GoTo(w, "record") \/ GoTo(w, "unknown") \/ GoTo(w, "release")
    BY <1>9 DEF CallProvider
  <2>2. StakesStay
    BY <1>1, <1>9, <2>1, GoingKeepsStakes DEF CallProvider, Staked, HoldingSteps, Drafting, Taking, Answered
  <2> QED
    BY <1>4, <1>5, <1>6, <1>9, <2>1, <2>2 DEF CallProvider
<1>10. CASE HoldForVerification(w)
  <2>1. /\ SetRefund(r, [refund[r] EXCEPT !.status = "PENDING_VERIFICATION", !.locked = "no"])
        /\ Done(w) /\ UNCHANGED <<transfer, reversal>> /\ worker[w].step = "unknown"
    BY <1>1, <1>10 DEF HoldForVerification
  <2>2. ReservedStays
    BY <1>1, <2>1 DEF Typed, RefundRow, SetRefund, ReservedStays
  <2> QED
    BY <1>1, <1>5, <1>7, <2>1, <2>2, DoneKeepsStakes
<1>11. CASE FailRefund(w)
  <2>1. /\ SetRefund(r, [refund[r] EXCEPT !.status = "FAILED", !.locked = "no", !.reserved = FALSE])
        /\ Done(w) /\ UNCHANGED <<transfer, reversal>>
    BY <1>1, <1>11 DEF FailRefund
  <2>2. UnansweredStays
    BY <1>1, <2>1, RowForgotten, RowKeepsReserved
  <2> QED
    BY <1>1, <1>2, <2>1, <2>2, DoneKeepsStakes DEF Quietly
<1>12. CASE FailVerified(w)
  <2>1. /\ SetRefund(r, [refund[r] EXCEPT !.status = "FAILED", !.locked = "no", !.reserved = FALSE])
        /\ Done(w) /\ UNCHANGED <<transfer, reversal>>
    BY <1>1, <1>12 DEF FailVerified
  <2>2. UnansweredStays
    BY <1>1, <2>1, RowForgotten, RowKeepsReserved
  <2> QED
    BY <1>1, <1>2, <2>1, <2>2, DoneKeepsStakes DEF Quietly
<1>13. CASE BeginBooking(w)
  <2>1. StakesStay
    BY <1>1, <1>13, GoingKeepsStakes DEF BeginBooking, Staked, HoldingSteps, Drafting, Taking, Answered
  <2> QED
    BY <1>4, <1>5, <1>6, <1>13, <2>1 DEF BeginBooking
<1>14. CASE ReadForBooking(w)
  <2>1. CASE Done(w)
    BY <1>1, <1>4, <1>5, <1>7, <1>14, <2>1, DoneKeepsStakes DEF ReadForBooking
  <2>2. CASE worker' = [worker EXCEPT ![w].step = "confirm", ![w].row = refund[r]]
    <3>1. worker'[w].step = "confirm" /\ OthersStay(w)
      <4>1. worker[w] \in WorkerState
        BY <1>1 DEF Typed
      <4> QED
        BY <1>1, <2>2, <4>1 DEF Typed, WorkerState, OthersStay
    <3>2. StakesStay
      BY <3>1 DEF StakesStay, OthersStay, Staked, HoldingSteps, Drafting, Taking, Answered
    <3> QED
      BY <1>4, <1>5, <1>14, <3>1, <3>2 DEF ReadForBooking
  <2> QED
    BY <1>1, <1>14, <2>1, <2>2 DEF ReadForBooking
<1>15. CASE ConfirmOnOrder(w)
  <2>1. Done(w) \/ GoTo(w, "settle")
    BY <1>15 DEF ConfirmOnOrder
  <2>2. StakesStay /\ OthersStay(w)
    BY <1>1, <1>6, <1>7, <2>1, DoneKeepsStakes, GoingKeepsStakes DEF Staked, HoldingSteps, Drafting, Taking, Answered
  <2> QED
    BY <1>4, <1>5, <1>15, <2>2 DEF ConfirmOnOrder
<1>16. CASE SettleOrder(w)
  <2>1. SetRefund(r, [refund[r] EXCEPT !.confirmed = TRUE]) /\ Done(w) /\ worker[w].step = "settle"
    BY <1>1, <1>16 DEF SettleOrder, SetRefund
  <2>2. ReservedStays
    <3>1. [refund[r] EXCEPT !.confirmed = TRUE].reserved = refund[r].reserved
      BY <1>1, RowKeepsReserved
    <3> QED
      BY <1>1, <2>1, <3>1, WrittenStaysReserved
  <2> QED
    BY <1>1, <1>5, <1>7, <1>16, <2>1, <2>2, DoneKeepsStakes DEF SettleOrder
<1>17. CASE AskForRefund(w)
  <2>1. GoTo(w, "missing") \/ GoTo(w, "found")
    BY <1>17 DEF AskForRefund
  <2>2. StakesStay
    BY <1>1, <1>17, <2>1, GoingKeepsStakes DEF Staked, HoldingSteps, Drafting, Taking, Answered
  <2> QED
    BY <1>4, <1>5, <1>6, <1>17, <2>1, <2>2 DEF AskForRefund
<1>18. CASE ProviderUnreachable(w)
  BY <1>1, <1>4, <1>5, <1>7, <1>18, DoneKeepsStakes DEF ProviderUnreachable
<1>19. CASE AdoptVerified(w)
  <2>1. Done(w) \/ GoTo(w, "book")
    BY <1>19 DEF AdoptVerified
  <2>2. StakesStay /\ OthersStay(w)
    BY <1>1, <1>6, <1>7, <2>1, DoneKeepsStakes, GoingKeepsStakes DEF Staked, HoldingSteps, Drafting, Taking, Answered
  <2>3. ReservedStays
    BY <1>1, <1>19, WrittenStaysReserved, RowKeepsReserved DEF AdoptVerified
  <2> QED
    BY <1>5, <1>19, <2>2, <2>3 DEF AdoptVerified
<1> QED
  BY <1>8, <1>9, <1>10, <1>11, <1>12, <1>13, <1>14, <1>15, <1>16, <1>17, <1>18, <1>19
     DEF Execution, Verification, Moving

LEMMA ClaimMovesNothing ==
    ASSUME Control, NEW w \in RefundWorkers, Claim(w)
    PROVE  Quietly
<1>1. /\ Typed /\ WorkerAgrees(w) /\ worker[w].step = "claim"
      /\ UNCHANGED <<transfer, reversal, returned>>
  BY DEF Control, Claim, RefundAt
<1>2. PICK r \in Refunds : r = worker[w].of
  BY <1>1 DEF WorkerAgrees
<1>3. refund[r] \in RefundRow
  BY <1>1, RowType
<1>4. OthersStay(w) /\ StakesStay /\ ReservedStays
  <2>1. CASE Claimable(w)
    <3>1. SetRefund(r, [refund[r] EXCEPT !.status = "PROCESSING", !.locked = "fresh"]) /\ GoTo(w, "plan")
      BY <1>2, <2>1 DEF Claim
    <3>2. OthersStay(w)
      BY <1>1, <3>1 DEF Typed, GoTo, OthersStay
    <3>4. StakesStay
      BY <1>1, <3>1, GoingKeepsStakes DEF Staked, HoldingSteps, Drafting, Taking, Answered
    <3>3. ReservedStays
      BY <1>1, <1>3, <3>1 DEF Typed, RefundRow, SetRefund, ReservedStays
    <3> QED
      BY <3>2, <3>3, <3>4
  <2>2. CASE ~Claimable(w)
    <3>1. Done(w) /\ UNCHANGED refund
      BY <2>2 DEF Claim
    <3> QED
      BY <1>1, <3>1, DoneKeepsStakes DEF Typed, Done, OthersStay, ReservedStays
  <2> QED
    BY <2>1, <2>2
<1>5. KnownStays
  BY ClaimCarriesOn
<1>6. UnansweredStays
  BY <1>1, <1>4, <1>5, QuietWorkerAnswers DEF KnownStays, ReservedStays
<1> QED
  BY <1>1, <1>4, <1>5, <1>6 DEF Quietly

LEMMA ApproveMovesNothing ==
    ASSUME Control, NEW w \in RefundWorkers, Approve(w)
    PROVE  Quietly
<1>1. /\ Typed /\ WorkerAgrees(w) /\ worker[w].step = "approve" /\ Done(w)
      /\ UNCHANGED <<transfer, reversal, returned>>
  BY DEF Control, Approve, RefundAt
<1>2. PICK r \in Refunds : r = worker[w].of
  BY <1>1 DEF WorkerAgrees
<1>3. SetRefund(r, [refund[r] EXCEPT !.status = "APPROVED"]) /\ refund[r] \in RefundRow
  BY <1>1, <1>2, RowType DEF Approve, SetRefund
<1>4. KnownStays
  BY <1>1, <1>3 DEF Typed, RefundRow, SetRefund, KnownStays
<1>5. ReservedStays
  BY <1>1, <1>3 DEF Typed, RefundRow, SetRefund, ReservedStays
<1>6. OthersStay(w) /\ StakesStay
  BY <1>1, DoneKeepsStakes DEF Typed, Done, OthersStay
<1>7. UnansweredStays
  BY <1>1, <1>4, <1>5, <1>6, QuietWorkerAnswers DEF KnownStays, ReservedStays
<1> QED
  BY <1>1, <1>4, <1>6, <1>7 DEF Quietly

LEMMA RowStepMovesNothing ==
    ASSUME Control, NEW r \in Refunds,
           Request(r) \/ ProviderSettles(r) \/ OnRefund(r) \/ LockGoesStale(r)
    PROVE  Quietly
<1>1. Typed /\ RowAgrees(r) /\ refund[r] \in RefundRow
  BY RowType DEF Control
<1>2. UNCHANGED <<transfer, reversal, returned, worker>>
  BY DEF Request, ProviderSettles, OnRefund, LockGoesStale
<1>3. KnownStays /\ ReservedStays
  <2>1. CASE Request(r)
    <3>1. ~refund[r].known
      BY <1>1, <2>1 DEF Request, RowAgrees, Untouched
    <3>2. ~[Idle.row EXCEPT !.status = "REQUESTED"].reserved
      BY DEF Idle
    <3> QED
      BY <1>1, <2>1, <3>1, <3>2, WrittenStaysKnown, WrittenStaysReserved DEF Request
  <2>2. CASE ProviderSettles(r)
    BY <2>2 DEF ProviderSettles, KnownStays, ReservedStays
  <2>3. CASE OnRefund(r)
    <3>1. PICK status : SetRefund(r, [refund[r] EXCEPT !.status = status])
      BY <2>3 DEF OnRefund
    <3> QED
      BY <1>1, <3>1 DEF Typed, RefundRow, SetRefund, KnownStays, ReservedStays
  <2>4. CASE LockGoesStale(r)
    <3>1. SetRefund(r, [refund[r] EXCEPT !.locked = "stale"])
      BY <2>4 DEF LockGoesStale, SetRefund
    <3> QED
      BY <1>1, <3>1 DEF Typed, RefundRow, SetRefund, KnownStays, ReservedStays
  <2> QED
    BY <2>1, <2>2, <2>3, <2>4
<1>4. UnansweredStays
  BY <1>2, <1>3, QuietRowsAnswer DEF KnownStays, ReservedStays
<1> QED
  BY <1>2, <1>3, <1>4, StandingKeepsStakes DEF Quietly

\* A worker takes a refund up, or leaves it, and nothing else changes.
LEMMA WorkerMovesNothing ==
    ASSUME Typed, NEW w \in RefundWorkers, NEW job, job.step \notin Staked,
           worker' = [worker EXCEPT ![w] = job], worker[w].step \notin {"fail", "forget"},
           UNCHANGED <<refund, transfer, reversal, returned>>
    PROVE  Quietly
<1>1. StakesStay
  BY LeavingKeepsStakes
<1>2. OthersStay(w)
  BY DEF Typed, OthersStay
<1>3. UnansweredStays
  BY <1>2, QuietWorkerAnswers
<1> QED
  BY <1>1, <1>3, UnwrittenStaysKnown DEF Quietly

LEMMA BeginningMovesNothing ==
    ASSUME Control, NEW w \in RefundWorkers, NEW r \in Refunds,
           StartApprove(w, r) \/ StartExecute(w, r) \/ VerifyRefund(w, r)
    PROVE  Quietly
<1>1. Typed
  BY DEF Control
<1>2. CASE StartApprove(w, r)
  BY <1>1, <1>2, IdleHasNoStake, WorkerMovesNothing
     DEF StartApprove, RefundAt, Staked, HoldingSteps, Drafting, Taking, Answered
<1>3. CASE StartExecute(w, r)
  BY <1>1, <1>3, IdleHasNoStake, WorkerMovesNothing
     DEF StartExecute, RefundAt, Staked, HoldingSteps, Drafting, Taking, Answered
<1>4. CASE VerifyRefund(w, r)
  BY <1>1, <1>4, IdleHasNoStake, WorkerMovesNothing
     DEF VerifyRefund, RefundAt, Staked, HoldingSteps, Drafting, Taking, Answered
<1> QED
  BY <1>2, <1>3, <1>4

LEMMA WorkerDiesMovesNothing ==
    ASSUME Control, WritesComplete, NEW w \in RefundWorkers, WorkerDies(w)
    PROVE  Quietly
<1>1. Typed /\ worker[w].step \notin {"fail", "forget"}
  BY DEF Control, WorkerDies, WritesComplete
<1>2. Idle.step \notin Staked
  BY DEF Idle, Staked, HoldingSteps, Drafting, Taking, Answered
<1> QED
  BY <1>1, <1>2, WorkerMovesNothing DEF WorkerDies, Done

\* The shares of a transfer, one by one and in all.
LEMMA SumOfShares ==
    ASSUME NEW f \in Shares
    PROVE  SumFunctionOnSet(f, Refunds) \in Nat
<1>1. \A r \in Refunds : f[r] \in Nat
  BY DEF Shares
<1> QED
  BY <1>1, SumIsNat, RefundAmountsAssumption

LEMMA SharesSum ==
    ASSUME NEW f \in Shares, NEW r \in Refunds, NEW n \in Nat
    PROVE  /\ f[r] \in Nat /\ SumFunctionOnSet(f, Refunds) \in Nat
           /\ f[r] <= SumFunctionOnSet(f, Refunds)
           /\ [f EXCEPT ![r] = n] \in Shares /\ [f EXCEPT ![r] = n][r] = n
           /\ \A q \in Refunds : q # r => [f EXCEPT ![r] = n][q] = f[q]
           /\ SumFunctionOnSet([f EXCEPT ![r] = n], Refunds) = SumFunctionOnSet(f, Refunds) - f[r] + n
<1> DEFINE g == [f EXCEPT ![r] = n]
           none == [f EXCEPT ![r] = 0]
<1>1. IsFiniteSet(Refunds)
  BY RefundAmountsAssumption
<1>2. /\ \A q \in Refunds : f[q] \in Nat /\ g[q] \in Nat /\ none[q] \in Nat
      /\ g[r] = n /\ none[r] = 0
      /\ \A q \in Refunds : q # r => g[q] = f[q] /\ none[q] = f[q]
      /\ g \in Shares
  BY DEF Shares
<1> HIDE DEF g, none
<1>3. SumFunctionOnSet(f, Refunds) \in Nat /\ SumFunctionOnSet(none, Refunds) \in Nat
  BY <1>1, <1>2, SumIsNat
<1>4. ChangesAt(Refunds, f, g, r) /\ ChangesAt(Refunds, f, none, r)
  BY <1>2 DEF ChangesAt
<1>5. /\ SumFunctionOnSet(g, Refunds) = SumFunctionOnSet(f, Refunds) - f[r] + n
      /\ SumFunctionOnSet(none, Refunds) = SumFunctionOnSet(f, Refunds) - f[r] + 0
  <2>1. /\ SumFunctionOnSet(g, Refunds) = SumFunctionOnSet(f, Refunds) - f[r] + g[r]
        /\ SumFunctionOnSet(none, Refunds) = SumFunctionOnSet(f, Refunds) - f[r] + none[r]
    BY <1>1, <1>4, SumWithOneChanged
  <2> QED
    BY <1>2, <2>1
<1>6. f[r] \in Nat /\ f[r] <= SumFunctionOnSet(f, Refunds)
  BY <1>2, <1>3, <1>5
<1> QED
  BY <1>2, <1>3, <1>5, <1>6 DEF g

\* What a transfer is, and what a refund has open on it, in numbers.
LEMMA StakesAreNumbers ==
    ASSUME Typed, NEW i \in Parts, NEW r \in Refunds
    PROVE  /\ transfer[i].reversed \in Nat /\ transfer[i].reserved \in Nat
           /\ Transferred[i] \in Nat /\ Amount[r] \in Nat
           /\ reversal[r][i] \in ReversalRow
           /\ Open(reversal[r][i]) \in Nat
<1>1. transfer[i] \in [reversed: Nat, reserved: Nat] /\ reversal[r] \in Reversals
  BY DEF Typed
<1>2. reversal[r][i] \in ReversalRow
  BY <1>1 DEF Reversals
<1>3. Amount[r] \in Nat
  BY RefundAmountsAssumption
<1> QED
  BY <1>1, <1>2, <1>3, PartsAreFinite DEF ReversalRow, Open

\* The owner of a refund touches that refund alone, and a transfer gives back more, not less.
OwnStep(w, r) ==
    /\ OthersStay(w)
    /\ \A q \in Refunds : q # r => refund'[q] = refund[q] /\ reversal'[q] = reversal[q]
ShareOnly(r, f, g) == \A q \in Refunds : q # r => g[q] = f[q]
GivesMore(i) == transfer[i].reversed <= transfer'[i].reversed

LEMMA OthersOwed ==
    ASSUME Typed, Typed', Control, NEW w \in RefundWorkers, NEW r \in Refunds, Owns(w, r), OwnStep(w, r),
           NEW i \in Parts, NEW f \in Shares, NEW g \in Shares, NEW out \in Shares, NEW now \in Shares,
           Owing(i, f, out), ShareOnly(r, f, g), ShareOnly(r, out, now), GivesMore(i)
    PROVE  /\ \A q \in Refunds : q # r => OwedByRow(q, i, g)'
           /\ \A v \in RefundWorkers : v # w => OwedByWorker(v, i, g)' /\ OutByWorker(v, i, now)'
<1>1. \A n \in Nat : transfer'[i].reversed + n <= Transferred[i] => Fits(i, n)
  <2>1. transfer[i] \in [reversed: Nat, reserved: Nat] /\ transfer'[i] \in [reversed: Nat, reserved: Nat]
    BY DEF Typed
  <2>2. transfer[i].reversed \in Nat /\ transfer'[i].reversed \in Nat /\ Transferred[i] \in Nat
    BY <2>1, PartsAreFinite
  <2> QED
    BY <2>2 DEF Fits, GivesMore
<1>2. \A q \in Refunds : Open(reversal[q][i]) \in Nat
  BY StakesAreNumbers
<1>3. ASSUME NEW q \in Refunds, q # r PROVE OwedByRow(q, i, g)'
  <2>1. refund'[q] = refund[q] /\ reversal'[q] = reversal[q] /\ g[q] = f[q]
    BY <1>3 DEF OwnStep, ShareOnly
  <2>2. OwedByRow(q, i, f)
    BY DEF Owing
  <2>3. Unanswered(q)' => Unanswered(q)
    <3>1. \A step : On(q, step) => On(q, step)'
      BY <1>3 DEF On, RefundAt, OwnStep, OthersStay, Owns
    <3> QED
      BY <2>1, <3>1 DEF Unanswered
  <2>4. Fits(i, Open(reversal[q][i]))' => Fits(i, Open(reversal[q][i]))
    BY <1>1, <1>2, <2>1 DEF Fits
  <2> QED
    BY <2>1, <2>2, <2>3, <2>4 DEF OwedByRow, Fits
<1>4. ASSUME NEW v \in RefundWorkers, v # w PROVE OwedByWorker(v, i, g)' /\ OutByWorker(v, i, now)'
  <2>1. worker'[v] = worker[v] /\ OwedByWorker(v, i, f) /\ OutByWorker(v, i, out)
    BY <1>4 DEF OwnStep, OthersStay, Owing
  <2>2. CASE worker[v].step \in Staked
    <3>1. worker[v].step \in Owning
      BY <2>2 DEF Staked, HoldingSteps, Drafting, Taking, Answered, Owning, Beginning, Calling, Settling
    <3>2. PICK q \in Refunds : q = worker[v].of /\ q # r
      BY <1>4, <3>1, ActsAsOwner DEF Control, OneOwner, Owns
    <3>3. reversal'[q] = reversal[q] /\ g[q] = f[q] /\ now[q] = out[q]
      BY <3>2 DEF OwnStep, ShareOnly
    <3>4. Fits(i, Open(reversal[q][i]))' => Fits(i, Open(reversal[q][i]))
      BY <1>1, <1>2, <3>3 DEF Fits
    <3> QED
      BY <2>1, <3>2, <3>3, <3>4 DEF OwedByWorker, OutByWorker, HoldsPart, Fits
  <2>3. CASE worker[v].step \notin Staked
    BY <2>1, <2>3 DEF OwedByWorker, OutByWorker, HoldsPart, Staked
  <2> QED
    BY <2>2, <2>3
<1> QED
  BY <1>3, <1>4

LEMMA OwingAfter ==
    ASSUME Control, Typed', NEW w \in RefundWorkers, NEW r \in Refunds, Owns(w, r), OwnStep(w, r),
           NEW i \in Parts, NEW f \in Shares, NEW g \in Shares, NEW out \in Shares, NEW now \in Shares,
           Owing(i, f, out), ShareOnly(r, f, g), ShareOnly(r, out, now), GivesMore(i),
           Covered(i, g, now)', OwedByRow(r, i, g)', OwedByWorker(w, i, g)', OutByWorker(w, i, now)'
    PROVE  Owing(i, g, now)'
<1>1. Typed
  BY DEF Control
<1>2. /\ \A q \in Refunds : q # r => OwedByRow(q, i, g)'
      /\ \A v \in RefundWorkers : v # w => OwedByWorker(v, i, g)' /\ OutByWorker(v, i, now)'
  BY <1>1, OthersOwed
<1>3. /\ \A q \in Refunds : OwedByRow(q, i, g)'
      /\ \A v \in RefundWorkers : OwedByWorker(v, i, g)' /\ OutByWorker(v, i, now)'
  BY <1>2
<1> QED
  BY <1>3 DEF Owing

\* A step of the owner that says nothing of what is out.
LEMMA OwingStill ==
    ASSUME Control, Typed', NEW w \in RefundWorkers, NEW r \in Refunds, Owns(w, r), OwnStep(w, r),
           NEW i \in Parts, NEW f \in Shares, NEW g \in Shares, NEW out \in Shares,
           Owing(i, f, out), ShareOnly(r, f, g), GivesMore(i), Covered(i, g, out)',
           OwedByRow(r, i, g)', OwedByWorker(w, i, g)', worker'[w].step # "taken"
    PROVE  Owing(i, g, out)'
<1>1. ShareOnly(r, out, out) /\ OutByWorker(w, i, out)'
  BY DEF ShareOnly, OutByWorker
<1> QED
  BY <1>1, OwingAfter

\* The transfer stays as it is, and the shares do.
LEMMA CoveredStays ==
    ASSUME Typed, NEW i \in Parts, NEW f \in Shares, NEW out \in Shares, Owing(i, f, out),
           UNCHANGED <<transfer, returned>>
    PROVE  Covered(i, f, out)' /\ GivesMore(i)
<1>1. Covered(i, f, out)'
  BY DEF Owing, Covered, Back
<1>2. transfer[i].reversed \in Nat
  BY DEF Typed
<1> QED
  BY <1>1, <1>2 DEF GivesMore

LEMMA RecordProviderOwes ==
    ASSUME Control, Control', Owes, NEW w \in RefundWorkers, NEW r \in Refunds, Owns(w, r),
           RecordProvider(w)
    PROVE  Owes'
<1>1. /\ Typed /\ Typed' /\ worker[w].of = r /\ worker[w].step = "record" /\ refund[r] \in RefundRow
      /\ UNCHANGED <<transfer, reversal, returned>>
  BY OwnerKnows DEF Control, RecordProvider, RefundAt
<1>2. /\ worker'[w].step = "reverse" /\ worker'[w].of = r /\ worker'[w].plan = worker[w].plan
      /\ OthersStay(w)
  BY <1>1 DEF RecordProvider, Typed, WorkerState, OthersStay
<1>3. refund'[r].known /\ \A q \in Refunds : q # r => refund'[q] = refund[q]
  BY <1>1 DEF RecordProvider, SetRefund, Typed, RefundRow
<1>4. OwnStep(w, r)
  BY <1>1, <1>2, <1>3 DEF OwnStep
<1> SUFFICES ASSUME NEW i \in Parts PROVE \E g \in Shares, now \in Shares : Owing(i, g, now)'
  BY DEF Owes
<1>5. PICK f \in Shares, out \in Shares : Owing(i, f, out)
  BY DEF Owes
<1>6. OwedByRow(r, i, f)'
  BY <1>3 DEF OwedByRow
<1>7. OwedByWorker(w, i, f)'
  <2>1. worker[w].plan[i] <= f[r]
    BY <1>1, <1>5 DEF Owing, OwedByWorker, HoldsPart, HoldingSteps, Taking, Answered
  <2> QED
    BY <1>2, <2>1 DEF OwedByWorker, Drafting
<1>8. Covered(i, f, out)' /\ GivesMore(i)
  BY <1>1, <1>5, CoveredStays
<1>9. ShareOnly(r, f, f)
  BY DEF ShareOnly
<1> QED
  BY <1>1, <1>2, <1>4, <1>5, <1>6, <1>7, <1>8, <1>9, OwingStill

LEMMA MarkReservedOwes ==
    ASSUME Control, Control', Owes, NEW w \in RefundWorkers, NEW r \in Refunds, Owns(w, r),
           MarkReserved(w)
    PROVE  Owes'
<1>1. /\ Typed /\ Typed' /\ worker[w].of = r /\ worker[w].step = "mark" /\ refund[r] \in RefundRow
      /\ UNCHANGED <<transfer, reversal, returned>>
  BY OwnerKnows DEF Control, MarkReserved, RefundAt
<1>2. /\ worker'[w].step = "adopt" /\ worker'[w].of = r /\ worker'[w].plan = worker[w].plan
      /\ OthersStay(w)
  BY <1>1 DEF MarkReserved, GoTo, Typed, WorkerState, OthersStay
<1>3. refund'[r].known = refund[r].known /\ \A q \in Refunds : q # r => refund'[q] = refund[q]
  BY <1>1 DEF MarkReserved, Typed, RefundRow
<1>4. OwnStep(w, r)
  BY <1>1, <1>2, <1>3 DEF OwnStep
<1> SUFFICES ASSUME NEW i \in Parts PROVE \E g \in Shares, now \in Shares : Owing(i, g, now)'
  BY DEF Owes
<1>5. PICK f \in Shares, out \in Shares : Owing(i, f, out)
  BY DEF Owes
<1> DEFINE open == Open(reversal[r][i])
<1>6. /\ worker[w].plan[i] <= f[r]
      /\ Fits(i, open) => open <= worker[w].plan[i]
  BY <1>1, <1>5 DEF Owing, OwedByWorker, HoldsPart, Staked, HoldingSteps, Drafting, Taking, Answered
<1>7. open \in Nat /\ worker[w].plan[i] \in Nat /\ f[r] \in Nat
  <2>1. worker[w].plan \in Plans
    BY <1>1 DEF Typed, WorkerState
  <2> QED
    BY <1>1, <2>1, StakesAreNumbers DEF Plans, Shares
<1>8. OwedByRow(r, i, f)'
  <2>1. OwedByRow(r, i, f)
    BY <1>5 DEF Owing
  <2> HIDE DEF open
  <2>2. Fits(i, open) => open <= f[r]
    BY <1>6, <1>7
  <2> QED
    BY <1>1, <1>3, <2>1, <2>2 DEF OwedByRow, Fits, open
<1>9. OwedByWorker(w, i, f)'
  BY <1>2, <1>6 DEF OwedByWorker, Drafting
<1>10. Covered(i, f, out)' /\ GivesMore(i)
  BY <1>1, <1>5, CoveredStays
<1>11. ShareOnly(r, f, f)
  BY DEF ShareOnly
<1> QED
  BY <1>1, <1>2, <1>4, <1>5, <1>8, <1>9, <1>10, <1>11, OwingStill

\* What is asked of a transfer now is no more than the plan asked of it.
LEMMA ReversalStarts ==
    ASSUME Control, NEW w \in RefundWorkers, NEW r \in Refunds, Owns(w, r), StartReversal(w)
    PROVE  /\ worker[w].of = r /\ worker[w].step \in {"reverse", "take"}
           /\ worker'[w].of = r /\ worker'[w].step \in {"reverse", "take"}
           /\ worker'[w].left \subseteq worker[w].left
           /\ worker[w].plan \in Plans /\ worker'[w].plan \in Plans
           /\ \A j \in Parts : worker'[w].plan[j] <= worker[w].plan[j]
           /\ OthersStay(w)
           /\ \A q \in Refunds : q # r => reversal'[q] = reversal[q]
           /\ UNCHANGED <<refund, transfer, returned>>
<1> DEFINE i == NextPart(w)
           amount == Least(worker[w].plan[i], AtLeastZero(Transferred[i] - transfer[i].reversed))
           p == [worker[w].plan EXCEPT ![i] = amount]
<1>1. /\ Typed /\ worker[w].step = "reverse" /\ worker[w].of = r /\ worker[w] \in WorkerState
  BY OwnerKnows DEF StartReversal, RefundAt
<1>2. /\ worker' = [worker EXCEPT ![w].plan = p,
                                 ![w].step = IF amount = 0 THEN @ ELSE "take",
                                 ![w].left = IF amount = 0 THEN @ \ {i} ELSE @]
      /\ reversal' = [reversal EXCEPT ![r][i] = Opened(@, amount)]
      /\ UNCHANGED <<refund, transfer, returned>>
      /\ worker[w].left # {}
  BY <1>1 DEF StartReversal
<1>3. worker[w].plan \in Plans /\ worker[w].left \in PartSets
  BY <1>1 DEF WorkerState
<1>4. i \in Parts
  BY <1>2, <1>3, NextPartIsLeft
<1>5. amount \in Nat /\ amount <= worker[w].plan[i]
  <2>1. worker[w].plan[i] \in Nat /\ Transferred[i] \in Nat /\ transfer[i].reversed \in Nat
    BY <1>1, <1>3, <1>4, PartsAreFinite DEF Plans, Typed
  <2> HIDE DEF i
  <2> QED
    BY <2>1 DEF Least, AtLeastZero
<1> HIDE DEF i, amount
<1>6. p \in Plans /\ \A j \in Parts : p[j] <= worker[w].plan[j]
  BY <1>3, <1>4, <1>5 DEF Plans
<1> HIDE DEF p
<1>7. /\ worker'[w].of = r /\ worker'[w].plan = p /\ OthersStay(w) /\ worker'[w].step \in {"reverse", "take"}
      /\ worker'[w].left = IF amount = 0 THEN worker[w].left \ {i} ELSE worker[w].left
  <2>1. CASE amount = 0
    <3>1. worker' = [worker EXCEPT ![w].plan = p, ![w].left = worker[w].left \ {i}]
      BY <1>1, <1>2, <2>1 DEF Typed, WorkerState
    <3> QED
      BY <1>1, <2>1, <3>1 DEF Typed, WorkerState, OthersStay
  <2>2. CASE amount # 0
    <3>1. worker' = [worker EXCEPT ![w].plan = p, ![w].step = "take"]
      BY <1>1, <1>2, <2>2 DEF Typed, WorkerState
    <3> QED
      BY <1>1, <2>2, <3>1 DEF Typed, WorkerState, OthersStay
  <2> QED
    BY <2>1, <2>2
<1>8. \A q \in Refunds : q # r => reversal'[q] = reversal[q]
  BY <1>1, <1>2 DEF Typed
<1>9. worker[w].step \in {"reverse", "take"}
  BY <1>1
<1>10. worker'[w].plan \in Plans /\ \A j \in Parts : worker'[w].plan[j] <= worker[w].plan[j]
  BY <1>6, <1>7
<1>11. /\ worker'[w].of = r /\ worker'[w].step \in {"reverse", "take"} /\ OthersStay(w)
       /\ worker'[w].left \subseteq worker[w].left
  BY <1>7
<1>12. UNCHANGED <<refund, transfer, returned>> /\ worker[w].of = r /\ worker[w].plan \in Plans
  BY <1>1, <1>2, <1>3
<1> QED
  BY <1>8, <1>9, <1>10, <1>11, <1>12

LEMMA StartReversalOwes ==
    ASSUME Control, Control', Owes, NEW w \in RefundWorkers, NEW r \in Refunds, Owns(w, r),
           StartReversal(w)
    PROVE  Owes'
<1>1. /\ Typed /\ Typed' /\ WorkerAgrees(w)
  BY OwnerKnows DEF Control
<1>2. /\ worker[w].of = r /\ worker[w].step \in {"reverse", "take"}
      /\ worker'[w].of = r /\ worker'[w].step \in {"reverse", "take"}
      /\ worker'[w].left \subseteq worker[w].left
      /\ worker[w].plan \in Plans /\ worker'[w].plan \in Plans
      /\ \A j \in Parts : worker'[w].plan[j] <= worker[w].plan[j]
      /\ UNCHANGED <<refund, transfer, returned>>
      /\ OwnStep(w, r)
  BY ReversalStarts DEF OwnStep
<1>3. refund'[r].known
  BY <1>1, <1>2 DEF WorkerAgrees, Settling
<1> SUFFICES ASSUME NEW i \in Parts PROVE \E g \in Shares, now \in Shares : Owing(i, g, now)'
  BY DEF Owes
<1>4. PICK f \in Shares, out \in Shares : Owing(i, f, out)
  BY DEF Owes
<1>5. OwedByRow(r, i, f)'
  BY <1>3 DEF OwedByRow
<1>6. OwedByWorker(w, i, f)'
  <2>1. OwedByWorker(w, i, f)
    BY <1>4 DEF Owing
  <2>2. f[r] \in Nat /\ worker[w].plan[i] \in Nat /\ worker'[w].plan[i] \in Nat
    BY <1>2 DEF Shares, Plans
  <2>3. HoldsPart(w, i)' => worker[w].plan[i] <= f[r]
    BY <1>2, <2>1 DEF OwedByWorker, HoldsPart, HoldingSteps, Taking
  <2>4. HoldsPart(w, i)' => worker'[w].plan[i] <= f[r]
    BY <1>2, <2>2, <2>3
  <2>5. worker'[w].step \notin Drafting
    BY <1>2 DEF Drafting
  <2> QED
    BY <1>2, <2>4, <2>5 DEF OwedByWorker
<1>7. Covered(i, f, out)' /\ GivesMore(i)
  BY <1>1, <1>2, <1>4, CoveredStays
<1>8. ShareOnly(r, f, f)
  BY DEF ShareOnly
<1> QED
  BY <1>1, <1>2, <1>4, <1>5, <1>6, <1>7, <1>8, OwingStill

LEMMA ReserveOwes ==
    ASSUME Control, Control', Owes, NEW w \in RefundWorkers, NEW r \in Refunds, Owns(w, r),
           Reserve(w), GoTo(w, "mark")
    PROVE  Owes'
<1>1. /\ Typed /\ Typed' /\ WorkerAgrees(w) /\ worker[w].of = r /\ worker[w].step = "reserve"
      /\ UNCHANGED <<reversal, returned>>
  BY OwnerKnows DEF Control, Reserve, RefundAt
<1>2. /\ worker'[w].step = "mark" /\ worker'[w].of = r /\ worker'[w].plan = worker[w].plan
      /\ OthersStay(w)
  BY <1>1 DEF GoTo, Typed, WorkerState, OthersStay
<1>3. /\ UNCHANGED refund
      /\ TransferHasRoom(worker[w].plan)
      /\ transfer' = [i \in Parts |-> [transfer[i] EXCEPT !.reserved = @ + worker[w].plan[i]]]
  <2>1. worker'[w].step # "idle"
    BY <1>2
  <2>2. ~Done(w)
    BY <1>1, <2>1, DoneIs DEF Ended
  <2> QED
    BY <1>1, <2>2 DEF Reserve
<1>4. OwnStep(w, r)
  BY <1>1, <1>2, <1>3 DEF OwnStep
<1>5. ~refund'[r].reserved
  BY <1>1, <1>3 DEF WorkerAgrees, Beginning
<1> SUFFICES ASSUME NEW i \in Parts PROVE \E g \in Shares, now \in Shares : Owing(i, g, now)'
  BY DEF Owes
<1>6. PICK f \in Shares, out \in Shares : Owing(i, f, out)
  BY DEF Owes
<1>7. PICK part \in Nat : part = worker[w].plan[i]
  <2>1. worker[w].plan \in Plans
    BY <1>1 DEF Typed, WorkerState
  <2> QED
    BY <2>1 DEF Plans
<1>8. /\ transfer'[i].reversed = transfer[i].reversed
      /\ transfer'[i].reserved = transfer[i].reserved + part
      /\ Transferred[i] >= transfer[i].reversed + transfer[i].reserved + part
  <2>1. transfer[i] \in [reversed: Nat, reserved: Nat]
    BY <1>1 DEF Typed
  <2> QED
    BY <1>3, <1>7, <2>1 DEF TransferHasRoom
<1>9. transfer[i].reversed \in Nat /\ transfer[i].reserved \in Nat /\ Transferred[i] \in Nat
  BY <1>1, StakesAreNumbers
<1>10. f[r] \in Nat /\ f[r] + part \in Nat
  BY <1>7 DEF Shares
<1>11. PICK g \in Shares :
         /\ g[r] = f[r] + part /\ ShareOnly(r, f, g)
         /\ SumFunctionOnSet(f, Refunds) \in Nat
         /\ SumFunctionOnSet(g, Refunds) = SumFunctionOnSet(f, Refunds) - f[r] + (f[r] + part)
  <2> DEFINE sum == SumFunctionOnSet(f, Refunds)
             new == [f EXCEPT ![r] = f[r] + part]
  <2>1. /\ new \in Shares /\ new[r] = f[r] + part /\ ShareOnly(r, f, new) /\ sum \in Nat
        /\ SumFunctionOnSet(new, Refunds) = sum - f[r] + (f[r] + part)
    BY <1>10, SharesSum DEF ShareOnly
  <2> HIDE DEF new
  <2> QED
    BY <2>1
<1>12. OwedByRow(r, i, g)'
  <2>1. OwedByRow(r, i, f)
    BY <1>6 DEF Owing
  <2>2. ~Unanswered(r)'
    BY <1>5 DEF Unanswered
  <2> QED
    BY <1>1, <1>3, <2>1, <2>2 DEF OwedByRow
<1>13. OwedByWorker(w, i, g)'
  <2>1. OwedByWorker(w, i, f)
    BY <1>6 DEF Owing
  <2>2. Fits(i, Open(reversal[r][i])) => Open(reversal[r][i]) <= part
    BY <1>1, <1>7, <2>1 DEF OwedByWorker, Drafting
  <2>3. part <= g[r]
    BY <1>10, <1>11
  <2> QED
    BY <1>1, <1>2, <1>7, <1>8, <2>2, <2>3 DEF OwedByWorker, Fits
<1>14. Covered(i, g, out)' /\ GivesMore(i)
  <2>1. Covered(i, f, out)
    BY <1>6 DEF Owing
  <2>2. Back(i)' = Back(i)
    BY <1>1 DEF Back
  <2>3. SumFunctionOnSet(out, Refunds) \in Nat
    BY SharesSum
  <2> QED
    BY <1>8, <1>9, <1>10, <1>11, <2>1, <2>2, <2>3 DEF Covered, GivesMore
<1> QED
  BY <1>1, <1>2, <1>4, <1>6, <1>12, <1>13, <1>14, <1>11, OwingStill

\* What one refund has reserved on a transfer is there to be taken from it.
LEMMA ShareIsHeld ==
    ASSUME Typed, NEW i \in Parts, NEW r \in Refunds, NEW f \in Shares, NEW out \in Shares,
           Covered(i, f, out), NEW n \in Nat, n <= f[r] \/ n <= out[r]
    PROVE  n <= transfer[i].reserved
<1>1. /\ f[r] <= SumFunctionOnSet(f, Refunds) /\ f[r] \in Nat /\ SumFunctionOnSet(f, Refunds) \in Nat
      /\ out[r] <= SumFunctionOnSet(out, Refunds) /\ out[r] \in Nat
      /\ SumFunctionOnSet(out, Refunds) \in Nat
  BY SharesSum
<1>2. /\ transfer[i].reserved \in Nat
      /\ SumFunctionOnSet(f, Refunds) + SumFunctionOnSet(out, Refunds) <= transfer[i].reserved
  BY StakesAreNumbers DEF Covered
<1> QED
  BY <1>1, <1>2

\* A part n of a refund's share leaves the reservation.
TakenFrom(i, n) ==
    /\ transfer'[i].reversed = transfer[i].reversed
    /\ transfer'[i].reserved = transfer[i].reserved - n
    /\ Back(i)' = Back(i)

LEMMA ShareTaken ==
    ASSUME Typed, NEW i \in Parts, NEW r \in Refunds, NEW f \in Shares, NEW out \in Shares,
           Covered(i, f, out), NEW n \in Nat, n <= f[r], TakenFrom(i, n)
    PROVE  /\ GivesMore(i)
           /\ \E g \in Shares : ShareOnly(r, f, g) /\ Covered(i, g, out)'
<1> DEFINE sum == SumFunctionOnSet(f, Refunds)
           gone == SumFunctionOnSet(out, Refunds)
           new == [f EXCEPT ![r] = f[r] - n]
<1>1. f[r] \in Nat /\ f[r] - n \in Nat
  BY DEF Shares
<1>2. /\ new \in Shares /\ ShareOnly(r, f, new) /\ sum \in Nat /\ gone \in Nat
      /\ SumFunctionOnSet(new, Refunds) = sum - f[r] + (f[r] - n)
  <2>1. sum \in Nat /\ gone \in Nat
    BY SumOfShares
  <2>2. /\ new \in Shares /\ \A q \in Refunds : q # r => new[q] = f[q]
        /\ SumFunctionOnSet(new, Refunds) = sum - f[r] + (f[r] - n)
    BY <1>1, SharesSum
  <2> QED
    BY <2>1, <2>2 DEF ShareOnly
<1>3. transfer[i].reversed \in Nat /\ transfer[i].reserved \in Nat /\ Transferred[i] \in Nat
  BY StakesAreNumbers
<1>4. /\ transfer[i].reversed + transfer[i].reserved <= Transferred[i]
      /\ Back(i) = transfer[i].reversed + gone /\ sum + gone <= transfer[i].reserved
  BY DEF Covered
<1> HIDE DEF sum, new
<1>5. SumFunctionOnSet(new, Refunds) + gone <= transfer'[i].reserved
  <2> HIDE DEF gone
  <2> QED
    BY <1>1, <1>2, <1>3, <1>4 DEF TakenFrom
<1>6. /\ transfer'[i].reversed + transfer'[i].reserved <= Transferred[i]
      /\ Back(i)' = transfer'[i].reversed + gone /\ GivesMore(i)
  <2> HIDE DEF gone
  <2> QED
    BY <1>3, <1>4 DEF TakenFrom, GivesMore
<1>7. Covered(i, new, out)'
  BY <1>5, <1>6 DEF Covered
<1> QED
  BY <1>2, <1>6, <1>7

LEMMA ReleaseCapacityOwes ==
    ASSUME Control, Control', Owes, NEW w \in RefundWorkers, NEW r \in Refunds, Owns(w, r),
           ReleaseCapacity(w)
    PROVE  Owes'
<1>1. /\ Typed /\ Typed' /\ worker[w].of = r /\ worker[w].step = "release"
      /\ UNCHANGED <<refund, reversal, returned>>
      /\ transfer' = [i \in Parts |->
                        [transfer[i] EXCEPT !.reserved = Released(@, worker[w].plan[i])]]
  BY OwnerKnows DEF Control, ReleaseCapacity, RefundAt, ReleaseAll
<1>2. worker'[w].step = "fail" /\ worker'[w].of = r /\ OthersStay(w)
  BY <1>1 DEF ReleaseCapacity, GoTo, Typed, WorkerState, OthersStay
<1>3. OwnStep(w, r)
  BY <1>1, <1>2 DEF OwnStep
<1>4. ~Unanswered(r)'
  BY <1>2 DEF Unanswered, On, RefundAt
<1> SUFFICES ASSUME NEW i \in Parts PROVE \E g \in Shares, now \in Shares : Owing(i, g, now)'
  BY DEF Owes
<1>5. PICK f \in Shares, out \in Shares : Owing(i, f, out)
  BY DEF Owes
<1>6. PICK part \in Nat : part = worker[w].plan[i]
  <2>1. worker[w].plan \in Plans
    BY <1>1 DEF Typed, WorkerState
  <2> QED
    BY <2>1 DEF Plans
<1>7. Covered(i, f, out) /\ part <= f[r]
  BY <1>1, <1>5, <1>6 DEF Owing, Covered, OwedByWorker, HoldsPart, HoldingSteps, Taking, Answered
<1>8. TakenFrom(i, part)
  <2>1. transfer[i] \in [reversed: Nat, reserved: Nat] /\ part <= transfer[i].reserved
    BY <1>1, <1>7, ShareIsHeld DEF Typed
  <2>2. /\ transfer'[i].reversed = transfer[i].reversed
        /\ transfer'[i].reserved = Released(transfer[i].reserved, part)
    BY <1>1, <1>6, <2>1
  <2>3. transfer[i].reversed \in Nat /\ transfer[i].reserved \in Nat
    BY <2>1
  <2>4. Released(transfer[i].reserved, part) = transfer[i].reserved - part
    BY <2>1, <2>3 DEF Released
  <2>5. Back(i)' = Back(i)
    BY <1>1 DEF Back
  <2> QED
    BY <2>2, <2>4, <2>5 DEF TakenFrom
<1>9. GivesMore(i) /\ \E g \in Shares : ShareOnly(r, f, g) /\ Covered(i, g, out)'
  BY <1>1, <1>7, <1>8, ShareTaken
<1>10. PICK g \in Shares : ShareOnly(r, f, g) /\ Covered(i, g, out)'
  BY <1>9
<1>11. OwedByRow(r, i, g)'
  <2>1. OwedByRow(r, i, f)
    BY <1>5 DEF Owing
  <2> QED
    BY <1>1, <1>4, <2>1 DEF OwedByRow
<1>12. OwedByWorker(w, i, g)'
  BY <1>2 DEF OwedByWorker, HoldsPart, Staked, HoldingSteps, Drafting, Taking, Answered
<1> QED
  BY <1>1, <1>2, <1>3, <1>5, <1>9, <1>10, <1>11, <1>12, OwingStill

LEMMA ReleaseVerifiedOwes ==
    ASSUME Control, Control', Owes, NEW w \in RefundWorkers, NEW r \in Refunds, Owns(w, r),
           ReleaseVerified(w)
    PROVE  Owes'
<1>1. /\ Typed /\ Typed' /\ WorkerAgrees(w) /\ worker[w].of = r /\ worker[w].step = "missing"
      /\ UNCHANGED <<refund, reversal, returned>>
  BY OwnerKnows DEF Control, ReleaseVerified, RefundAt
<1>2. worker'[w].step = "forget" /\ worker'[w].of = r /\ OthersStay(w)
  BY <1>1 DEF ReleaseVerified, GoTo, Typed, WorkerState, OthersStay
<1>3. OwnStep(w, r)
  BY <1>1, <1>2 DEF OwnStep
<1>4. ~Unanswered(r)'
  BY <1>2 DEF Unanswered, On, RefundAt
<1>5. ~refund[r].known /\ worker[w].row.reserved = refund[r].reserved
  BY <1>1 DEF WorkerAgrees, Verifying
<1>6. \/ worker[w].row.reserved
         /\ \A i \in Parts : transfer'[i] =
              [transfer[i] EXCEPT !.reserved = Released(@, Open(reversal[r][i]))]
      \/ ~worker[w].row.reserved /\ UNCHANGED transfer
  BY <1>1 DEF ReleaseVerified, ReleaseAll, Open
<1>7. refund[r].reserved => Unanswered(r)
  <2>1. \A v \in RefundWorkers : worker[v].of = r /\ worker[v].step \in {"fail", "forget"} => v = w
    BY DEF Control, OneOwner, Owns, Owning, Calling, Verifying
  <2>2. ~On(r, "fail") /\ ~On(r, "forget")
    BY <1>1, <2>1 DEF On, RefundAt
  <2> QED
    BY <1>5, <2>2 DEF Unanswered
<1> SUFFICES ASSUME NEW i \in Parts PROVE \E g \in Shares, now \in Shares : Owing(i, g, now)'
  BY DEF Owes
<1>8. PICK f \in Shares, out \in Shares : Owing(i, f, out)
  BY DEF Owes
<1>9. Covered(i, f, out) /\ OwedByRow(r, i, f)
  BY <1>8 DEF Owing, Covered
<1>10. PICK open \in Nat : open = Open(reversal[r][i])
  BY <1>1, StakesAreNumbers
<1>11. transfer[i] \in [reversed: Nat, reserved: Nat] /\ Transferred[i] \in Nat
  BY <1>1, StakesAreNumbers DEF Typed
<1>12. transfer[i].reversed \in Nat /\ transfer[i].reserved \in Nat
  BY <1>11
<1>13. Back(i)' = Back(i) /\ SumFunctionOnSet(f, Refunds) \in Nat /\ SumFunctionOnSet(out, Refunds) \in Nat
  BY <1>1, SharesSum DEF Back
<1>14. GivesMore(i) /\ \E g \in Shares : ShareOnly(r, f, g) /\ Covered(i, g, out)'
  <2>1. CASE worker[w].row.reserved /\ open <= transfer[i].reserved
    <3>1. Fits(i, open)
      BY <1>9, <1>11, <1>12, <2>1 DEF Covered, Fits
    <3>2. open <= f[r]
      BY <1>5, <1>7, <1>9, <1>10, <2>1, <3>1 DEF OwedByRow
    <3>3. transfer'[i] = [transfer[i] EXCEPT !.reserved = Released(@, open)]
      BY <1>6, <1>10, <2>1
    <3>4. TakenFrom(i, open)
      BY <1>11, <1>12, <1>13, <2>1, <3>3 DEF Released, TakenFrom
    <3> QED
      BY <1>1, <1>9, <3>2, <3>4, ShareTaken
  <2>2. CASE ~(worker[w].row.reserved /\ open <= transfer[i].reserved)
    <3>1. transfer'[i] = transfer[i]
      <4>1. CASE worker[w].row.reserved
        <5>1. ~(transfer[i].reserved >= open)
          BY <1>12, <2>2, <4>1
        <5>2. transfer'[i] = [transfer[i] EXCEPT !.reserved = Released(@, open)]
          BY <1>6, <1>10, <4>1
        <5> QED
          BY <1>11, <5>1, <5>2 DEF Released
      <4>2. CASE ~worker[w].row.reserved
        BY <1>6, <4>2
      <4> QED
        BY <4>1, <4>2
    <3>2. Covered(i, f, out)'
      BY <1>9, <1>13, <3>1 DEF Covered
    <3>3. GivesMore(i) /\ ShareOnly(r, f, f)
      BY <1>12, <3>1 DEF GivesMore, ShareOnly
    <3> QED
      BY <3>2, <3>3
  <2> QED
    BY <2>1, <2>2
<1>15. PICK g \in Shares : ShareOnly(r, f, g) /\ Covered(i, g, out)'
  BY <1>14
<1>16. OwedByRow(r, i, g)'
  BY <1>1, <1>4, <1>9 DEF OwedByRow
<1>17. OwedByWorker(w, i, g)'
  BY <1>2 DEF OwedByWorker, HoldsPart, Staked, HoldingSteps, Drafting, Taking, Answered
<1> QED
  BY <1>1, <1>2, <1>3, <1>8, <1>14, <1>15, <1>16, <1>17, OwingStill

LEMMA BackGrows ==
    ASSUME Typed, NEW i \in Parts, NEW r \in Refunds, NEW n \in Nat,
           returned' = [returned EXCEPT ![r][i] = @ + n]
    PROVE  Back(i)' = Back(i) + n
<1> DEFINE was == [q \in Refunds |-> returned[q][i]]
           is  == [q \in Refunds |-> returned'[q][i]]
<1>1. \A q \in Refunds : returned[q] \in [Parts -> Nat]
  BY DEF Typed, Plans
<1>2. \A q \in Refunds : returned[q][i] \in Nat
  BY <1>1
<1>3. returned'[r][i] = returned[r][i] + n /\ \A q \in Refunds : q # r => returned'[q] = returned[q]
  BY <1>1 DEF Typed
<1>4. /\ \A q \in Refunds : was[q] \in Int /\ is[q] \in Int /\ (q # r => was[q] = is[q])
      /\ was[r] \in Nat /\ is[r] = was[r] + n
      /\ DOMAIN was = Refunds /\ DOMAIN is = Refunds
  BY <1>2, <1>3
<1>5. Back(i) = Total(was) /\ Back(i)' = Total(is)
  BY DEF Back
<1> HIDE DEF was, is
<1>6. Total(was) = SumFunctionOnSet(was, Refunds) /\ Total(is) = SumFunctionOnSet(is, Refunds)
  BY <1>4, TotalIs
<1>7. ChangesAt(Refunds, was, is, r)
  BY <1>4 DEF ChangesAt
<1>8. SumFunctionOnSet(is, Refunds) = SumFunctionOnSet(was, Refunds) - was[r] + is[r]
  BY <1>7, SumWithOneChanged, RefundAmountsAssumption
<1>9. SumFunctionOnSet(was, Refunds) \in Int
  BY <1>4, SumIsInt, RefundAmountsAssumption
<1> QED
  BY <1>4, <1>5, <1>6, <1>8, <1>9

\* The partner gives: a part of the share goes out.
LEMMA ReverseTransferOwes ==
    ASSUME Control, Control', OnePartner, Owes, Gives, NEW w \in RefundWorkers, NEW r \in Refunds,
           Owns(w, r), ReverseTransfer(w)
    PROVE  Owes'
<1>1. /\ Typed /\ Typed' /\ WorkerAgrees(w) /\ worker[w].of = r /\ worker[w].step = "take"
      /\ worker[w] \in WorkerState /\ UNCHANGED <<refund, transfer, reversal>>
  BY OwnerKnows DEF Control, ReverseTransfer, RefundAt
<1>2. refund[r].known
  BY <1>1 DEF WorkerAgrees, Settling
<1>3. worker[w].plan \in Plans /\ worker[w].left \in PartSets /\ worker[w].left # {}
  BY <1>1 DEF Gives, WorkerGives, WorkerState
<1> SUFFICES ASSUME NEW i \in Parts PROVE \E g \in Shares, now \in Shares : Owing(i, g, now)'
  BY DEF Owes
<1>4. i = NextPart(w) /\ i \in worker[w].left
  BY <1>3, NextPartIsLeft DEF OnePartner
<1>5. PICK f \in Shares, out \in Shares : Owing(i, f, out)
  BY DEF Owes
<1>6. PICK part \in Nat : part = worker[w].plan[i]
  BY <1>3 DEF Plans
<1>7. Covered(i, f, out) /\ part <= f[r]
  BY <1>1, <1>4, <1>5, <1>6 DEF Owing, OwedByWorker, HoldsPart, HoldingSteps
<1>8. PICK step \in Answered : GoTo(w, step)
  BY DEF ReverseTransfer, Answered
<1>9. /\ worker'[w].step = step /\ worker'[w].of = r /\ worker'[w].plan = worker[w].plan
      /\ OthersStay(w)
  BY <1>1, <1>8 DEF GoTo, Typed, WorkerState, OthersStay
<1>10. OwnStep(w, r)
  BY <1>1, <1>9 DEF OwnStep
<1>11. \/ returned' = [returned EXCEPT ![r][i] = @ + part]
       \/ UNCHANGED returned /\ step # "taken"
  <2>1. CASE UNCHANGED returned /\ (GoTo(w, "unheard") \/ GoTo(w, "refused"))
    BY <1>1, <1>9, <2>1 DEF GoTo, Typed, WorkerState
  <2>2. CASE returned' = [returned EXCEPT ![r][i] = @ + part]
    BY <2>2
  <2> QED
    BY <1>1, <1>4, <1>6, <2>1, <2>2 DEF ReverseTransfer
<1>12. transfer[i].reversed \in Nat /\ GivesMore(i)
  BY <1>1, StakesAreNumbers DEF GivesMore
<1>13. \A g : OwedByRow(r, i, g)' /\ OwedByWorker(w, i, g)'
  <2>1. worker'[w].step \notin HoldingSteps \cup Drafting
    BY <1>9 DEF Answered, HoldingSteps, Drafting
  <2> QED
    BY <1>1, <1>2, <2>1 DEF OwedByRow, OwedByWorker, HoldsPart
<1>14. CASE UNCHANGED returned /\ step # "taken"
  <2>1. Covered(i, f, out)' /\ ShareOnly(r, f, f)
    BY <1>1, <1>5, <1>14, CoveredStays DEF ShareOnly
  <2> QED
    BY <1>1, <1>5, <1>9, <1>10, <1>12, <1>13, <1>14, <2>1, OwingStill
<1>15. CASE returned' = [returned EXCEPT ![r][i] = @ + part]
  <2> DEFINE due == SumFunctionOnSet(f, Refunds)
             gone == SumFunctionOnSet(out, Refunds)
             g == [f EXCEPT ![r] = f[r] - part]
             now == [out EXCEPT ![r] = out[r] + part]
  <2>1. f[r] \in Nat /\ f[r] - part \in Nat /\ out[r] \in Nat /\ out[r] + part \in Nat
    BY <1>7 DEF Shares
  <2>2. /\ g \in Shares /\ ShareOnly(r, f, g) /\ due \in Nat
        /\ SumFunctionOnSet(g, Refunds) = due - f[r] + (f[r] - part)
    BY <2>1, SharesSum DEF ShareOnly
  <2>3. /\ now \in Shares /\ ShareOnly(r, out, now) /\ gone \in Nat /\ now[r] = out[r] + part
        /\ SumFunctionOnSet(now, Refunds) = gone - out[r] + (out[r] + part)
    BY <2>1, SharesSum DEF ShareOnly
  <2>4. Back(i)' = Back(i) + part
    BY <1>1, <1>15, BackGrows
  <2>5. /\ transfer[i].reversed + transfer[i].reserved <= Transferred[i]
        /\ Back(i) = transfer[i].reversed + gone /\ due + gone <= transfer[i].reserved
    BY <1>7 DEF Covered
  <2> HIDE DEF due, gone, g, now
  <2>6. /\ Back(i)' = transfer[i].reversed + SumFunctionOnSet(now, Refunds)
        /\ SumFunctionOnSet(g, Refunds) + SumFunctionOnSet(now, Refunds) <= transfer[i].reserved
    BY <1>12, <2>1, <2>2, <2>3, <2>4, <2>5
  <2>7. Covered(i, g, now)'
    BY <1>1, <2>5, <2>6 DEF Covered
  <2>8. OutByWorker(w, i, now)'
    BY <1>6, <1>9, <2>1, <2>3 DEF OutByWorker
  <2> QED
    BY <1>1, <1>5, <1>10, <1>12, <1>13, <2>2, <2>3, <2>7, <2>8, OwingAfter
<1> QED
  BY <1>11, <1>14, <1>15

\* What went out is written down, and leaves the reservation; or stays out.
LEMMA RecordingOwes ==
    ASSUME Control, Control', OnePartner, Owes, Gives, NEW w \in RefundWorkers, NEW r \in Refunds,
           Owns(w, r), Recording(w)
    PROVE  Owes'
<1>1. /\ Typed /\ Typed' /\ WorkerAgrees(w) /\ worker[w].of = r /\ worker[w].step \in Answered
      /\ worker[w] \in WorkerState /\ UNCHANGED <<refund, returned>>
  BY OwnerKnows, RecordingIs DEF Control
<1>2. refund[r].known
  BY <1>1 DEF WorkerAgrees, Settling, Answered
<1>3. worker[w].plan \in Plans /\ worker[w].left \in PartSets /\ worker[w].left # {}
  BY <1>1 DEF Gives, WorkerGives, WorkerState
<1> SUFFICES ASSUME NEW i \in Parts PROVE \E g \in Shares, now \in Shares : Owing(i, g, now)'
  BY DEF Owes
<1>4. i = NextPart(w) /\ i \in worker[w].left
  BY <1>3, NextPartIsLeft DEF OnePartner
<1>5. PICK f \in Shares, out \in Shares : Owing(i, f, out)
  BY DEF Owes
<1>6. PICK part \in Nat : part = worker[w].plan[i]
  BY <1>3 DEF Plans
<1>7. PassedOn(w, r, i) \/ WentTo(w, "unheard")
  BY <1>1, <1>4, RecordingIs
<1>8. \A q \in Refunds : q # r => reversal'[q] = reversal[q]
  BY <1>1 DEF Recording, RecordReversal, ParkReversal, Typed
<1>9. OwnStep(w, r)
  BY <1>1, <1>7, <1>8 DEF OwnStep, PassedOn, WentTo
<1>10. \A g : OwedByRow(r, i, g)' /\ OwedByWorker(w, i, g)'
  <2>1. CASE PassedOn(w, r, i)
    BY <1>1, <1>2, <2>1 DEF PassedOn, OwedByRow, OwedByWorker, HoldsPart, HoldingSteps, Drafting,
       Taking, Answered
  <2>2. CASE WentTo(w, "unheard")
    BY <1>1, <1>2, <2>2 DEF WentTo, OwedByRow, OwedByWorker, HoldsPart, HoldingSteps, Drafting
  <2> QED
    BY <1>7, <2>1, <2>2
<1>11. worker'[w].step # "taken"
  BY <1>7 DEF PassedOn, WentTo
<1>12. CASE UNCHANGED transfer
  <2>1. Covered(i, f, out)' /\ GivesMore(i) /\ ShareOnly(r, f, f)
    BY <1>1, <1>5, <1>12, CoveredStays DEF ShareOnly
  <2> QED
    BY <1>1, <1>5, <1>9, <1>10, <1>11, <2>1, OwingStill
<1>13. CASE ~UNCHANGED transfer
  <2>1. /\ worker[w].step = "taken"
        /\ transfer' = [transfer EXCEPT ![i] = AfterReversal(i, part)]
    BY <1>4, <1>6, <1>13 DEF Recording, RecordReversal, ParkReversal, RefundAt
  <2>2. Covered(i, f, out) /\ part <= out[r]
    BY <1>1, <1>5, <1>6, <2>1 DEF Owing, OutByWorker
  <2>3. transfer[i] \in [reversed: Nat, reserved: Nat] /\ part <= transfer[i].reserved
    BY <1>1, <2>2, ShareIsHeld DEF Typed
  <2>4. transfer[i].reversed \in Nat /\ transfer[i].reserved \in Nat /\ Transferred[i] \in Nat
    BY <1>1, StakesAreNumbers
  <2>5. /\ transfer'[i].reversed = transfer[i].reversed + part
        /\ transfer'[i].reserved = transfer[i].reserved - part
    <3>1. transfer'[i] = AfterReversal(i, part)
      BY <1>1, <2>1 DEF Typed
    <3>2. Released(transfer[i].reserved, part) = transfer[i].reserved - part
      BY <2>3, <2>4 DEF Released
    <3> QED
      BY <2>3, <3>1, <3>2 DEF AfterReversal
  <2> DEFINE due == SumFunctionOnSet(f, Refunds)
             gone == SumFunctionOnSet(out, Refunds)
             now == [out EXCEPT ![r] = out[r] - part]
  <2>6. out[r] \in Nat /\ out[r] - part \in Nat /\ due \in Nat
    BY <2>2, SharesSum DEF Shares
  <2>7. /\ now \in Shares /\ ShareOnly(r, out, now) /\ gone \in Nat
        /\ SumFunctionOnSet(now, Refunds) = gone - out[r] + (out[r] - part)
    BY <2>6, SharesSum DEF ShareOnly
  <2>8. /\ transfer[i].reversed + transfer[i].reserved <= Transferred[i]
        /\ Back(i) = transfer[i].reversed + gone /\ due + gone <= transfer[i].reserved
    BY <2>2 DEF Covered
  <2>9. Back(i)' = Back(i)
    BY <1>1 DEF Back
  <2> HIDE DEF due, gone, now
  <2>10. /\ transfer'[i].reversed + transfer'[i].reserved <= Transferred[i]
         /\ Back(i)' = transfer'[i].reversed + SumFunctionOnSet(now, Refunds)
         /\ due + SumFunctionOnSet(now, Refunds) <= transfer'[i].reserved
    BY <2>3, <2>4, <2>5, <2>6, <2>7, <2>8, <2>9
  <2>11. Covered(i, f, now)'
    BY <2>10 DEF Covered, due
  <2>12. GivesMore(i) /\ ShareOnly(r, f, f) /\ OutByWorker(w, i, now)'
    BY <1>11, <2>4, <2>5 DEF GivesMore, ShareOnly, OutByWorker
  <2> QED
    BY <1>1, <1>5, <1>9, <1>10, <2>7, <2>11, <2>12, OwingAfter
<1> QED
  BY <1>12, <1>13

\* With one transfer the plan is the refund, or what the transfer has left of it.
LEMMA OnePartnerPlan ==
    ASSUME Typed, OnePartner, NEW i \in Parts, NEW r \in Refunds, NEW rows,
           rows = [j \in Parts |-> [amount |-> Transferred[j], reversed |-> transfer[j].reversed,
                                    primary |-> FALSE]]
    PROVE  LET amounts == PlanReversals(Amount[r], rows, "PROPORTIONAL").amounts
           IN  /\ amounts \in Plans
               /\ amounts[i] = Least(Amount[r], AtLeastZero(Transferred[i] - transfer[i].reversed))
<1> DEFINE amounts == PlanReversals(Amount[r], rows, "PROPORTIONAL").amounts
           available == Available(rows)
<1>1. Parts = {i} /\ Amount[r] \in Nat
  BY RefundAmountsAssumption DEF OnePartner
<1>2. rows \in [Parts -> [amount : Nat, reversed : Nat, primary : BOOLEAN]]
  BY PartsAreFinite DEF Typed
<1>3. /\ PlanReversals(Amount[r], rows, "PROPORTIONAL").balances /\ amounts \in [Parts -> Nat]
  BY <1>1, <1>2, PlanBalances, PartsAreFinite
<1>4. Total(amounts) = Least(Amount[r], Total(available))
  BY <1>3 DEF PlanReversals
<1>5. /\ available \in [Parts -> Nat]
      /\ available[i] = AtLeastZero(Transferred[i] - transfer[i].reversed)
  <2>1. /\ DOMAIN rows = Parts
        /\ \A j \in Parts : rows[j].amount = Transferred[j] /\ rows[j].reversed = transfer[j].reversed
    OBVIOUS
  <2>2. \A j \in Parts : Transferred[j] \in Nat /\ transfer[j].reversed \in Nat
    BY StakesAreNumbers, PartsAreFinite DEF Typed
  <2>3. \A j \in Parts : AtLeastZero(rows[j].amount - rows[j].reversed) \in Nat
    BY <2>1, <2>2 DEF AtLeastZero
  <2> QED
    BY <2>1, <2>3 DEF Available
<1> HIDE DEF amounts, available
<1>6. ASSUME NEW h \in [Parts -> Nat] PROVE Total(h) = h[i]
  <2>1. Total(h) = SumFunctionOnSet(h, Parts)
    BY TotalIs
  <2>2. \A j \in Parts : h[j] \in Int
    OBVIOUS
  <2>3. SumFunctionOnSet(h, Parts) = h[i] + SumFunctionOnSet(h, Parts \ {i})
    BY <2>2, PartsAreFinite, SumWithout
  <2>4. SumFunctionOnSet(h, Parts \ {i}) = 0
    BY <1>1, SumOfNone
  <2> QED
    BY <2>1, <2>2, <2>3, <2>4
<1>7. amounts[i] = Least(Amount[r], available[i])
  BY <1>3, <1>4, <1>5, <1>6
<1> QED
  BY <1>3, <1>5, <1>7 DEF amounts, Plans

LEMMA PlanOwes ==
    ASSUME Control, Control', OnePartner, Owes, NEW w \in RefundWorkers, NEW r \in Refunds,
           Owns(w, r), Plan(w)
    PROVE  Owes'
<1> SUFFICES ASSUME NEW i \in Parts PROVE \E g \in Shares, now \in Shares : Owing(i, g, now)'
  BY DEF Owes
<1>1. /\ Typed /\ Typed' /\ WorkerAgrees(w) /\ RowAgrees(r) /\ worker[w].of = r
      /\ worker[w].step = "plan" /\ worker[w] \in WorkerState
      /\ UNCHANGED <<refund, transfer, returned>>
  BY OwnerKnows DEF Control, Plan, RefundAt
<1>2. ~refund[r].reserved /\ ~refund[r].known /\ ~worker[w].row.reserved
  BY <1>1 DEF WorkerAgrees, RowAgrees, Beginning
<1> DEFINE rows == [j \in Parts |-> [amount |-> Transferred[j], reversed |-> transfer[j].reversed,
                                     primary |-> FALSE]]
           amounts == PlanReversals(Amount[r], rows, "PROPORTIONAL").amounts
<1>3. /\ worker' = [worker EXCEPT ![w].plan = amounts, ![w].step = "reserve"]
      /\ reversal' = IF \E j \in Parts : reversal[r][j].status # "none" THEN reversal
                     ELSE [reversal EXCEPT ![r] = [j \in Parts |->
                              IF amounts[j] > 0 THEN [status |-> "PENDING", amount |-> amounts[j]]
                              ELSE @[j]]]
  <2>1. Parts # {}
    OBVIOUS
  <2> QED
    BY <1>1, <1>2, <2>1 DEF Plan
<1>4. /\ amounts \in Plans
      /\ amounts[i] = Least(Amount[r], AtLeastZero(Transferred[i] - transfer[i].reversed))
  BY <1>1, OnePartnerPlan
<1> HIDE DEF amounts
<1>5. PICK part \in Nat : part = amounts[i]
  BY <1>4 DEF Plans
<1>6. /\ worker'[w].step = "reserve" /\ worker'[w].of = r /\ worker'[w].plan[i] = part
      /\ OthersStay(w)
  BY <1>1, <1>3, <1>5 DEF Typed, WorkerState, OthersStay
<1>7. \A q \in Refunds : q # r => reversal'[q] = reversal[q]
  BY <1>1, <1>3 DEF Typed
<1>8. OwnStep(w, r)
  BY <1>1, <1>6, <1>7 DEF OwnStep
<1>9. PICK f \in Shares, out \in Shares : Owing(i, f, out)
  BY DEF Owes
<1>10. PICK open \in Nat : open = Open(reversal[r][i])
  BY <1>1, StakesAreNumbers
<1>11. Open(reversal'[r][i]) = open \/ Open(reversal'[r][i]) = part \/ Open(reversal'[r][i]) = 0
  <2>1. CASE \E j \in Parts : reversal[r][j].status # "none"
    BY <1>3, <1>10, <2>1
  <2>2. CASE ~\E j \in Parts : reversal[r][j].status # "none"
    <3>1. reversal'[r] = [j \in Parts |->
              IF amounts[j] > 0 THEN [status |-> "PENDING", amount |-> amounts[j]]
              ELSE reversal[r][j]]
      BY <1>1, <1>3, <2>2 DEF Typed
    <3>2. reversal'[r][i] = IF part > 0 THEN [status |-> "PENDING", amount |-> part] ELSE reversal[r][i]
      BY <1>5, <3>1
    <3> QED
      BY <1>10, <3>2 DEF Open
  <2> QED
    BY <2>1, <2>2
<1>12. /\ transfer[i].reversed \in Nat /\ Transferred[i] \in Nat /\ Amount[r] \in Nat
       /\ open <= Amount[r]
       /\ part = Least(Amount[r], AtLeastZero(Transferred[i] - transfer[i].reversed))
  BY <1>1, <1>2, <1>4, <1>5, <1>9, <1>10, StakesAreNumbers DEF Owing, OwedByRow
<1>13. part <= Amount[r]
  BY <1>12 DEF Least, AtLeastZero
<1>14. \A n \in {open, part, 0} : Fits(i, n) => n <= part
  <2>1. Fits(i, open) => open <= part
    BY <1>12 DEF Fits, Least, AtLeastZero
  <2> QED
    BY <2>1
<1>15. OwedByRow(r, i, f)'
  <2>1. Open(reversal'[r][i]) <= Amount[r]
    BY <1>11, <1>12, <1>13
  <2>2. ~Unanswered(r)'
    BY <1>1, <1>2 DEF Unanswered
  <2> QED
    BY <2>1, <2>2 DEF OwedByRow
<1>16. OwedByWorker(w, i, f)'
  <2>1. Fits(i, Open(reversal'[r][i])) => Open(reversal'[r][i]) <= part
    BY <1>11, <1>14
  <2> QED
    BY <1>1, <1>6, <2>1 DEF OwedByWorker, Fits, HoldsPart, HoldingSteps, Taking, Answered
<1>17. Covered(i, f, out)' /\ GivesMore(i) /\ ShareOnly(r, f, f)
  BY <1>1, <1>9, CoveredStays DEF ShareOnly
<1> QED
  BY <1>1, <1>6, <1>8, <1>9, <1>15, <1>16, <1>17, OwingStill

\* A refused reservation gives the refund back as it was.
LEMMA ReserveOrNothing ==
    ASSUME Control, NEW w \in RefundWorkers, NEW r \in Refunds, Owns(w, r), Reserve(w),
           ~GoTo(w, "mark")
    PROVE  Quietly
<1>1. /\ Typed /\ worker[w].of = r /\ worker[w].step = "reserve" /\ refund[r] \in RefundRow
  BY OwnerKnows DEF Reserve, RefundAt
<1>2. /\ SetRefund(r, [refund[r] EXCEPT !.status = "APPROVED", !.locked = "no"]) /\ Done(w)
      /\ UNCHANGED <<transfer, reversal, returned>>
  BY <1>1 DEF Reserve
<1>3. KnownStays /\ ReservedStays
  BY <1>1, <1>2 DEF Typed, RefundRow, SetRefund, KnownStays, ReservedStays
<1>4. OthersStay(w) /\ StakesStay
  BY <1>1, <1>2, DoneKeepsStakes DEF Typed, Done, OthersStay
<1>5. UnansweredStays
  BY <1>1, <1>3, <1>4, QuietWorkerAnswers DEF KnownStays, ReservedStays
<1> QED
  BY <1>2, <1>3, <1>4, <1>5 DEF Quietly

LEMMA HandlersOwe ==
    ASSUME Control, Control', OnePartner, Owes, Gives, NEW w \in RefundWorkers,
           Execution(w) \/ Verification(w)
    PROVE  Owes'
<1>1. Quietly => Owes'
  BY OwesStay DEF Quietly
<1>2. CASE Claim(w)
  BY <1>1, <1>2, ClaimMovesNothing
<1>3. CASE ~Claim(w)
  <2>1. worker[w].step \in Owning
    BY <1>3, HandlersOwn
  <2>2. PICK r \in Refunds : Owns(w, r)
    BY <2>1, ActsAsOwner
  <2>3. CASE Moving(w)
    <3>1. CASE Plan(w) \/ MarkReserved(w) \/ ReleaseCapacity(w) \/ RecordProvider(w)
      BY <2>2, <3>1, PlanOwes, MarkReservedOwes, ReleaseCapacityOwes, RecordProviderOwes
    <3>2. CASE \/ StartReversal(w) \/ ReverseTransfer(w) \/ RecordReversal(w) \/ ParkReversal(w) \/ ReleaseVerified(w)
      BY <2>2, <3>2, StartReversalOwes, ReverseTransferOwes, RecordingOwes, ReleaseVerifiedOwes
         DEF Recording
    <3>3. CASE Reserve(w)
      BY <1>1, <2>2, <3>3, ReserveOwes, ReserveOrNothing
    <3> QED
      BY <2>3, <3>1, <3>2, <3>3 DEF Moving
  <2>4. CASE ~Moving(w)
    BY <1>1, <1>3, <2>2, <2>4, HandlersMoveNothing
  <2> QED
    BY <2>3, <2>4
<1> QED
  BY <1>2, <1>3

LEMMA OwesStep ==
    ASSUME Control, Control', WritesComplete, OnePartner, Owes, Gives, [RefundsNext]_refundVars
    PROVE  Owes'
<1>1. Quietly => Owes'
  BY OwesStay DEF Quietly
<1>2. CASE \E r \in Refunds : Request(r) \/ ProviderSettles(r) \/ OnRefund(r) \/ LockGoesStale(r)
  BY <1>1, <1>2, RowStepMovesNothing
<1>3. CASE \E w \in Approvers, r \in Refunds : StartApprove(w, r)
  BY <1>1, <1>3, BeginningMovesNothing, RefundAmountsAssumption DEF RefundWorkers
<1>4. CASE \E w \in Executors, r \in Refunds : StartExecute(w, r)
  BY <1>1, <1>4, BeginningMovesNothing DEF RefundWorkers
<1>5. CASE \E w \in Reconcilers, r \in Refunds : VerifyRefund(w, r)
  BY <1>1, <1>5, BeginningMovesNothing DEF RefundWorkers
<1>6. CASE \E w \in Executors : Approve(w) \/ Execution(w)
  BY <1>1, <1>6, ApproveMovesNothing, HandlersOwe DEF RefundWorkers
<1>7. CASE \E w \in Reconcilers : Verification(w)
  BY <1>7, HandlersOwe DEF RefundWorkers
<1>8. CASE \E w \in RefundWorkers : WorkerDies(w)
  BY <1>1, <1>8, WorkerDiesMovesNothing
<1>9. CASE UNCHANGED refundVars
  <2>1. UNCHANGED <<worker, refund, transfer, reversal, returned>>
    BY <1>9 DEF refundVars
  <2>2. UnansweredStays
    BY <2>1, QuietRowsAnswer
  <2> QED
    BY <1>1, <2>1, <2>2, UnwrittenStaysKnown, StandingKeepsStakes DEF Quietly
<1> QED
  BY <1>2, <1>3, <1>4, <1>5, <1>6, <1>7, <1>8, <1>9 DEF RefundsNext

LEMMA OwesStarts == RefundsInit => Owes
<1> SUFFICES ASSUME RefundsInit, NEW i \in Parts PROVE \E f \in Shares, out \in Shares : Owing(i, f, out)
  BY DEF Owes
<1> DEFINE none == [r \in Refunds |-> 0]
<1>1. none \in Shares /\ (\A r \in Refunds : none[r] = 0) /\ DOMAIN none = Refunds
  BY DEF Shares
<1>2. SumFunctionOnSet(none, Refunds) = 0
  BY <1>1, SumOfNothings, RefundAmountsAssumption
<1>3. Back(i) = 0
  <2>1. [r \in Refunds |-> returned[r][i]] = none
    BY DEF RefundsInit
  <2> QED
    BY <1>1, <1>2, <2>1, TotalIs DEF Back
<1> HIDE DEF none
<1>4. transfer[i].reversed = 0 /\ transfer[i].reserved = 0 /\ Transferred[i] \in Nat
  BY PartsAreFinite DEF RefundsInit
<1>5. \A r \in Refunds : OwedByRow(r, i, none)
  <2> SUFFICES ASSUME NEW r \in Refunds PROVE OwedByRow(r, i, none)
    OBVIOUS
  <2>1. ~refund[r].reserved /\ Amount[r] \in Nat
    BY RefundAmountsAssumption DEF RefundsInit, Idle
  <2>2. Open(reversal[r][i]) = 0
    BY DEF RefundsInit, Open
  <2> QED
    BY <2>1, <2>2 DEF OwedByRow, Unanswered
<1>6. \A w \in RefundWorkers : OwedByWorker(w, i, none) /\ OutByWorker(w, i, none)
  <2>1. \A w \in RefundWorkers : worker[w].step = "idle"
    BY IdleType DEF RefundsInit
  <2> QED
    BY <2>1 DEF OwedByWorker, OutByWorker, HoldsPart, Staked, HoldingSteps, Drafting, Taking, Answered
<1> QED
  BY <1>1, <1>2, <1>3, <1>4, <1>5, <1>6 DEF Owing, Covered

\* executeReversals(), reserveTransfers(): where the sale was transferred to one partner, it
\* never gives back more than it was sent, over all the refunds and however their
\* executions, retries and the reconciliation interleave; nor more for one refund than
\* that is worth.
THEOREM PartnersKeepTheirs ==
    ASSUME Discipline, OnePartner
    PROVE  RefundsSpec => []PartnersGiveOnce
<1> USE DEF Discipline
<1>1. Control /\ Control' /\ Owes /\ Gives /\ [RefundsNext]_refundVars => Owes'
  BY OwesStep
<1>2. Control /\ Gives /\ [RefundsNext]_refundVars => Gives'
  BY GivesStep
<1>3. Control /\ Owes /\ Gives => PartnersGiveOnce
  <2> SUFFICES ASSUME Control, Owes, Gives PROVE PartnersGiveOnce
    OBVIOUS
  <2>1. GivenOncePerRefund
    BY DEF Gives, RowGives, GivenOncePerRefund
  <2>2. ASSUME NEW i \in Parts PROVE Back(i) <= Transferred[i]
    <3>1. transfer[i].reversed \in Nat /\ transfer[i].reserved \in Nat /\ Transferred[i] \in Nat
      BY PartsAreFinite DEF Control, Typed
    <3>2. PICK f \in Shares, out \in Shares : Covered(i, f, out)
      BY DEF Owes, Owing
    <3>3. SumFunctionOnSet(f, Refunds) \in Nat /\ SumFunctionOnSet(out, Refunds) \in Nat
      BY SumOfShares
    <3> QED
      BY <3>1, <3>2, <3>3 DEF Covered
  <2> QED
    BY <2>1, <2>2 DEF PartnersGiveOnce, Back
<1> QED
  BY <1>1, <1>2, <1>3, GivesStarts, OwesStarts, ControlHolds, PTL DEF RefundsSpec

-------------------------------------------------------------------------------
(* What the partners receive *)

\* The places in a finite set of numbers are 1, 2, 3 and so on.
LEMMA NthExists ==
    ASSUME NEW S \in SUBSET Int, IsFiniteSet(S), NEW n \in 1..Cardinality(S)
    PROVE  \E k \in S : Cardinality({j \in S : j < k}) = n - 1
<1> DEFINE before == {p \in S \X S : p[1] < p[2]}
<1>1. Cardinality(S) \in Nat /\ n \in 0..Cardinality(S) /\ n - 1 \in 0..Cardinality(S)
  BY FS_CardinalityType
<1>2. StrictOrder(before, S)
  BY DEF StrictOrder
<1>3. \A k \in S : Ahead(before, S, k) = {j \in S : j < k}
  BY DEF Ahead
<1> HIDE DEF before
<1>4. Cardinality(First(before, S, n)) = n /\ Cardinality(First(before, S, n - 1)) = n - 1
  BY <1>1, <1>2, FirstOnes
<1>5. \A k \in S : Cardinality(Ahead(before, S, k)) \in Nat
  BY <1>3, FS_Subset, FS_CardinalityType
<1>6. First(before, S, n - 1) # First(before, S, n)
  BY <1>1, <1>4
<1>7. First(before, S, n - 1) \subseteq First(before, S, n)
  <2>1. n \in Int /\ \A c \in Nat : c < n - 1 => c < n
    BY <1>1
  <2> QED
    BY <1>5, <2>1 DEF First
<1>8. PICK k \in First(before, S, n) : k \notin First(before, S, n - 1)
  BY <1>6, <1>7
<1>9. k \in S /\ Cardinality(Ahead(before, S, k)) < n /\ ~(Cardinality(Ahead(before, S, k)) < n - 1)
  BY <1>8 DEF First
<1>10. Cardinality(Ahead(before, S, k)) \in Nat /\ n \in Int
  BY <1>1, <1>5, <1>9
<1>11. Cardinality(Ahead(before, S, k)) = n - 1
  BY <1>9, <1>10
<1> QED
  BY <1>3, <1>9, <1>11

\* A function on 1..n is a sequence.
LEMMA FunctionIsSeq ==
    ASSUME NEW X, NEW n \in Nat, NEW f \in [1..n -> X]
    PROVE  f \in Seq(X) /\ Len(f) = n
OBVIOUS

LEMMA AppendIs ==
    ASSUME NEW X, NEW f \in Seq(X), NEW n \in Nat, Len(f) = n, NEW x \in X
    PROVE  /\ Append(f, x) \in [1..(n + 1) -> X] /\ Append(f, x)[n + 1] = x
           /\ \A k \in 1..n : Append(f, x)[k] = f[k]
<1>1. Append(f, x) \in Seq(X) /\ Len(Append(f, x)) = n + 1
  OBVIOUS
<1>2. Append(f, x)[n + 1] = x
  OBVIOUS
<1>3. \A k \in 1..n : Append(f, x)[k] = f[k]
  OBVIOUS
<1> DEFINE all == Append(f, x)
<1>4. all \in Seq(X) /\ Len(all) = n + 1
  BY <1>1
<1> HIDE DEF all
<1>5. all \in [1..Len(all) -> X]
  BY <1>4
<1> QED
  BY <1>2, <1>3, <1>4, <1>5 DEF all

LEMMA UpToIsFinite == \A n \in Nat : IsFiniteSet(1..n)
BY FS_Interval

LEMMA ReachingAreRules ==
    ASSUME NEW bought, NEW rules, rules \in Seq(Range(rules))
    PROVE  Reaching(bought, rules) \in Seq(Range(rules))
<1> DEFINE at == {k \in DOMAIN rules : Reaches(rules[k], bought)}
           Nth(n) == CHOOSE k \in at : Cardinality({j \in at : j < k}) = n - 1
<1>1. DOMAIN rules = 1..Len(rules) /\ Len(rules) \in Nat
  OBVIOUS
<1>2. IsFiniteSet(at) /\ at \in SUBSET Int /\ Cardinality(at) \in Nat
  <2>1. at \in SUBSET (1..Len(rules)) /\ IsFiniteSet(1..Len(rules))
    BY <1>1, UpToIsFinite
  <2>2. at \in SUBSET Int
    BY <1>1
  <2> HIDE DEF at
  <2> QED
    BY <2>1, <2>2, FS_Subset, FS_CardinalityType
<1>3. \A n \in 1..Cardinality(at) : Nth(n) \in at
  BY <1>2, NthExists
<1>4. \A n \in 1..Cardinality(at) : rules[Nth(n)] \in Range(rules)
  BY <1>3 DEF Range
<1>5. Reaching(bought, rules) = [n \in 1..Cardinality(at) |-> rules[Nth(n)]]
  BY DEF Reaching
<1> HIDE DEF at, Nth
<1> QED
  BY <1>2, <1>4, <1>5

\* What is left after k rules.
Remains(bought, rules, g, k) ==
    IF k = 0 THEN bought.grand
    ELSE g[k - 1] - Clamped(Desired(rules[k], bought), rules[k].cap, g[k - 1])
IsLeft(g, bought, rules, n) == g = [k \in 0..n |-> Remains(bought, rules, g, k)]

LEMMA LeftExists ==
    ASSUME NEW bought, NEW rules, NEW n \in Nat
    PROVE  \E g : IsLeft(g, bought, rules, n)
<1> DEFINE Missing == {m \in Nat : ~ \E g : IsLeft(g, bought, rules, m)}
<1> SUFFICES ASSUME Missing # {} PROVE FALSE
  OBVIOUS
<1>1. PICK m \in Missing : \A k \in Missing : m <= k
  BY LeastNumber
<1>2. CASE m = 0
  <2>1. IsLeft([k \in 0..0 |-> bought.grand], bought, rules, 0)
    BY DEF IsLeft, Remains
  <2> QED
    BY <1>1, <1>2, <2>1
<1>3. CASE m # 0
  <2>1. m \in Nat /\ m - 1 \in Nat /\ ~(m <= m - 1)
    BY <1>3
  <2>2. m - 1 \notin Missing
    BY <1>1, <2>1
  <2>3. PICK g : IsLeft(g, bought, rules, m - 1)
    BY <2>1, <2>2
  <2> DEFINE h == [k \in 0..m |-> Remains(bought, rules, g, k)]
  <2>4. \A k \in 0..(m - 1) : g[k] = Remains(bought, rules, g, k)
    BY <2>3 DEF IsLeft
  <2>5. \A k \in 0..(m - 1) : h[k] = g[k]
    BY <2>1, <2>4
  <2>6. \A k \in 0..m : h[k] = Remains(bought, rules, g, k)
    OBVIOUS
  <2>7. h = [k \in 0..m |-> h[k]]
    OBVIOUS
  <2> HIDE DEF h
  <2>8. \A k \in 0..m : Remains(bought, rules, g, k) = Remains(bought, rules, h, k)
    <3> SUFFICES ASSUME NEW k \in 0..m, k # 0 PROVE g[k - 1] = h[k - 1]
      BY DEF Remains
    <3> QED
      BY <2>1, <2>5
  <2>9. IsLeft(h, bought, rules, m)
    BY <2>6, <2>7, <2>8 DEF IsLeft
  <2> QED
    BY <1>1, <2>9
<1> QED
  BY <1>2, <1>3

LEMMA TakesUnfolds ==
    ASSUME NEW bought, NEW rules
    PROVE  Takes(bought, rules) =
             [k \in 1..Len(rules) |-> (CHOOSE g : IsLeft(g, bought, rules, Len(rules)))[k - 1]
                                      - (CHOOSE g : IsLeft(g, bought, rules, Len(rules)))[k]]
BY DEF Takes, IsLeft, Remains

LEMMA ClampedFits ==
    ASSUME NEW desired \in Int, NEW cap \in Int, NEW left \in Nat
    PROVE  Clamped(desired, cap, left) \in 0..left
BY DEF Clamped, AtLeastZero, Least

\* Whatever the rules ask for, together they take at most what there is.
LEMMA TakesFit ==
    ASSUME NEW bought, NEW rules, rules \in Seq(Range(rules)), bought.grand \in Nat,
           \A k \in 1..Len(rules) : rules[k].cap \in Int /\ Desired(rules[k], bought) \in Int
    PROVE  /\ Takes(bought, rules) \in [1..Len(rules) -> Nat]
           /\ SumFunctionOnSet(Takes(bought, rules), 1..Len(rules)) <= bought.grand
<1>1. Len(rules) \in Nat
  OBVIOUS
<1> DEFINE g == CHOOSE f : IsLeft(f, bought, rules, Len(rules))
<1>2. Takes(bought, rules) = [k \in 1..Len(rules) |-> g[k - 1] - g[k]]
  BY TakesUnfolds
<1>3. IsLeft(g, bought, rules, Len(rules))
  BY <1>1, LeftExists
<1> HIDE DEF g
<1> DEFINE n == Len(rules)
           taken == Takes(bought, rules)
<1>4. g[0] = bought.grand /\ \A k \in 1..n :
         g[k] = g[k - 1] - Clamped(Desired(rules[k], bought), rules[k].cap, g[k - 1])
  <2>1. \A k \in 0..n : g[k] = Remains(bought, rules, g, k)
    BY <1>3 DEF IsLeft
  <2> QED
    BY <1>1, <2>1 DEF Remains
<1>5. DOMAIN taken = 1..n /\ \A k \in 1..n : taken[k] = g[k - 1] - g[k]
  BY <1>2
<1> HIDE DEF taken
<1>6. \A k \in 0..n : g[k] \in Nat
  <2> DEFINE Bad == {k \in Nat : k <= n /\ g[k] \notin Nat}
  <2> SUFFICES ASSUME Bad # {} PROVE FALSE
    BY <1>1
  <2>1. PICK m \in Bad : \A k \in Bad : m <= k
    BY LeastNumber
  <2>2. m \in Nat /\ m <= n /\ m # 0 /\ m \in 1..n /\ m - 1 \in Nat
    BY <1>1, <1>4
  <2>3. g[m - 1] \in Nat
    BY <1>1, <2>1, <2>2
  <2>4. Clamped(Desired(rules[m], bought), rules[m].cap, g[m - 1]) \in 0..g[m - 1]
    BY <2>2, <2>3, ClampedFits
  <2>5. g[m] \in Nat
    BY <1>4, <2>2, <2>3, <2>4
  <2> QED
    BY <2>5
<1>7. \A k \in 1..n : taken[k] \in Nat
  <2> SUFFICES ASSUME NEW k \in 1..n PROVE taken[k] \in Nat
    OBVIOUS
  <2>1. g[k - 1] \in Nat /\ g[k] \in Nat
    BY <1>1, <1>6
  <2>2. Clamped(Desired(rules[k], bought), rules[k].cap, g[k - 1]) \in 0..g[k - 1]
    BY <2>1, ClampedFits
  <2>3. PICK c \in 0..g[k - 1] : g[k] = g[k - 1] - c
    BY <1>4, <2>2
  <2>4. taken[k] = c
    BY <1>5, <2>1, <2>3
  <2> QED
    BY <2>1, <2>3, <2>4
<1>8. \A m \in 0..n : SumFunctionOnSet(taken, 1..m) = g[0] - g[m]
  <2> DEFINE Telescopes(m) == SumFunctionOnSet(taken, 1..m) = g[0] - g[m]
             Bad == {m \in Nat : m <= n /\ ~Telescopes(m)}
  <2> SUFFICES ASSUME Bad # {} PROVE FALSE
    BY <1>1
  <2>1. PICK m \in Bad : \A k \in Bad : m <= k
    BY LeastNumber
  <2>2. m \in Nat /\ m <= n /\ n \in Nat
    BY <1>1
  <2>3. CASE m = 0
    <3>1. 1..0 = {} /\ g[0] - g[0] = 0
      BY <1>1, <1>6
    <3> QED
      BY <2>1, <2>3, <3>1, SumOfNone
  <2>4. CASE m # 0
    <3>1. m - 1 \in Nat /\ m - 1 <= n /\ ~(m <= m - 1) /\ m \in 1..n
      BY <2>2, <2>4
    <3>2. Telescopes(m - 1)
      <4>1. m - 1 \notin Bad
        BY <2>1, <3>1
      <4> QED
        BY <3>1, <4>1
    <3>3. 1..m = (1..(m - 1)) \cup {m} /\ m \notin 1..(m - 1) /\ IsFiniteSet(1..(m - 1))
      <4>1. IsFiniteSet(1..(m - 1))
        BY <3>1, UpToIsFinite
      <4>2. 1..m = (1..(m - 1)) \cup {m} /\ m \notin 1..(m - 1)
        BY <2>2, <3>1
      <4> QED
        BY <4>1, <4>2
    <3>4. \A x \in (1..(m - 1)) \cup {m} : taken[x] \in Int
      BY <1>7, <2>2, <3>1
    <3>5. SumFunctionOnSet(taken, 1..m) = taken[m] + SumFunctionOnSet(taken, 1..(m - 1))
      BY <3>3, <3>4, SumWith
    <3>6. g[0] \in Int /\ g[m - 1] \in Int /\ g[m] \in Int
      BY <1>6, <2>2, <3>1
    <3>7. Telescopes(m)
      BY <1>5, <3>1, <3>2, <3>5, <3>6
    <3> QED
      BY <3>7
  <2> QED
    BY <2>3, <2>4
<1>9. SumFunctionOnSet(taken, 1..n) = g[0] - g[n] /\ g[n] \in Nat
  BY <1>1, <1>6, <1>8
<1>10. taken \in [1..n -> Nat]
  <2>1. taken = [k \in 1..n |-> taken[k]]
    BY <1>2 DEF taken
  <2> HIDE DEF n
  <2> QED
    BY <1>7, <2>1
<1> QED
  BY <1>4, <1>9, <1>10 DEF taken

\* split.engine.ts: the amounts of an order's allocations are whole and make up the order.
LEMMA AllocationsFit ==
    ASSUME NEW s \in Sales
    PROVE  /\ AllocationsOf(s.order, s.rules) \in Seq(Nat)
           /\ Total(AllocationsOf(s.order, s.rules)) = s.order.grand
<1> DEFINE grand == s.order.grand
           reaching == Reaching(s.order, s.rules)
           taken == Takes(s.order, reaching)
           n == Len(reaching)
           fixed == [k \in DOMAIN taken |-> [mode |-> "FIXED", value |-> taken[k]]]
           rest == [mode |-> "REMAINDER", value |-> 0]
           rules == Append(fixed, rest)
           D == 1..(n + 1)
           shares == SplitShares(grand, rules)
<1>1. /\ grand \in Nat /\ s.rules \in Seq(Range(s.rules))
      /\ \A rule \in Range(s.rules) : rule.cap \in Int /\ Desired(rule, s.order) \in Int
  BY PayoutsAssumption
<1>2. reaching \in Seq(Range(s.rules)) /\ reaching \in Seq(Range(reaching)) /\ n \in Nat
  <2>1. reaching \in Seq(Range(s.rules))
    BY <1>1, ReachingAreRules
  <2> HIDE DEF reaching
  <2>2. reaching \in [1..Len(reaching) -> Range(s.rules)] /\ Len(reaching) \in Nat
    BY <2>1
  <2>3. \A k \in 1..Len(reaching) : reaching[k] \in Range(reaching)
    BY <2>2 DEF Range
  <2>4. reaching \in Seq(Range(reaching))
    BY <2>2, <2>3
  <2> QED
    BY <2>1, <2>2, <2>4
<1>3. \A k \in 1..n : reaching[k].cap \in Int /\ Desired(reaching[k], s.order) \in Int
  <2> HIDE DEF reaching
  <2> QED
    BY <1>1, <1>2
<1>4. taken \in [1..n -> Nat] /\ SumFunctionOnSet(taken, 1..n) <= grand
  <2> HIDE DEF reaching
  <2> QED
    BY <1>1, <1>2, <1>3, TakesFit
<1> HIDE DEF reaching, taken, grand, n
<1>5. DOMAIN taken = 1..n /\ \A k \in 1..n : taken[k] \in Nat
  BY <1>4
<1>6. rest \in [mode : RuleModes, value : Int] /\ rest.mode = "REMAINDER"
  BY DEF RuleModes
<1>7. fixed \in Seq([mode : RuleModes, value : Int]) /\ Len(fixed) = n
  <2>1. fixed \in [1..n -> [mode : RuleModes, value : Int]]
    BY <1>5 DEF RuleModes
  <2> HIDE DEF fixed
  <2> QED
    BY <1>2, <2>1, FunctionIsSeq
<1>8. \A k \in 1..n : fixed[k].mode = "FIXED" /\ fixed[k].value = taken[k]
  BY <1>5
<1> HIDE DEF fixed, rest
<1>9. /\ rules \in [D -> [mode : RuleModes, value : Int]]
      /\ rules[n + 1] = rest /\ \A k \in 1..n : rules[k] = fixed[k]
  <2> DEFINE X == [mode : RuleModes, value : Int]
  <2>1. fixed \in Seq(X) /\ rest \in X
    BY <1>6, <1>7
  <2> HIDE DEF X
  <2>2. /\ Append(fixed, rest) \in [1..(n + 1) -> X] /\ Append(fixed, rest)[n + 1] = rest
        /\ \A k \in 1..n : Append(fixed, rest)[k] = fixed[k]
    BY <1>2, <1>7, <2>1, AppendIs
  <2> QED
    BY <2>2 DEF X
<1> HIDE DEF rules
<1>10. DOMAIN rules = D /\ Remainder(rules) = {n + 1}
  <2>1. \A k \in D : k = n + 1 \/ k \in 1..n
    BY <1>2
  <2> QED
    BY <1>2, <1>6, <1>8, <1>9, <2>1 DEF Remainder
<1>11. /\ DOMAIN shares = D /\ shares[n + 1] = 0
       /\ \A k \in 1..n : shares[k] = taken[k]
  <2>1. n + 1 \in D /\ \A k \in 1..n : k \in D
    BY <1>2
  <2>2. rules[n + 1].mode = "REMAINDER" /\ \A k \in 1..n : rules[k].mode = "FIXED" /\ rules[k].value = taken[k]
    BY <1>6, <1>8, <1>9
  <2> QED
    BY <1>10, <2>1, <2>2 DEF SplitShares
<1> HIDE DEF shares
<1>12. Total(shares) <= grand /\ Total(shares) \in Int
  <2>1. D = (1..n) \cup {n + 1} /\ n + 1 \notin 1..n /\ IsFiniteSet(1..n)
    <3>1. IsFiniteSet(1..n)
      BY <1>2, UpToIsFinite
    <3>2. D = (1..n) \cup {n + 1} /\ n + 1 \notin 1..n
      BY <1>2
    <3> QED
      BY <3>1, <3>2
  <2>2. \A x \in (1..n) \cup {n + 1} : shares[x] \in Int
    BY <1>5, <1>11
  <2>3. SumFunctionOnSet(shares, D) = shares[n + 1] + SumFunctionOnSet(shares, 1..n)
    BY <2>1, <2>2, SumWith
  <2>4. SumFunctionOnSet(shares, 1..n) = SumFunctionOnSet(taken, 1..n)
    BY <1>11, <2>1, SumOfEqual
  <2>5. SumFunctionOnSet(taken, 1..n) \in Int
    <3>1. \A x \in 1..n : taken[x] \in Int
      BY <1>5
    <3> QED
      BY <2>1, <3>1, SumIsInt
  <2> QED
    BY <1>4, <1>11, <2>3, <2>4, <2>5, TotalIs
<1>13. SplitLeft(grand, rules) \in Nat
  BY <1>1, <1>12 DEF SplitLeft, shares, grand
<1>14. SplitPaise(grand, rules) =
         [i \in D |-> IF i \in Remainder(rules) THEN SplitLeft(grand, rules) ELSE shares[i]]
  <2>1. Cardinality(Remainder(rules)) = 1 /\ Remainder(rules) # {}
    BY <1>10, FS_Singleton
  <2>2. ~(Cardinality(Remainder(rules)) > 1) /\ ~(SplitLeft(grand, rules) < 0)
    BY <1>13, <2>1
  <2> QED
    BY <1>10, <2>1, <2>2, SplitUnfolds DEF shares
<1>15. \A i \in D : (IF i \in Remainder(rules) THEN SplitLeft(grand, rules) ELSE shares[i]) \in Nat
  <2>1. \A k \in D : k = n + 1 \/ k \in 1..n
    BY <1>2
  <2> QED
    BY <1>5, <1>10, <1>11, <1>13, <2>1
<1>16. SplitPaise(grand, rules) \in [D -> Nat]
  BY <1>14, <1>15
<1>17. SplitPaise(grand, rules) \in Seq(Nat) /\ SplitPaise(grand, rules) # <<>>
  <2>1. n + 1 \in Nat /\ n + 1 \in D
    BY <1>2
  <2> QED
    BY <1>16, <2>1
<1>18. Total(SplitPaise(grand, rules)) = grand
  <2>1. D \in SUBSET Int /\ IsFiniteSet(D) /\ grand \in Int
    BY <1>1, <1>2, FS_Interval DEF grand
  <2> QED
    BY <1>9, <1>17, <2>1, SplitIsExact
<1>19. AllocationsOf(s.order, s.rules) = SplitPaise(grand, rules)
  BY DEF AllocationsOf, grand, rules, fixed, rest, taken, reaching
<1> QED
  BY <1>17, <1>18, <1>19 DEF grand

\* One administrator retries at a time, lives to record what the provider answered, and no
\* answer is lost: without each of them a transfer that was paid is still booked as failed.
RetriesAreSafe ==
    /\ \A a, b \in Retriers : a = b
    /\ "retrier" \notin MortalPayers
    /\ LostAnswers = FALSE

Legs == [amount : Nat, row : RowStates, paid : Nat]
Amounts == [i \in DOMAIN leg |-> leg[i].amount]
Settles(r, i) == retrier[r].calling = i /\ retrier[r].answer = "processed"

PayTyped ==
    /\ leg \in Seq(Legs)
    /\ payer = [at |-> payer.at, answer |-> payer.answer] /\ payer.at \in {"waiting", "record", "done"}
    /\ retrier \in [Retriers -> [todo : SUBSET (1..Len(leg)), calling : 0..Len(leg), answer : Answers]]
    /\ payoutCrashes \in 0..MaxPayoutCrashes

\* Before the provider is asked nothing is paid, and nobody retries.
NothingYet ==
    /\ sale = <<>> => payer.at = "waiting"
    /\ payer.at = "waiting" =>
        /\ \A i \in DOMAIN leg : leg[i].row = "none" /\ leg[i].paid = 0
        /\ \A r \in Retriers : retrier[r] = AtRest

\* What the rows say of the provider: a leg still to be recorded has its answer waiting, one
\* booked as failed is unpaid until a retry of it succeeds, and only those are retried.
RowsAgree ==
    /\ \A i \in DOMAIN leg :
        /\ leg[i].paid <= 1
        /\ leg[i].row = "PROCESSED" => leg[i].paid = 1
        /\ leg[i].row = "FAILED" => (leg[i].paid = 1 <=> \E r \in Retriers : Settles(r, i))
    /\ payer.at = "record" =>
        /\ payer.answer \in [Payable -> Answers]
        /\ \A i \in Payable : leg[i].row = "none" => (leg[i].paid = 1 <=> payer.answer[i] = "processed")
    /\ \A r \in Retriers :
        /\ \A i \in retrier[r].todo : leg[i].row = "FAILED" /\ retrier[r].calling # i
        /\ retrier[r].calling # 0 => leg[retrier[r].calling].row = "FAILED"

SoldInFull == sale # <<>> => Total(Amounts) = sale.order.grand

Paying == PayTyped /\ NothingYet /\ RowsAgree /\ SoldInFull

LEMMA PayingInit == PayoutsInit => Paying
<1> SUFFICES ASSUME PayoutsInit PROVE Paying
  OBVIOUS
<1>1. leg = <<>> /\ sale = <<>> /\ payoutCrashes = 0 /\ MaxPayoutCrashes \in Nat
  BY PayoutsAssumption DEF PayoutsInit
<1>2. leg \in Seq(Legs) /\ Len(leg) = 0 /\ DOMAIN leg = {}
  BY <1>1
<1>3. payer = [at |-> "waiting", answer |-> <<>>] /\ retrier = [r \in Retriers |-> AtRest]
  BY DEF PayoutsInit
<1>4. AtRest \in [todo : SUBSET (1..Len(leg)), calling : 0..Len(leg), answer : Answers]
  BY <1>2 DEF AtRest, Answers
<1>5. PayTyped
  BY <1>1, <1>2, <1>3, <1>4 DEF PayTyped
<1>6. RowsAgree
  BY <1>2, <1>3 DEF RowsAgree, AtRest
<1>7. NothingYet /\ SoldInFull
  BY <1>1, <1>2, <1>3 DEF NothingYet, SoldInFull
<1> QED
  BY <1>5, <1>6, <1>7 DEF Paying

\* A step that keeps the allocations keeps their sum.
SameLegs == leg' \in Seq(Legs) /\ Len(leg') = Len(leg) /\ \A i \in DOMAIN leg : leg'[i].amount = leg[i].amount

LEMMA LegsAre ==
    ASSUME PayTyped
    PROVE  /\ DOMAIN leg = 1..Len(leg) /\ Len(leg) \in Nat
           /\ \A i \in DOMAIN leg : leg[i] \in Legs
BY DEF PayTyped

LEMMA SameLegsSum ==
    ASSUME PayTyped, SameLegs, SoldInFull, UNCHANGED sale
    PROVE  SoldInFull' /\ DOMAIN leg' = DOMAIN leg /\ Payable' = Payable
<1>1. DOMAIN leg = 1..Len(leg) /\ DOMAIN leg' = DOMAIN leg
  BY LegsAre DEF SameLegs
<1>2. Amounts' = Amounts /\ Payable' = Payable
  BY <1>1 DEF SameLegs, Amounts, Payable
<1> QED
  BY <1>1, <1>2 DEF SoldInFull

LEMMA PayIs ==
    ASSUME PayTyped, NEW S, Pay(S)
    PROVE  /\ SameLegs
           /\ \A i \in DOMAIN leg : leg'[i].row = leg[i].row
                                    /\ leg'[i].paid = leg[i].paid + (IF i \in S THEN 1 ELSE 0)
<1>1. DOMAIN leg = 1..Len(leg) /\ Len(leg) \in Nat /\ \A i \in DOMAIN leg : leg[i] \in Legs
  BY LegsAre
<1> DEFINE paid(i) == IF i \in S THEN [leg[i] EXCEPT !.paid = @ + 1] ELSE leg[i]
<1>2. \A i \in DOMAIN leg : /\ paid(i) \in Legs /\ paid(i).amount = leg[i].amount /\ paid(i).row = leg[i].row
                            /\ paid(i).paid = leg[i].paid + (IF i \in S THEN 1 ELSE 0)
  <2> SUFFICES ASSUME NEW i \in DOMAIN leg
               PROVE  /\ paid(i) \in Legs /\ paid(i).amount = leg[i].amount /\ paid(i).row = leg[i].row
                      /\ paid(i).paid = leg[i].paid + (IF i \in S THEN 1 ELSE 0)
    OBVIOUS
  <2> QED
    BY <1>1 DEF Legs
<1>3. leg' = [i \in DOMAIN leg |-> paid(i)]
  BY DEF Pay
<1> HIDE DEF paid
<1>4. leg' \in [1..Len(leg) -> Legs] /\ \A i \in DOMAIN leg : leg'[i] = paid(i)
  BY <1>1, <1>2, <1>3
<1>5. leg' \in Seq(Legs) /\ Len(leg') = Len(leg)
  BY <1>1, <1>4, FunctionIsSeq
<1> QED
  BY <1>2, <1>4, <1>5 DEF SameLegs

LEMMA RowIs ==
    ASSUME PayTyped, NEW i \in DOMAIN leg, NEW s \in RowStates, leg' = [leg EXCEPT ![i].row = s]
    PROVE  /\ SameLegs
           /\ \A j \in DOMAIN leg : leg'[j].paid = leg[j].paid
                                    /\ leg'[j].row = IF j = i THEN s ELSE leg[j].row
<1>1. DOMAIN leg = 1..Len(leg) /\ Len(leg) \in Nat /\ \A j \in DOMAIN leg : leg[j] \in Legs
  BY LegsAre
<1>2. \A j \in DOMAIN leg : leg'[j] = IF j = i THEN [leg[j] EXCEPT !.row = s] ELSE leg[j]
  OBVIOUS
<1>3. \A j \in DOMAIN leg : /\ leg'[j] \in Legs /\ leg'[j].amount = leg[j].amount
                            /\ leg'[j].paid = leg[j].paid
                            /\ leg'[j].row = IF j = i THEN s ELSE leg[j].row
  BY <1>1, <1>2 DEF Legs
<1>4. leg' = [j \in 1..Len(leg) |-> leg'[j]]
  BY <1>1
<1>5. leg' \in [1..Len(leg) -> Legs]
  BY <1>1, <1>3, <1>4
<1>6. leg' \in Seq(Legs) /\ Len(leg') = Len(leg)
  BY <1>1, <1>5, FunctionIsSeq
<1> QED
  BY <1>3, <1>6 DEF SameLegs

LEMMA PlaceSaleKeepsPaying ==
    ASSUME Paying, PlaceSale
    PROVE  Paying'
<1>1. /\ payer.at = "waiting" /\ \A r \in Retriers : retrier[r] = AtRest
      /\ UNCHANGED <<payer, retrier, payoutCrashes>> /\ sale' \in Sales
  BY DEF PlaceSale, Paying, NothingYet
<1> DEFINE amounts == AllocationsOf(sale'.order, sale'.rules)
<1>2. amounts \in Seq(Nat) /\ Total(amounts) = sale'.order.grand
  BY <1>1, AllocationsFit
<1>3. leg' = [i \in DOMAIN amounts |-> [amount |-> amounts[i], row |-> "none", paid |-> 0]]
  BY DEF PlaceSale
<1> HIDE DEF amounts
<1>4. DOMAIN amounts = 1..Len(amounts) /\ Len(amounts) \in Nat /\ \A i \in DOMAIN amounts : amounts[i] \in Nat
  BY <1>2
<1>5. /\ leg' \in [1..Len(amounts) -> Legs] /\ DOMAIN leg' = DOMAIN amounts
      /\ \A i \in DOMAIN amounts : leg'[i].amount = amounts[i] /\ leg'[i].row = "none" /\ leg'[i].paid = 0
  BY <1>3, <1>4 DEF Legs, RowStates
<1>6. leg' \in Seq(Legs) /\ Len(leg') = Len(amounts)
  BY <1>4, <1>5, FunctionIsSeq
<1>7. Amounts' = amounts
  <2>1. amounts = [i \in DOMAIN amounts |-> amounts[i]]
    BY <1>2
  <2> QED
    BY <1>5, <2>1 DEF Amounts
<1>8. AtRest \in [todo : SUBSET (1..Len(leg')), calling : 0..Len(leg'), answer : Answers]
  BY <1>4, <1>6 DEF AtRest, Answers
<1>9. PayTyped'
  <2>1. DOMAIN retrier = Retriers /\ retrier = [r \in Retriers |-> retrier[r]]
    BY DEF Paying, PayTyped
  <2>2. retrier' \in [Retriers -> [todo : SUBSET (1..Len(leg')), calling : 0..Len(leg'), answer : Answers]]
    BY <1>1, <1>8, <2>1
  <2> QED
    BY <1>1, <1>6, <2>2 DEF Paying, PayTyped
<1>10. NothingYet'
  BY <1>1, <1>5 DEF NothingYet, PlaceSale
<1>11. RowsAgree'
  BY <1>1, <1>5 DEF RowsAgree, AtRest
<1>12. SoldInFull'
  BY <1>2, <1>7 DEF SoldInFull
<1> QED
  BY <1>9, <1>10, <1>11, <1>12 DEF Paying

LEMMA AskKeepsPaying ==
    ASSUME Paying, RetriesAreSafe, AskForTransfers
    PROVE  Paying'
<1>1. /\ payer.at = "waiting" /\ sale # <<>> /\ UNCHANGED <<sale, retrier, payoutCrashes>>
      /\ \A i \in DOMAIN leg : leg[i].row = "none" /\ leg[i].paid = 0
      /\ \A r \in Retriers : retrier[r] = AtRest
  BY DEF AskForTransfers, Paying, NothingYet
<1>2. PayTyped /\ SoldInFull
  BY DEF Paying
<1>3. CASE payer' = [payer EXCEPT !.at = "done"] /\ UNCHANGED leg
  <2>1. payer'.at = "done" /\ payer' = [at |-> payer'.at, answer |-> payer'.answer]
    BY <1>2, <1>3 DEF PayTyped
  <2>2. PayTyped'
    BY <1>1, <1>2, <1>3, <2>1 DEF PayTyped
  <2>3. NothingYet' /\ RowsAgree' /\ SoldInFull'
    BY <1>1, <1>2, <1>3, <2>1 DEF NothingYet, RowsAgree, SoldInFull, Amounts, AtRest
  <2> QED
    BY <2>2, <2>3 DEF Paying
<1>4. CASE \E answer \in [Payable -> Answers] :
             /\ payer' = [at |-> "record", answer |-> answer]
             /\ Pay({i \in Payable : answer[i] = "processed"})
  <2>1. PICK answer \in [Payable -> Answers] :
             /\ payer' = [at |-> "record", answer |-> answer]
             /\ Pay({i \in Payable : answer[i] = "processed"})
    BY <1>4
  <2> DEFINE S == {i \in Payable : answer[i] = "processed"}
  <2>2. SameLegs /\ \A i \in DOMAIN leg : leg'[i].row = leg[i].row
                                    /\ leg'[i].paid = leg[i].paid + (IF i \in S THEN 1 ELSE 0)
    BY <1>2, <2>1, PayIs
  <2>3. SoldInFull' /\ DOMAIN leg' = DOMAIN leg /\ Payable' = Payable
    BY <1>1, <1>2, <2>2, SameLegsSum
  <2>4. PayTyped'
    BY <1>1, <1>2, <2>1, <2>2 DEF PayTyped, SameLegs
  <2>5. NothingYet'
    BY <1>1, <2>1 DEF NothingYet
  <2>6. \A i \in DOMAIN leg : /\ leg'[i].row = "none"
                              /\ leg'[i].paid = IF i \in S THEN 1 ELSE 0
    BY <1>1, <2>2
  <2>7. \A i \in Payable : i \in DOMAIN leg
    BY DEF Payable
  <2>8. RowsAgree'
    BY <1>1, <2>1, <2>3, <2>6, <2>7 DEF RowsAgree, AtRest
  <2> QED
    BY <2>3, <2>4, <2>5, <2>8 DEF Paying
<1>5. CASE \E paid \in {{}} \cup (IF LostAnswers THEN {Payable} ELSE {}) :
             /\ payer' = [at |-> "record", answer |-> [i \in Payable |-> "failed"]]
             /\ Pay(paid)
  <2>1. payer' = [at |-> "record", answer |-> [i \in Payable |-> "failed"]] /\ Pay({})
    BY <1>5 DEF RetriesAreSafe
  <2>2. SameLegs /\ \A i \in DOMAIN leg : leg'[i].row = leg[i].row
                                    /\ leg'[i].paid = leg[i].paid + (IF i \in {} THEN 1 ELSE 0)
    BY <1>2, <2>1, PayIs
  <2>3. SoldInFull' /\ DOMAIN leg' = DOMAIN leg /\ Payable' = Payable
    BY <1>1, <1>2, <2>2, SameLegsSum
  <2>4. PayTyped'
    BY <1>1, <1>2, <2>1, <2>2 DEF PayTyped, SameLegs
  <2>5. NothingYet'
    BY <1>1, <2>1 DEF NothingYet
  <2>6. \A i \in DOMAIN leg : leg'[i].row = "none" /\ leg'[i].paid = 0
    BY <1>1, <2>2
  <2>7. \A i \in Payable : i \in DOMAIN leg
    BY DEF Payable
  <2>8. payer'.answer \in [Payable -> Answers] /\ \A i \in Payable : payer'.answer[i] = "failed"
    BY <2>1 DEF Answers
  <2>9. RowsAgree'
    BY <1>1, <2>3, <2>6, <2>7, <2>8 DEF RowsAgree, AtRest
  <2> QED
    BY <2>3, <2>4, <2>5, <2>9 DEF Paying
<1> QED
  BY <1>3, <1>4, <1>5 DEF AskForTransfers

LEMMA PayerDiesKeepsPaying ==
    ASSUME Paying, PayerDies
    PROVE  Paying'
<1>1. payer'.at = "done" /\ payer' = [at |-> payer'.at, answer |-> payer'.answer] /\ payer.at = "record"
  BY DEF PayerDies, Paying, PayTyped
<1>2. payoutCrashes' \in 0..MaxPayoutCrashes /\ UNCHANGED <<sale, leg, retrier>>
  BY PayoutsAssumption DEF PayerDies, Paying, PayTyped
<1>3. PayTyped'
  BY <1>1, <1>2 DEF Paying, PayTyped
<1>4. NothingYet' /\ RowsAgree' /\ SoldInFull'
  BY <1>1, <1>2 DEF Paying, NothingYet, RowsAgree, SoldInFull, Amounts, Settles
<1> QED
  BY <1>3, <1>4 DEF Paying

LEMMA RecordKeepsPaying ==
    ASSUME Paying, NEW i \in DOMAIN leg, RecordTransfer(i)
    PROVE  Paying'
<1>1. PayTyped /\ SoldInFull /\ payer.at = "record" /\ i \in Payable /\ leg[i].row = "none"
  BY DEF RecordTransfer, Paying, Recorded
<1>2. UNCHANGED <<sale, retrier, payoutCrashes>>
  BY DEF RecordTransfer
<1>3. payer.answer \in [Payable -> Answers] /\ (leg[i].paid = 1 <=> payer.answer[i] = "processed")
  BY <1>1 DEF Paying, RowsAgree
<1> DEFINE s == RowOf(payer.answer[i])
<1>4. s \in {"PROCESSED", "FAILED"} /\ (s = "PROCESSED" <=> leg[i].paid = 1)
  BY <1>1, <1>3 DEF RowOf, Answers
<1>5. leg' = [leg EXCEPT ![i].row = s]
  BY DEF RecordTransfer
<1> HIDE DEF s
<1>6. SameLegs /\ \A j \in DOMAIN leg : leg'[j].paid = leg[j].paid
                                    /\ leg'[j].row = IF j = i THEN s ELSE leg[j].row
  <2>1. s \in RowStates
    BY <1>4 DEF RowStates
  <2> QED
    BY <1>1, <1>5, <2>1, RowIs
<1>7. SoldInFull' /\ DOMAIN leg' = DOMAIN leg /\ Payable' = Payable
  BY <1>1, <1>2, <1>6, SameLegsSum
<1>8. payer' = [at |-> payer'.at, answer |-> payer'.answer] /\ payer'.at \in {"record", "done"}
      /\ payer'.answer = payer.answer
  BY <1>1 DEF RecordTransfer, PayTyped
<1>9. PayTyped'
  BY <1>1, <1>2, <1>6, <1>8 DEF PayTyped, SameLegs
<1>10. NothingYet'
  BY <1>1, <1>2, <1>8 DEF Paying, NothingYet
<1>11. \A r \in Retriers : retrier[r].calling # i /\ i \notin retrier[r].todo
  <2> SUFFICES ASSUME NEW r \in Retriers PROVE retrier[r].calling # i /\ i \notin retrier[r].todo
    OBVIOUS
  <2>1. i # 0
    BY <1>1, LegsAre
  <2> QED
    BY <1>1, <2>1 DEF Paying, RowsAgree
<1>12. \A r \in Retriers : /\ retrier[r].todo \subseteq DOMAIN leg
                           /\ retrier[r].calling # 0 => retrier[r].calling \in DOMAIN leg
  BY <1>1, LegsAre DEF PayTyped
<1>13. RowsAgree'
  <2>1. \A j \in DOMAIN leg :
        /\ leg'[j].paid <= 1
        /\ leg'[j].row = "PROCESSED" => leg'[j].paid = 1
        /\ leg'[j].row = "FAILED" => (leg'[j].paid = 1 <=> \E r \in Retriers : Settles(r, j))
    <3> SUFFICES ASSUME NEW j \in DOMAIN leg
                 PROVE  /\ leg'[j].paid <= 1
                        /\ leg'[j].row = "PROCESSED" => leg'[j].paid = 1
                        /\ leg'[j].row = "FAILED" => (leg'[j].paid = 1 <=> \E r \in Retriers : Settles(r, j))
      OBVIOUS
    <3>1. CASE j = i
      BY <1>4, <1>6, <1>11, <3>1 DEF Settles, Paying, RowsAgree
    <3>2. CASE j # i
      BY <1>6, <3>2 DEF Paying, RowsAgree
    <3> QED
      BY <3>1, <3>2
  <2>2. \A j \in Payable : leg'[j].row = "none" => (leg'[j].paid = 1 <=> payer.answer[j] = "processed")
    BY <1>1, <1>4, <1>6 DEF Paying, RowsAgree, Payable
  <2>3. \A r \in Retriers :
        /\ \A j \in retrier[r].todo : leg'[j].row = "FAILED" /\ retrier[r].calling # j
        /\ retrier[r].calling # 0 => leg'[retrier[r].calling].row = "FAILED"
    BY <1>6, <1>11, <1>12 DEF Paying, RowsAgree
  <2> QED
    BY <1>2, <1>3, <1>7, <1>8, <2>1, <2>2, <2>3 DEF RowsAgree, Settles
<1> QED
  BY <1>7, <1>9, <1>10, <1>13 DEF Paying

LEMMA RetrierIs ==
    ASSUME PayTyped, NEW r \in Retriers
    PROVE  /\ retrier[r] \in [todo : SUBSET (DOMAIN leg), calling : 0..Len(leg), answer : Answers]
           /\ retrier[r].calling # 0 => retrier[r].calling \in DOMAIN leg
           /\ DOMAIN leg = 1..Len(leg) /\ 0 \notin DOMAIN leg
BY LegsAre DEF PayTyped

LEMMA StartKeepsPaying ==
    ASSUME Paying, RetriesAreSafe, NEW r \in Retriers, StartRetry(r)
    PROVE  Paying'
<1> DEFINE failed == {i \in DOMAIN leg : Retriable(i)}
<1>1. /\ retrier' = [retrier EXCEPT ![r].todo = failed] /\ failed # {} /\ retrier[r] = AtRest
      /\ UNCHANGED <<sale, leg, payer, payoutCrashes>>
  BY DEF StartRetry
<1>2. failed \subseteq DOMAIN leg /\ \A i \in failed : leg[i].row = "FAILED"
  BY DEF Retriable
<1> HIDE DEF failed
<1>3. PayTyped /\ \A x \in Retriers : x = r
  BY DEF Paying, RetriesAreSafe
<1>4. retrier[r].calling = 0 /\ retrier[r].answer = "failed"
  BY <1>1 DEF AtRest
<1>5. /\ retrier' \in [Retriers -> [todo : SUBSET (1..Len(leg)), calling : 0..Len(leg), answer : Answers]]
      /\ retrier'[r].todo = failed /\ retrier'[r].calling = 0 /\ retrier'[r].answer = "failed"
  BY <1>1, <1>2, <1>3, <1>4, LegsAre DEF PayTyped
<1>6. PayTyped'
  BY <1>1, <1>3, <1>5 DEF PayTyped
<1>7. payer.at # "waiting" /\ NothingYet' /\ SoldInFull'
  BY <1>1, <1>2 DEF Paying, NothingYet, SoldInFull, Amounts
<1>8. \A i \in DOMAIN leg : ~Settles(r, i) /\ ~Settles(r, i)'
  BY <1>4, <1>5 DEF Settles
<1>9. RowsAgree'
  <2>1. 0 \notin DOMAIN leg
    BY <1>3, LegsAre
  <2>2. \A x \in Retriers :
        /\ \A i \in retrier'[x].todo : leg[i].row = "FAILED" /\ retrier'[x].calling # i
        /\ retrier'[x].calling = 0
    BY <1>2, <1>3, <1>5, <2>1
  <2>3. \A i \in DOMAIN leg : (\E x \in Retriers : Settles(x, i)) <=> (\E x \in Retriers : Settles(x, i)')
    BY <1>3, <1>8
  <2> QED
    BY <1>1, <2>2, <2>3 DEF Paying, RowsAgree, Payable, Settles
<1> QED
  BY <1>6, <1>7, <1>9 DEF Paying

LEMMA CallKeepsPaying ==
    ASSUME Paying, RetriesAreSafe, NEW r \in Retriers, RetryCall(r)
    PROVE  Paying'
<1> DEFINE i == CHOOSE x \in retrier[r].todo : \A y \in retrier[r].todo : x <= y
<1>1. retrier[r].calling = 0 /\ retrier[r].todo # {} /\ UNCHANGED <<sale, payer, payoutCrashes>>
  BY DEF RetryCall
<1>2. PayTyped /\ SoldInFull /\ \A x \in Retriers : x = r
  BY DEF Paying, RetriesAreSafe
<1>3. retrier[r].todo \in SUBSET Nat
  <2>1. retrier[r].todo \subseteq DOMAIN leg /\ DOMAIN leg = 1..Len(leg) /\ Len(leg) \in Nat
    BY <1>2, LegsAre, RetrierIs
  <2> QED
    BY <2>1
<1>4. i \in retrier[r].todo
  <2>1. \E x \in retrier[r].todo : \A y \in retrier[r].todo : x <= y
    BY <1>1, <1>3, LeastNumber
  <2> QED
    BY <2>1
<1>5. PICK answer \in Answers :
        /\ retrier' = [retrier EXCEPT ![r] = [todo |-> @.todo \ {i}, calling |-> i, answer |-> answer]]
        /\ Pay(IF answer = "processed" THEN {i} ELSE {})
  <2>1. PICK answer \in Answers, lost \in BOOLEAN :
        /\ lost => LostAnswers /\ answer = "failed"
        /\ retrier' = [retrier EXCEPT ![r] = [todo |-> @.todo \ {i}, calling |-> i, answer |-> answer]]
        /\ Pay(IF answer = "processed" \/ lost THEN {i} ELSE {})
    BY DEF RetryCall
  <2>2. lost = FALSE
    BY <2>1 DEF RetriesAreSafe
  <2> QED
    BY <2>1, <2>2
<1> HIDE DEF i
<1>6. i \in DOMAIN leg /\ i # 0 /\ leg[i].row = "FAILED" /\ leg[i].paid = 0
  <2>1. i \in DOMAIN leg /\ i # 0 /\ leg[i].row = "FAILED"
    BY <1>2, <1>4, RetrierIs DEF Paying, RowsAgree
  <2>2. ~ \E x \in Retriers : Settles(x, i)
    BY <1>1, <1>2, <2>1 DEF Settles
  <2>3. leg[i].paid \in Nat /\ leg[i].paid <= 1 /\ leg[i].paid # 1
    BY <1>2, <2>1, <2>2, LegsAre DEF Paying, RowsAgree, Legs
  <2> QED
    BY <2>1, <2>3
<1>7. SameLegs /\ \A j \in DOMAIN leg : leg'[j].row = leg[j].row
        /\ leg'[j].paid = leg[j].paid + (IF j \in (IF answer = "processed" THEN {i} ELSE {}) THEN 1 ELSE 0)
  BY <1>2, <1>5, PayIs
<1>8. SoldInFull' /\ DOMAIN leg' = DOMAIN leg /\ Payable' = Payable
  BY <1>1, <1>2, <1>7, SameLegsSum
<1>9. /\ retrier' \in [Retriers -> [todo : SUBSET (1..Len(leg)), calling : 0..Len(leg), answer : Answers]]
      /\ retrier'[r].todo = retrier[r].todo \ {i} /\ retrier'[r].calling = i /\ retrier'[r].answer = answer
  <2>1. retrier[r].todo \ {i} \in SUBSET (1..Len(leg)) /\ i \in 0..Len(leg)
    BY <1>2, <1>4, <1>6, RetrierIs, LegsAre
  <2> QED
    BY <1>2, <1>5, <2>1 DEF PayTyped
<1>10. PayTyped'
  BY <1>1, <1>2, <1>7, <1>9 DEF PayTyped, SameLegs
<1>11. payer.at # "waiting" /\ NothingYet'
  BY <1>1, <1>6 DEF Paying, NothingYet
<1>12. \A j \in DOMAIN leg : /\ j # i => leg'[j].paid = leg[j].paid
                             /\ leg'[i].paid = IF answer = "processed" THEN 1 ELSE 0
  <2>1. \A j \in DOMAIN leg : leg[j].paid \in Nat
    BY <1>2, LegsAre DEF Legs
  <2> QED
    BY <1>6, <1>7, <2>1
<1>13. \A j \in DOMAIN leg : /\ (\E x \in Retriers : Settles(x, j)') <=> j = i /\ answer = "processed"
                             /\ ~ \E x \in Retriers : Settles(x, j)
  <2>1. \A j \in DOMAIN leg : j # 0
    BY <1>2, LegsAre
  <2> QED
    BY <1>1, <1>2, <1>9, <2>1 DEF Settles
<1>14. RowsAgree'
  <2>1. \A j \in DOMAIN leg :
        /\ leg'[j].paid <= 1
        /\ leg'[j].row = "PROCESSED" => leg'[j].paid = 1
        /\ leg'[j].row = "FAILED" => (leg'[j].paid = 1 <=> \E x \in Retriers : Settles(x, j)')
    <3> SUFFICES ASSUME NEW j \in DOMAIN leg
                 PROVE  /\ leg'[j].paid <= 1
                        /\ leg'[j].row = "PROCESSED" => leg'[j].paid = 1
                        /\ leg'[j].row = "FAILED" => (leg'[j].paid = 1 <=> \E x \in Retriers : Settles(x, j)')
      OBVIOUS
    <3>1. CASE j = i
      BY <1>6, <1>7, <1>12, <1>13, <3>1
    <3>2. CASE j # i
      BY <1>7, <1>12, <1>13, <3>2 DEF Paying, RowsAgree
    <3> QED
      BY <3>1, <3>2
  <2>2. \A j \in Payable : leg'[j].row = "none" => (leg'[j].paid = 1 <=> leg[j].paid = 1) /\ leg[j].row = "none"
    BY <1>6, <1>7, <1>12 DEF Payable
  <2>3. \A x \in Retriers :
        /\ \A j \in retrier'[x].todo : leg'[j].row = "FAILED" /\ retrier'[x].calling # j
        /\ retrier'[x].calling # 0 => leg'[retrier'[x].calling].row = "FAILED"
    <3>1. \A j \in retrier[r].todo : j \in DOMAIN leg /\ leg[j].row = "FAILED"
      BY <1>2, RetrierIs DEF Paying, RowsAgree
    <3> QED
      BY <1>2, <1>6, <1>7, <1>9, <3>1
  <2>4. payer.at = "record" =>
        /\ payer.answer \in [Payable -> Answers]
        /\ \A j \in Payable : leg'[j].row = "none" => (leg'[j].paid = 1 <=> payer.answer[j] = "processed")
    BY <2>2 DEF Paying, RowsAgree
  <2> QED
    BY <1>1, <1>8, <2>1, <2>3, <2>4 DEF RowsAgree, Settles
<1> QED
  BY <1>8, <1>10, <1>11, <1>14 DEF Paying

LEMMA CallIsOver ==
    ASSUME NEW T, NEW C, NEW A, 0 \in C, "failed" \in A, NEW x \in [todo : T, calling : C, answer : A],
           NEW y, y = [[x EXCEPT !.calling = 0] EXCEPT !.answer = "failed"]
    PROVE  /\ y \in [todo : T, calling : C, answer : A]
           /\ y.todo = x.todo /\ y.calling = 0 /\ y.answer = "failed"
OBVIOUS

LEMMA BookKeepsPaying ==
    ASSUME Paying, RetriesAreSafe, NEW r \in Retriers, RetryRecord(r)
    PROVE  Paying'
<1> DEFINE i == retrier[r].calling
<1>1. /\ i # 0 /\ UNCHANGED <<sale, payer, payoutCrashes>>
      /\ leg' = IF retrier[r].answer = "processed" THEN [leg EXCEPT ![i].row = "PROCESSED"] ELSE leg
      /\ retrier' = [retrier EXCEPT ![r].calling = 0, ![r].answer = "failed"]
  BY DEF RetryRecord
<1>2. PayTyped /\ SoldInFull /\ \A x \in Retriers : x = r
  BY DEF Paying, RetriesAreSafe
<1>3. i \in DOMAIN leg /\ leg[i].row = "FAILED" /\ i \notin retrier[r].todo /\ retrier[r].todo \subseteq DOMAIN leg
      /\ 0 \notin DOMAIN leg
  BY <1>1, <1>2, RetrierIs DEF Paying, RowsAgree
<1>4. leg[i].paid = 1 <=> retrier[r].answer = "processed"
  BY <1>2, <1>3 DEF Paying, RowsAgree, Settles
<1>5. /\ retrier' \in [Retriers -> [todo : SUBSET (1..Len(leg)), calling : 0..Len(leg), answer : Answers]]
      /\ retrier'[r].todo = retrier[r].todo /\ retrier'[r].calling = 0 /\ retrier'[r].answer = "failed"
  <2> DEFINE Lists == [todo : SUBSET (1..Len(leg)), calling : 0..Len(leg), answer : Answers]
             y == [[retrier[r] EXCEPT !.calling = 0] EXCEPT !.answer = "failed"]
  <2>1. retrier \in [Retriers -> Lists] /\ retrier[r] \in Lists
    BY <1>2 DEF PayTyped
  <2>2. 0 \in 0..Len(leg) /\ "failed" \in Answers
    BY <1>2, LegsAre DEF Answers
  <2>3. y \in Lists /\ y.todo = retrier[r].todo /\ y.calling = 0 /\ y.answer = "failed"
    BY <2>1, <2>2, CallIsOver
  <2>4. retrier' = [retrier EXCEPT ![r] = y]
    BY <1>1, <2>1
  <2> HIDE DEF Lists, y
  <2>5. retrier' \in [Retriers -> Lists] /\ retrier'[r] = y
    BY <2>1, <2>3, <2>4
  <2> QED
    BY <2>3, <2>5 DEF Lists
<1>6. \A j \in DOMAIN leg : (\E x \in Retriers : Settles(x, j)) <=> j = i /\ retrier[r].answer = "processed"
  BY <1>2 DEF Settles
<1> HIDE DEF i
<1>7. SameLegs /\ \A j \in DOMAIN leg : leg'[j].paid = leg[j].paid
        /\ leg'[j].row = IF j = i /\ leg[i].paid = 1 THEN "PROCESSED" ELSE leg[j].row
  <2>1. CASE retrier[r].answer = "processed"
    <3>1. leg' = [leg EXCEPT ![i].row = "PROCESSED"] /\ "PROCESSED" \in RowStates
      BY <1>1, <2>1 DEF RowStates
    <3> QED
      <4>1. SameLegs /\ \A j \in DOMAIN leg : leg'[j].paid = leg[j].paid
              /\ leg'[j].row = IF j = i THEN "PROCESSED" ELSE leg[j].row
        BY <1>2, <1>3, <3>1, RowIs
      <4> QED
        BY <1>4, <2>1, <4>1
  <2>2. CASE retrier[r].answer # "processed"
    BY <1>1, <1>2, <1>4, <2>2 DEF SameLegs, PayTyped
  <2> QED
    BY <2>1, <2>2
<1>8. SoldInFull' /\ DOMAIN leg' = DOMAIN leg /\ Payable' = Payable
  BY <1>1, <1>2, <1>7, SameLegsSum
<1>9. PayTyped'
  BY <1>1, <1>2, <1>5, <1>7 DEF PayTyped, SameLegs
<1>10. payer.at # "waiting" /\ NothingYet'
  BY <1>1, <1>3 DEF Paying, NothingYet
<1>11. RowsAgree'
  <2>1. \A j \in DOMAIN leg : ~ \E x \in Retriers : Settles(x, j)'
    BY <1>2, <1>3, <1>5 DEF Settles
  <2>2. \A j \in DOMAIN leg :
        /\ leg'[j].paid <= 1
        /\ leg'[j].row = "PROCESSED" => leg'[j].paid = 1
        /\ leg'[j].row = "FAILED" => leg'[j].paid # 1
    BY <1>4, <1>6, <1>7 DEF Paying, RowsAgree
  <2>3. \A j \in Payable : leg'[j].row = "none" => leg'[j].paid = leg[j].paid /\ leg[j].row = "none"
    BY <1>7 DEF Payable
  <2>4. \A x \in Retriers :
        /\ \A j \in retrier'[x].todo : leg'[j].row = "FAILED" /\ retrier'[x].calling # j
        /\ retrier'[x].calling = 0
    BY <1>2, <1>3, <1>5, <1>7 DEF Paying, RowsAgree
  <2>5. payer.at = "record" =>
        /\ payer.answer \in [Payable -> Answers]
        /\ \A j \in Payable : leg'[j].row = "none" => (leg'[j].paid = 1 <=> payer.answer[j] = "processed")
    BY <2>3 DEF Paying, RowsAgree
  <2> QED
    BY <1>1, <1>8, <2>1, <2>2, <2>4, <2>5 DEF RowsAgree, Settles
<1> QED
  BY <1>8, <1>9, <1>10, <1>11 DEF Paying

LEMMA PayingStep ==
    ASSUME Paying, RetriesAreSafe, [PayoutsNext]_payoutVars
    PROVE  Paying'
<1>1. CASE UNCHANGED payoutVars
  BY <1>1 DEF payoutVars, Paying, PayTyped, NothingYet, RowsAgree, SoldInFull, Amounts, Payable, Settles
<1>2. ASSUME NEW r \in Retriers, RetrierDies(r) PROVE FALSE
  BY <1>2 DEF RetrierDies, RetriesAreSafe
<1> QED
  BY <1>1, <1>2, PlaceSaleKeepsPaying, AskKeepsPaying, PayerDiesKeepsPaying, RecordKeepsPaying,
     StartKeepsPaying, CallKeepsPaying, BookKeepsPaying DEF PayoutsNext

LEMMA PayingPays == Paying => PartnersPaidOnce
<1> SUFFICES ASSUME Paying PROVE PartnersPaidOnce
  OBVIOUS
<1>1. \A i \in DOMAIN leg : leg[i] \in [amount : Nat, row : RowStates, paid : Nat]
  BY LegsAre DEF Paying, Legs
<1>2. PayoutsTypeOK
  BY <1>1 DEF Paying, PayTyped, PayoutsTypeOK
<1> QED
  BY <1>2 DEF Paying, RowsAgree, SoldInFull, Amounts, PartnersPaidOnce

\* The partners' allocations make up what the customer paid, and no partner is paid one of
\* them twice: a leg is asked for once by the worker of the payment, and again only while
\* its row says that it failed, which is true then.
THEOREM PaidOnce ==
    ASSUME RetriesAreSafe
    PROVE  PayoutsSpec => []PartnersPaidOnce
<1>1. PayoutsSpec => []Paying
  BY PayingInit, PayingStep, PTL DEF PayoutsSpec
<1> QED
  BY <1>1, PayingPays, PTL
===============================================================================
