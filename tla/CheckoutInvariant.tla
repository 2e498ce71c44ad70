--------------------------- MODULE CheckoutInvariant ---------------------------
(***************************************************************************)
(* The inductive invariants behind the theorems about Checkout: which      *)
(* handler can be at which step, what its order has been through by then,  *)
(* and which of the order's holds it still has to end.                     *)
(***************************************************************************)
EXTENDS Checkout

PlacingOps == {"place", "placeCod"}

\* The handlers that end an order's holds.
HoldOps == {"cod", "confirm", "fail", "expire", "reconcile", "cancel"}

\* The handlers that can be at a step.
OpAt(step, op) ==
    /\ step \in {"create", "reserve", "row", "coupon", "undo", "unrow", "attach"} => op \in PlacingOps
    /\ step \in {"provider", "payrow"} => op = "place"
    /\ step = "codpay" => op = "cod"
    /\ step \in {"list", "settle", "giveback", "redeem", "redeemed"} => op \in HoldOps
    /\ step \in {"deduct", "cart"} => op \in {"cod", "confirm"}
    /\ step = "mark" => op \in {"fail", "expire", "reconcile"}
    /\ step = "reload" => op \in {"cod", "confirm", "fail", "expire", "reconcile"}
    /\ step \in {"capture", "paid"} => op = "confirm"
    /\ step = "authorize" => op = "authorize"
    /\ step = "payfail" => op = "fail"
    /\ step \in {"lookup", "fetch", "fetchById"} => op = "reconcile"
    /\ step = "refund" => op = "cancel"
    /\ step = "move" => op \in PlacingOps \cup HoldOps \cup {"admin"}

TaskOK(t) ==
    /\ t.op # "idle" => t.order \in Orders
    /\ t.op \in PlacingOps => t.session \in Sessions
    /\ t.op = "admin" => t.to \in AdminTargets

\* A job has an existing order, and the session and the variant that its step is about.
ControlOf(w) ==
    /\ OpAt(pc[w], task[w].op)
    /\ TaskOK(task[w])
    /\ pc[w] = "idle" <=> task[w].op = "idle"
    /\ pc[w] \in {"row", "giveback", "deduct"} => cur[w] \in Variants
    /\ pc[w] \notin {"idle", "create"} => status[task[w].order] # "NONE"

\* A payment is of an order that exists, and an order was placed by a session.
Placed ==
    \A o \in Orders :
       /\ payment[o] # "NONE" => status[o] # "NONE"
       /\ status[o] # "NONE" => placedBy[o] \in Sessions

Shape ==
    /\ RecordType /\ OutsideType /\ JobType
    /\ Placed
    /\ \A w \in Workers : ControlOf(w)

-------------------------------------------------------------------------------
\* Administrators only move orders that are committed already.
AdminStaysCommitted ==
    AdminTargets \cap ({"PENDING_PAYMENT", "CONFIRMED"} \cup ReleasingStatuses) = {}

Undecided == {"DRAFT", "PENDING_PAYMENT"}

\* Whose order is at which stage: a placement owns its order until it is
\* PENDING_PAYMENT, and only then does any other handler take it up.
StageOf(w) ==
    /\ pc[w] = "create" => status[Ord(w)] = "NONE"
    /\ task[w].op \in PlacingOps /\ pc[w] \notin {"create", "provider", "payrow"}
          => status[Ord(w)] = "DRAFT" /\ seen[w].status = "DRAFT"
    /\ task[w].op \in HoldOps \cup {"authorize"} \/ pc[w] \in {"provider", "payrow"}
          => status[Ord(w)] \notin {"NONE", "DRAFT"}
    /\ task[w].op = "admin" => status[Ord(w)] # "NONE"

OnePlacement ==
    \A w, x \in Workers :
       task[w].op \in PlacingOps /\ task[x].op \in PlacingOps /\ Ord(w) = Ord(x) => w = x

PaidAfterPlacement == \A o \in Orders : payment[o] # "NONE" => status[o] \notin {"NONE", "DRAFT"}

Stages ==
    /\ \A w \in Workers : StageOf(w)
    /\ OnePlacement
    /\ PaidAfterPlacement

\* The holds a job has not dealt with yet: none is overlooked by the loop over the
\* reservations, and none is left when the order is moved.
HoldsOf(w) ==
    /\ pc[w] \in {"reserve", "row"} => \A v \in todo[w] : hold[Ord(w)][v] = "NONE"
    /\ pc[w] = "row" => cur[w] \in todo[w]
    /\ pc[w] = "settle" => Active(Ord(w)) \subseteq todo[w]
    /\ pc[w] \in {"giveback", "deduct"} => Active(Ord(w)) \subseteq todo[w] \ {cur[w]}
    /\ pc[w] \in {"redeem", "redeemed", "cart", "mark"} => Active(Ord(w)) = {}
    /\ pc[w] = "reload" /\ ~Commits(task[w].op) => Active(Ord(w)) = {}
    /\ pc[w] = "move" /\ task[w].op \in HoldOps => Active(Ord(w)) = {}

\* Only an order that is still undecided holds stock.
HeldWhileUndecided ==
    \A o \in Orders :
       /\ status[o] = "NONE" => \A v \in Variants : hold[o][v] = "NONE"
       /\ status[o] \notin Undecided => Active(o) = {}

Holding ==
    /\ \A w \in Workers : HoldsOf(w)
    /\ HeldWhileUndecided

ReleaseInvariant == Stages /\ Holding

-------------------------------------------------------------------------------
CashOps == {"placeCod", "cod"}
OpeningOps == PlacingOps \cup {"cod"}

\* Money on an order is money the provider was paid.
PaymentsAreReal ==
    \A o \in Orders :
       /\ payStatus[o] = "CAPTURED" => paid[o]
       /\ paid[o] => ProviderSays(o, "authorized")
       /\ ProviderSays(o, "captured") => ProviderSays(o, "authorized")

\* What a job knows of its order's payment: it read nothing that was not so, it confirms
\* only what the provider authorized, and it opens a cash order that the provider has
\* never heard of.
PaidOf(w) ==
    /\ seen[w].pay = "CAPTURED" \/ seen[w].paid => pc[w] # "idle" /\ paid[Ord(w)]
    /\ task[w].op \in {"confirm", "authorize"} => ProviderSays(Ord(w), "authorized")
    /\ pc[w] = "payfail" => ProviderSays(Ord(w), "failed")
    /\ task[w].op \in CashOps => provider[Ord(w)] = {}
    /\ task[w].op = "cod" /\ pc[w] \notin {"reload", "codpay"} => payment[Ord(w)] = "PENDING"

\* The provider has not heard of an order that does not exist.
Unannounced == \A o \in Orders : status[o] = "NONE" => provider[o] = {}

\* One job opens an order, and a cash order that is committed is no longer being opened.
OneOpener ==
    \A w, x \in Workers :
       task[w].op \in OpeningOps /\ task[x].op \in OpeningOps /\ Ord(w) = Ord(x) => w = x
CashIsOpened ==
    \A o \in Orders : status[o] \in CommittedStatuses /\ ~paid[o]
       => \A w \in Workers : task[w].op = "place" => Ord(w) # o

PaidInvariant ==
    /\ PaymentsAreReal /\ Unannounced /\ (\A w \in Workers : PaidOf(w))
    /\ OneOpener /\ CashIsOpened /\ CommittedMeansPaid
===============================================================================
