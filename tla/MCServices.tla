------------------------------ MODULE MCServices ------------------------------
(***************************************************************************)
(* One run for the services that share no state with each other: in every  *)
(* behaviour one of them moves, chosen in the initial state, and the       *)
(* others keep theirs.                                                     *)
(***************************************************************************)
EXTENDS Inventory, Shipments, Returns, Idempotency, TokenRotation, ListingReconciler,
        DocumentNumbers, AdminRoster, CategoryTree, Cart, SharedCache, TLC

CONSTANTS q1, q2, q3, t1, t2, t3, t4, n1, n2, n3, n4, p1, p2

VARIABLE subject   \* the service that moves

Keeps(service, state) == IF subject = service THEN TRUE ELSE UNCHANGED state

\* The chosen service moves, nobody else does.
Moves(service) ==
    /\ subject = service
    /\ UNCHANGED subject
    /\ Keeps("inventory", vars)        /\ Keeps("shipments", shipmentVars)
    /\ Keeps("returns", returnVars)    /\ Keeps("idempotency", keyVars)
    /\ Keeps("tokens", tokenVars)      /\ Keeps("listing", listingVars)
    /\ Keeps("numbers", numberVars)    /\ Keeps("roster", rosterVars)
    /\ Keeps("categories", treeVars)   /\ Keeps("cart", cartVars)
    /\ Keeps("cache", cacheVars)

ServicesInit ==
    /\ subject \in {"inventory", "shipments", "returns", "idempotency", "tokens", "listing",
                    "numbers", "roster", "categories", "cart", "cache"}
    /\ Init /\ ShipmentsInit /\ ReturnsInit /\ IdempotencyInit /\ TokensInit /\ ListingInit
    /\ NumbersInit /\ RosterInit /\ TreeInit /\ CartInit /\ CacheInit
    \* Both backorder policies, for the stock ledger only.
    /\ subject # "inventory" => \A v \in Variants : ~row[v].allowBackorder

ServicesNext ==
    \/ Moves("inventory")   /\ Next
    \/ Moves("shipments")   /\ ShipmentsNext
    \/ Moves("returns")     /\ ReturnsNext
    \/ Moves("idempotency") /\ IdempotencyNext
    \/ Moves("tokens")      /\ TokensNext
    \/ Moves("listing")     /\ ListingNext
    \/ Moves("numbers")     /\ NumbersNext
    \/ Moves("roster")      /\ RosterNext
    \/ Moves("categories")  /\ TreeNext
    \/ Moves("cart")        /\ CartNext
    \/ Moves("cache")       /\ CacheNext

ServicesSpec == ServicesInit /\ [][ServicesNext]_<<subject, vars, shipmentVars, returnVars, keyVars,
                                                  tokenVars, listingVars, numberVars, rosterVars,
                                                  treeVars, cartVars, cacheVars>>

\* What tells two states of the run apart: the services at rest are in their initial states.
MovingState ==
    <<subject,
      CASE subject = "inventory"   -> vars
        [] subject = "shipments"   -> shipmentVars
        [] subject = "returns"     -> returnVars
        [] subject = "idempotency" -> keyVars
        [] subject = "tokens"      -> tokenVars
        [] subject = "listing"     -> listingVars
        [] subject = "numbers"     -> numberVars
        [] subject = "roster"      -> rosterVars
        [] subject = "categories"  -> treeVars
        [] subject = "cart"        -> cartVars
        [] subject = "cache"       -> cacheVars>>

-------------------------------------------------------------------------------
\* The moving service's state keeps its type: counters never negative, every row a status
\* the code knows, whatever its requests interleave.
ServicesTypeOK ==
    CASE subject = "inventory"   -> TypeOK
      [] subject = "shipments"   -> ShipmentsTypeOK
      [] subject = "returns"     -> ReturnsTypeOK
      [] subject = "idempotency" -> IdempotencyTypeOK
      [] subject = "tokens"      -> TokensTypeOK
      [] subject = "listing"     -> ListingTypeOK
      [] subject = "numbers"     -> NumbersTypeOK
      [] subject = "roster"      -> RosterTypeOK
      [] subject = "categories"  -> TreeTypeOK
      [] subject = "cart"        -> CartTypeOK
      [] subject = "cache"       -> CacheTypeOK

\* Bounds that need a negative or compound value.
MCDeltas == {-2, -1, 1, 2}
MCTargets == {0, 2}
MCQuantities == {1, 2}
OneOfEachLine == [l \in Lines |-> 1]
\* Two requests with one payload and one with another.
TwoAlike == (q1 :> "a") @@ (q2 :> "a") @@ (q3 :> "b")
\* Three requests draw from one series, the fourth from another.
ThreeShare == (n1 :> "orders") @@ (n2 :> "orders") @@ (n3 :> "orders") @@ (n4 :> "invoices")
\* Returns of one line are interchangeable.
AlikeReturns == Permutations(ReturnIds)

\* One piece a line, and none in stock.
OnePiece == [k \in Configurations |-> 1]
SoldOut == [k \in Configurations |-> 0]
\* A rule of one product ends, then a global one begins.
CrossingTimes == ("ends" :> 1) @@ ("begins" :> 2)
Reaches == ("ends" :> {p1}) @@ ("begins" :> {})
===============================================================================
