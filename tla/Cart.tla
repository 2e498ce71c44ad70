--------------------------------- MODULE Cart ---------------------------------
(***************************************************************************)
(* Shopping carts (cart.service.ts, cartMerge.service.ts,                  *)
(* cartExpiry.service.ts, cartValidation.service.ts, cart.repository.ts):  *)
(* a guest's cart and, after the login, the customer's. Requests of several*)
(* tabs read a cart and then write its lines one statement at a time; only *)
(* the unique keys (one active cart per owner, one row per configuration)  *)
(* and one compare-and-set stand between them.                             *)
(*                                                                         *)
(* Products are on sale, sold from one piece on; a configuration made to   *)
(* order has plenty available. Coupons, pincodes and wishlists are left    *)
(* out, and of the stored counters the number of lines alone is kept.      *)
(***************************************************************************)
EXTENDS Naturals, FiniteSets

CONSTANTS
    Configurations, \* line keys: a product, its variant and options
    CeilingOf,      \* most pieces of a configuration one line may hold
    AvailableOf,    \* pieces of it in stock and not reserved
    MaxLines,       \* CART_MAX_LINES
    Tabs,           \* requests in progress
    CartTasks,      \* what tabs do
    Additions,      \* pieces one click adds, or sets a line to
    MaxClicks,      \* bound on clicks on one configuration
    MaxCarts,       \* bound on carts opened
    MaxCartCrashes  \* bound on requests that die

ASSUME CartAssumption ==
    /\ CeilingOf \in [Configurations -> Nat \ {0}]
    /\ AvailableOf \in [Configurations -> Nat]
    /\ IsFiniteSet(Configurations) /\ MaxLines \in Nat \ {0}
    /\ Additions \subseteq Nat \ {0}
    /\ CartTasks \subseteq {"add", "set", "remove", "clear", "save", "fix", "merge",
                            "abandon", "expire", "convert"}

VARIABLES
    cart,        \* Cart rows
    line,        \* CartItem rows by cart and line key
    tab,         \* what each request has read and is about to write
    asked,       \* pieces of each configuration the shopper has asked for
    cartCrashes

cartVars == <<cart, line, tab, asked, cartCrashes>>

Owners == {"guest", "customer"}
Carts == 1..MaxCarts
NoLine == [qty |-> 0, saved |-> FALSE]
Unopened == [status |-> "absent", owner |-> "guest", itemCount |-> 0]
ClosedTab == [step |-> "idle", task |-> "none", owner |-> "guest", of |-> 0, guest |-> 0,
              key |-> "none", qty |-> 0, count |-> 0, room |-> TRUE, held |-> {}, todo |-> {},
              ours |-> [k \in Configurations |-> 0], theirs |-> [k \in Configurations |-> NoLine]]

CartTypeOK ==
    /\ \A c \in Carts :
         /\ cart[c].status \in {"absent", "ACTIVE", "ABANDONED", "EXPIRED", "MERGED", "CONVERTED"}
         /\ cart[c].owner \in Owners
         /\ cart[c].itemCount \in 0..Cardinality(Configurations)
         /\ \A k \in Configurations : line[c][k].qty \in Nat
    /\ \A w \in Tabs : tab[w].held \cup tab[w].todo \subseteq Configurations

CartInit ==
    /\ cart = [c \in Carts |-> Unopened]
    /\ line = [c \in Carts |-> [k \in Configurations |-> NoLine]]
    /\ tab = [w \in Tabs |-> ClosedTab]
    /\ asked = [k \in Configurations |-> 0]
    /\ cartCrashes = 0

TabAt(w, step) == tab[w].step = step
TabDoes(w, task) == tab[w].task = task
Turn(w, step) == tab' = [tab EXCEPT ![w].step = step]
CloseTab(w) == tab' = [tab EXCEPT ![w] = ClosedTab]
Mine(w) == line[tab[w].of]
InCart(c) == {k \in Configurations : line[c][k].qty > 0 /\ ~line[c][k].saved}
QtyOf(c) == [k \in Configurations |-> line[c][k].qty]
Rows(c) == {k \in Configurations : line[c][k].qty > 0}

\* activeOwnerKey is set while a cart is ACTIVE, and released with the status.
ActiveCart(owner) == {c \in Carts : cart[c].status = "ACTIVE" /\ cart[c].owner = owner}

\* Rows are written by id: a request that holds a row somebody deletes finds nothing,
\* not the row that takes its place.
Drops(c, keys, tabs) ==
    [w \in Tabs |-> IF tabs[w].of = c THEN [tabs[w] EXCEPT !.held = @ \ keys] ELSE tabs[w]]

(***************************************************************************)
(* getOrCreate(): what every request does first.                           *)
(***************************************************************************)
OpenTab(w, task, owner, key, qty) ==
    /\ TabAt(w, "idle")
    /\ task \in CartTasks \ {"abandon", "expire", "convert"}
    /\ task = "merge" => owner = "customer"
    /\ task \in {"add", "set"} <=> qty > 0
    /\ asked' = IF task \in {"add", "set"} THEN [asked EXCEPT ![key] = @ + qty] ELSE asked
    /\ asked'[key] <= MaxClicks
    /\ tab' = [tab EXCEPT ![w] = [ClosedTab EXCEPT !.step = "find", !.task = task, !.owner = owner,
                                                   !.key = key, !.qty = qty]]
    /\ UNCHANGED <<cart, line, cartCrashes>>

FindCart(w) ==
    /\ TabAt(w, "find")
    /\ IF ActiveCart(tab[w].owner) = {} THEN Turn(w, "insert")
       ELSE \E c \in ActiveCart(tab[w].owner) :
              tab' = [tab EXCEPT ![w].step = tab[w].task, ![w].of = c,
                                 ![w].room = Cardinality(InCart(c)) < MaxLines,
                                 ![w].ours = IF TabDoes(w, "merge") THEN QtyOf(c) ELSE @,
                                 ![w].held = IF TabDoes(w, "merge") THEN Rows(c) ELSE @]
    /\ UNCHANGED <<cart, line, asked, cartCrashes>>

\* The unique index: one insertion wins, the others read the winner's.
InsertCart(w) ==
    /\ TabAt(w, "insert")
    /\ IF ActiveCart(tab[w].owner) = {}
       THEN \E c \in Carts :
              /\ cart[c].status = "absent"
              /\ \A other \in Carts : cart[other].status = "absent" => c <= other
              /\ cart' = [cart EXCEPT ![c] = [Unopened EXCEPT !.status = "ACTIVE", !.owner = tab[w].owner]]
              /\ tab' = [tab EXCEPT ![w].step = tab[w].task, ![w].of = c]
       ELSE Turn(w, "find") /\ UNCHANGED cart
    /\ UNCHANGED <<line, asked, cartCrashes>>

(***************************************************************************)
(* addItem()                                                               *)
(***************************************************************************)
\* A cart that was full when it was read takes no further configuration.
CheckRoom(w) ==
    /\ TabAt(w, "add")
    /\ IF tab[w].key \in Rows(tab[w].of) \/ tab[w].room THEN Turn(w, "upsert") ELSE CloseTab(w)
    /\ UNCHANGED <<cart, line, asked, cartCrashes>>

FewerOf(a, b) == IF a <= b THEN a ELSE b

\* upsertItem(): adds to the row, or creates it; what was saved for later is in the
\* cart again. A merge adds nothing to a row, and creates one as the guest kept it.
UpsertLine(w) ==
    LET k    == tab[w].key
        row  == Mine(w)[k]
        qty  == FewerOf(tab[w].qty, CeilingOf[k])
        more == IF TabDoes(w, "merge") THEN 0 ELSE qty
        kept == TabDoes(w, "merge") /\ tab[w].theirs[k].saved
    IN  /\ TabAt(w, "upsert")
        /\ line' = [line EXCEPT ![tab[w].of][k] =
                      IF row.qty = 0 THEN [qty |-> qty, saved |-> kept]
                      ELSE [qty |-> row.qty + more, saved |-> FALSE]]
        /\ tab' = [tab EXCEPT ![w].held = @ \cup {k},
                              ![w].step = IF line'[tab[w].of][k].qty > CeilingOf[k] THEN "clamp"
                                          ELSE IF TabDoes(w, "merge") THEN "settle" ELSE "count"]
        /\ UNCHANGED <<cart, asked, cartCrashes>>

\* A faulty upsert that trusts the clamp of what it was asked for.
Unclamped(w) == Mine(w)[tab[w].key].qty
\* The second statement of upsertItem(): the quantity it came out above the ceiling.
ClampTo(w) == CeilingOf[tab[w].key]

ClampLine(w) ==
    LET k == tab[w].key IN
    /\ TabAt(w, "clamp")
    /\ IF k \in tab[w].held
       THEN /\ line' = [line EXCEPT ![tab[w].of][k].qty = ClampTo(w)]
            /\ Turn(w, IF TabDoes(w, "merge") THEN "settle" ELSE "count")
       ELSE CloseTab(w) /\ UNCHANGED line
    /\ UNCHANGED <<cart, asked, cartCrashes>>

(***************************************************************************)
(* updateItem(), removeItem(), clear(), setSaveState()                     *)
(***************************************************************************)
ReadLine(w) ==
    /\ TabAt(w, "set") \/ TabAt(w, "remove") \/ TabAt(w, "save")
    /\ IF tab[w].key \notin Rows(tab[w].of) THEN CloseTab(w)
       ELSE tab' = [tab EXCEPT ![w].step = IF TabDoes(w, "set") THEN "swap"
                                           ELSE IF TabDoes(w, "remove") THEN "delete" ELSE "mark",
                               ![w].ours[tab[w].key] = Mine(w)[tab[w].key].qty,
                               ![w].held = {tab[w].key}]
    /\ UNCHANGED <<cart, line, asked, cartCrashes>>

\* The compare-and-set: "two tabs racing on the same line cannot lose an update".
SwapQty(w) ==
    LET k == tab[w].key IN
    /\ TabAt(w, "swap")
    /\ IF k \in tab[w].held /\ Mine(w)[k].qty = tab[w].ours[k]
       THEN /\ line' = [line EXCEPT ![tab[w].of][k].qty = FewerOf(tab[w].qty, CeilingOf[k])]
            /\ Turn(w, "count")
       ELSE CloseTab(w) /\ UNCHANGED line
    /\ UNCHANGED <<cart, asked, cartCrashes>>

DeleteLine(w) ==
    LET k == tab[w].key IN
    /\ TabAt(w, "delete")
    /\ IF k \in tab[w].held
       THEN /\ line' = [line EXCEPT ![tab[w].of][k] = NoLine]
            /\ tab' = [Drops(tab[w].of, {k}, tab) EXCEPT ![w].step = "count"]
       ELSE CloseTab(w) /\ UNCHANGED line
    /\ UNCHANGED <<cart, asked, cartCrashes>>

MarkLine(w) ==
    LET k == tab[w].key IN
    /\ TabAt(w, "mark")
    /\ IF k \in tab[w].held
       THEN \E saved \in BOOLEAN :
              /\ line' = [line EXCEPT ![tab[w].of][k].saved = saved]
              /\ Turn(w, "count")
       ELSE CloseTab(w) /\ UNCHANGED line
    /\ UNCHANGED <<cart, asked, cartCrashes>>

ClearLines(w) ==
    /\ TabAt(w, "clear")
    /\ line' = [line EXCEPT ![tab[w].of] = [k \in Configurations |-> NoLine]]
    /\ tab' = [Drops(tab[w].of, Configurations, tab) EXCEPT ![w].step = "count"]
    /\ UNCHANGED <<cart, asked, cartCrashes>>

(***************************************************************************)
(* validate() with autoFix: judged on what was read, then written.         *)
(***************************************************************************)
NeedsFix(k, row) ==
    row.qty > 0 /\ ~row.saved /\ (row.qty > AvailableOf[k] \/ row.qty > CeilingOf[k])
FixedQty(k, qty) == IF qty > AvailableOf[k] THEN AvailableOf[k] ELSE CeilingOf[k]

ReadForFix(w) ==
    /\ TabAt(w, "fix")
    /\ tab' = [tab EXCEPT ![w].todo = {k \in Configurations : NeedsFix(k, Mine(w)[k])},
                          ![w].ours = QtyOf(tab[w].of),
                          ![w].held = Rows(tab[w].of), ![w].step = "fixing"]
    /\ UNCHANGED <<cart, line, asked, cartCrashes>>

\* What is out of stock is removed.
FixLine(w, k) ==
    LET qty == FixedQty(k, tab[w].ours[k]) IN
    /\ TabAt(w, "fixing") /\ k \in tab[w].todo
    /\ IF k \notin tab[w].held THEN CloseTab(w) /\ UNCHANGED line
       ELSE /\ line' = [line EXCEPT ![tab[w].of][k] = IF qty = 0 THEN NoLine ELSE [@ EXCEPT !.qty = qty]]
            /\ LET tabs == IF qty = 0 THEN Drops(tab[w].of, {k}, tab) ELSE tab
               IN  tab' = [tabs EXCEPT ![w].todo = @ \ {k},
                                       ![w].step = IF tab[w].todo = {k} THEN "count" ELSE "fixing"]
    /\ UNCHANGED <<cart, asked, cartCrashes>>

NothingToFix(w) ==
    /\ TabAt(w, "fixing") /\ tab[w].todo = {}
    /\ CloseTab(w)
    /\ UNCHANGED <<cart, line, asked, cartCrashes>>

(***************************************************************************)
(* mergeGuestIntoCustomer(), with quantities summed up                     *)
(***************************************************************************)
FindGuest(w) ==
    /\ TabAt(w, "merge")
    /\ IF ActiveCart("guest") = {} THEN CloseTab(w)
       ELSE \E g \in ActiveCart("guest") :
              tab' = [tab EXCEPT ![w].step = "lines", ![w].guest = g, ![w].todo = Rows(g),
                                 ![w].theirs = line[g]]
    /\ UNCHANGED <<cart, line, asked, cartCrashes>>

\* Clamped to the ceiling and the stock, though never to nothing; the stock of what
\* the guest saved for later is not looked at.
MergedQty(w, k) ==
    LET sum   == tab[w].ours[k] + tab[w].theirs[k].qty
        stock == IF tab[w].theirs[k].saved THEN CeilingOf[k] ELSE AvailableOf[k]
        most  == FewerOf(CeilingOf[k], stock)
    IN  IF most = 0 THEN 1 ELSE FewerOf(sum, most)

\* A line the customer's cart had when it was read is written by id.
MergeLine(w, k) ==
    /\ TabAt(w, "lines") /\ k \in tab[w].todo
    /\ IF tab[w].ours[k] = 0
       THEN tab' = [tab EXCEPT ![w].todo = @ \ {k}, ![w].key = k, ![w].qty = MergedQty(w, k),
                               ![w].step = "upsert"]
            /\ UNCHANGED line
       ELSE IF k \in tab[w].held
       THEN /\ line' = [line EXCEPT ![tab[w].of][k].qty = MergedQty(w, k)]
            /\ tab' = [tab EXCEPT ![w].todo = @ \ {k}]
       ELSE CloseTab(w) /\ UNCHANGED line
    /\ UNCHANGED <<cart, asked, cartCrashes>>

\* A line that came into being meanwhile is set to the merged quantity.
SettleLine(w) ==
    LET k == tab[w].key IN
    /\ TabAt(w, "settle")
    /\ line' = [line EXCEPT ![tab[w].of][k].qty = IF @ = 0 THEN 0 ELSE tab[w].qty]
    /\ Turn(w, "lines")
    /\ UNCHANGED <<cart, asked, cartCrashes>>

\* setStatus(MERGED), whatever the status has become.
RetireGuest(w) ==
    /\ TabAt(w, "lines") /\ tab[w].todo = {}
    /\ cart' = [cart EXCEPT ![tab[w].guest].status = "MERGED"]
    /\ Turn(w, "count")
    /\ UNCHANGED <<line, asked, cartCrashes>>

(***************************************************************************)
(* recount(): read, then written.                                          *)
(***************************************************************************)
CountLines(w) ==
    /\ TabAt(w, "count")
    /\ tab' = [tab EXCEPT ![w].step = "counted", ![w].count = Cardinality(InCart(tab[w].of))]
    /\ UNCHANGED <<cart, line, asked, cartCrashes>>

WriteCount(w) ==
    /\ TabAt(w, "counted")
    /\ cart' = [cart EXCEPT ![tab[w].of].itemCount = tab[w].count]
    /\ CloseTab(w)
    /\ UNCHANGED <<line, asked, cartCrashes>>

(***************************************************************************)
(* Sweeps, the order that was placed, and crashes                          *)
(***************************************************************************)
\* findStale() lists carts that were quiet for long enough; only those with lines are
\* abandoned, those abandoned or still active expire.
ListStale(w, c, task) ==
    /\ TabAt(w, "idle")
    /\ task \in CartTasks \cap {"abandon", "expire"}
    /\ \/ task = "abandon" /\ cart[c].status = "ACTIVE" /\ cart[c].itemCount > 0
       \/ task = "expire" /\ cart[c].status \in {"ACTIVE", "ABANDONED"}
    /\ tab' = [tab EXCEPT ![w] = [ClosedTab EXCEPT !.step = "stale", !.task = task, !.of = c]]
    /\ UNCHANGED <<cart, line, asked, cartCrashes>>

\* markMany(): whatever was listed, except a cart that became an order.
MarkStale(w) ==
    /\ TabAt(w, "stale")
    /\ cart' = [cart EXCEPT ![tab[w].of].status =
                  IF @ = "CONVERTED" THEN @ ELSE IF TabDoes(w, "abandon") THEN "ABANDONED" ELSE "EXPIRED"]
    /\ CloseTab(w)
    /\ UNCHANGED <<line, asked, cartCrashes>>

\* markCartConverted() of a settled order.
ConvertCart(c) ==
    /\ "convert" \in CartTasks
    /\ cart[c].status = "ACTIVE"
    /\ cart' = [cart EXCEPT ![c].status = "CONVERTED"]
    /\ UNCHANGED <<line, tab, asked, cartCrashes>>

TabDies(w) ==
    /\ ~TabAt(w, "idle") /\ cartCrashes < MaxCartCrashes
    /\ cartCrashes' = cartCrashes + 1
    /\ CloseTab(w)
    /\ UNCHANGED <<cart, line, asked>>

CartNext ==
    \/ \E w \in Tabs :
        \/ \E task \in CartTasks, owner \in Owners, k \in Configurations, qty \in Additions \cup {0} :
              OpenTab(w, task, owner, k, qty)
        \/ \E k \in Configurations : FixLine(w, k) \/ MergeLine(w, k)
        \/ \E c \in Carts, task \in CartTasks : ListStale(w, c, task)
        \/ FindCart(w) \/ InsertCart(w) \/ CheckRoom(w) \/ UpsertLine(w) \/ ClampLine(w)
        \/ ReadLine(w) \/ SwapQty(w) \/ DeleteLine(w) \/ MarkLine(w) \/ ClearLines(w)
        \/ ReadForFix(w) \/ NothingToFix(w) \/ FindGuest(w) \/ SettleLine(w) \/ RetireGuest(w)
        \/ CountLines(w) \/ WriteCount(w) \/ MarkStale(w) \/ TabDies(w)
    \/ \E c \in Carts : ConvertCart(c)

CartSpec == CartInit /\ [][CartNext]_cartVars

-------------------------------------------------------------------------------
AllTabsClosed == \A w \in Tabs : TabAt(w, "idle")

\* Ten parallel clicks make one line, never above its ceiling: once no request is under
\* way every line is within it, whoever added, merged and corrected meanwhile.
LinesWithinCeiling ==
    AllTabsClosed => \A c \in Carts, k \in Configurations : line[c][k].qty <= CeilingOf[k]

\* "Idempotent: running it twice produces the same cart": the customer's cart never holds
\* more pieces than the shopper asked for, however often the guest's cart is merged.
PiecesAskedFor ==
    AllTabsClosed => \A c \in ActiveCart("customer"), k \in Configurations : line[c][k].qty <= asked[k]
===============================================================================
