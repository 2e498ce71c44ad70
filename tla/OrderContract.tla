----------------------------- MODULE OrderContract -----------------------------
(***************************************************************************)
(* What an order promises about the stock it holds, with no handler in     *)
(* sight: units are held only while the order is open, every hold ends     *)
(* exactly once, sold or returned, and an order is decided, for or         *)
(* against, only when nothing of it is still held.                         *)
(***************************************************************************)
CONSTANTS
    Orders,     \* orders
    Variants    \* product variants

VARIABLES
    phase,      \* where each order stands
    hold        \* the fate of each order's units of each variant

vars == <<phase, hold>>

Phases == {"none", "open", "committed", "released"}
Fates == {"none", "held", "sold", "returned"}

Init ==
    /\ phase = [o \in Orders |-> "none"]
    /\ hold = [o \in Orders |-> [v \in Variants |-> "none"]]

Open(o) ==
    /\ phase[o] = "none"
    /\ phase' = [phase EXCEPT ![o] = "open"]
    /\ UNCHANGED hold

Take(o, v) ==
    /\ phase[o] = "open"
    /\ hold[o][v] = "none"
    /\ hold' = [hold EXCEPT ![o][v] = "held"]
    /\ UNCHANGED phase

\* Holds may come back together, when a placement fails half way.
End(o, ended, fate) ==
    /\ ended # {} /\ \A v \in ended : hold[o][v] = "held"
    /\ hold' = [hold EXCEPT ![o] = [v \in Variants |-> IF v \in ended THEN fate ELSE @[v]]]
    /\ UNCHANGED phase

\* A released order may still be paid for and committed, a committed one
\* cancelled and released.
Decide(o, decision) ==
    /\ phase[o] \in {"open", "committed", "released"}
    /\ \A v \in Variants : hold[o][v] # "held"
    /\ phase' = [phase EXCEPT ![o] = decision]
    /\ UNCHANGED hold

Next ==
    \E o \in Orders :
       \/ Open(o)
       \/ \E v \in Variants : Take(o, v)
       \/ \E ended \in SUBSET Variants, fate \in {"sold", "returned"} : End(o, ended, fate)
       \/ \E decision \in {"committed", "released"} : Decide(o, decision)

Spec == Init /\ [][Next]_vars
===============================================================================
