----------------------------- MODULE MCSettlement -----------------------------
(***************************************************************************)
(* What must come to an end after the payment: refunds whose outcome is    *)
(* unknown, and stored webhook events. The two share no state; one of them *)
(* moves in each behaviour.                                                *)
(***************************************************************************)
EXTENDS MCRefunds, WebhookInbox

VARIABLE mover

SettlementInit == mover \in {"refunds", "inbox"} /\ RefundsInit /\ InboxInit

SettlementNext ==
    \/ mover = "refunds" /\ RefundsNext /\ UNCHANGED <<mover, inboxVars>>
    \/ mover = "inbox" /\ InboxNext /\ UNCHANGED <<mover, refundVars>>

SettlementSpec ==
    /\ SettlementInit /\ [][SettlementNext]_<<mover, refundVars, inboxVars>>
    /\ FairReconciliation /\ InboxFairness

\* The types of both: what the books hold is never negative, and every status is one the
\* code knows.
SettlementTypeOK == RefundsTypeOK /\ InboxTypeOK
===============================================================================
