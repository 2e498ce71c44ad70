-------------------------------- MODULE Payouts --------------------------------
(***************************************************************************)
(* What the partners of a sale receive: the allocations computed when the  *)
(* order is placed (split.engine.ts), the transfers ordered when it is     *)
(* paid, and the retries of those that failed (split.service.ts). The      *)
(* payment provider pays, or refuses, each transfer it is asked for.       *)
(***************************************************************************)
EXTENDS Money, FiniteSets

CONSTANTS
    Sales,            \* orders with the split rules that reach them, in order of priority
    Retriers,         \* administrators who retry failed transfers
    LostAnswers,      \* whether the provider may pay and the call still fail
    MortalPayers,     \* who may die: "payer", the worker of the captured payment; "retrier"
    MaxPayoutCrashes  \* bound: how often a worker dies

VARIABLES
    sale,       \* the order and its rules; <<>> before it is placed
    leg,        \* per allocation: its amount, its PaymentTransfer row, how often it was paid
    payer,      \* the worker of the captured payment: what the provider answered
    retrier,    \* each administrator's list of failed transfers, and the call in progress
    payoutCrashes

payoutVars == <<sale, leg, payer, retrier, payoutCrashes>>

RowStates == {"none", "PROCESSED", "FAILED"}
Answers == {"processed", "failed"}
AtRest == [todo |-> {}, calling |-> 0, answer |-> "failed"]

PayoutsTypeOK ==
    /\ \A i \in DOMAIN leg : leg[i] \in [amount : Nat, row : RowStates, paid : Nat]
    /\ payer.at \in {"waiting", "call", "record", "done"}
    /\ retrier \in [Retriers -> [todo : SUBSET (1..Len(leg)), calling : 0..Len(leg),
                                 answer : Answers]]
    /\ payoutCrashes \in 0..MaxPayoutCrashes

PayoutsInit ==
    /\ sale = <<>> /\ leg = <<>> /\ payoutCrashes = 0
    /\ payer = [at |-> "waiting", answer |-> <<>>]
    /\ retrier = [r \in Retriers |-> AtRest]

-------------------------------------------------------------------------------
(* computeSplit *)

\* The rules that reach the order: large enough, the recipient active, and a scoped rule
\* only when some line is in its scope.
Reaches(rule, order) ==
    /\ rule.minOrder <= order.grand
    /\ rule.active
    /\ rule.scope = "GLOBAL" \/ rule.lines # {}

Basis(rule, order) ==
    LET sum(Part(_)) == Total([i \in rule.lines |-> Part(order.lines[i])])
    IN  CASE rule.basis = "ORDER_SUBTOTAL" -> order.subtotal
          [] rule.basis = "LINE_TOTAL"     -> sum(LAMBDA l : l.total)
          [] rule.basis = "LINE_SUBTOTAL"  -> sum(LAMBDA l : l.subtotal)
          [] OTHER                         -> order.grand

Desired(rule, order) ==
    IF rule.mode = "PERCENT" THEN (Basis(rule, order) * rule.bp) \div 10000
    ELSE rule.paise * IF rule.basis \in {"LINE_TOTAL", "LINE_SUBTOTAL"}
                      THEN Cardinality(rule.lines) ELSE 1

\* Amounts are whole paise.
ASSUME PayoutsAssumption ==
    /\ LostAnswers \in BOOLEAN /\ MaxPayoutCrashes \in Nat
    /\ \A s \in Sales :
        /\ s.order.grand \in Nat
        /\ s.rules \in Seq(Range(s.rules))
        /\ \A rule \in Range(s.rules) : rule.cap \in Int /\ Desired(rule, s.order) \in Int

\* Clamped to the rule's cap and to what the rules before it left.
Clamped(desired, cap, left) ==
    AtLeastZero(Least(IF cap >= 0 THEN Least(desired, cap) ELSE desired, left))

\* The rules that reach the order, in the order they have.
Reaching(order, rules) ==
    LET at     == {k \in DOMAIN rules : Reaches(rules[k], order)}
        nth(n) == CHOOSE k \in at : Cardinality({j \in at : j < k}) = n - 1
    IN  [n \in 1..Cardinality(at) |-> rules[nth(n)]]

\* What each of them takes, one after the other: a rule sees what those before it left.
Takes(order, rules) ==
    LET left[k \in 0..Len(rules)] ==
            IF k = 0 THEN order.grand
            ELSE left[k - 1] - Clamped(Desired(rules[k], order), rules[k].cap, left[k - 1])
    IN  [k \in 1..Len(rules) |-> left[k - 1] - left[k]]

\* The amounts of the rules that reach the order, and the residue's last; splitPaise
\* settles them. A rule that takes nothing keeps its row.
AllocationsOf(order, rules) ==
    LET taken == Takes(order, Reaching(order, rules))
        fixed == [k \in DOMAIN taken |-> [mode |-> "FIXED", value |-> taken[k]]]
    IN  SplitPaise(order.grand, Append(fixed, [mode |-> "REMAINDER", value |-> 0]))

\* persistForOrder. No sum: the order is not placed with split rules that do not fit it.
PlaceSale ==
    /\ sale = <<>>
    /\ sale' \in Sales
    /\ LET amounts == AllocationsOf(sale'.order, sale'.rules)
       IN  leg' = [i \in DOMAIN amounts |-> [amount |-> amounts[i], row |-> "none", paid |-> 0]]
    /\ UNCHANGED <<payer, retrier, payoutCrashes>>

-------------------------------------------------------------------------------
(* createTransfers, once the payment is captured *)

Payable == {i \in DOMAIN leg : leg[i].amount > 0}
Recorded == {i \in DOMAIN leg : leg[i].row # "none"}

\* The provider is asked for all legs in one call, unless the payment has transfers:
\* every leg has an answer, or the call fails, having paid nothing or, when answers
\* get lost, anything.
Pay(paid) == leg' = [i \in DOMAIN leg |-> IF i \in paid THEN [leg[i] EXCEPT !.paid = @ + 1] ELSE leg[i]]

AskForTransfers ==
    /\ sale # <<>> /\ payer.at = "waiting"
    /\ IF Payable = {} \/ Recorded # {}
       THEN payer' = [payer EXCEPT !.at = "done"] /\ UNCHANGED leg
       ELSE \/ \E answer \in [Payable -> Answers] :
                 /\ payer' = [at |-> "record", answer |-> answer]
                 /\ Pay({i \in Payable : answer[i] = "processed"})
            \/ \E paid \in {{}} \cup (IF LostAnswers THEN {Payable} ELSE {}) :
                 /\ payer' = [at |-> "record", answer |-> [i \in Payable |-> "failed"]]
                 /\ Pay(paid)
    /\ UNCHANGED <<sale, retrier, payoutCrashes>>

RowOf(answer) == IF answer = "processed" THEN "PROCESSED" ELSE "FAILED"

\* One PaymentTransfer row a leg, in order.
RecordTransfer(i) ==
    /\ payer.at = "record" /\ i \in Payable \ Recorded /\ \A j \in Payable \ Recorded : i <= j
    /\ leg' = [leg EXCEPT ![i].row = RowOf(payer.answer[i])]
    /\ payer' = IF Payable \ Recorded = {i} THEN [payer EXCEPT !.at = "done"] ELSE payer
    /\ UNCHANGED <<sale, retrier, payoutCrashes>>

\* The worker dies; no later request comes back to the transfers of a captured payment.
PayerDies ==
    /\ "payer" \in MortalPayers
    /\ payer.at = "record" /\ payoutCrashes < MaxPayoutCrashes
    /\ payer' = [payer EXCEPT !.at = "done"]
    /\ payoutCrashes' = payoutCrashes + 1
    /\ UNCHANGED <<sale, leg, retrier>>

-------------------------------------------------------------------------------
(* retryTransfers *)

\* A faulty choice: whatever has a row.
RetriableAlways(i) == leg[i].row # "none"

\* The transfers a retry takes up.
Retriable(i) == leg[i].row = "FAILED"

StartRetry(r) ==
    /\ retrier[r] = AtRest /\ sale # <<>>
    /\ {i \in DOMAIN leg : Retriable(i)} # {}
    /\ retrier' = [retrier EXCEPT ![r].todo = {i \in DOMAIN leg : Retriable(i)}]
    /\ UNCHANGED <<sale, leg, payer, payoutCrashes>>

\* One call a leg, in the order of the rows.
RetryCall(r) ==
    /\ retrier[r].calling = 0 /\ retrier[r].todo # {}
    /\ LET i == CHOOSE x \in retrier[r].todo : \A y \in retrier[r].todo : x <= y
       IN  \E answer \in Answers, lost \in BOOLEAN :
            /\ lost => LostAnswers /\ answer = "failed"
            /\ retrier' = [retrier EXCEPT ![r] = [todo |-> @.todo \ {i}, calling |-> i,
                                                  answer |-> answer]]
            /\ Pay(IF answer = "processed" \/ lost THEN {i} ELSE {})
    /\ UNCHANGED <<sale, payer, payoutCrashes>>

\* A failed retry leaves its row alone.
RetryRecord(r) ==
    /\ retrier[r].calling # 0
    /\ leg' = IF retrier[r].answer = "processed"
              THEN [leg EXCEPT ![retrier[r].calling].row = "PROCESSED"] ELSE leg
    /\ retrier' = [retrier EXCEPT ![r].calling = 0, ![r].answer = "failed"]
    /\ UNCHANGED <<sale, payer, payoutCrashes>>

\* An administrator's request dies with its list, and with what its call brought about.
RetrierDies(r) ==
    /\ "retrier" \in MortalPayers
    /\ retrier[r] # AtRest /\ payoutCrashes < MaxPayoutCrashes
    /\ retrier' = [retrier EXCEPT ![r] = AtRest]
    /\ payoutCrashes' = payoutCrashes + 1
    /\ UNCHANGED <<sale, leg, payer>>

PayoutsNext ==
    \/ PlaceSale \/ AskForTransfers \/ PayerDies
    \/ \E i \in DOMAIN leg : RecordTransfer(i)
    \/ \E r \in Retriers : StartRetry(r) \/ RetryCall(r) \/ RetryRecord(r) \/ RetrierDies(r)

PayoutsSpec == PayoutsInit /\ [][PayoutsNext]_payoutVars

-------------------------------------------------------------------------------
\* The partners' allocations make up what the customer paid, whatever rules overlap, and
\* however calls fail and are retried no partner is paid an allocation twice, nor is a
\* transfer booked that was not paid.
PartnersPaidOnce ==
    /\ PayoutsTypeOK
    /\ sale # <<>> =>
        /\ Total([i \in DOMAIN leg |-> leg[i].amount]) = sale.order.grand
        /\ \A i \in DOMAIN leg : leg[i].paid <= 1 /\ (leg[i].row = "PROCESSED" => leg[i].paid = 1)
===============================================================================
