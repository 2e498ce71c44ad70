------------------------------- MODULE MCRefunds -------------------------------
(* Partial refunds of one paid order, of which partners received a share. *)
EXTENDS Refunds

CONSTANTS r1, r2, r3
TwoRefunds == {r1, r2}
ThreeRefunds == {r1, r2, r3}

\* Of 10 paid any two refunds fit, three do not.
FourEach == [r \in Refunds |-> 4]

\* Refunds of one amount are alike: no step looks at which of them it is.
AlikeRefunds == Permutations(Refunds)
NoTransfer == <<>>
OneTransfer == <<6>>
FiveEach == [r \in Refunds |-> 5]

\* Around every write of an execution and a partner's answer; not between a reservation
\* and the row that says so, where a death leaks it, or makes it released twice.
SafeToDie ==
    {"claim", "plan", "reserve", "adopt", "call", "unknown", "release", "record", "taken"}
===============================================================================
