------------------------------ MODULE MCCheckout ------------------------------
(* TLC instances of Checkout: carts, stock and the symmetry of the workers. *)
EXTENDS CheckoutInvariant, TLC

\* Every cart holds one unit of every variant.
OneOfEach == [s \in Sessions |-> [v \in Variants |-> 1]]

\* Stock for one order, or for two.
ForOne == [v \in Variants |-> 1]
ForTwo == [v \in Variants |-> 2]

\* Stock for two orders, but only one unit of one of the variants.
ScarceVariant == CHOOSE v \in Variants : TRUE
SecondScarce == [v \in Variants |-> IF v = ScarceVariant THEN 1 ELSE 2]

Interchangeable == Permutations(Workers)
===============================================================================
