-------------------------------- MODULE MCCart --------------------------------
(* TLC instances of Cart: what a line may hold and what is in stock. *)
EXTENDS Cart, TLC

\* A line holds two pieces at most; one piece is left.
TwoOfEach == [k \in Configurations |-> 2]
OneLeft == [k \in Configurations |-> 1]

AlikeTabs == Permutations(Tabs)
===============================================================================
