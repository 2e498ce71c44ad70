------------------------------ MODULE MCShipments ------------------------------
(* TLC instances of Shipments. *)
EXTENDS Shipments

OneOfEachLine == [l \in Lines |-> 1]
===============================================================================
