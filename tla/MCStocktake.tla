----------------------------- MODULE MCStocktake -----------------------------
(* A small instance of Stocktake for TLC: one storage. *)
EXTENDS Stocktake

CONSTANT home

Homes == [x \in Product \cup Location \cup Container |-> home]

=============================================================================
