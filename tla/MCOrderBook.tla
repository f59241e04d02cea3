----------------------------- MODULE MCOrderBook -----------------------------
(* Instances of OrderBook.tla for TLC.  The prices are 1..MaxPrice; events   *)
(* also carry the first price above the range.                               *)
EXTENDS OrderBook

MCInputPrices == 1..(MaxPrice + 1)
MCQuantities == 0..2
Symmetry == Permutations(OrderIds \ ReservedIds)
=============================================================================
