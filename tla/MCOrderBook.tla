---------------------------- MODULE MCOrderBook ----------------------------
(* TLC instance of OrderBook: two prices are enough for a book to cross,    *)
(* two ids for one order to replace or hide behind another; a price and a   *)
(* quantity are negative.  The exchanges are interchangeable.               *)
EXTENDS OrderBook, TLC

MCPrice == {-1, 1, 2}
MCQuantity == {-1, 1}
MCLots == 1 .. 2
MCOrderId == 0 .. 2
MCSequence == 0 .. 2
MCStamp == {1}
MCSymmetry == Permutations(Exchange)
=============================================================================
