---------------------------- MODULE MCAggregator ----------------------------
(* Two venues with three prices and one-lot levels: enough for their sum to *)
(* cross over several levels, with two lots at some, while each of them is  *)
(* uncrossed, and to leave bids without asks.  Events are unsequenced:      *)
(* OrderBook checks the stale ones.  The venues' clocks show 2, ours shows  *)
(* 1 or 2 each time it is read: where it shows 1 the venues are ahead.      *)
EXTENDS Aggregator

MCPrice == {1, 2, 3}
MCQuantity == {1}
MCOrderId == {1}
MCSequence == {0}
MCStamp == {2}
=============================================================================
