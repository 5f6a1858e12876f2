----------------------------- MODULE MCScqRing -----------------------------
(* Two enqueuers, two dequeuers and a ring for two indices, empty or full.  *)
EXTENDS ScqRing, TLC

CONSTANTS p1, p2, c1, c2

MCProducer == {p1, p2}
MCConsumer == {c1, c2}
MCMaxCalls == p1 :> 1 @@ p2 :> 1 @@ c1 :> 2 @@ c2 :> 1
=============================================================================
