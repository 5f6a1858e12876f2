--------------------------- MODULE VirtualUncross ---------------------------
(***************************************************************************)
(* virtualUncross (aggregator.cpp): the summed book of several venues may  *)
(* be crossed, and is matched against itself, best bid with best ask,      *)
(* until it is not.  A book is a quantity per side and price, 0 where the  *)
(* vector of the code has no level.                                        *)
(***************************************************************************)
EXTENDS Integers, FiniteSetsExt

CONSTANT Price

Levels == [{"bid", "ask"} -> [Price -> Nat]]

Prices(level, side) == {p \in Price : level[side][p] > 0}

BestBid(level) == Max(Prices(level, "bid"))
BestAsk(level) == Min(Prices(level, "ask"))

\* The loop condition: both sides have levels and the best ones meet.
Meets(level) ==
    /\ Prices(level, "bid") # {} /\ Prices(level, "ask") # {}
    /\ BestBid(level) >= BestAsk(level)

Lower(level, bid, ask, matched) ==
    [level EXCEPT !["bid"][bid] = @ - matched, !["ask"][ask] = @ - matched]

\* Fault: both levels are dropped, as if their quantities were equal.
MatchLevels(level) ==
    [level EXCEPT !["bid"][BestBid(level)] = 0, !["ask"][BestAsk(level)] = 0]

\* Fault: the quantities are taken off copies of the two levels.
MatchCopies(level) == level

\* One iteration, lines 38-51.
Match(level) ==
    LET bid == BestBid(level)
        ask == BestAsk(level)
    IN  Lower(level, bid, ask, Min({level["bid"][bid], level["ask"][ask]}))

(***************************************************************************)
(* What the result should be, said without the loop.  A uniform-price      *)
(* auction clears the largest volume for which one price has enough bids   *)
(* at or above it and enough asks at or below it; each side gives up that  *)
(* volume, best prices first.                                              *)
(***************************************************************************)
SumOver(f, S) == MapThenSumSet(LAMBDA x : f[x], S)

Bids(level, p) == SumOver(level["bid"], {q \in Price : q >= p})
Asks(level, p) == SumOver(level["ask"], {q \in Price : q <= p})

ClearingVolume(level) ==
    Max({0} \cup {Min({Bids(level, p), Asks(level, p)}) : p \in Price})

\* What is left of a level when the volume beats or reaches it.
Left(quantity, depth, volume) == Max({0, Min({quantity, depth - volume})})

Cleared(level) ==
    LET volume == ClearingVolume(level)
    IN  [side \in {"bid", "ask"} |-> [p \in Price |->
            Left(level[side][p],
                 IF side = "bid" THEN Bids(level, p) ELSE Asks(level, p),
                 volume)]]

=============================================================================
