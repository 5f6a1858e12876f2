--------------------------- MODULE BandPublishers ---------------------------
(***************************************************************************)
(* What the clients make of a stream of views: the conversion to text with *)
(* eight decimals and back (services/common/grpc_helpers.hpp), the price   *)
(* bands with their cached best quotes (src/price_bands) and the volume    *)
(* bands (src/volume_bands).                                               *)
(*                                                                         *)
(* Numbers are raw Decimals; the services get Precision of their Digits,   *)
(* 8 of 18 in the code.  Bands are computed with DecimalWide.              *)
(***************************************************************************)
EXTENDS Decimal, FiniteSets, Sequences

CONSTANTS Precision,    \* decimal places on the wire
          Whole,        \* basis points in a whole, 10000 in the code
          Price,        \* raw prices in the aggregator
          Quantity,     \* raw quantities in the aggregator
          Offset,       \* offsets_bps_
          Threshold,    \* thresholds_, raw
          MaxViews      \* bound: views received

ASSUME BandAssumption == /\ Precision \in 0 .. Digits
                         /\ Whole \in Nat \ {0}
                         /\ Price \subseteq Nat /\ IsFiniteSet(Price)
                         /\ Quantity \subseteq Nat \ {0}
                         /\ Offset \subseteq 0 .. Whole
                         /\ Threshold \subseteq Nat \ {0}
                         /\ MaxViews \in Nat

\* The numbers fit in Storage, their products before a division need not:
\* what adjustPrice and findPriceForThreshold return is a Decimal.
ASSUME RangeAssumption ==
    /\ \A p \in Price : 2 * p < 2 ^ (Width - 1)
    /\ \A q \in Quantity : q < 2 ^ (Width - 1)
    /\ \A p \in Price, q \in Quantity : (p * q) \div Scale < 2 ^ (Width - 1)
    /\ Scale < 2 ^ (Width - 1)

Quote == [price : Nat, quantity : Nat]
NoQuote == [price |-> 0, quantity |-> 0]
View == [bid_levels : Seq(Quote), ask_levels : Seq(Quote),
         best_bid : Quote, best_ask : Quote]

VARIABLES view,     \* the last view handed to the callback
          cache,    \* cached_best_bid_ and cached_best_ask_, or <<>>
          bands,    \* the price bands it led to, or <<>>
          volumes,  \* the volume bands it led to
          status,   \* "up", or the assertion that failed
          seen,     \* history: the best quotes of the views so far
          count     \* history: views received

vars == <<view, cache, bands, volumes, status, seen, count>>

EmptyView == [bid_levels |-> <<>>, ask_levels |-> <<>>,
              best_bid |-> NoQuote, best_ask |-> NoQuote]

Init == /\ view = EmptyView /\ cache = <<>> /\ bands = <<>>
        /\ volumes = [t \in Threshold |-> [bid |-> 0, ask |-> 0]]
        /\ status = "up" /\ seen = {} /\ count = 0

-----------------------------------------------------------------------------
(* The engine's views (Aggregator shows they are uncrossed) on the wire.   *)

Better(side, p, q) == IF side = "bid" THEN p > q ELSE p < q

\* The prices of a set, best first.
BestFirst(S, side) ==
    CHOOSE s \in [1 .. Cardinality(S) -> S] :
        \A i, j \in 1 .. Cardinality(S) : i < j => Better(side, s[i], s[j])

Ladder(level, side) ==
    LET prices == BestFirst({p \in Price : level[side][p] > 0}, side)
    IN  [k \in DOMAIN prices |-> [price |-> prices[k], quantity |-> level[side][prices[k]]]]

Best(levels) == IF levels = <<>> THEN NoQuote ELSE Head(levels)

Uncrossed == {level \in [{"bid", "ask"} -> [Price -> Quantity \cup {0}]] :
                \A b, a \in Price : level["bid"][b] > 0 /\ level["ask"][a] > 0 => b < a}

\* toString(8), which cuts the digits after the eighth off, and fromString.
Sent(raw) == FromString(ToText(raw, Precision))

OnWire(quote) == [price |-> Sent(quote.price), quantity |-> Sent(quote.quantity)]

\* ToDomain(FromDomain(the view with these levels)).
Received(level) ==
    LET bids == Ladder(level, "bid")
        asks == Ladder(level, "ask")
    IN  [bid_levels |-> [k \in DOMAIN bids |-> OnWire(bids[k])],
         ask_levels |-> [k \in DOMAIN asks |-> OnWire(asks[k])],
         best_bid |-> OnWire(Best(bids)), best_ask |-> OnWire(Best(asks))]

Views == {Received(level) : level \in Uncrossed}

-----------------------------------------------------------------------------
(* PriceBandsCalculator::compute, after the assertion of the callback.     *)

Fraction(wide, offset) == Divide(wide, FromInteger(offset), FromInteger(Whole))

\* Fault: the prices are multiplied as the default Decimal.
AdjustPriceNarrow(price, offset, side) ==
    LET one == FromInteger(1)
    IN  Multiply(FALSE, price, IF side = "bid" THEN one - Fraction(TRUE, offset)
                                               ELSE one + Fraction(TRUE, offset))

AdjustPrice(price, offset, side) ==
    LET one == FromInteger(1)
    IN  Multiply(TRUE, price, IF side = "bid" THEN one - Fraction(TRUE, offset)
                                              ELSE one + Fraction(TRUE, offset))

\* A quote without quantity is replaced by the first level, if there is one.
BestOf(quote, levels) ==
    IF quote.quantity <= 0 /\ levels # <<>> THEN Head(levels) ELSE quote

\* Fault: equal prices count as a live market.
LiveIfQuoted(bid, ask) == bid.quantity > 0 /\ ask.quantity > 0

Live(bid, ask) == bid.quantity > 0 /\ ask.quantity > 0 /\ ask.price > bid.price

\* Fault: each side is remembered when it has a quantity.
CacheBySide(bid, ask) ==
    IF Live(bid, ask) \/ cache = <<>>
    THEN IF Live(bid, ask) THEN <<bid, ask>> ELSE <<>>
    ELSE <<IF bid.quantity > 0 THEN bid ELSE cache[1],
           IF ask.quantity > 0 THEN ask ELSE cache[2]>>

Cache(bid, ask) == IF Live(bid, ask) THEN <<bid, ask>> ELSE cache

BandsAround(bid, ask) ==
    [o \in Offset |-> [bid |-> AdjustPrice(bid.price, o, "bid"),
                       ask |-> AdjustPrice(ask.price, o, "ask")]]

\* The assertion both callbacks start with.
ExportCrossed(v) == /\ v.best_bid.quantity > 0 /\ v.best_ask.quantity > 0
                    /\ v.best_ask.price < v.best_bid.price

\* Without live or cached quotes the view is skipped and no band is written.
PriceBands ==
    LET bid  == BestOf(view'.best_bid, view'.bid_levels)
        ask  == BestOf(view'.best_ask, view'.ask_levels)
        best == Cache(bid, ask)
    IN  /\ cache' = best
        /\ bands' = IF best = <<>> THEN <<>> ELSE BandsAround(best[1], best[2])
        /\ status' =
             IF ExportCrossed(view') THEN "book crossed"
             ELSE IF best = <<>> THEN "up"
             ELSE IF best[2].price <= best[1].price THEN "cache crossed"
             ELSE IF \E o \in Offset : bands'[o].bid < 0 \/ bands'[o].ask < 0
             THEN "band negative"
             ELSE IF \E o \in Offset : bands'[o].ask <= bands'[o].bid
             THEN "band crossed" ELSE "up"

-----------------------------------------------------------------------------
(* VolumeBandsCalculator::compute.                                         *)

\* Fault: the notional is computed as the default Decimal.
NotionalNarrow(level) == Multiply(FALSE, level.price, level.quantity)

Notional(level) == Multiply(TRUE, level.price, level.quantity)

\* What the loop has accumulated after k levels.
Accumulated(levels) ==
    LET sum[k \in 0 .. Len(levels)] ==
            IF k = 0 THEN 0 ELSE sum[k - 1] + Notional(levels[k])
    IN  sum

FindPriceForThreshold(levels, threshold) ==
    LET filled == {k \in DOMAIN levels : Accumulated(levels)[k] >= threshold}
    IN  IF filled = {} THEN 0
        ELSE levels[CHOOSE k \in filled : \A j \in filled : k <= j].price

NormalizeLevels(levels, quote) ==
    IF levels = <<>> /\ quote.quantity > 0 THEN <<quote>> ELSE levels

VolumeBands ==
    volumes' = [t \in Threshold |->
        [bid |-> FindPriceForThreshold(NormalizeLevels(view'.bid_levels, view'.best_bid), t),
         ask |-> FindPriceForThreshold(NormalizeLevels(view'.ask_levels, view'.best_ask), t)]]

-----------------------------------------------------------------------------

\* A view arrives at both services; a failed assertion ends the process.
Receive(received) ==
    /\ status = "up" /\ count < MaxViews
    /\ view' = received
    /\ PriceBands
    /\ VolumeBands
    /\ seen' = seen \cup {<<view'.best_bid, view'.best_ask>>}
    /\ count' = count + 1

Next == \E received \in Views : Receive(received)

Spec == Init /\ [][Next]_vars

(***************************************************************************)
(* Properties.                                                             *)
(***************************************************************************)

(***************************************************************************)
(* No assertion of the clients fails on what the engine sends.  Truncation *)
(* can make the best prices equal, or a quantity zero, on the wire: only   *)
(* the test of compute() for a live market keeps such quotes from the      *)
(* assertion "price band input best ask must exceed best bid".             *)
(***************************************************************************)
AssertionsHold == status = "up"

(***************************************************************************)
(* The bands are computed from the two sides of one view, the last live    *)
(* one: a stale bid is never paired with the ask of another view.          *)
(***************************************************************************)
CacheIsOneView == cache # <<>> => cache \in seen

(***************************************************************************)
(* A band lies outside the quotes it is computed from, and a greater       *)
(* offset gives a wider one, in spite of the truncating arithmetic.        *)
(***************************************************************************)
BandsNest ==
    bands # <<>> =>
        \A o \in Offset :
            /\ bands[o].bid <= cache[1].price
            /\ bands[o].ask >= cache[2].price
            /\ \A q \in Offset : o <= q => /\ bands[q].bid <= bands[o].bid
                                           /\ bands[q].ask >= bands[o].ask

\* The notional of the levels whose index is in S.
Worth(levels, S) ==
    LET total[k \in 0 .. Len(levels)] ==
            IF k = 0 THEN 0
            ELSE total[k - 1] +
                     IF k \in S THEN (levels[k].price * levels[k].quantity) \div Scale ELSE 0
    IN  total[Len(levels)]

(***************************************************************************)
(* A volume band is the best price down to which the book is worth the     *)
(* threshold, or 0 when all of it is worth less.                           *)
(***************************************************************************)
DepthPrice(levels, threshold, price, side) ==
    IF price = 0
    THEN Worth(levels, DOMAIN levels) < threshold
           \/ \E k \in DOMAIN levels : levels[k].price = 0
    ELSE LET Down(p) == {k \in DOMAIN levels : ~Better(side, p, levels[k].price)}
         IN  /\ \E k \in DOMAIN levels : levels[k].price = price
             /\ Worth(levels, Down(price)) >= threshold
             /\ \A k \in DOMAIN levels :
                  Better(side, levels[k].price, price)
                      => Worth(levels, Down(levels[k].price)) < threshold

VolumeIsDepth ==
    count > 0 => \A t \in Threshold :
        /\ DepthPrice(view.bid_levels, t, volumes[t].bid, "bid")
        /\ DepthPrice(view.ask_levels, t, volumes[t].ask, "ask")

=============================================================================
