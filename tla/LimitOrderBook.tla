--------------------------- MODULE LimitOrderBook ---------------------------
(***************************************************************************)
(* One exchange's book as a value, and LimitOrderBook::apply as a function *)
(* on it (src/src/lob/order_book.cpp).  The state machine of a single book *)
(* is OrderBook; Aggregator keeps one such value per exchange.             *)
(*                                                                         *)
(* A price level is a quantity, 0 when the std::map has no entry (the code *)
(* never stores a quantity that is not positive).  The resting orders are  *)
(* a set of records, one per key of the unordered_map.                     *)
(***************************************************************************)
EXTENDS Integers, FiniteSets

CONSTANTS Exchange,     \* exchange names
          NoExchange,   \* exchange_name_ before the first event
          Price,        \* prices, as integers in ticks; the feed takes a sign
          Quantity,     \* quantities, as integers in lots; the feed takes a sign
          OrderId,      \* order ids on the wire; 0 is "no order"
          Sequence,     \* sequence numbers on the wire; 0 is "unsequenced"
          Stamp         \* feed timestamps after the "0 means now" default

ASSUME BookAssumption == /\ NoExchange \notin Exchange
                         /\ Price \subseteq Int
                         /\ Quantity \subseteq Int
                         /\ OrderId \subseteq Nat
                         /\ Sequence \subseteq Nat
                         /\ Stamp \subseteq Nat

Side == {"bid", "ask"}
Levels == [Side -> [Price -> Nat]]
Order == [id : OrderId, side : Side, price : Price, quantity : Quantity]

Book == [exchange : Exchange \cup {NoExchange},
         level    : Levels,
         orders   : SUBSET Order,
         sequence : Nat,
         stamp    : Nat]

EmptyLevels == [s \in Side |-> [p \in Price |-> 0]]

EmptyBook == [exchange |-> NoExchange, level |-> EmptyLevels, orders |-> {},
              sequence |-> 0, stamp |-> 0]

(***************************************************************************)
(* What a level snapshot carries: the level list after the loop of lines   *)
(* 134-143, which skips a quantity that is not positive and lets the last  *)
(* entry of a price win.                                                   *)
(***************************************************************************)
SnapshotLevels == [Side -> [Price -> {0} \cup {q \in Quantity : q > 0}]]

Crossed(level) ==
    \E bid, ask \in Price : /\ level["bid"][bid] > 0
                            /\ level["ask"][ask] > 0
                            /\ ask <= bid

\* Fault: an order at the best opposite price is let through.
CrossesStrictly(level, order) ==
    IF order.side = "bid"
    THEN \E ask \in Price : level["ask"][ask] > 0 /\ order.price > ask
    ELSE \E bid \in Price : level["bid"][bid] > 0 /\ order.price < bid

\* reject_crossed: the order's price reaches the best price opposite it.
Crosses(level, order) ==
    IF order.side = "bid"
    THEN \E ask \in Price : level["ask"][ask] > 0 /\ order.price >= ask
    ELSE \E bid \in Price : level["bid"][bid] > 0 /\ order.price <= bid

\* Fault: a level is kept whose quantity is not positive any more.
KeepLevel(level, side, price, delta) == [level EXCEPT ![side][price] = @ + delta]

\* A negative price fails the assertion of line 23 before any level is touched.
ApplyDelta(level, side, price, delta) ==
    IF price < 0
    THEN level
    ELSE [level EXCEPT ![side][price] = IF @ + delta <= 0 THEN 0 ELSE @ + delta]

Resting(book, id) == {o \in book.orders : o.id = id}

\* Fault: the order is forgotten but its quantity stays on the level.
ForgetOrder(book, order) == [book EXCEPT !.orders = @ \ {order}]

\* Takes an order's quantity off its level and forgets the order.
Withdraw(book, order) ==
    [book EXCEPT !.level = ApplyDelta(@, order.side, order.price, -order.quantity),
                 !.orders = @ \ {order}]

CancelOrder(book, id) ==
    IF id = 0 \/ Resting(book, id) = {}
    THEN book
    ELSE Withdraw(book, CHOOSE o \in Resting(book, id) : TRUE)

Rest(book, order) ==
    [book EXCEPT !.level = ApplyDelta(@, order.side, order.price, order.quantity),
                 !.orders = @ \cup {order}]

\* A known id is withdrawn first, and stays withdrawn when the new order crosses.
NewOrder(book, order) ==
    LET cleared == CancelOrder(book, order.id)
    IN  IF order.id = 0 THEN book
        ELSE IF Crosses(cleared.level, order) THEN cleared
        ELSE Rest(cleared, order)

(***************************************************************************)
(* No assertion has failed by the end of apply(): the prices of the levels *)
(* (lines 62 and 75) and of the orders that rest (line 23) are not         *)
(* negative, and the best ask exceeds the best bid (line 91).              *)
(***************************************************************************)
Sound(book) ==
    /\ ~Crossed(book.level)
    /\ \A side \in Side, price \in Price : book.level[side][price] > 0 => price >= 0
    /\ \A o \in book.orders : o.price >= 0

Snapshot(book, levels) == [book EXCEPT !.level = levels, !.orders = {}]

\* Lines 100-118: done for every event, the stale ones included.
Touch(book, exchange, stamp) ==
    [book EXCEPT !.exchange = exchange, !.stamp = stamp]

Mismatch(book, exchange) == book.exchange \notin {NoExchange, exchange}

\* Fault: only an exact repetition counts as stale.
StaleIfRepeated(book, sequence) == sequence # 0 /\ sequence = book.sequence

\* Fault: the last number may be repeated.
StaleIfLower(book, sequence) == sequence # 0 /\ sequence < book.sequence

Stale(book, sequence) == sequence # 0 /\ sequence <= book.sequence

Advance(book, sequence) ==
    [book EXCEPT !.sequence = IF sequence = 0 THEN @ ELSE sequence]

=============================================================================
