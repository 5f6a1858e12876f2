-------------------------- MODULE OrderBook_proofs --------------------------
(***************************************************************************)
(* Proofs about OrderBook.  Everything follows from one inductive          *)
(* invariant, Inv: types, unique ids, a sound book while the process is    *)
(* alive, the balance between levels, snapshot and resting orders, a cause *)
(* for every crossing, and numbers in order up to the book's own.  Prices  *)
(* and quantities are any integers.                                        *)
(*                                                                         *)
(* The lemmas about LimitOrderBook's operators come first.                 *)
(***************************************************************************)
EXTENDS OrderBook, FiniteSetTheorems, TLAPS

(***************************************************************************)
(* The operations of a LimitOrderBook: the book each returns is a book,    *)
(* and which of its fields it may change.                                  *)
(***************************************************************************)

\* The fields of an order, with the numbers as numbers.
LEMMA OrderFields ==
    ASSUME NEW o \in Order
    PROVE  /\ o.id \in OrderId /\ o.side \in Side /\ o.price \in Price
           /\ o.price \in Int /\ o.quantity \in Int /\ -o.quantity \in Int
<1>1. o.id \in OrderId /\ o.side \in Side /\ o.price \in Price /\ o.quantity \in Quantity
  BY DEF Order
<1>2. o.quantity \in Int /\ o.price \in Int
  BY <1>1, BookAssumption
<1>3. \A n \in Int : -n \in Int
  OBVIOUS
<1>4. QED
  BY <1>1, <1>2, <1>3

\* applyDelta touches one level of one side and never stores a negative one.
LEMMA ApplyDeltaType ==
    ASSUME NEW level \in Levels, NEW side \in Side, NEW price \in Price,
           NEW delta \in Int
    PROVE  ApplyDelta(level, side, price, delta) \in Levels
BY DEF ApplyDelta, Levels

\* The quantity applyDelta leaves at each place; at a negative price, no other.
LEMMA ApplyDeltaValue ==
    ASSUME NEW level \in Levels, NEW side \in Side, NEW price \in Price,
           NEW delta \in Int, NEW s \in Side, NEW p \in Price, price \in Int
    PROVE  ApplyDelta(level, side, price, delta)[s][p] =
               IF price >= 0 /\ s = side /\ p = price
               THEN IF level[s][p] + delta <= 0 THEN 0 ELSE level[s][p] + delta
               ELSE level[s][p]
<1>1. CASE price < 0
  BY <1>1 DEF ApplyDelta
<1>2. CASE price >= 0
  BY <1>2 DEF ApplyDelta, Levels
<1>3. QED
  BY <1>1, <1>2

\* Withdrawing an order takes its quantity off its own level.
LEMMA WithdrawEffect ==
    ASSUME NEW b \in Book, NEW o \in b.orders
    PROVE  /\ Withdraw(b, o) \in Book
           /\ Withdraw(b, o).orders = b.orders \ {o}
           /\ Withdraw(b, o).exchange = b.exchange
           /\ Withdraw(b, o).sequence = b.sequence
           /\ Withdraw(b, o).stamp = b.stamp
           /\ Withdraw(b, o).level =
                 ApplyDelta(b.level, o.side, o.price, -o.quantity)
<1>0. o \in Order
  BY DEF Book
<1>1. o.side \in Side /\ o.price \in Price /\ -o.quantity \in Int
  BY <1>0, OrderFields
<1>2. b.level \in Levels
  BY DEF Book
<1>3. ApplyDelta(b.level, o.side, o.price, -o.quantity) \in Levels
  BY <1>1, <1>2, ApplyDeltaType
<1>4. QED
  BY <1>3 DEF Withdraw, Book

\* Resting a new order adds its quantity to its own level.
LEMMA RestEffect ==
    ASSUME NEW b \in Book, NEW o \in Order
    PROVE  /\ Rest(b, o) \in Book
           /\ Rest(b, o).orders = b.orders \cup {o}
           /\ Rest(b, o).exchange = b.exchange
           /\ Rest(b, o).sequence = b.sequence
           /\ Rest(b, o).stamp = b.stamp
           /\ Rest(b, o).level =
                 ApplyDelta(b.level, o.side, o.price, o.quantity)
<1>1. o.side \in Side /\ o.price \in Price /\ o.quantity \in Int
  BY OrderFields
<1>2. b.level \in Levels
  BY DEF Book
<1>3. ApplyDelta(b.level, o.side, o.price, o.quantity) \in Levels
  BY <1>1, <1>2, ApplyDeltaType
<1>4. QED
  BY <1>3 DEF Rest, Book

\* A cancel either leaves the book alone or withdraws an order of that id.
LEMMA CancelEffect ==
    ASSUME NEW b \in Book, NEW id \in OrderId
    PROVE  \/ CancelOrder(b, id) = b /\ (id = 0 \/ Resting(b, id) = {})
           \/ \E o \in b.orders : /\ o.id = id
                                  /\ CancelOrder(b, id) = Withdraw(b, o)
<1>1. CASE id = 0 \/ Resting(b, id) = {}
  BY <1>1 DEF CancelOrder
<1>2. CASE ~(id = 0 \/ Resting(b, id) = {})
  <2> DEFINE o == CHOOSE o \in Resting(b, id) : TRUE
  <2>1. o \in Resting(b, id)
    BY <1>2
  <2>2. o \in b.orders /\ o.id = id
    BY <2>1 DEF Resting
  <2>3. CancelOrder(b, id) = Withdraw(b, o)
    BY <1>2 DEF CancelOrder
  <2>4. QED
    BY <2>2, <2>3
<1>3. QED
  BY <1>1, <1>2

\* A cancel returns a book, moves no header field and adds no order.
LEMMA CancelReturns ==
    ASSUME NEW b \in Book, NEW id \in OrderId
    PROVE  /\ CancelOrder(b, id) \in Book
           /\ CancelOrder(b, id).exchange = b.exchange
           /\ CancelOrder(b, id).sequence = b.sequence
           /\ CancelOrder(b, id).stamp = b.stamp
           /\ CancelOrder(b, id).orders \subseteq b.orders
BY CancelEffect, WithdrawEffect

\* So does a new order, rejected or not; at most the order itself is added.
LEMMA NewOrderReturns ==
    ASSUME NEW b \in Book, NEW o \in Order
    PROVE  /\ NewOrder(b, o) \in Book
           /\ NewOrder(b, o).exchange = b.exchange
           /\ NewOrder(b, o).sequence = b.sequence
           /\ NewOrder(b, o).stamp = b.stamp
           /\ NewOrder(b, o).orders \subseteq b.orders \cup {o}
<1> DEFINE cleared == CancelOrder(b, o.id)
<1>1. /\ cleared \in Book /\ cleared.exchange = b.exchange
      /\ cleared.sequence = b.sequence /\ cleared.stamp = b.stamp
      /\ cleared.orders \subseteq b.orders
  BY OrderFields, CancelReturns
<1>2. NewOrder(b, o) \in {b, cleared, Rest(cleared, o)}
  BY DEF NewOrder
<1> HIDE DEF cleared
<1>3. /\ Rest(cleared, o) \in Book /\ Rest(cleared, o).exchange = cleared.exchange
      /\ Rest(cleared, o).sequence = cleared.sequence /\ Rest(cleared, o).stamp = cleared.stamp
      /\ Rest(cleared, o).orders = cleared.orders \cup {o}
  BY <1>1, RestEffect
<1>4. QED
  BY <1>1, <1>2, <1>3

\* The levels a snapshot leaves are natural: what is not positive is skipped.
LEMMA SnapshotIsLevels ==
    ASSUME NEW levels \in SnapshotLevels
    PROVE  levels \in Levels
<1>1. \A q \in Quantity : q > 0 => q \in Nat
  BY BookAssumption
<1>2. QED
  BY <1>1 DEF SnapshotLevels, Levels

\* A snapshot replaces the levels and drops every resting order.
LEMMA SnapshotReturns ==
    ASSUME NEW b \in Book, NEW levels \in SnapshotLevels
    PROVE  /\ Snapshot(b, levels) \in Book
           /\ Snapshot(b, levels).exchange = b.exchange
           /\ Snapshot(b, levels).sequence = b.sequence
           /\ Snapshot(b, levels).stamp = b.stamp
           /\ Snapshot(b, levels).level = levels
           /\ Snapshot(b, levels).orders = {}
<1>1. levels \in Levels
  BY SnapshotIsLevels
<1>2. QED
  BY <1>1 DEF Snapshot, Book

\* The prelude of apply() (lines 100-125) moves no level and no order, and the
\* sequence number only to that of an event that carries one.
LEMMA PreludeReturns ==
    ASSUME NEW b \in Book, NEW x \in Exchange, NEW n \in Nat, NEW t \in Nat
    PROVE  /\ Touch(b, x, t) \in Book /\ Advance(Touch(b, x, t), n) \in Book
           /\ Touch(b, x, t).exchange = x /\ Touch(b, x, t).sequence = b.sequence
           /\ Touch(b, x, t).level = b.level /\ Touch(b, x, t).orders = b.orders
           /\ Advance(Touch(b, x, t), n).exchange = x
           /\ Advance(Touch(b, x, t), n).level = b.level
           /\ Advance(Touch(b, x, t), n).orders = b.orders
           /\ Advance(Touch(b, x, t), n).sequence = IF n = 0 THEN b.sequence ELSE n
<1> DEFINE c == Touch(b, x, t)
           d == Advance(c, n)
<1>1. /\ c \in Book /\ c.exchange = x /\ c.sequence = b.sequence
      /\ c.level = b.level /\ c.orders = b.orders
  BY DEF Touch, Book
<1>2. /\ d \in Book /\ d.exchange = c.exchange /\ d.level = c.level /\ d.orders = c.orders
      /\ d.sequence = IF n = 0 THEN c.sequence ELSE n
  <2> HIDE DEF c
  <2> QED
    BY <1>1 DEF Advance, Book
<1> HIDE DEF c, d
<1>3. QED
  BY <1>1, <1>2 DEF c, d

(***************************************************************************)
(* Lots: one order more or less moves the two counts of its own place by   *)
(* its quantity.                                                           *)
(***************************************************************************)
Sign == {1, -1}

FiniteLots(orders) ==
    \A place \in Side \X Price, sign \in Sign : IsFiniteSet(Lots(orders, place, sign))

Share(o, place, sign) ==
    IF Place(o) = place /\ sign * o.quantity > 0 THEN sign * o.quantity ELSE 0

\* The lots of a quantity are as many as it says, none if it is not positive.
LEMMA LotCount ==
    ASSUME NEW n \in Int
    PROVE  /\ IsFiniteSet(1 .. n)
           /\ Cardinality(1 .. n) = IF n > 0 THEN n ELSE 0
<1>1. IsFiniteSet(1 .. n) /\ Cardinality(1 .. n) = IF 1 > n THEN 0 ELSE n - 1 + 1
  BY FS_Interval
<1>2. QED
  BY <1>1

\* What an order brings to a place, and what it owes it, in numbers.
LEMMA ShareValue ==
    ASSUME NEW o \in Order, NEW place, NEW sign \in Sign
    PROVE  /\ sign * o.quantity \in Int /\ Share(o, place, sign) \in Nat
           /\ Share(o, place, 1) = IF Place(o) = place /\ o.quantity > 0
                                   THEN o.quantity ELSE 0
           /\ Share(o, place, -1) = IF Place(o) = place /\ o.quantity < 0
                                    THEN -o.quantity ELSE 0
<1>1. o.quantity \in Int
  BY OrderFields
<1>2. 1 * o.quantity = o.quantity /\ (-1) * o.quantity = -o.quantity
  BY <1>1
<1>3. sign * o.quantity \in Int
  BY <1>1, <1>2 DEF Sign
<1>4. QED
  BY <1>1, <1>2, <1>3 DEF Share

\* One more order adds exactly its own lots.
LEMMA LotsOfOneMore ==
    ASSUME NEW orders \in SUBSET Order, NEW o \in Order, o \notin orders,
           FiniteLots(orders), NEW place \in Side \X Price, NEW sign \in Sign
    PROVE  /\ IsFiniteSet(Lots(orders \cup {o}, place, sign))
           /\ Cardinality(Lots(orders \cup {o}, place, sign)) =
                Cardinality(Lots(orders, place, sign)) + Share(o, place, sign)
<1> DEFINE old == Lots(orders, place, sign)
           own == {o} \X (1 .. sign * o.quantity)
           n == IF sign * o.quantity > 0 THEN sign * o.quantity ELSE 0
<1>1. IsFiniteSet(old) /\ Cardinality(old) \in Nat
  BY FS_CardinalityType DEF FiniteLots
<1>2. CASE Place(o) = place
  <2>1. Lots(orders \cup {o}, place, sign) = old \cup own
    BY <1>2 DEF Lots
  <2>2. IsFiniteSet(own) /\ Cardinality(own) = n /\ n \in Nat
    <3>1. sign * o.quantity \in Int
      BY ShareValue
    <3>2. IsFiniteSet(1 .. sign * o.quantity) /\ Cardinality(1 .. sign * o.quantity) = n
      BY <3>1, LotCount
    <3>3. IsFiniteSet({o}) /\ Cardinality({o}) = 1
      BY FS_Singleton
    <3>4. /\ IsFiniteSet(own)
          /\ Cardinality(own) = Cardinality({o}) * Cardinality(1 .. sign * o.quantity)
      BY <3>2, <3>3, FS_Product
    <3>5. n \in Nat
      BY <3>1
    <3>6. Cardinality(own) = 1 * n
      BY <3>2, <3>3, <3>4
    <3> HIDE DEF n
    <3>7. QED
      BY <3>4, <3>5, <3>6
  <2>3. old \cap own = {}
    BY DEF Lots
  <2>4. Cardinality(old \cap own) = 0
    BY <2>3, FS_EmptySet
  <2>5. /\ IsFiniteSet(old \cup own)
        /\ Cardinality(old \cup own) =
             Cardinality(old) + Cardinality(own) - Cardinality(old \cap own)
    BY <1>1, <2>2, FS_Union
  <2>6. Share(o, place, sign) = n
    BY <1>2 DEF Share
  <2> HIDE DEF old, own, n
  <2>7. Cardinality(old \cup own) = Cardinality(old) + n
    BY <1>1, <2>2, <2>4, <2>5
  <2>8. QED
    BY <2>1, <2>5, <2>6, <2>7 DEF old
<1>3. CASE Place(o) # place
  <2>1. Lots(orders \cup {o}, place, sign) = old
    BY <1>3 DEF Lots
  <2>2. QED
    BY <1>1, <1>3, <2>1 DEF Share
<1>4. QED
  BY <1>2, <1>3

\* One order less removes exactly its own lots.
LEMMA LotsOfOneLess ==
    ASSUME NEW orders \in SUBSET Order, NEW o \in orders,
           FiniteLots(orders), NEW place \in Side \X Price, NEW sign \in Sign
    PROVE  /\ IsFiniteSet(Lots(orders \ {o}, place, sign))
           /\ Cardinality(Lots(orders \ {o}, place, sign)) \in Nat
           /\ Cardinality(Lots(orders, place, sign)) =
                Cardinality(Lots(orders \ {o}, place, sign)) + Share(o, place, sign)
<1> DEFINE rest == orders \ {o}
<1>1. FiniteLots(rest)
  <2> SUFFICES ASSUME NEW pl \in Side \X Price, NEW sg \in Sign
               PROVE  IsFiniteSet(Lots(rest, pl, sg))
    BY DEF FiniteLots
  <2>1. Lots(rest, pl, sg) \subseteq Lots(orders, pl, sg)
    BY DEF Lots
  <2>2. IsFiniteSet(Lots(orders, pl, sg))
    BY DEF FiniteLots
  <2>3. QED
    BY <2>1, <2>2, FS_Subset
<1>2. rest \cup {o} = orders /\ o \notin rest /\ o \in Order /\ rest \in SUBSET Order
  OBVIOUS
<1>3. IsFiniteSet(Lots(rest, place, sign)) /\ Cardinality(Lots(rest, place, sign)) \in Nat
  BY <1>1, FS_CardinalityType DEF FiniteLots
<1>4. Cardinality(Lots(rest \cup {o}, place, sign)) =
        Cardinality(Lots(rest, place, sign)) + Share(o, place, sign)
  <2> HIDE DEF rest
  <2> QED
    BY <1>1, <1>2, LotsOfOneMore
<1>5. QED
  BY <1>2, <1>3, <1>4

(***************************************************************************)
(* The parts of the invariant, over a book b, the levels bs of the last    *)
(* snapshot and the places sp spoiled since, and what each operation of    *)
(* LimitOrderBook does to them.                                            *)
(***************************************************************************)
Distinct(b) == \A o, r \in b.orders : o.id = r.id => o = r

ValidPlace == Side \X {p \in Price : p >= 0}

Due(b, bs, place) == bs[place[1]][place[2]] + Cardinality(Lots(b.orders, place, 1))

Balanced(b, bs, sp) ==
    /\ FiniteLots(b.orders)
    /\ \A place \in ValidPlace :
          /\ b.level[place[1]][place[2]] + Cardinality(Lots(b.orders, place, -1))
                >= Due(b, bs, place)
          /\ place \notin sp => b.level[place[1]][place[2]] = Due(b, bs, place)

Spoils(b, sp) == \A o \in b.orders : o.quantity < 0 => Place(o) \in sp

Caused(b, sp) ==
    \A bid, ask \in Price :
        /\ b.level["bid"][bid] > 0 /\ b.level["ask"][ask] > 0 /\ ask <= bid
        => <<"bid", bid>> \in sp \/ <<"ask", ask>> \in sp

Kept(b, bs, sp) ==
    b \in Book /\ Distinct(b) /\ Balanced(b, bs, sp) /\ Spoils(b, sp) /\ Caused(b, sp)

\* An applyDelta of q at an order's place, with the lots of that order, keeps
\* a place balanced, be it an order that comes (up) or one that goes.
LEMMA BalanceMoves ==
    ASSUME NEW l \in Nat, NEW c \in Nat, NEW n \in Nat, NEW m \in Nat, NEW q \in Int,
           NEW pos \in Nat, pos = IF q > 0 THEN q ELSE 0,
           NEW neg \in Nat, neg = IF q < 0 THEN -q ELSE 0
    PROVE  /\ l + (m + neg) >= c + (n + pos)
              => (IF l + (-q) <= 0 THEN 0 ELSE l + (-q)) + m >= c + n
           /\ l + m >= c + n
              => (IF l + q <= 0 THEN 0 ELSE l + q) + (m + neg) >= c + (n + pos)
           /\ q >= 0 /\ l = c + (n + pos) => (IF l + (-q) <= 0 THEN 0 ELSE l + (-q)) = c + n
           /\ q >= 0 /\ l = c + n => (IF l + q <= 0 THEN 0 ELSE l + q) = c + (n + pos)
OBVIOUS

\* A place, and its level and lots as numbers.
LEMMA PlaceValues ==
    ASSUME NEW b \in Book, NEW bs \in Levels, FiniteLots(b.orders), NEW place \in ValidPlace
    PROVE  /\ place \in Side \X Price /\ place[1] \in Side /\ place[2] \in Price
           /\ place[2] >= 0 /\ place = <<place[1], place[2]>>
           /\ b.level[place[1]][place[2]] \in Nat /\ bs[place[1]][place[2]] \in Nat
           /\ Cardinality(Lots(b.orders, place, 1)) \in Nat
           /\ Cardinality(Lots(b.orders, place, -1)) \in Nat
<1>1. /\ place \in Side \X Price /\ place[1] \in Side /\ place[2] \in Price
      /\ place[2] >= 0 /\ place = <<place[1], place[2]>>
  BY DEF ValidPlace
<1>2. b.level \in Levels
  BY DEF Book
<1>3. b.level[place[1]][place[2]] \in Nat /\ bs[place[1]][place[2]] \in Nat
  BY <1>1, <1>2 DEF Levels
<1>4. \A sign \in Sign : Cardinality(Lots(b.orders, place, sign)) \in Nat
  BY <1>1, FS_CardinalityType DEF FiniteLots
<1>5. QED
  BY <1>1, <1>3, <1>4 DEF Sign

\* Taking an order off a book keeps every part, and frees the order's id.
LEMMA WithdrawKeeps ==
    ASSUME NEW b, NEW bs \in Levels, NEW sp, Kept(b, bs, sp), NEW o \in b.orders, o.price >= 0
    PROVE  /\ Kept(Withdraw(b, o), bs, sp)
           /\ \A r \in Withdraw(b, o).orders : r.id # o.id
<1> DEFINE w == Withdraw(b, o)
<1>1. b \in Book /\ b.level \in Levels /\ b.orders \in SUBSET Order /\ o \in Order
  BY DEF Kept, Book
<1>2. /\ w \in Book /\ w.orders = b.orders \ {o}
      /\ w.level = ApplyDelta(b.level, o.side, o.price, -o.quantity)
  BY <1>1, WithdrawEffect
<1>3. /\ o.side \in Side /\ o.price \in Price /\ o.price \in Int
      /\ o.quantity \in Int /\ -o.quantity \in Int
  BY <1>1, OrderFields
<1> HIDE DEF w
<1>4. \A s \in Side, p \in Price :
         w.level[s][p] = IF <<s, p>> = Place(o)
                         THEN IF b.level[s][p] + (-o.quantity) <= 0 THEN 0
                              ELSE b.level[s][p] + (-o.quantity)
                         ELSE b.level[s][p]
  <2> TAKE s \in Side, p \in Price
  <2>1. ApplyDelta(b.level, o.side, o.price, -o.quantity)[s][p] =
          IF o.price >= 0 /\ s = o.side /\ p = o.price
          THEN IF b.level[s][p] + (-o.quantity) <= 0 THEN 0
               ELSE b.level[s][p] + (-o.quantity)
          ELSE b.level[s][p]
    BY ONLY <1>1, <1>3, ApplyDeltaValue
  <2>2. <<s, p>> = Place(o) <=> s = o.side /\ p = o.price
    BY DEF Place
  <2>3. QED
    BY <1>2, <2>1, <2>2
<1>5. Distinct(w) /\ Spoils(w, sp) /\ \A r \in w.orders : r.id # o.id
  BY <1>2 DEF Kept, Distinct, Spoils
<1>6. o.quantity < 0 => Place(o) \in sp
  BY DEF Kept, Spoils
<1>7. Balanced(w, bs, sp)
  <2>1. FiniteLots(b.orders)
    BY DEF Kept, Balanced
  <2>2. FiniteLots(w.orders)
    BY <1>1, <1>2, <2>1, LotsOfOneLess DEF FiniteLots
  <2>3. ASSUME NEW place \in ValidPlace
        PROVE  /\ w.level[place[1]][place[2]] + Cardinality(Lots(w.orders, place, -1))
                     >= Due(w, bs, place)
               /\ place \notin sp => w.level[place[1]][place[2]] = Due(w, bs, place)
    <3> DEFINE l == b.level[place[1]][place[2]]
               k == w.level[place[1]][place[2]]
               c == bs[place[1]][place[2]]
               n == Cardinality(Lots(w.orders, place, 1))
               m == Cardinality(Lots(w.orders, place, -1))
               pos == Share(o, place, 1)
               neg == Share(o, place, -1)
    <3>1. /\ place \in Side \X Price /\ place[1] \in Side /\ place[2] \in Price
          /\ place = <<place[1], place[2]>> /\ l \in Nat /\ c \in Nat
      BY <1>1, <2>1, PlaceValues
    <3>2. n \in Nat /\ m \in Nat
      BY <1>2, <2>2, PlaceValues
    <3>3. /\ Cardinality(Lots(b.orders, place, 1)) = n + pos
          /\ Cardinality(Lots(b.orders, place, -1)) = m + neg
      BY <1>1, <1>2, <2>1, <3>1, LotsOfOneLess DEF Sign
    <3>4. /\ l + (m + neg) >= c + (n + pos)
          /\ place \notin sp => l = c + (n + pos)
      BY <3>3 DEF Kept, Balanced, Due
    <3>5. /\ pos \in Nat /\ neg \in Nat
          /\ pos = IF Place(o) = place /\ o.quantity > 0 THEN o.quantity ELSE 0
          /\ neg = IF Place(o) = place /\ o.quantity < 0 THEN -o.quantity ELSE 0
      BY <1>1, ShareValue DEF Sign
    <3>6. k = IF place = Place(o)
              THEN IF l + (-o.quantity) <= 0 THEN 0 ELSE l + (-o.quantity)
              ELSE l
      BY <1>4, <3>1
    <3>7. Due(w, bs, place) = c + n
      BY DEF Due
    <3> HIDE DEF l, k, c, n, m, pos, neg
    <3>8. k + m >= c + n /\ (place \notin sp => k = c + n)
      <4>1. CASE place = Place(o)
        <5>1. /\ pos = IF o.quantity > 0 THEN o.quantity ELSE 0
              /\ neg = IF o.quantity < 0 THEN -o.quantity ELSE 0
              /\ k = IF l + (-o.quantity) <= 0 THEN 0 ELSE l + (-o.quantity)
          BY <3>5, <3>6, <4>1
        <5>2. place \notin sp => o.quantity >= 0
          BY <1>3, <1>6, <4>1
        <5>3. QED
          BY ONLY <1>3, <3>1, <3>2, <3>4, <3>5, <5>1, <5>2, BalanceMoves
      <4>2. CASE place # Place(o)
        BY <3>1, <3>2, <3>4, <3>5, <3>6, <4>2
      <4>3. QED
        BY <4>1, <4>2
    <3>9. QED
      BY <3>7, <3>8 DEF k, m
  <2>4. QED
    BY <2>2, <2>3 DEF Balanced
<1>8. Caused(w, sp)
  <2> SUFFICES ASSUME NEW bid \in Price, NEW ask \in Price,
                      w.level["bid"][bid] > 0, w.level["ask"][ask] > 0, ask <= bid,
                      <<"bid", bid>> \notin sp, <<"ask", ask>> \notin sp
               PROVE  FALSE
    BY DEF Caused
  <2>1. ASSUME NEW s \in Side, NEW p \in Price, w.level[s][p] > 0, <<s, p>> \notin sp
        PROVE  b.level[s][p] > 0
    <3>1. b.level[s][p] \in Nat
      BY <1>1 DEF Levels
    <3>2. CASE <<s, p>> = Place(o)
      <4>1. o.quantity >= 0
        BY <1>3, <1>6, <2>1, <3>2
      <4>2. w.level[s][p] = IF b.level[s][p] + (-o.quantity) <= 0 THEN 0
                            ELSE b.level[s][p] + (-o.quantity)
        BY <1>4, <3>2
      <4>3. QED
        BY <1>3, <2>1, <3>1, <4>1, <4>2
    <3>3. CASE <<s, p>> # Place(o)
      BY <1>4, <2>1, <3>3
    <3>4. QED
      BY <3>2, <3>3
  <2>2. b.level["bid"][bid] > 0 /\ b.level["ask"][ask] > 0
    BY <2>1 DEF Side
  <2>3. QED
    BY <2>2 DEF Kept, Caused
<1>9. QED
  BY <1>2, <1>5, <1>7, <1>8 DEF Kept, w

\* Resting a fresh order that does not cross keeps every part, once its place
\* counts as spoiled if its quantity is negative.
LEMMA RestKeeps ==
    ASSUME NEW b, NEW bs \in Levels, NEW sp, Kept(b, bs, sp), NEW o \in Order,
           \A r \in b.orders : r.id # o.id, ~Crosses(b.level, o),
           NEW sq, sp \subseteq sq, o.quantity < 0 => Place(o) \in sq
    PROVE  Kept(Rest(b, o), bs, sq)
<1> DEFINE w == Rest(b, o)
<1>1. b \in Book /\ b.level \in Levels /\ b.orders \in SUBSET Order /\ o \notin b.orders
  BY DEF Kept, Book
<1>2. /\ w \in Book /\ w.orders = b.orders \cup {o}
      /\ w.level = ApplyDelta(b.level, o.side, o.price, o.quantity)
  BY <1>1, RestEffect
<1>3. o.side \in Side /\ o.price \in Price /\ o.price \in Int /\ o.quantity \in Int
  BY OrderFields
<1> HIDE DEF w
<1>4. \A s \in Side, p \in Price :
         w.level[s][p] = IF o.price >= 0 /\ <<s, p>> = Place(o)
                         THEN IF b.level[s][p] + o.quantity <= 0 THEN 0
                              ELSE b.level[s][p] + o.quantity
                         ELSE b.level[s][p]
  <2> TAKE s \in Side, p \in Price
  <2>1. ApplyDelta(b.level, o.side, o.price, o.quantity)[s][p] =
          IF o.price >= 0 /\ s = o.side /\ p = o.price
          THEN IF b.level[s][p] + o.quantity <= 0 THEN 0
               ELSE b.level[s][p] + o.quantity
          ELSE b.level[s][p]
    BY ONLY <1>1, <1>3, ApplyDeltaValue
  <2>2. <<s, p>> = Place(o) <=> s = o.side /\ p = o.price
    BY DEF Place
  <2>3. QED
    BY <1>2, <2>1, <2>2
<1>5. Distinct(w) /\ Spoils(w, sq)
  BY <1>2 DEF Kept, Distinct, Spoils
<1>6. Balanced(w, bs, sq)
  <2>1. FiniteLots(b.orders)
    BY DEF Kept, Balanced
  <2>2. FiniteLots(w.orders)
    BY <1>1, <1>2, <2>1, LotsOfOneMore DEF FiniteLots
  <2>3. ASSUME NEW place \in ValidPlace
        PROVE  /\ w.level[place[1]][place[2]] + Cardinality(Lots(w.orders, place, -1))
                     >= Due(w, bs, place)
               /\ place \notin sq => w.level[place[1]][place[2]] = Due(w, bs, place)
    <3> DEFINE l == b.level[place[1]][place[2]]
               k == w.level[place[1]][place[2]]
               c == bs[place[1]][place[2]]
               n == Cardinality(Lots(b.orders, place, 1))
               m == Cardinality(Lots(b.orders, place, -1))
               pos == Share(o, place, 1)
               neg == Share(o, place, -1)
    <3>1. /\ place \in Side \X Price /\ place[1] \in Side /\ place[2] \in Price
          /\ place[2] >= 0 /\ place = <<place[1], place[2]>> /\ l \in Nat /\ c \in Nat
          /\ n \in Nat /\ m \in Nat
      BY <1>1, <2>1, PlaceValues
    <3>2. /\ Cardinality(Lots(w.orders, place, 1)) = n + pos
          /\ Cardinality(Lots(w.orders, place, -1)) = m + neg
      BY <1>1, <1>2, <2>1, <3>1, LotsOfOneMore DEF Sign
    <3>3. /\ l + m >= c + n
          /\ place \notin sp => l = c + n
      BY DEF Kept, Balanced, Due
    <3>4. /\ pos \in Nat /\ neg \in Nat
          /\ pos = IF Place(o) = place /\ o.quantity > 0 THEN o.quantity ELSE 0
          /\ neg = IF Place(o) = place /\ o.quantity < 0 THEN -o.quantity ELSE 0
      BY ShareValue DEF Sign
    <3>5. k = IF place = Place(o)
              THEN IF l + o.quantity <= 0 THEN 0 ELSE l + o.quantity
              ELSE l
      <4>1. place = Place(o) => o.price >= 0
        BY <3>1 DEF Place
      <4>2. QED
        BY <1>4, <3>1, <4>1
    <3>6. Due(w, bs, place) = c + (n + pos)
      BY <3>2 DEF Due
    <3> HIDE DEF l, k, c, n, m, pos, neg
    <3>7. k + (m + neg) >= c + (n + pos) /\ (place \notin sq => k = c + (n + pos))
      <4>1. CASE place = Place(o)
        <5>1. /\ pos = IF o.quantity > 0 THEN o.quantity ELSE 0
              /\ neg = IF o.quantity < 0 THEN -o.quantity ELSE 0
              /\ k = IF l + o.quantity <= 0 THEN 0 ELSE l + o.quantity
          BY <3>4, <3>5, <4>1
        <5>2. place \notin sq => o.quantity >= 0 /\ place \notin sp
          BY <1>3, <4>1
        <5>3. QED
          BY ONLY <1>3, <3>1, <3>3, <3>4, <5>1, <5>2, BalanceMoves
      <4>2. CASE place # Place(o)
        BY <3>1, <3>3, <3>4, <3>5, <4>2
      <4>3. QED
        BY <4>1, <4>2
    <3>8. QED
      BY <3>2, <3>6, <3>7 DEF k
  <2>4. QED
    BY <2>2, <2>3 DEF Balanced
<1>7. Caused(w, sq)
  <2> SUFFICES ASSUME NEW bid \in Price, NEW ask \in Price,
                      w.level["bid"][bid] > 0, w.level["ask"][ask] > 0, ask <= bid,
                      <<"bid", bid>> \notin sq, <<"ask", ask>> \notin sq
               PROVE  FALSE
    BY DEF Caused
  <2>1. bid \in Int /\ ask \in Int /\ "bid" \in Side /\ "ask" \in Side
    BY BookAssumption DEF Side
  <2>2. \A s \in Side, p \in Price : <<s, p>> # Place(o) => w.level[s][p] = b.level[s][p]
    BY <1>4
  <2>3. <<"bid", bid>> = Place(o) <=> o.side = "bid" /\ o.price = bid
    BY DEF Place
  <2>4. <<"ask", ask>> = Place(o) <=> o.side = "ask" /\ o.price = ask
    BY DEF Place
  <2>5. CASE <<"bid", bid>> = Place(o)
    <3>1. b.level["ask"][ask] > 0
      BY <2>1, <2>2, <2>3, <2>4, <2>5
    <3>2. o.side = "bid" /\ o.price >= ask
      BY <2>1, <2>3, <2>5
    <3>3. QED
      BY <3>1, <3>2 DEF Crosses
  <2>6. CASE <<"ask", ask>> = Place(o)
    <3>1. b.level["bid"][bid] > 0
      BY <2>1, <2>2, <2>3, <2>4, <2>6
    <3>2. o.side = "ask" /\ o.price <= bid
      BY <2>1, <2>4, <2>6
    <3>3. QED
      BY <3>1, <3>2 DEF Crosses
  <2>7. CASE <<"bid", bid>> # Place(o) /\ <<"ask", ask>> # Place(o)
    <3>1. b.level["bid"][bid] > 0 /\ b.level["ask"][ask] > 0
      BY <2>1, <2>2, <2>7
    <3>2. QED
      BY <3>1 DEF Kept, Caused
  <2>8. QED
    BY <2>5, <2>6, <2>7
<1>8. QED
  BY <1>2, <1>5, <1>6, <1>7 DEF Kept, w

\* The orders a sound book holds have no negative price.
Priced(b) == \A o \in b.orders : o.price >= 0

\* A cancel keeps every part and leaves no order of that id.
LEMMA CancelKeeps ==
    ASSUME NEW b, NEW bs \in Levels, NEW sp, Kept(b, bs, sp), Priced(b), NEW id \in OrderId
    PROVE  /\ Kept(CancelOrder(b, id), bs, sp)
           /\ id # 0 => \A r \in CancelOrder(b, id).orders : r.id # id
<1>1. b \in Book
  BY DEF Kept
<1>2. CASE CancelOrder(b, id) = b /\ (id = 0 \/ Resting(b, id) = {})
  BY <1>2 DEF Resting
<1>3. CASE \E o \in b.orders : o.id = id /\ CancelOrder(b, id) = Withdraw(b, o)
  BY <1>3, WithdrawKeeps DEF Priced
<1>4. QED
  BY <1>1, <1>2, <1>3, CancelEffect

\* A new order keeps every part, rejected or not.
LEMMA NewOrderKeeps ==
    ASSUME NEW b, NEW bs \in Levels, NEW sp, Kept(b, bs, sp), Priced(b), NEW o \in Order
    PROVE  Kept(NewOrder(b, o), bs,
                sp \cup {Place(r) : r \in {r \in NewOrder(b, o).orders : r.quantity < 0}})
<1> DEFINE cleared == CancelOrder(b, o.id)
           sq == sp \cup {Place(r) : r \in {r \in NewOrder(b, o).orders : r.quantity < 0}}
<1>1. o.id \in OrderId
  BY OrderFields
<1>2. Kept(cleared, bs, sp) /\ (o.id # 0 => \A r \in cleared.orders : r.id # o.id)
  BY <1>1, CancelKeeps
<1>3. ASSUME NEW c, Kept(c, bs, sp), NewOrder(b, o) = c
      PROVE  Kept(c, bs, sq)
  <2>1. \A r \in c.orders : r.quantity < 0 => Place(r) \in sp
    BY <1>3 DEF Kept, Spoils
  <2>2. sq = sp
    BY <1>3, <2>1
  <2>3. QED
    BY <1>3, <2>2
<1>4. CASE o.id = 0 \/ Crosses(cleared.level, o)
  <2>1. NewOrder(b, o) = b \/ NewOrder(b, o) = cleared
    BY <1>4 DEF NewOrder
  <2>2. QED
    BY <1>2, <1>3, <2>1
<1>5. CASE o.id # 0 /\ ~Crosses(cleared.level, o)
  <2>1. NewOrder(b, o) = Rest(cleared, o)
    BY <1>5 DEF NewOrder
  <2> HIDE DEF cleared
  <2>2. cleared \in Book
    BY <1>2 DEF Kept
  <2>3. NewOrder(b, o).orders = cleared.orders \cup {o}
    BY <2>1, <2>2, RestEffect
  <2>4. sp \subseteq sq /\ (o.quantity < 0 => Place(o) \in sq)
    BY <2>3
  <2> HIDE DEF sq
  <2>5. Kept(Rest(cleared, o), bs, sq)
    BY <1>2, <1>5, <2>4, RestKeeps
  <2>6. QED
    BY <2>1, <2>5 DEF sq
<1>6. QED
  BY <1>4, <1>5

(***************************************************************************)
(* The inductive invariant of the state machine.                           *)
(***************************************************************************)
Numbered == /\ \A j, k \in DOMAIN numbers : j < k => numbers[j] < numbers[k]
            /\ \A k \in DOMAIN numbers : numbers[k] <= book.sequence

Inv == /\ TypeOK
       /\ Distinct(book)
       /\ Balanced(book, base, spoiled)
       /\ Spoils(book, spoiled)
       /\ CrossingsHaveCause
       /\ Alive => Sound(book)
       /\ Numbered

\* While the process is alive the book is sound, with all the parts of Kept.
LEMMA AliveIsKept ==
    Inv /\ Alive => /\ Kept(book, base, spoiled) /\ Priced(book)
                    /\ base \in Levels
<1>1. ~Crossed(book.level) => Caused(book, spoiled)
  BY DEF Crossed, Caused
<1>2. QED
  BY <1>1 DEF Inv, TypeOK, Kept, Priced, Sound

\* The prelude of apply() (lines 100-125) moves no level and no order.
LEMMA PreludeKeeps ==
    ASSUME NEW b, NEW bs \in Levels, NEW sp, Kept(b, bs, sp), Priced(b),
           NEW x \in Exchange, NEW n \in Nat, NEW t \in Nat
    PROVE  /\ Kept(Touch(b, x, t), bs, sp) /\ Priced(Touch(b, x, t))
           /\ Kept(Advance(Touch(b, x, t), n), bs, sp) /\ Priced(Advance(Touch(b, x, t), n))
<1>1. b \in Book
  BY DEF Kept
<1> DEFINE c == Touch(b, x, t)
           d == Advance(c, n)
<1>2. /\ c \in Book /\ c.level = b.level /\ c.orders = b.orders
      /\ d \in Book /\ d.level = b.level /\ d.orders = b.orders
  BY <1>1, PreludeReturns
<1> HIDE DEF c, d
<1>3. /\ Kept(c, bs, sp) /\ Priced(c) /\ Kept(d, bs, sp) /\ Priced(d)
  BY <1>2 DEF Kept, Distinct, Balanced, Due, Spoils, Caused, Priced
<1>4. QED
  BY <1>3 DEF c, d

\* A book without orders is balanced if its levels are those of the snapshot.
LEMMA BareIsBalanced ==
    ASSUME NEW b \in Book, b.orders = {}, NEW sp
    PROVE  Balanced(b, b.level, sp) /\ Distinct(b) /\ Spoils(b, sp)
<1>1. \A place, sign : Lots(b.orders, place, sign) = {}
  BY DEF Lots
<1>2. FiniteLots(b.orders)
  BY <1>1, FS_EmptySet DEF FiniteLots
<1>3. ASSUME NEW place \in ValidPlace
      PROVE  /\ b.level[place[1]][place[2]] + Cardinality(Lots(b.orders, place, -1))
                   >= Due(b, b.level, place)
             /\ b.level[place[1]][place[2]] = Due(b, b.level, place)
  <2>1. b.level \in Levels
    BY DEF Book
  <2>2. b.level[place[1]][place[2]] \in Nat
    BY <1>2, <2>1, PlaceValues
  <2>3. Cardinality(Lots(b.orders, place, 1)) = 0 /\ Cardinality(Lots(b.orders, place, -1)) = 0
    BY <1>1, FS_EmptySet
  <2>4. QED
    BY <2>2, <2>3 DEF Due
<1>4. QED
  BY <1>2, <1>3 DEF Balanced, Distinct, Spoils

\* The initial book is empty, hence balanced and sound.
LEMMA InitInv == Init => Inv
<1> SUFFICES ASSUME Init PROVE Inv
  OBVIOUS
<1>1. EmptyLevels \in Levels
  BY DEF EmptyLevels, Levels
<1>2. book \in Book /\ book.orders = {} /\ book.level = EmptyLevels /\ base = EmptyLevels
  BY <1>1 DEF Init, EmptyBook, Book
<1>3. Distinct(book) /\ Balanced(book, base, spoiled) /\ Spoils(book, spoiled)
  BY <1>2, BareIsBalanced
<1>4. \A s \in Side, p \in Price : ~(book.level[s][p] > 0)
  BY <1>2 DEF EmptyLevels
<1>5. ~Crossed(book.level) /\ CrossingsHaveCause
  BY <1>4 DEF Crossed, CrossingsHaveCause, Side
<1>6. Sound(book)
  BY <1>2, <1>4, <1>5 DEF Sound
<1>7. numbers = <<>> /\ numbers \in Seq(Sequence) /\ Numbered
  BY DEF Init, Numbered
<1>8. QED
  BY <1>1, <1>2, <1>3, <1>5, <1>6, <1>7 DEF Inv, TypeOK, Init

\* An event that is let through has a number above those applied before, and
\* the book it is applied to carries it.
LEMMA NumbersStep ==
    ASSUME Inv, NEW x \in Exchange, NEW n \in Sequence, NEW t \in Stamp, Accepted(x, n),
           book'.sequence = Prepared(x, n, t).sequence
    PROVE  Numbered' /\ numbers' \in Seq(Sequence)
<1>1. n \in Nat /\ t \in Nat /\ Sequence \subseteq Nat
  BY BookAssumption
<1>2. book \in Book /\ book.sequence \in Nat /\ numbers \in Seq(Sequence)
  BY DEF Inv, TypeOK, Book
<1>3. book'.sequence = IF n = 0 THEN book.sequence ELSE n
  BY ONLY <1>1, <1>2, PreludeReturns, x \in Exchange,
          book'.sequence = Prepared(x, n, t).sequence DEF Prepared
<1>4. CASE n = 0
  <2>1. numbers' = numbers /\ book'.sequence = book.sequence
    BY <1>3, <1>4 DEF Accepted
  <2>2. QED
    BY <1>2, <2>1 DEF Inv, Numbered
<1>5. CASE n # 0
  <2>1. /\ numbers' = Append(numbers, n) /\ book'.sequence = n /\ book.sequence < n
    BY <1>1, <1>2, <1>3, <1>5 DEF Accepted, Stale
  <2>2. /\ numbers' \in Seq(Sequence) /\ Len(numbers) \in Nat
        /\ DOMAIN numbers = 1 .. Len(numbers)
        /\ DOMAIN numbers' = 1 .. Len(numbers) + 1
        /\ \A k \in 1 .. Len(numbers) : numbers'[k] = numbers[k] /\ numbers[k] \in Nat
        /\ numbers'[Len(numbers) + 1] = n
    <3>1. ASSUME NEW s \in Seq(Sequence)
          PROVE  /\ Append(s, n) \in Seq(Sequence) /\ Len(s) \in Nat
                 /\ DOMAIN s = 1 .. Len(s) /\ DOMAIN Append(s, n) = 1 .. Len(s) + 1
                 /\ \A k \in 1 .. Len(s) : Append(s, n)[k] = s[k] /\ s[k] \in Sequence
                 /\ Append(s, n)[Len(s) + 1] = n
      OBVIOUS
    <3>2. QED
      BY <1>1, <1>2, <2>1, <3>1
  <2>3. \A k \in 1 .. Len(numbers) : numbers'[k] < n
    BY <1>1, <1>2, <2>1, <2>2 DEF Inv, Numbered
  <2>4. \A j, k \in DOMAIN numbers : j < k => numbers[j] < numbers[k]
    BY DEF Inv, Numbered
  <2>5. ASSUME NEW j \in DOMAIN numbers', NEW k \in DOMAIN numbers', j < k
        PROVE  numbers'[j] < numbers'[k]
    <3>1. j \in 1 .. Len(numbers)
      BY <2>2, <2>5
    <3>2. CASE k = Len(numbers) + 1
      BY <2>2, <2>3, <3>1, <3>2
    <3>3. CASE k \in 1 .. Len(numbers)
      BY <2>2, <2>4, <2>5, <3>1, <3>3
    <3>4. QED
      BY <2>2, <3>2, <3>3
  <2>6. \A k \in DOMAIN numbers' : numbers'[k] <= book'.sequence
    BY <1>1, <2>1, <2>2, <2>3
  <2>7. QED
    BY <2>2, <2>5, <2>6 DEF Numbered
<1>6. QED
  BY <1>4, <1>5

\* A snapshot is balanced by itself; if it is not sound the process ends.
LEMMA SnapshotInv ==
    ASSUME Inv, NEW x \in Exchange, NEW n \in Sequence, NEW t \in Stamp,
           NEW levels \in SnapshotLevels, ApplySnapshot(x, n, t, levels)
    PROVE  Inv'
<1>1. n \in Nat /\ t \in Nat /\ levels \in Levels
  BY BookAssumption, SnapshotIsLevels
<1> DEFINE c == Prepared(x, n, t)
<1>2. c \in Book
  <2>1. book \in Book
    BY DEF Inv, TypeOK
  <2>2. QED
    BY <1>1, <2>1, PreludeReturns DEF Prepared
<1>3. book' = Snapshot(c, levels) /\ base' = levels /\ spoiled' = {} /\ Accepted(x, n)
  BY DEF ApplySnapshot
<1>4. book' \in Book /\ book'.orders = {} /\ book'.level = levels /\ book'.sequence = c.sequence
  BY <1>2, <1>3, SnapshotReturns
<1>5. Numbered' /\ numbers' \in Seq(Sequence)
  BY <1>3, <1>4, NumbersStep
<1> HIDE DEF c
<1>6. Distinct(book') /\ Balanced(book', base', spoiled') /\ Spoils(book', spoiled')
  BY <1>3, <1>4, BareIsBalanced
<1>7. CrossingsHaveCause'
  BY <1>3, <1>4 DEF CrossingsHaveCause
<1>8. outcome' = IF Sound(book') THEN "applied" ELSE "aborted"
  BY DEF ApplySnapshot, Validated
<1>9. QED
  BY <1>1, <1>3, <1>4, <1>5, <1>6, <1>7, <1>8 DEF Inv, TypeOK, Alive

\* A kept successor book re-establishes the invariant if the process ends
\* where the book is not sound.
LEMMA KeptStepInv ==
    ASSUME Inv, UNCHANGED base, Kept(book', base, spoiled'), Numbered',
           spoiled' \subseteq Side \X Price, numbers' \in Seq(Sequence),
           outcome' \in {"applied", "stale", "rejected", "throws", "aborted"},
           outcome' # "aborted" => Sound(book')
    PROVE  Inv'
<1>1. CrossingsHaveCause'
  BY DEF Kept, Caused, CrossingsHaveCause
<1>2. QED
  BY <1>1 DEF Inv, TypeOK, Kept, Alive

\* An order event keeps every part; it ends the process if the book it leaves
\* is not sound.
LEMMA OrderEventsInv ==
    ASSUME Inv, NEW x \in Exchange, NEW n \in Sequence, NEW t \in Stamp,
           \/ \E o \in Order : ApplyNewOrder(x, n, t, o)
           \/ \E id \in OrderId : ApplyCancelOrder(x, n, t, id)
    PROVE  Inv'
<1> DEFINE c == Prepared(x, n, t)
<1>1. n \in Nat /\ t \in Nat
  BY BookAssumption
<1>2. Kept(book, base, spoiled) /\ Priced(book) /\ base \in Levels /\ UNCHANGED base
  BY AliveIsKept DEF ApplyNewOrder, ApplyCancelOrder, Accepted
<1>3. Kept(c, base, spoiled) /\ Priced(c) /\ c \in Book
  BY <1>1, <1>2, PreludeKeeps DEF Prepared, Kept
<1>4. spoiled \subseteq Side \X Price
  BY DEF Inv, TypeOK
<1>5. CASE \E o \in Order : ApplyNewOrder(x, n, t, o)
  <2>1. PICK o \in Order : ApplyNewOrder(x, n, t, o)
    BY <1>5
  <2>2. /\ book' = NewOrder(c, o) /\ Accepted(x, n)
        /\ spoiled' = spoiled \cup {Place(r) : r \in {r \in book'.orders : r.quantity < 0}}
        /\ outcome' = Validated(IF Rejects(o) THEN "rejected" ELSE "applied")
    BY <2>1 DEF ApplyNewOrder
  <2>3. book' \in Book /\ book'.sequence = c.sequence
    BY <1>3, <2>2, NewOrderReturns
  <2>4. Numbered' /\ numbers' \in Seq(Sequence)
    BY <2>2, <2>3, NumbersStep
  <2> HIDE DEF c
  <2>5. Kept(book', base, spoiled')
    BY <1>2, <1>3, <2>2, NewOrderKeeps
  <2>6. spoiled' \subseteq Side \X Price
    <3>1. \A r \in book'.orders : Place(r) \in Side \X Price
      BY <2>3, OrderFields DEF Book, Place
    <3>2. QED
      BY <1>4, <2>2, <3>1
  <2>7. /\ outcome' \in {"applied", "rejected", "aborted"}
        /\ outcome' # "aborted" => Sound(book')
    BY <2>2 DEF Validated
  <2>8. QED
    BY <1>2, <2>4, <2>5, <2>6, <2>7, KeptStepInv
<1>6. CASE \E id \in OrderId : ApplyCancelOrder(x, n, t, id)
  <2>1. PICK id \in OrderId : ApplyCancelOrder(x, n, t, id)
    BY <1>6
  <2>2. /\ book' = CancelOrder(c, id) /\ Accepted(x, n) /\ spoiled' = spoiled
        /\ outcome' = Validated("applied")
    BY <2>1 DEF ApplyCancelOrder
  <2>3. book'.sequence = c.sequence
    BY <1>3, <2>2, CancelReturns
  <2>4. Numbered' /\ numbers' \in Seq(Sequence)
    BY <2>2, <2>3, NumbersStep
  <2> HIDE DEF c
  <2>5. Kept(book', base, spoiled')
    BY <1>2, <1>3, <2>2, CancelKeeps
  <2>6. outcome' \in {"applied", "aborted"} /\ (outcome' # "aborted" => Sound(book'))
    BY <2>2 DEF Validated
  <2>7. QED
    BY <1>2, <1>4, <2>2, <2>4, <2>5, <2>6, KeptStepInv
<1>7. QED
  BY <1>5, <1>6

\* A stale event or a mismatched one leaves levels and orders alone.
LEMMA IgnoredInv ==
    ASSUME Inv, NEW x \in Exchange,
           \/ ThrowMismatch(x)
           \/ \E n \in Sequence, t \in Stamp : ApplyStale(x, n, t)
    PROVE  Inv'
<1>1. Alive /\ UNCHANGED <<base, spoiled, numbers>>
  BY DEF ThrowMismatch, ApplyStale
<1>2. book \in Book /\ Sound(book)
  BY <1>1 DEF Inv, TypeOK
<1>3. /\ book' \in Book /\ book'.level = book.level /\ book'.orders = book.orders
      /\ book'.sequence = book.sequence
  <2>1. CASE ThrowMismatch(x)
    BY <1>2, <2>1 DEF ThrowMismatch
  <2>2. CASE \E n \in Sequence, t \in Stamp : ApplyStale(x, n, t)
    <3>1. PICK n \in Sequence, t \in Stamp : ApplyStale(x, n, t)
      BY <2>2
    <3>2. t \in Nat /\ 0 \in Nat
      BY BookAssumption
    <3>3. QED
      BY <1>2, <3>1, <3>2, PreludeReturns DEF ApplyStale
  <2>3. QED
    BY <2>1, <2>2
<1>4. outcome' \in {"stale", "throws"}
  BY DEF ThrowMismatch, ApplyStale
<1>5. /\ Distinct(book') /\ Spoils(book', spoiled') /\ Sound(book')
      /\ Balanced(book', base', spoiled')
  BY <1>1, <1>2, <1>3 DEF Inv, Distinct, Spoils, Sound, Balanced, Due
<1>6. CrossingsHaveCause' /\ Numbered'
  BY <1>1, <1>3 DEF Inv, CrossingsHaveCause, Numbered
<1>7. QED
  BY <1>1, <1>3, <1>4, <1>5, <1>6 DEF Inv, TypeOK

\* Every event keeps the invariant.
LEMMA NextInv == Inv /\ [Next]_vars => Inv'
<1> SUFFICES ASSUME Inv, [Next]_vars PROVE Inv'
  OBVIOUS
<1>1. CASE Next
  <2>1. PICK x \in Exchange :
          \/ ThrowMismatch(x)
          \/ \E n \in Sequence, t \in Stamp :
                \/ \E levels \in SnapshotLevels : ApplySnapshot(x, n, t, levels)
                \/ \E o \in Order : ApplyNewOrder(x, n, t, o)
                \/ \E id \in OrderId : ApplyCancelOrder(x, n, t, id)
                \/ ApplyStale(x, n, t)
    BY <1>1 DEF Next
  <2>2. QED
    BY <2>1, SnapshotInv, OrderEventsInv, IgnoredInv
<1>2. CASE UNCHANGED vars
  BY <1>2 DEF vars, Inv, TypeOK, Alive, Distinct, Balanced, Due, Spoils, CrossingsHaveCause,
              Sound, Numbered
<1>3. QED
  BY <1>1, <1>2

\* The invariant holds throughout the life of a book.
LEMMA Invariance == Spec => []Inv
BY InitInv, NextInv, PTL DEF Spec

\* The variables of a LimitOrderBook keep their types under every event: no
\* level is ever negative, whatever sign prices and quantities have.
THEOREM TypeCorrect == Spec => []TypeOK
<1>1. Inv => TypeOK
  BY DEF Inv
<1>2. QED
  BY <1>1, Invariance, PTL

\* No id ever rests twice, whatever ids the feed reuses.
THEOREM IdsStayUnique == Spec => []UniqueIds
<1>1. Inv => UniqueIds
  BY DEF Inv, Distinct, UniqueIds
<1>2. QED
  BY <1>1, Invariance, PTL

\* Levels equal snapshot plus resting orders after any sequence of events,
\* save where a negative quantity has rested, and there nothing is lost.
THEOREM LevelsStayBalanced == Spec => []LevelsBalance
<1>1. Inv => LevelsBalance
  BY DEF Inv, Balanced, Due, ValidPlace, LevelsBalance, BalancedAt
<1>2. QED
  BY <1>1, Invariance, PTL

\* Orders whose quantities are not negative never cross a book, nor does the
\* withdrawal of one: every crossing has one of the two causes.
THEOREM OrdersNeverCross == Spec => []CrossingsHaveCause
<1>1. Inv => CrossingsHaveCause
  BY DEF Inv
<1>2. QED
  BY <1>1, Invariance, PTL

\* No sequenced event takes effect twice, nor after one with a higher number.
THEOREM EventsApplyOnce == Spec => []AppliedOnceInOrder
<1>1. Inv => AppliedOnceInOrder
  BY DEF Inv, Numbered, AppliedOnceInOrder
<1>2. QED
  BY <1>1, Invariance, PTL

=============================================================================
