----------------------------- MODULE OrderBook -----------------------------
(***************************************************************************)
(* The life of one LimitOrderBook: every call of apply() a feed can cause, *)
(* with any prices and quantities.  A book that is not sound fails an      *)
(* assertion, which ends the process: assert.hpp turns the assertions on   *)
(* in every build.                                                         *)
(*                                                                         *)
(* Nothing rejects a negative quantity.  Such an order rests without a     *)
(* level, or takes from the level it finds, and when it is withdrawn its   *)
(* quantity is added to the level; the place is spoiled until the next     *)
(* snapshot.                                                               *)
(***************************************************************************)
EXTENDS LimitOrderBook, Sequences

VARIABLES book,     \* the members of the LimitOrderBook
          base,     \* history: the levels of the last snapshot applied
          spoiled,  \* history: where a negative quantity has rested since
          numbers,  \* history: the numbers of the sequenced events applied
          outcome   \* how the last call of apply() ended

vars == <<book, base, spoiled, numbers, outcome>>

TypeOK == /\ book \in Book
          /\ base \in Levels
          /\ spoiled \subseteq Side \X Price /\ numbers \in Seq(Sequence)
          /\ outcome \in {"applied", "stale", "rejected", "throws", "aborted"}

Init == /\ book = EmptyBook /\ outcome = "applied"
        /\ base = EmptyLevels /\ spoiled = {} /\ numbers = <<>>

Place(order) == <<order.side, order.price>>

Alive == outcome # "aborted"

\* The event reaches the switch, over the book as lines 100-125 leave it.
Accepted(exchange, sequence) ==
    /\ Alive /\ ~Mismatch(book, exchange) /\ ~Stale(book, sequence)
    /\ numbers' = IF sequence = 0 THEN numbers ELSE Append(numbers, sequence)

Prepared(exchange, sequence, stamp) ==
    Advance(Touch(book, exchange, stamp), sequence)

Validated(result) == IF Sound(book') THEN result ELSE "aborted"

ApplySnapshot(exchange, sequence, stamp, levels) ==
    /\ Accepted(exchange, sequence)
    /\ book' = Snapshot(Prepared(exchange, sequence, stamp), levels)
    /\ base' = levels /\ spoiled' = {}
    /\ outcome' = Validated("applied")

Rejects(order) ==
    order.id # 0 /\ Crosses(CancelOrder(book, order.id).level, order)

ApplyNewOrder(exchange, sequence, stamp, order) ==
    /\ Accepted(exchange, sequence)
    /\ book' = NewOrder(Prepared(exchange, sequence, stamp), order)
    /\ outcome' = Validated(IF Rejects(order) THEN "rejected" ELSE "applied")
    /\ spoiled' = spoiled \cup {Place(o) : o \in {r \in book'.orders : r.quantity < 0}}
    /\ UNCHANGED base

ApplyCancelOrder(exchange, sequence, stamp, id) ==
    /\ Accepted(exchange, sequence)
    /\ book' = CancelOrder(Prepared(exchange, sequence, stamp), id)
    /\ outcome' = Validated("applied")
    /\ UNCHANGED <<base, spoiled>>

\* Lines 120-122: only the exchange name and the timestamps are touched.
ApplyStale(exchange, sequence, stamp) ==
    /\ Alive /\ ~Mismatch(book, exchange) /\ Stale(book, sequence)
    /\ book' = Touch(book, exchange, stamp)
    /\ outcome' = "stale"
    /\ UNCHANGED <<base, spoiled, numbers>>

ThrowMismatch(exchange) ==
    /\ Alive /\ Mismatch(book, exchange)
    /\ outcome' = "throws"
    /\ UNCHANGED <<book, base, spoiled, numbers>>

Next ==
    \E exchange \in Exchange :
        \/ ThrowMismatch(exchange)
        \/ \E sequence \in Sequence, stamp \in Stamp :
              \/ \E levels \in SnapshotLevels :
                    ApplySnapshot(exchange, sequence, stamp, levels)
              \/ \E order \in Order :
                    ApplyNewOrder(exchange, sequence, stamp, order)
              \/ \E id \in OrderId :
                    ApplyCancelOrder(exchange, sequence, stamp, id)
              \/ ApplyStale(exchange, sequence, stamp)

Spec == Init /\ [][Next]_vars

(***************************************************************************)
(* Properties.                                                             *)
(***************************************************************************)

\* orders_ is a map: no id rests twice, so a cancel withdraws one order.
UniqueIds == \A o, r \in book.orders : o.id = r.id => o = r

\* The lots that orders bring to a place (sign 1), or that orders of negative
\* quantity owe it (sign -1): one pair per lot of each order.
Lots(orders, place, sign) ==
    UNION { {o} \X (1 .. sign * o.quantity) : o \in {r \in orders : Place(r) = place} }

(***************************************************************************)
(* Every level holds exactly what the snapshot left there plus what the    *)
(* resting orders add: cancels, replacements and rejections through        *)
(* applyDelta never leak or lose quantity, whatever their order.  What an  *)
(* order of negative quantity does stays at its own place, and there too   *)
(* no quantity is lost: the level may only hold too much.                  *)
(***************************************************************************)
BalancedAt(place) ==
    LET level == book.level[place[1]][place[2]]
        owed  == Cardinality(Lots(book.orders, place, -1))
        due   == base[place[1]][place[2]] + Cardinality(Lots(book.orders, place, 1))
    IN  /\ level + owed >= due
        /\ place \notin spoiled => level = due

LevelsBalance == \A place \in Side \X {p \in Price : p >= 0} : BalancedAt(place)

(***************************************************************************)
(* reject_crossed and applyDelta together keep the book uncrossed.  Where  *)
(* the assertion "best ask must exceed best bid" (line 91) fails, the last *)
(* snapshot was itself crossed, or an order of negative quantity has left  *)
(* a quantity nobody offers at one of the two places that meet.            *)
(***************************************************************************)
CrossingsHaveCause ==
    \A bid, ask \in Price :
        /\ book.level["bid"][bid] > 0 /\ book.level["ask"][ask] > 0 /\ ask <= bid
        => book.level = base \/ <<"bid", bid>> \in spoiled \/ <<"ask", ask>> \in spoiled

(***************************************************************************)
(* The sequenced events that take effect do so in the order of their       *)
(* numbers, none of them twice, with the stale, unsequenced and mismatched *)
(* events that come between (lines 97-125).                                *)
(***************************************************************************)
AppliedOnceInOrder ==
    \A j, k \in DOMAIN numbers : j < k => numbers[j] < numbers[k]

(***************************************************************************)
(* What the log line of reject_crossed says, "Ignoring crossed bid order": *)
(* a rejected order leaves levels and resting orders as they were.         *)
(***************************************************************************)
RejectedIsIgnored ==
    [][outcome' = "rejected" =>
         book'.level = book.level /\ book'.orders = book.orders]_vars

=============================================================================
