----------------------------- MODULE Aggregator -----------------------------
(***************************************************************************)
(* The worker's critical section (aggregator.cpp, lines 141-150) with its  *)
(* data: one LimitOrderBook per exchange, and consolidate(), which sums    *)
(* them, uncrosses the sum one match at a time, remembers the best ask and *)
(* validates the view.  AggregationEngine is about the threads around it.  *)
(***************************************************************************)
EXTENDS LimitOrderBook, FiniteSetsExt

CONSTANT MaxTime    \* bound: what the wall clock may show, in the units of Stamp

\* A decimal has finitely many values, a configuration finitely many feeds.
ASSUME AggregatorAssumption == /\ IsFiniteSet(Price)
                               /\ IsFiniteSet(Exchange)
                               /\ MaxTime \in Nat \ {0}

Uncross == INSTANCE VirtualUncross

VARIABLES books,     \* books_; a book without a name is not in the map yet
          lastAsk,   \* last_best_ask_, or NoAsk while last_best_ask_valid_ is false
          level,     \* the bids and asks of the view consolidate() makes
          view,      \* view_: its levels
          status     \* "up", inside virtualUncross, or the assertion that failed

vars == <<books, lastAsk, level, view, status>>

NoAsk == [price |-> 0, quantity |-> 0]
Quote == [price : Price, quantity : Nat \ {0}]

TypeOK == /\ books \in [Exchange -> Book]
          /\ lastAsk \in Quote \cup {NoAsk}
          /\ level \in Levels /\ view \in Levels
          /\ status \in {"up", "matching", "book refused", "view crossed", "feed ahead"}

Init == /\ books = [x \in Exchange |-> EmptyBook]
        /\ lastAsk = NoAsk
        /\ level = EmptyLevels
        /\ view = EmptyLevels
        /\ status = "up"

-----------------------------------------------------------------------------
(* consolidate(), lines 184-283.                                           *)

\* aggregated_bids and aggregated_asks: the levels of all books, added up.
Total(bs) ==
    [side \in Side |-> [p \in Price |->
        Uncross!SumOver([x \in Exchange |-> bs[x].level[side][p]], Exchange)]]

\* virtualUncross matches the best bid with the best ask while they meet.
Matching ==
    /\ status = "matching" /\ Uncross!Meets(level)
    /\ level' = Uncross!Match(level)
    /\ UNCHANGED <<books, lastAsk, view, status>>

\* Fault: the last best ask is shown besides the asks that are left.
ShownAlways(clean) ==
    IF lastAsk # NoAsk
    THEN [clean EXCEPT !["ask"][lastAsk.price] = Max({@, lastAsk.quantity})]
    ELSE clean

\* Fault: the view is left without asks.
ShownAsIs(clean) == clean

\* Fault: without asks the last view is shown again, with its bids.
ShownBefore(clean) ==
    IF Uncross!Prices(clean, "ask") = {} /\ lastAsk # NoAsk THEN view ELSE clean

\* The last best ask stands in for the ask side when no ask is left.
Shown(clean) ==
    IF Uncross!Prices(clean, "ask") = {} /\ lastAsk # NoAsk
    THEN [clean EXCEPT !["ask"][lastAsk.price] = lastAsk.quantity]
    ELSE clean

Remembered(clean) ==
    IF Uncross!Prices(clean, "ask") = {}
    THEN lastAsk
    ELSE [price    |-> Uncross!BestAsk(clean),
          quantity |-> clean["ask"][Uncross!BestAsk(clean)]]

\* Some venue's timestamp is ahead of the clock.
Ahead(now) == \E x \in Exchange : books[x].stamp > now

\* validateAggregatedView: the first assertion that fails, or "up".
Validated(shown, now) ==
    IF Crossed(shown) THEN "view crossed" ELSE IF Ahead(now) THEN "feed ahead" ELSE "up"

\* consolidate() reads system_clock, which may be set back, once (line 187).  A
\* failed assertion ends the process before view_ is assigned.
Conclude ==
    /\ status = "matching" /\ ~Uncross!Meets(level)
    /\ lastAsk' = Remembered(level)
    /\ \E now \in 1 .. MaxTime : status' = Validated(Shown(level), now)
    /\ view' = IF status' = "up" THEN Shown(level) ELSE view
    /\ UNCHANGED <<books, level>>

-----------------------------------------------------------------------------
(* The worker takes an event of exchange x: apply() on its book, creating  *)
(* it if need be, then consolidate().                                      *)

Prepared(x, sequence, stamp) == Advance(Touch(books[x], x, stamp), sequence)

Process(x, sequence, stamp, applied) ==
    LET stale == Stale(books[x], sequence)
        book  == IF stale THEN Touch(books[x], x, stamp) ELSE applied
    IN  /\ status = "up"
        /\ books' = [books EXCEPT ![x] = book]
        /\ status' = IF stale \/ Sound(book) THEN "matching" ELSE "book refused"
        /\ level' = IF status' = "matching" THEN Total(books') ELSE level
        /\ UNCHANGED <<lastAsk, view>>

ProcessSnapshot(x, sequence, stamp, levels) ==
    Process(x, sequence, stamp, Snapshot(Prepared(x, sequence, stamp), levels))

ProcessNewOrder(x, sequence, stamp, order) ==
    Process(x, sequence, stamp, NewOrder(Prepared(x, sequence, stamp), order))

ProcessCancelOrder(x, sequence, stamp, id) ==
    Process(x, sequence, stamp, CancelOrder(Prepared(x, sequence, stamp), id))

Next == \/ \E x \in Exchange, sequence \in Sequence, stamp \in Stamp :
              \/ \E levels \in SnapshotLevels : ProcessSnapshot(x, sequence, stamp, levels)
              \/ \E order \in Order : ProcessNewOrder(x, sequence, stamp, order)
              \/ \E id \in OrderId : ProcessCancelOrder(x, sequence, stamp, id)
        \/ Matching \/ Conclude

\* consolidate() is a loop in the worker's thread.
Spec == Init /\ [][Next]_vars /\ WF_vars(Matching \/ Conclude)

(***************************************************************************)
(* Properties.                                                             *)
(***************************************************************************)

AsksLeft == Uncross!Prices(level, "ask") # {}

(***************************************************************************)
(* When the matching has ended, each side of the summed book has given up  *)
(* the clearing volume of a uniform-price auction, best prices first: no   *)
(* volume that could be matched is left, none is taken that could not      *)
(* (virtualUncross, lines 37-62).                                          *)
(***************************************************************************)
UncrossIsClearing ==
    status \in {"up", "matching"} /\ ~Uncross!Meets(level) =>
        level = Uncross!Cleared(Total(books))

\* The loop of virtualUncross ends: every match advances an index (lines 46-51).
MatchingEnds == []<>(status # "matching")

(***************************************************************************)
(* virtualUncross never leaves a view its own validation refuses: the      *)
(* assertions of lines 296 and 335 can only fail while the ask side is     *)
(* empty and the remembered ask stands in for it.                          *)
(***************************************************************************)
OnlyStandInCrosses == status = "view crossed" => ~AsksLeft /\ lastAsk # NoAsk

(***************************************************************************)
(* A price is quoted with no more quantity than the venues offer at it,    *)
(* save for the stand-in ask, which is the last best ask that was shown.   *)
(***************************************************************************)
QuotesBacked ==
    status = "up" =>
        \A side \in Side, p \in Price :
            view[side][p] > Total(books)[side][p] =>
                /\ side = "ask" /\ ~AsksLeft
                /\ [price |-> p, quantity |-> view[side][p]] = lastAsk

(***************************************************************************)
(* Once subscribers have been shown an ask, no later view is without one,  *)
(* whether the venues withdraw all their asks or the matching uses them up *)
(* (lines 246-258).  Before that a view may lack the ask side although     *)
(* venues offer asks.                                                      *)
(***************************************************************************)
AskSideStays ==
    [][Uncross!Prices(view, "ask") # {} => Uncross!Prices(view', "ask") # {}]_vars

(***************************************************************************)
(* "best ask must exceed best bid" (aggregator.cpp:297): what the view     *)
(* validation asserts of every view, and what "keep the previous best ask  *)
(* until new asks arrive" (instructions/data_fix_plan.txt:8) breaks.       *)
(***************************************************************************)
BestAskExceedsBestBid == status # "view crossed"

=============================================================================
