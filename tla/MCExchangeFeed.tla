--------------------------- MODULE MCExchangeFeed ---------------------------
(* A file with each kind of line, shorter than what is sent, so that the    *)
(* replay wraps around.                                                     *)
EXTENDS ExchangeFeed

MCPrice == {1}
MCQuantity == {1}
MCOrderId == {1}
MCSequence == 0 .. 4
MCStamp == {1}

Ask == [EmptyLevels EXCEPT !["ask"][1] = 1]
Of(kind, sequence) ==
    [kind |-> kind, sequence |-> sequence, levels |-> Ask,
     order |-> [id |-> 1, side |-> "ask", price |-> 1, quantity |-> 1]]

MCFile == <<Of("snapshot", 1), Of("new_order", 2), Of("empty", 0), Of("garbled", 0),
            Of("long", 3), Of("cancel_order", 4)>>
MCSkipUntil == {0, 2, 4}
=============================================================================
