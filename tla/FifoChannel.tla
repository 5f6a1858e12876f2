---------------------------- MODULE FifoChannel ----------------------------
(***************************************************************************)
(* What a ConcurrentQueue promises its users: a first-in first-out channel *)
(* that is closed once, refuses values from then on, and still hands out   *)
(* the values it had accepted.  AggregationEngine is built on this         *)
(* specification; ConcurrentQueue is shown to implement it.                *)
(***************************************************************************)
EXTENDS Sequences

CONSTANT Value

VARIABLES items,    \* accepted, not yet taken
          taken,    \* taken, in order
          closed

vars == <<items, taken, closed>>

Init == items = <<>> /\ taken = <<>> /\ closed = FALSE

Send(v) == /\ ~closed
           /\ items' = Append(items, v)
           /\ UNCHANGED <<taken, closed>>

Receive == /\ items # <<>>
           /\ taken' = Append(taken, Head(items))
           /\ items' = Tail(items)
           /\ UNCHANGED closed

Close == closed' = TRUE /\ UNCHANGED <<items, taken>>

Next == (\E v \in Value : Send(v)) \/ Receive \/ Close

Spec == Init /\ [][Next]_vars /\ WF_vars(Receive)

=============================================================================
