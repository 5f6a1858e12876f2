--------------------------- MODULE PublicationLog ---------------------------
(***************************************************************************)
(* What AggregationEngine promises its subscribers: there is one log of    *)
(* published views, each newer than the one before, and a subscriber is    *)
(* given a contiguous piece of that log, in order.                         *)
(*                                                                         *)
(* A view is told apart by the events it contains: the number of events of *)
(* each exchange applied before it.                                        *)
(***************************************************************************)
EXTENDS Integers, Sequences

CONSTANTS Exchange, Subscriber,
          View          \* a subset of [Exchange -> Nat]

VARIABLES log,      \* the views published so far
          got       \* the views each subscriber was given

vars == <<log, got>>

Newer(v, w) == v # w /\ \A x \in Exchange : w[x] <= v[x]

Init == log = <<>> /\ got = [s \in Subscriber |-> <<>>]

Publish(v) == /\ log # <<>> => Newer(v, log[Len(log)])
              /\ log' = Append(log, v)
              /\ UNCHANGED got

\* The first view is any published one, the next the one that follows the last.
Deliver(s, k) == /\ \/ got[s] = <<>>
                    \/ k > 1 /\ got[s][Len(got[s])] = log[k - 1]
                 /\ got' = [got EXCEPT ![s] = Append(@, log[k])]
                 /\ UNCHANGED log

Next == \/ \E v \in View : Publish(v)
        \/ \E s \in Subscriber, k \in 1 .. Len(log) : Deliver(s, k)

Spec == Init /\ [][Next]_vars

=============================================================================
