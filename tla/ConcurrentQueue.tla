-------------------------- MODULE ConcurrentQueue --------------------------
(***************************************************************************)
(* common::ConcurrentQueue (concurrent_queue.hpp): a std::queue under a    *)
(* mutex and a condition variable.  A critical section is one step, since  *)
(* nothing inside one blocks; the notification after the unlock is a step  *)
(* of its own, and a woken thread takes the mutex and tests again.         *)
(*                                                                         *)
(* A receiver calls its pop in a loop: the ones in Timed call wait_pop_for *)
(* (the stream handlers), the others wait_pop (worker and publisher); any  *)
(* of them may call try_pop in between.                                    *)
(***************************************************************************)
EXTENDS Integers, FiniteSets, Sequences

CONSTANTS Sender, Receiver,     \* the threads that push, and those that pop
          Timed,        \* the receivers that use wait_pop_for
          MaxPush       \* bound: pushes per sender

ASSUME QueueAssumption == /\ Timed \subseteq Receiver
                          /\ Sender \cap Receiver = {}
                          /\ MaxPush \in Nat
                          /\ IsFiniteSet(Sender) /\ IsFiniteSet(Receiver)

\* The k-th value a sender pushes.
Value == Sender \X (1 .. MaxPush)

VARIABLES queue,    \* queue_
          closed,   \* closed_
          sender,   \* "idle", or "notifying" between unlock and notify_one
          receiver, \* where each one is in its pop
          closer,   \* the thread that closes: "idle", "notifying" or "done"
          pushed,   \* history: how many values each sender has pushed
          taken     \* history: the values handed out, in order

queueVars == <<queue, closed, sender, receiver, closer, pushed, taken>>

QueueTypeOK == /\ queue \in Seq(Value)
               /\ closed \in BOOLEAN
               /\ sender \in [Sender -> {"idle", "notifying"}]
               /\ receiver \in [Receiver -> {"ready", "waiting", "woken", "expired", "done"}]
               /\ closer \in {"idle", "notifying", "done"}
               /\ pushed \in [Sender -> 0 .. MaxPush]
               /\ taken \in Seq(Value)

QueueInit == /\ queue = <<>>
             /\ closed = FALSE
             /\ sender = [p \in Sender |-> "idle"]
             /\ receiver = [c \in Receiver |-> "ready"]
             /\ closer = "idle"
             /\ pushed = [p \in Sender |-> 0]
             /\ taken = <<>>

Waiting == {c \in Receiver : receiver[c] = "waiting"}

\* Fault: notify only when the queue was empty before the push.
PushNotifyingWhenEmpty(p) ==
    /\ sender[p] = "idle" /\ pushed[p] < MaxPush
    /\ pushed' = [pushed EXCEPT ![p] = @ + 1]
    /\ IF closed
       THEN UNCHANGED <<queue, sender>>
       ELSE /\ queue' = Append(queue, <<p, pushed'[p]>>)
            /\ sender' = [sender EXCEPT ![p] = IF queue = <<>> THEN "notifying" ELSE @]
    /\ UNCHANGED <<closed, receiver, closer, taken>>

\* Fault: a closed queue still accepts values.
PushIgnoringClose(p) ==
    /\ sender[p] = "idle" /\ pushed[p] < MaxPush
    /\ pushed' = [pushed EXCEPT ![p] = @ + 1]
    /\ queue' = Append(queue, <<p, pushed'[p]>>)
    /\ sender' = [sender EXCEPT ![p] = "notifying"]
    /\ UNCHANGED <<closed, receiver, closer, taken>>

\* push: a closed queue drops the value without a word.
Push(p) ==
    /\ sender[p] = "idle" /\ pushed[p] < MaxPush
    /\ pushed' = [pushed EXCEPT ![p] = @ + 1]
    /\ IF closed
       THEN UNCHANGED <<queue, sender>>
       ELSE /\ queue' = Append(queue, <<p, pushed'[p]>>)
            /\ sender' = [sender EXCEPT ![p] = "notifying"]
    /\ UNCHANGED <<closed, receiver, closer, taken>>

\* notify_one of line 22: wakes one waiter, or nobody when none waits.
NotifyOne(p) ==
    /\ sender[p] = "notifying"
    /\ sender' = [sender EXCEPT ![p] = "idle"]
    /\ IF Waiting = {}
       THEN UNCHANGED receiver
       ELSE \E c \in Waiting : receiver' = [receiver EXCEPT ![c] = "woken"]
    /\ UNCHANGED <<queue, closed, closer, pushed, taken>>

Take(c) ==
    /\ queue # <<>>
    /\ taken' = Append(taken, Head(queue))
    /\ queue' = Tail(queue)
    /\ receiver' = [receiver EXCEPT ![c] = "ready"]
    /\ UNCHANGED <<closed, sender, closer, pushed>>

TryPop(c) == receiver[c] = "ready" /\ Take(c)

\* Fault: a closed queue reports its end before it is drained.
EndEarly(c) ==
    /\ closed
    /\ receiver' = [receiver EXCEPT ![c] = "done"]
    /\ UNCHANGED <<queue, closed, sender, closer, pushed, taken>>

\* The pop returns false for good: closed and drained.
End(c) ==
    /\ queue = <<>> /\ closed
    /\ receiver' = [receiver EXCEPT ![c] = "done"]
    /\ UNCHANGED <<queue, closed, sender, closer, pushed, taken>>

Wait(c) ==
    /\ queue = <<>> /\ ~closed
    /\ receiver' = [receiver EXCEPT ![c] = "waiting"]
    /\ UNCHANGED <<queue, closed, sender, closer, pushed, taken>>

\* The predicate of the wait is tested, on the first call and after a wake-up.
WaitPop(c) ==
    /\ receiver[c] \in {"ready", "woken"}
    /\ Take(c) \/ End(c) \/ Wait(c)

\* A waiter wakes by itself: at its deadline, or spuriously.
Wake(c) ==
    /\ receiver[c] = "waiting"
    /\ \/ receiver' = [receiver EXCEPT ![c] = "woken"]
       \/ c \in Timed /\ receiver' = [receiver EXCEPT ![c] = "expired"]
    /\ UNCHANGED <<queue, closed, sender, closer, pushed, taken>>

\* wait_for tests the predicate once more after the deadline (line 49).
Expire(c) ==
    /\ receiver[c] = "expired"
    /\ \/ Take(c)
       \/ End(c)
       \/ /\ queue = <<>> /\ ~closed
          /\ receiver' = [receiver EXCEPT ![c] = "ready"]
          /\ UNCHANGED <<queue, closed, sender, closer, pushed, taken>>

Close ==
    /\ closer = "idle"
    /\ closed' = TRUE
    /\ closer' = "notifying"
    /\ UNCHANGED <<queue, sender, receiver, pushed, taken>>

NotifyAll ==
    /\ closer = "notifying"
    /\ closer' = "done"
    /\ receiver' = [c \in Receiver |-> IF c \in Waiting THEN "woken" ELSE receiver[c]]
    /\ UNCHANGED <<queue, closed, sender, pushed, taken>>

QueueNext == \/ \E p \in Sender : Push(p) \/ NotifyOne(p)
             \/ \E c \in Receiver : TryPop(c) \/ WaitPop(c) \/ Wake(c) \/ Expire(c)
             \/ Close \/ NotifyAll

(***************************************************************************)
(* A thread that holds or can take the mutex gets on with its call, and    *)
(* one that owes a notification gives it.  Nothing makes a sender push,    *)
(* the owner close, or a waiter wake by itself.                            *)
(***************************************************************************)
QueueFairness == /\ \A p \in Sender : WF_queueVars(NotifyOne(p))
                 /\ \A c \in Receiver : WF_queueVars(WaitPop(c)) /\ WF_queueVars(Expire(c))
                 /\ WF_queueVars(NotifyAll)

QueueSpec == QueueInit /\ [][QueueNext]_queueVars /\ QueueFairness

(***************************************************************************)
(* Properties.                                                             *)
(***************************************************************************)

Notifying == {p \in Sender : sender[p] = "notifying"}
Testing == {c \in Receiver : receiver[c] \in {"woken", "expired"}}

(***************************************************************************)
(* notify_one comes after the unlock (line 22), so a value may sit in the  *)
(* queue while a receiver sleeps; but never more values than there are     *)
(* notifications on their way and receivers about to test the queue, and   *)
(* nobody sleeps on a closed queue whose closer has called notify_all.     *)
(***************************************************************************)
NoLostWakeup ==
    Waiting # {} => /\ Len(queue) <= Cardinality(Notifying) + Cardinality(Testing)
                    /\ closed => closer = "notifying"

(***************************************************************************)
(* The queue is a FIFO channel: nothing lost, duplicated or reordered,     *)
(* nothing accepted once closed, and values handed out as long as there    *)
(* are any (the abstract specification's fairness).                        *)
(***************************************************************************)
Channel == INSTANCE FifoChannel WITH items <- queue
ImplementsChannel == Channel!Spec

\* Once the queue is closed every receiver's loop ends, after draining it:
\* what AggregationEngine::stop() relies on to join its threads.
LoopsEnd == closed ~> (queue = <<>> /\ \A c \in Receiver : receiver[c] = "done")

=============================================================================
