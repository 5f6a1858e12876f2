------------------------- MODULE AggregationEngine -------------------------
(***************************************************************************)
(* The threads of aggregator::AggregationEngine (aggregator.cpp): feeds    *)
(* push events, the worker applies them and enqueues views, the publisher  *)
(* calls the subscribers back, and the owner configures, starts and stops  *)
(* the engine.  A critical section under mutex_ is one step; the queues    *)
(* are FifoChannels.  What an event does to the books is Aggregator's      *)
(* concern: here a view is the number of events of each exchange in it.    *)
(***************************************************************************)
EXTENDS Integers, FiniteSets, Sequences

CONSTANTS Exchange,
          Subscriber,   \* one per subscriber id ever handed out
          MaxEvents,    \* bound: events pushed per exchange
          MaxStarts     \* bound: calls of start() that spawn threads

ASSUME EngineAssumption == /\ MaxEvents \in Nat /\ MaxStarts \in Nat
                           /\ IsFiniteSet(Exchange)

VARIABLES
    owner,        \* where the owner is: between calls, or inside stop()
    running,      \* running_
    starts,       \* how often threads were spawned
    worker,       \* pc of run()
    publisher,    \* pc of publisherLoop()
    events,       \* queue_: the exchange of each queued event
    eventsClosed,
    publishQueue, \* publish_queue_
    publishClosed,
    update,       \* run()'s local copy of the event in hand
    view,         \* view_
    expected,     \* expected_exchanges_; require_all_ready_ is expected # {}
    ready,        \* ready_exchanges_
    subscribed,   \* subscribers_: "no", "yes", or "left" once erased
    current,      \* publish(): the view in hand
    targets,      \* publish(): copied callbacks not called yet
    pushed,       \* history: events pushed per exchange
    log,          \* history: views that entered publish_queue_
    delivered,    \* history: views each subscriber was called back with
    late          \* history: callbacks after unsubscribe returned

threads == <<owner, running, starts, worker, publisher>>
queues == <<events, eventsClosed, publishQueue, publishClosed>>
books == <<view, expected, ready>>
calls == <<subscribed, current, targets>>
history == <<pushed, log, delivered, late>>
vars == <<threads, queues, update, books, calls, history>>

View == [Exchange -> Nat]
NoView == [x \in Exchange |-> 0]

TypeOK ==
    /\ owner \in {"new", "running", "closing", "joining", "closingPublisher",
                  "joiningPublisher", "stopped"}
    /\ running \in BOOLEAN /\ starts \in 0 .. MaxStarts
    /\ worker \in {"none", "check", "pop", "apply", "enqueue", "done"}
    /\ publisher \in {"none", "pop", "copy", "call", "done"}
    /\ events \in Seq(Exchange) /\ publishQueue \in Seq(View)
    /\ eventsClosed \in BOOLEAN /\ publishClosed \in BOOLEAN
    /\ update \in Exchange
    /\ view \in View /\ current \in View
    /\ expected \subseteq Exchange /\ ready \subseteq expected
    /\ subscribed \in [Subscriber -> {"no", "yes", "left"}]
    /\ targets \subseteq Subscriber
    /\ pushed \in [Exchange -> 0 .. MaxEvents]
    /\ log \in Seq(View)
    /\ delivered \in [Subscriber -> Seq(View)]
    /\ late \in [Subscriber -> Nat]

Init ==
    /\ owner = "new" /\ running = FALSE /\ starts = 0
    /\ worker = "none" /\ publisher = "none"
    /\ events = <<>> /\ eventsClosed = FALSE
    /\ publishQueue = <<>> /\ publishClosed = FALSE
    /\ update \in Exchange
    /\ view = NoView /\ expected = {} /\ ready = {}
    /\ subscribed = [s \in Subscriber |-> "no"] /\ current = NoView /\ targets = {}
    /\ pushed = [x \in Exchange |-> 0]
    /\ log = <<>> /\ late = [s \in Subscriber |-> 0]
    /\ delivered = [s \in Subscriber |-> <<>>]

-----------------------------------------------------------------------------
(* The owner.  main() configures before it starts; nobody else configures. *)

SetExpectedExchanges(exchanges) ==
    /\ owner = "new"
    /\ expected' = exchanges /\ ready' = {}
    /\ UNCHANGED <<threads, queues, update, view, calls, history>>

\* The threads are spawned once per stop(); the queues stay closed after one.
Start ==
    /\ owner \in {"new", "stopped"} /\ ~running /\ starts < MaxStarts
    /\ owner' = "running" /\ running' = TRUE /\ starts' = starts + 1
    /\ publisher' = "pop" /\ worker' = "check"
    /\ UNCHANGED <<queues, update, books, calls, history>>

\* stop(), also called by the destructor of an engine that never started.
Stop ==
    /\ owner \in {"new", "running"}
    /\ owner' = "closing" /\ running' = FALSE
    /\ UNCHANGED <<starts, worker, publisher, queues, update, books, calls, history>>

CloseQueue ==
    /\ owner = "closing"
    /\ owner' = "joining" /\ eventsClosed' = TRUE
    /\ UNCHANGED <<running, starts, worker, publisher, events, publishQueue,
                   publishClosed, update, books, calls, history>>

JoinWorker ==
    /\ owner = "joining" /\ worker \in {"none", "done"}
    /\ owner' = "closingPublisher"
    /\ UNCHANGED <<running, starts, worker, publisher, queues, update, books, calls, history>>

\* Fault: the publisher is joined before its queue is closed.
JoinPublisherFirst ==
    /\ owner = "closingPublisher" /\ publisher \in {"none", "done"}
    /\ owner' = "joiningPublisher" /\ publishClosed' = TRUE
    /\ UNCHANGED <<running, starts, worker, publisher, events, eventsClosed,
                   publishQueue, update, books, calls, history>>

ClosePublishQueue ==
    /\ owner = "closingPublisher"
    /\ owner' = "joiningPublisher" /\ publishClosed' = TRUE
    /\ UNCHANGED <<running, starts, worker, publisher, events, eventsClosed,
                   publishQueue, update, books, calls, history>>

JoinPublisher ==
    /\ owner = "joiningPublisher" /\ publisher \in {"none", "done"}
    /\ owner' = "stopped"
    /\ UNCHANGED <<running, starts, worker, publisher, queues, update, books, calls, history>>

-----------------------------------------------------------------------------
(* Feeds and subscribers.                                                  *)

\* push(): once the queue is closed the event is dropped.
Push(x) ==
    /\ pushed[x] < MaxEvents
    /\ pushed' = [pushed EXCEPT ![x] = @ + 1]
    /\ events' = IF eventsClosed THEN events ELSE Append(events, x)
    /\ UNCHANGED <<threads, eventsClosed, publishQueue, publishClosed, update,
                   books, calls, log, delivered, late>>

Subscribe(s) ==
    /\ subscribed[s] = "no"
    /\ subscribed' = [subscribed EXCEPT ![s] = "yes"]
    /\ UNCHANGED <<threads, queues, update, books, current, targets, history>>

Unsubscribe(s) ==
    /\ subscribed[s] = "yes"
    /\ subscribed' = [subscribed EXCEPT ![s] = "left"]
    /\ UNCHANGED <<threads, queues, update, books, current, targets, history>>

-----------------------------------------------------------------------------
(* run(), the worker.                                                      *)

WorkerCheck ==
    /\ worker = "check"
    /\ worker' = IF running THEN "pop" ELSE "done"
    /\ UNCHANGED <<owner, running, starts, publisher, queues, update, books, calls, history>>

WorkerPop ==
    /\ worker = "pop"
    /\ \/ /\ events # <<>>
          /\ update' = Head(events) /\ events' = Tail(events)
          /\ worker' = "apply"
       \/ /\ events = <<>> /\ eventsClosed
          /\ worker' = "done"
          /\ UNCHANGED <<update, events>>
    /\ UNCHANGED <<owner, running, starts, publisher, eventsClosed, publishQueue,
                   publishClosed, books, calls, history>>

\* Fault: the gate opens as soon as any expected exchange is ready.
ReadyWhenAny == expected = {} \/ ready' # {}

Ready == expected = {} \/ ready' = expected

\* Lines 141-150, under mutex_.
Apply ==
    /\ worker = "apply"
    /\ view' = [view EXCEPT ![update] = @ + 1]
    /\ ready' = IF update \in expected THEN ready \cup {update} ELSE ready
    /\ worker' = IF Ready THEN "enqueue" ELSE "check"
    /\ UNCHANGED <<owner, running, starts, publisher, queues, update, expected,
                   calls, history>>

\* Fault: a view is only enqueued when the publisher has caught up.
EnqueueWhenIdle ==
    /\ worker = "enqueue"
    /\ worker' = "check"
    /\ IF publishClosed \/ publishQueue # <<>>
       THEN UNCHANGED <<publishQueue, log>>
       ELSE publishQueue' = Append(publishQueue, view) /\ log' = Append(log, view)
    /\ UNCHANGED <<owner, running, starts, publisher, events, eventsClosed,
                   publishClosed, update, books, calls, pushed, delivered, late>>

\* Only the worker writes view_, so its local snapshot is still view_ here.
EnqueueSnapshot ==
    /\ worker = "enqueue"
    /\ worker' = "check"
    /\ IF publishClosed
       THEN UNCHANGED <<publishQueue, log>>
       ELSE publishQueue' = Append(publishQueue, view) /\ log' = Append(log, view)
    /\ UNCHANGED <<owner, running, starts, publisher, events, eventsClosed,
                   publishClosed, update, books, calls, pushed, delivered, late>>

-----------------------------------------------------------------------------
(* publisherLoop() and publish().                                          *)

\* Fault: the publisher takes the newest view first.
PublisherPopBack ==
    /\ publisher = "pop"
    /\ \/ /\ publishQueue # <<>>
          /\ current' = publishQueue[Len(publishQueue)]
          /\ publishQueue' = SubSeq(publishQueue, 1, Len(publishQueue) - 1)
          /\ publisher' = "copy"
       \/ /\ publishQueue = <<>> /\ publishClosed
          /\ publisher' = "done"
          /\ UNCHANGED <<current, publishQueue>>
    /\ UNCHANGED <<owner, running, starts, worker, events, eventsClosed, publishClosed,
                   update, books, subscribed, targets, history>>

\* Fault: the publisher leaves as soon as the queue is closed.
PublisherPopNoDrain ==
    /\ publisher = "pop"
    /\ \/ /\ publishQueue # <<>> /\ ~publishClosed
          /\ current' = Head(publishQueue) /\ publishQueue' = Tail(publishQueue)
          /\ publisher' = "copy"
       \/ /\ publishClosed
          /\ publisher' = "done"
          /\ UNCHANGED <<current, publishQueue>>
    /\ UNCHANGED <<owner, running, starts, worker, events, eventsClosed, publishClosed,
                   update, books, subscribed, targets, history>>

PublisherPop ==
    /\ publisher = "pop"
    /\ \/ /\ publishQueue # <<>>
          /\ current' = Head(publishQueue) /\ publishQueue' = Tail(publishQueue)
          /\ publisher' = "copy"
       \/ /\ publishQueue = <<>> /\ publishClosed
          /\ publisher' = "done"
          /\ UNCHANGED <<current, publishQueue>>
    /\ UNCHANGED <<owner, running, starts, worker, events, eventsClosed, publishClosed,
                   update, books, subscribed, targets, history>>

\* Fault: callbacks are copied without regard to erased subscribers.
CopyEverybody ==
    /\ publisher = "copy"
    /\ targets' = {s \in Subscriber : subscribed[s] # "no"}
    /\ publisher' = IF targets' = {} THEN "pop" ELSE "call"
    /\ UNCHANGED <<owner, running, starts, worker, queues, update, books,
                   subscribed, current, history>>

CopySubscribers ==
    /\ publisher = "copy"
    /\ targets' = {s \in Subscriber : subscribed[s] = "yes"}
    /\ publisher' = IF targets' = {} THEN "pop" ELSE "call"
    /\ UNCHANGED <<owner, running, starts, worker, queues, update, books,
                   subscribed, current, history>>

\* One callback, in the order of the unordered_map, without mutex_.
Call(s) ==
    /\ publisher = "call" /\ s \in targets
    /\ delivered' = [delivered EXCEPT ![s] = Append(@, current)]
    /\ late' = [late EXCEPT ![s] = IF subscribed[s] = "left" THEN @ + 1 ELSE @]
    /\ targets' = targets \ {s}
    /\ publisher' = IF targets' = {} THEN "pop" ELSE "call"
    /\ UNCHANGED <<owner, running, starts, worker, queues, update, books,
                   subscribed, current, pushed, log>>

-----------------------------------------------------------------------------

Owner == \/ \E exchanges \in SUBSET Exchange : SetExpectedExchanges(exchanges)
         \/ Start \/ Stop
         \/ CloseQueue \/ JoinWorker \/ ClosePublishQueue \/ JoinPublisher

Worker == WorkerCheck \/ WorkerPop \/ Apply \/ EnqueueSnapshot

Publisher == PublisherPop \/ CopySubscribers \/ \E s \in Subscriber : Call(s)

Next == \/ Owner \/ Worker \/ Publisher
        \/ \E x \in Exchange : Push(x)
        \/ \E s \in Subscriber : Subscribe(s) \/ Unsubscribe(s)

(***************************************************************************)
(* The two threads run, callbacks return, and a stop() that began goes on. *)
(* Nothing makes anybody push, subscribe, start or stop.                   *)
(***************************************************************************)
Fairness == /\ WF_vars(Worker) /\ WF_vars(Publisher)
            /\ WF_vars(CloseQueue \/ JoinWorker \/ ClosePublishQueue \/ JoinPublisher)

Spec == Init /\ [][Next]_vars /\ Fairness

(***************************************************************************)
(* Properties.                                                             *)
(***************************************************************************)

Last(sequence) == sequence[Len(sequence)]

(***************************************************************************)
(* "only start diffusing updates if all sources are updated" (xxx.txt:87): *)
(* no published view lacks an expected exchange.                           *)
(***************************************************************************)
GateHolds ==
    \A k \in 1 .. Len(log) : \A x \in expected : log[k][x] > 0

(***************************************************************************)
(* "the aggregator sends update at every source update" (xxx.txt:87): once *)
(* it publishes, every event the worker applies reaches the log with a     *)
(* view of its own, until stop() closes the log.                           *)
(***************************************************************************)
EveryUpdatePublished ==
    /\ \A k \in 2 .. Len(log) :
        \E x \in Exchange : log[k] = [log[k - 1] EXCEPT ![x] = @ + 1]
    /\ log # <<>> /\ worker # "enqueue" /\ ~publishClosed => Last(log) = view

(***************************************************************************)
(* publish() calls copies of the callbacks without mutex_, so one call may *)
(* come after unsubscribe() returned; never a second one.  (StreamBooks'   *)
(* callback captures its stack and does not expect even that one.)         *)
(***************************************************************************)
AtMostOneLateCall == \A s \in Subscriber : late[s] <= 1

(***************************************************************************)
(* When stop() returns both threads are gone, and a subscriber that was    *)
(* being served and stayed has been given the last published view:         *)
(* publish_queue_ is closed after the worker is joined and then drained.   *)
(***************************************************************************)
StopDrains ==
    owner = "stopped" =>
        /\ worker \in {"none", "done"} /\ publisher \in {"none", "done"}
        /\ publishQueue = <<>>
        /\ \A s \in Subscriber :
              subscribed[s] = "yes" /\ delivered[s] # <<>> =>
                  Last(delivered[s]) = Last(log)

\* Subscribers read contiguous pieces of one growing log of views.
Promise == INSTANCE PublicationLog
             WITH got <- delivered, View <- [Exchange -> 0 .. MaxEvents]
ImplementsPublicationLog == Promise!Spec

\* stop() returns: neither join waits for a thread that waits for the owner.
StopReturns == owner = "closing" ~> owner = "stopped"

(***************************************************************************)
(* A view still queued when somebody subscribes reaches them unless they   *)
(* leave, even if the engine is stopped meanwhile.  (A view published      *)
(* before does not: subscribe() hands out no initial snapshot.)            *)
(***************************************************************************)
ViewsReachSubscribers ==
    \A s \in Subscriber, v \in [Exchange -> 0 .. MaxEvents] :
        (subscribed[s] = "yes" /\ \E k \in 1 .. Len(publishQueue) : publishQueue[k] = v)
            ~> (subscribed[s] = "left" \/ \E k \in 1 .. Len(delivered[s]) : delivered[s][k] = v)

=============================================================================
