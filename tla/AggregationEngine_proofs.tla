---------------------- MODULE AggregationEngine_proofs ----------------------
(***************************************************************************)
(* Proofs about AggregationEngine.  The invariants the runs check follow   *)
(* from four inductive ones: where the threads may be while the owner      *)
(* starts and stops them (Lifecycle), what the gate has seen (Gate), how   *)
(* the log and the worker's view relate (LogKeepsUp), and how far the      *)
(* publisher and each subscriber have read the log (Reading).              *)
(***************************************************************************)
EXTENDS AggregationEngine, FiniteSetTheorems, FunctionTheorems, SequenceTheorems,
        TLAPS

\* The owner and the threads it spawns and joins.
Lifecycle ==
    /\ running => owner = "running"
    /\ owner = "new" => publisher = "none"
    /\ publisher = "none" => worker = "none" /\ log = <<>> /\ publishQueue = <<>>
    /\ owner \in {"closingPublisher", "joiningPublisher", "stopped"} =>
          worker \in {"none", "done"}
    /\ owner \in {"joiningPublisher", "stopped"} => publishClosed
    /\ owner = "stopped" => publisher \in {"none", "done"}
    /\ publisher = "done" => publishClosed /\ publishQueue = <<>>

GateOpen == expected = {} \/ ready = expected

\* A ready exchange has an event in the view; a gate once open stays open.
Gate ==
    /\ \A x \in ready : view[x] > 0
    /\ worker = "enqueue" \/ log # <<>> => GateOpen
    /\ GateHolds

OneMore(v, w) == \E x \in Exchange : w = [v EXCEPT ![x] = @ + 1]

\* Until the log is closed, the worker is never more than one view ahead of it.
LogKeepsUp ==
    /\ \A k \in 2 .. Len(log) : OneMore(log[k - 1], log[k])
    /\ log # <<>> /\ ~publishClosed =>
          IF worker = "enqueue" THEN OneMore(Last(log), view) ELSE view = Last(log)

\* How many views of the log the publisher has taken.
Taken == Len(log) - Len(publishQueue)

\* The subscriber was given nothing yet, or last the n-th view of the log.
GivenUpTo(s, n) == delivered[s] = <<>> \/ (n > 0 /\ Last(delivered[s]) = log[n])

\* The subscriber is owed the view in the publisher's hands.
Owed(s) == s \in targets \/ (publisher = "copy" /\ subscribed[s] = "yes")

Reading ==
    /\ Taken >= 0
    /\ \A i \in 1 .. Len(publishQueue) : publishQueue[i] = log[Taken + i]
    /\ publisher \in {"copy", "call"} => Taken > 0 /\ current = log[Taken]
    /\ publisher # "call" => targets = {}
    /\ \A s \in targets : subscribed[s] # "no"
    /\ \A s \in Subscriber :
          /\ subscribed[s] = "no" => delivered[s] = <<>>
          /\ Owed(s) => GivenUpTo(s, Taken - 1)
          /\ subscribed[s] = "yes" /\ ~Owed(s) => GivenUpTo(s, Taken)

\* A subscriber called once after it left is not called again.
LateOnce ==
    \A s \in Subscriber :
        late[s] = 0 \/ (late[s] = 1 /\ subscribed[s] = "left" /\ s \notin targets)

\* No more events of an exchange are queued, in hand or applied than were pushed.
Queued(x) == {i \in 1 .. Len(events) : events[i] = x}
InHand(x) == IF worker = "apply" /\ update = x THEN 1 ELSE 0
NothingInvented ==
    \A x \in Exchange : view[x] + InHand(x) + Cardinality(Queued(x)) <= pushed[x]

(***************************************************************************)
(* Type correctness.                                                       *)
(***************************************************************************)

\* The owner's calls change the threads, the configuration and two flags.
LEMMA OwnerTypes == ASSUME TypeOK, Owner PROVE TypeOK'
<1> USE DEF TypeOK, threads, queues, books, calls, history
<1>1. ASSUME NEW exchanges \in SUBSET Exchange, SetExpectedExchanges(exchanges)
      PROVE  TypeOK'
  BY <1>1 DEF SetExpectedExchanges
<1>2. CASE Start
  <2>1. starts' \in 0 .. MaxStarts
    BY <1>2, EngineAssumption DEF Start
  <2>2. QED
    BY <1>2, <2>1 DEF Start
<1>3. CASE Stop \/ CloseQueue
  BY <1>3 DEF Stop, CloseQueue
<1>4. CASE JoinWorker
  BY <1>4 DEF JoinWorker
<1>5. CASE ClosePublishQueue
  BY <1>5 DEF ClosePublishQueue
<1>6. CASE JoinPublisher
  BY <1>6 DEF JoinPublisher
<1>7. QED
  BY <1>1, <1>2, <1>3, <1>4, <1>5, <1>6 DEF Owner

\* run() moves events into the view and views into the log.
LEMMA WorkerTypes == ASSUME TypeOK, Worker PROVE TypeOK'
<1> USE DEF TypeOK, threads, queues, books, calls, history
<1>1. CASE WorkerCheck
  BY <1>1 DEF WorkerCheck
<1>2. CASE WorkerPop
  <2>1. events # <<>> => Head(events) \in Exchange /\ Tail(events) \in Seq(Exchange)
    BY HeadTailProperties
  <2>2. QED
    BY <1>2, <2>1 DEF WorkerPop
<1>3. CASE Apply
  <2>1. view' \in View /\ ready' \subseteq expected' /\ expected' \subseteq Exchange
    BY <1>3 DEF Apply, View
  <2>2. QED
    BY <1>3, <2>1 DEF Apply
<1>4. CASE EnqueueSnapshot
  <2>1. Append(log, view) \in Seq(View) /\ Append(publishQueue, view) \in Seq(View)
    BY AppendProperties
  <2>2. QED
    BY <1>4, <2>1 DEF EnqueueSnapshot
<1>5. QED
  BY <1>1, <1>2, <1>3, <1>4 DEF Worker

\* publisherLoop() moves views from its queue to the subscribers.
LEMMA PublisherTypes == ASSUME TypeOK, Publisher PROVE TypeOK'
<1> USE DEF TypeOK, threads, queues, books, calls, history
<1>1. CASE PublisherPop
  <2>1. publishQueue # <<>> =>
            Head(publishQueue) \in View /\ Tail(publishQueue) \in Seq(View)
    BY HeadTailProperties
  <2>2. QED
    BY <1>1, <2>1 DEF PublisherPop
<1>2. CASE CopySubscribers
  BY <1>2 DEF CopySubscribers
<1>3. ASSUME NEW s \in Subscriber, Call(s)
      PROVE  TypeOK'
  <2>1. Append(delivered[s], current) \in Seq(View)
    BY AppendProperties
  <2>2. delivered' \in [Subscriber -> Seq(View)] /\ late' \in [Subscriber -> Nat]
    BY <1>3, <2>1 DEF Call
  <2>3. QED
    BY <1>3, <2>2 DEF Call
<1>4. QED
  BY <1>1, <1>2, <1>3 DEF Publisher

\* Init's types are kept by every step of the owner, the threads and the feeds.
LEMMA TypeStep == ASSUME TypeOK, [Next]_vars PROVE TypeOK'
<1> USE DEF TypeOK, threads, queues, books, calls, history
<1>1. ASSUME NEW x \in Exchange, Push(x)
      PROVE  TypeOK'
  <2>1. Append(events, x) \in Seq(Exchange)
    BY AppendProperties
  <2>2. pushed' \in [Exchange -> 0 .. MaxEvents] /\ events' \in Seq(Exchange)
    BY <1>1, <2>1, EngineAssumption DEF Push
  <2>3. QED
    BY <1>1, <2>2 DEF Push
<1>2. ASSUME NEW s \in Subscriber, Subscribe(s) \/ Unsubscribe(s)
      PROVE  TypeOK'
  <2>1. subscribed' \in [Subscriber -> {"no", "yes", "left"}]
    BY <1>2 DEF Subscribe, Unsubscribe
  <2>2. UNCHANGED <<threads, queues, update, books, current, targets, history>>
    BY <1>2 DEF Subscribe, Unsubscribe
  <2>3. QED
    BY <2>1, <2>2
<1>3. CASE UNCHANGED vars
  BY <1>3 DEF vars
<1>4. QED
  BY <1>1, <1>2, <1>3, OwnerTypes, WorkerTypes, PublisherTypes DEF Next

\* Every variable of the engine keeps its type.
THEOREM TypeCorrect == Spec => []TypeOK
<1>1. Init => TypeOK
  <2> SUFFICES ASSUME Init PROVE TypeOK
    OBVIOUS
  <2>1. NoView \in View /\ 0 \in 0 .. MaxStarts /\ 0 \in 0 .. MaxEvents
    BY EngineAssumption DEF View, NoView
  <2>2. /\ events \in Seq(Exchange) /\ publishQueue \in Seq(View) /\ log \in Seq(View)
        /\ delivered \in [Subscriber -> Seq(View)]
    BY EmptySeq DEF Init
  <2>3. QED
    BY <2>1, <2>2 DEF Init, TypeOK
<1>2. QED
  BY <1>1, TypeStep, PTL DEF Spec

(***************************************************************************)
(* The life cycle of the two threads.                                      *)
(***************************************************************************)

\* The owner moves on only past a thread that ended, and closes before it joins.
LEMMA LifecycleStep == ASSUME TypeOK, Lifecycle, [Next]_vars PROVE Lifecycle'
<1> USE DEF Lifecycle, threads, queues, books, calls, history
<1>1. CASE Owner
  BY <1>1 DEF Owner, SetExpectedExchanges, Start, Stop, CloseQueue, JoinWorker,
              ClosePublishQueue, JoinPublisher
<1>2. CASE Worker
  BY <1>2 DEF Worker, WorkerCheck, WorkerPop, Apply, EnqueueSnapshot
<1>3. CASE Publisher
  BY <1>3 DEF Publisher, PublisherPop, CopySubscribers, Call
<1>4. ASSUME NEW x \in Exchange, Push(x)
      PROVE  Lifecycle'
  BY <1>4 DEF Push
<1>5. ASSUME NEW s \in Subscriber, Subscribe(s) \/ Unsubscribe(s)
      PROVE  Lifecycle'
  BY <1>5 DEF Subscribe, Unsubscribe
<1>6. CASE UNCHANGED vars
  BY <1>6 DEF vars
<1>7. QED
  BY <1>1, <1>2, <1>3, <1>4, <1>5, <1>6 DEF Next

\* The threads of an engine are where the owner's phase says.
LEMMA LifecycleHolds == Spec => [](TypeOK /\ Lifecycle)
<1>1. Init => Lifecycle
  BY DEF Init, Lifecycle
<1>2. QED
  BY <1>1, LifecycleStep, TypeCorrect, PTL DEF Spec

(***************************************************************************)
(* The gate.                                                               *)
(***************************************************************************)

\* Applying an event never empties the view of an exchange.
LEMMA ApplyGrows ==
    ASSUME TypeOK, Apply
    PROVE  /\ view' = [view EXCEPT ![update] = view[update] + 1]
           /\ view'[update] > 0 /\ \A x \in Exchange : view'[x] >= view[x]
           /\ OneMore(view, view')
<1>1. view' = [view EXCEPT ![update] = view[update] + 1] /\ update \in Exchange
  BY DEF TypeOK, Apply
<1>2. \A x \in Exchange : view[x] \in Nat /\ view'[x] = IF x = update THEN view[x] + 1 ELSE view[x]
  BY <1>1 DEF TypeOK, View
<1>3. view'[update] > 0 /\ \A x \in Exchange : view'[x] >= view[x]
  BY <1>1, <1>2
<1>4. OneMore(view, view')
  BY <1>1, Zenon DEF OneMore
<1>5. QED
  BY <1>1, <1>3, <1>4

\* Every step keeps what consolidation knows of the expected exchanges.
LEMMA GateStep == ASSUME TypeOK, Lifecycle, Gate, [Next]_vars PROVE Gate'
<1> USE DEF threads, queues, books, calls, history
<1>1. ASSUME NEW exchanges \in SUBSET Exchange, SetExpectedExchanges(exchanges)
      PROVE  Gate'
  <2>1. log' = <<>> /\ worker' = "none" /\ ready' = {}
    BY <1>1 DEF SetExpectedExchanges, Lifecycle
  <2>2. Len(log') = 0
    BY <2>1, EmptySeq
  <2>3. QED
    BY <2>1, <2>2 DEF Gate, GateHolds
<1>2. CASE Apply
  <2>1. UNCHANGED <<expected, log>> /\ ready' \subseteq Exchange
    BY <1>2 DEF Apply, TypeOK
  <2>2. \A x \in ready' : view'[x] > 0
    <3>1. \A x \in Exchange : view[x] \in Nat /\ view'[x] \in Nat
      BY <1>2, TypeStep DEF Next, Worker, TypeOK, View
    <3>2. \A x \in ready' : x \in ready \/ x = update
      BY <1>2 DEF Apply
    <3>3. QED
      BY <1>2, <2>1, <3>1, <3>2, ApplyGrows DEF Gate
  <2>3. worker' = "enqueue" => GateOpen'
    BY <1>2, <2>1 DEF Apply, Ready, GateOpen
  <2>4. GateOpen => GateOpen'
    BY <1>2, <2>1 DEF Apply, GateOpen
  <2>5. GateHolds'
    BY <2>1 DEF Gate, GateHolds
  <2>6. QED
    BY <2>1, <2>2, <2>3, <2>4, <2>5 DEF Gate
<1>3. CASE EnqueueSnapshot
  <2>1. UNCHANGED <<view, expected, ready>> /\ GateOpen
    BY <1>3 DEF EnqueueSnapshot, Gate
  <2>2. GateHolds'
    <3>1. CASE publishClosed
      BY <1>3, <3>1 DEF EnqueueSnapshot, Gate, GateHolds
    <3>2. CASE ~publishClosed
      <4>1. log \in Seq(View) /\ view \in View /\ log' = Append(log, view)
        BY <1>3, <3>2 DEF EnqueueSnapshot, TypeOK
      <4>2. /\ Len(log') = Len(log) + 1 /\ Len(log) \in Nat
            /\ log'[Len(log) + 1] = view
            /\ \A k \in 1 .. Len(log) : log'[k] = log[k]
        BY <4>1, AppendProperties, LenProperties
      <4>3. \A x \in expected : view[x] > 0
        BY <2>1 DEF Gate, GateOpen
      <4>4. QED
        BY <2>1, <4>2, <4>3 DEF Gate, GateHolds
    <3>3. QED
      BY <3>1, <3>2
  <2>3. QED
    BY <2>1, <2>2 DEF Gate, GateOpen
<1>4. CASE /\ UNCHANGED <<view, expected, ready, log>>
           /\ worker' = "enqueue" => worker = "enqueue"
  BY <1>4 DEF Gate, GateOpen, GateHolds
<1>5. QED
  <2>1. CASE Owner
    BY <1>1, <1>4, <2>1 DEF Owner, Start, Stop, CloseQueue, JoinWorker,
                            ClosePublishQueue, JoinPublisher
  <2>2. CASE Worker
    BY <1>2, <1>3, <1>4, <2>2 DEF Worker, WorkerCheck, WorkerPop
  <2>3. CASE Publisher
    BY <1>4, <2>3 DEF Publisher, PublisherPop, CopySubscribers, Call
  <2>4. CASE \/ \E x \in Exchange : Push(x)
             \/ \E s \in Subscriber : Subscribe(s) \/ Unsubscribe(s)
             \/ UNCHANGED vars
    BY <1>4, <2>4 DEF Push, Subscribe, Unsubscribe, vars
  <2>5. QED
    BY <2>1, <2>2, <2>3, <2>4 DEF Next

\* The gate's invariant holds in every behaviour.
LEMMA GateInvariant == Spec => []Gate
<1>1. Init => Gate
  BY EmptySeq DEF Init, Gate, GateHolds
<1>2. QED
  BY <1>1, GateStep, LifecycleHolds, PTL DEF Spec

(***************************************************************************)
(* No view is published before every expected exchange has an event in it: *)
(* the gate in run() opens on the ready set and is never shut again.       *)
(***************************************************************************)
THEOREM GateIsHeld == Spec => []GateHolds
<1>1. Gate => GateHolds
  BY DEF Gate
<1>2. QED
  BY <1>1, GateInvariant, PTL

(***************************************************************************)
(* The log and the worker's view.                                          *)
(***************************************************************************)

\* What a view appended to the log changes: the last view, and nothing else.
LEMMA AppendToLog ==
    ASSUME TypeOK, EnqueueSnapshot, ~publishClosed
    PROVE  /\ log' = Append(log, view) /\ log' # <<>>
           /\ Len(log) \in Nat /\ Len(log') = Len(log) + 1
           /\ \A k \in 1 .. Len(log) : log'[k] = log[k]
           /\ log'[Len(log')] = view
           /\ log # <<>> => Len(log) > 0
           /\ UNCHANGED <<view, publishClosed>> /\ worker = "enqueue" /\ worker' = "check"
<1>1. /\ log \in Seq(View) /\ view \in View /\ log' = Append(log, view)
      /\ UNCHANGED <<view, publishClosed>> /\ worker = "enqueue" /\ worker' = "check"
  BY DEF TypeOK, EnqueueSnapshot, books
<1>2. /\ log' # <<>> /\ Len(log') = Len(log) + 1
      /\ \A k \in 1 .. Len(log) : log'[k] = log[k]
      /\ log'[Len(log) + 1] = view
  BY <1>1, AppendProperties
<1>3. Len(log) \in Nat /\ (log # <<>> => Len(log) > 0)
  BY <1>1, EmptySeq, LenProperties
<1>4. QED
  BY <1>1, <1>2, <1>3

\* Every step keeps the publisher's queue and the view under way at the log's end.
LEMMA LogStep ==
    ASSUME TypeOK, Lifecycle, Gate, LogKeepsUp, [Next]_vars
    PROVE  LogKeepsUp'
<1> USE DEF threads, queues, books, calls, history
<1>1. CASE Apply
  <2>1. UNCHANGED <<log, publishClosed>> /\ worker = "apply"
    BY <1>1 DEF Apply
  <2>2. log # <<>> => worker' = "enqueue"
    BY <1>1 DEF Apply, Ready, Gate, GateOpen
  <2>3. OneMore(view, view')
    BY <1>1, ApplyGrows
  <2>4. log # <<>> /\ ~publishClosed => OneMore(Last(log), view')
    BY <2>1, <2>3 DEF LogKeepsUp
  <2>5. QED
    BY <2>1, <2>2, <2>4 DEF LogKeepsUp, Last
<1>2. CASE EnqueueSnapshot /\ ~publishClosed
  <2>1. ASSUME NEW k \in 2 .. Len(log')
        PROVE  OneMore(log'[k - 1], log'[k])
    <3>1. CASE k \in 2 .. Len(log)
      <4>1. OneMore(log[k - 1], log[k]) /\ Len(log) \in Nat
        BY <1>2, <3>1, AppendToLog DEF LogKeepsUp
      <4>2. log'[k] = log[k] /\ log'[k - 1] = log[k - 1]
        BY <1>2, <3>1, AppendToLog
      <4>3. QED
        BY <4>1, <4>2
    <3>2. CASE k = Len(log) + 1
      <4>1. Len(log) >= 1 /\ Len(log) \in Nat /\ log # <<>>
        BY <1>2, <3>2, EmptySeq, AppendToLog
      <4>2. log'[k] = view /\ log'[k - 1] = log[Len(log)]
        BY <1>2, <3>2, <4>1, AppendToLog
      <4>3. OneMore(Last(log), view)
        BY <1>2, <4>1, AppendToLog DEF LogKeepsUp
      <4>4. QED
        BY <4>2, <4>3 DEF Last
    <3>3. QED
      BY <1>2, <3>1, <3>2, AppendToLog
  <2>2. view' = Last(log') /\ worker' # "enqueue"
    BY <1>2, AppendToLog DEF Last
  <2>3. QED
    BY <2>1, <2>2 DEF LogKeepsUp
<1>3. CASE EnqueueSnapshot /\ publishClosed
  BY <1>3 DEF EnqueueSnapshot, LogKeepsUp
<1>4. CASE ClosePublishQueue
  BY <1>4 DEF ClosePublishQueue, LogKeepsUp
<1>5. CASE /\ UNCHANGED <<log, view, publishClosed>>
           /\ worker' = "enqueue" <=> worker = "enqueue"
  BY <1>5 DEF LogKeepsUp, Last
<1>6. QED
  <2>1. CASE Owner
    BY <1>4, <1>5, <2>1 DEF Owner, SetExpectedExchanges, Start, Stop, CloseQueue,
                            JoinWorker, JoinPublisher, Lifecycle
  <2>2. CASE Worker
    BY <1>1, <1>2, <1>3, <1>5, <2>2 DEF Worker, WorkerCheck, WorkerPop
  <2>3. CASE Publisher
    BY <1>5, <2>3 DEF Publisher, PublisherPop, CopySubscribers, Call
  <2>4. CASE \/ \E x \in Exchange : Push(x)
             \/ \E s \in Subscriber : Subscribe(s) \/ Unsubscribe(s)
             \/ UNCHANGED vars
    BY <1>5, <2>4 DEF Push, Subscribe, Unsubscribe, vars
  <2>5. QED
    BY <2>1, <2>2, <2>3, <2>4 DEF Next

\* What is to be published continues the log in every behaviour.
LEMMA LogInvariant == Spec => []LogKeepsUp
<1>1. Init => LogKeepsUp
  BY EmptySeq DEF Init, LogKeepsUp
<1>2. QED
  BY <1>1, LogStep, LifecycleHolds, GateInvariant, PTL DEF Spec

(***************************************************************************)
(* Once it publishes, the engine publishes a view of its own for every     *)
(* event the worker applies: two views that follow each other in the log   *)
(* differ by one event, and the last one is the worker's.                  *)
(***************************************************************************)
THEOREM UpdatesArePublished == Spec => []EveryUpdatePublished
<1>1. LogKeepsUp => EveryUpdatePublished
  BY DEF LogKeepsUp, EveryUpdatePublished, OneMore
<1>2. QED
  BY <1>1, LogInvariant, PTL

(***************************************************************************)
(* Calls after unsubscribe().                                              *)
(***************************************************************************)

\* Only a call in progress can be late: a copy takes no subscriber that left.
LEMMA LateStep == ASSUME TypeOK, LateOnce, [Next]_vars PROVE LateOnce'
<1> USE DEF LateOnce, TypeOK
<1>1. ASSUME NEW s \in Subscriber, Subscribe(s) \/ Unsubscribe(s)
      PROVE  LateOnce'
  <2>1. UNCHANGED <<late, targets>> /\ late[s] = 0
    BY <1>1 DEF Subscribe, Unsubscribe, history
  <2>2. \A t \in Subscriber : t # s => subscribed'[t] = subscribed[t]
    BY <1>1 DEF Subscribe, Unsubscribe
  <2>3. QED
    BY <2>1, <2>2
<1>2. CASE CopySubscribers
  BY <1>2 DEF CopySubscribers, history
<1>3. ASSUME NEW s \in Subscriber, Call(s)
      PROVE  LateOnce'
  <2>1. /\ s \in targets /\ s \notin targets' /\ targets' \subseteq targets
        /\ UNCHANGED subscribed
        /\ late' = [late EXCEPT ![s] = IF subscribed[s] = "left" THEN @ + 1 ELSE @]
    BY <1>3 DEF Call
  <2>2. late[s] = 0
    BY <2>1
  <2>3. QED
    BY <2>1, <2>2
<1>4. CASE UNCHANGED <<late, targets, subscribed>>
  BY <1>4
<1>5. QED
  <2> USE DEF threads, queues, books, calls, history
  <2>1. CASE Owner
    BY <1>4, <2>1 DEF Owner, SetExpectedExchanges, Start, Stop, CloseQueue,
                      JoinWorker, ClosePublishQueue, JoinPublisher
  <2>2. CASE Worker
    BY <1>4, <2>2 DEF Worker, WorkerCheck, WorkerPop, Apply, EnqueueSnapshot
  <2>3. CASE Publisher
    BY <1>2, <1>3, <1>4, <2>3 DEF Publisher, PublisherPop
  <2>4. CASE (\E x \in Exchange : Push(x)) \/ UNCHANGED vars
    BY <1>4, <2>4 DEF Push, vars
  <2>5. QED
    BY <1>1, <2>1, <2>2, <2>3, <2>4 DEF Next

(***************************************************************************)
(* publish() calls copies of the callbacks without mutex_; a subscriber is *)
(* still called back at most once after its unsubscribe() returned.        *)
(***************************************************************************)
THEOREM LateCallsAreBounded == Spec => []AtMostOneLateCall
<1>1. Init => LateOnce
  BY DEF Init, LateOnce
<1>2. LateOnce => AtMostOneLateCall
  BY DEF LateOnce, AtMostOneLateCall
<1>3. QED
  BY <1>1, <1>2, LateStep, TypeCorrect, PTL DEF Spec

(***************************************************************************)
(* How far the log has been read.                                          *)
(***************************************************************************)

\* The two lengths behind Taken are numbers.
LEMMA TakenIsNumber ==
    ASSUME TypeOK
    PROVE  /\ Len(log) \in Nat /\ Len(publishQueue) \in Nat /\ Taken \in Int
           /\ publishQueue # <<>> => Len(publishQueue) > 0
BY EmptySeq, LenProperties DEF TypeOK, Taken

\* A view that enters the log and the queue leaves what was taken as it was.
LEMMA EnqueueReading ==
    ASSUME TypeOK, Reading, EnqueueSnapshot
    PROVE  Reading'
<1> USE DEF books, calls, history
<1>1. CASE publishClosed
  <2>1. UNCHANGED <<publishQueue, log, publisher, calls, delivered>>
    BY <1>1 DEF EnqueueSnapshot
  <2>2. QED
    BY <2>1 DEF Reading, Taken, Owed, GivenUpTo, Last
<1>2. CASE ~publishClosed
  <2>1. /\ publishQueue' = Append(publishQueue, view)
        /\ UNCHANGED <<publisher, subscribed, current, targets, delivered>>
    BY <1>2 DEF EnqueueSnapshot
  <2>2. /\ Len(publishQueue') = Len(publishQueue) + 1
        /\ \A i \in 1 .. Len(publishQueue) : publishQueue'[i] = publishQueue[i]
        /\ publishQueue'[Len(publishQueue) + 1] = view
    BY <2>1, AppendProperties DEF TypeOK
  <2>3. /\ Len(log') = Len(log) + 1 /\ log'[Len(log) + 1] = view
        /\ \A k \in 1 .. Len(log) : log'[k] = log[k]
    BY <1>2, AppendToLog
  <2>4. Taken' = Taken /\ Taken \in Nat /\ Taken <= Len(log)
    BY <2>2, <2>3, TakenIsNumber DEF Taken, Reading
  <2>5. \A i \in 1 .. Len(publishQueue') : publishQueue'[i] = log'[Taken' + i]
    <3>1. ASSUME NEW i \in 1 .. Len(publishQueue)
          PROVE  publishQueue'[i] = log'[Taken' + i]
      <4>1. Len(log) \in Nat /\ Len(publishQueue) \in Nat
        BY TakenIsNumber
      <4>2. Taken + i \in 1 .. Len(log)
        BY <2>4, <4>1 DEF Taken
      <4>3. QED
        BY <2>2, <2>3, <2>4, <4>2 DEF Reading
    <3>2. ASSUME NEW i \in Int, i = Len(publishQueue) + 1
          PROVE  publishQueue'[i] = log'[Taken' + i]
      <4>1. Taken' + i = Len(log) + 1
        BY <2>4, <3>2, TakenIsNumber DEF Taken
      <4>2. QED
        BY <2>2, <2>3, <3>2, <4>1
    <3>3. \A i \in 1 .. Len(publishQueue') :
              i \in 1 .. Len(publishQueue) \/ i = Len(publishQueue) + 1
      BY <2>2, TakenIsNumber
    <3>4. QED
      BY <3>1, <3>2, <3>3
  <2>6. \A n \in 1 .. Len(log) : log'[n] = log[n]
    BY <2>3
  <2>7. /\ \A s \in Subscriber : GivenUpTo(s, Taken) => GivenUpTo(s, Taken)'
        /\ \A s \in Subscriber : GivenUpTo(s, Taken - 1) => GivenUpTo(s, Taken - 1)'
    BY <2>1, <2>4, <2>6, TakenIsNumber DEF GivenUpTo, Last
  <2>8. publisher' \in {"copy", "call"} => Taken' > 0 /\ current' = log'[Taken']
    BY <2>1, <2>4, <2>6, TakenIsNumber DEF Reading
  <2>9. \A s \in Subscriber : Owed(s)' = Owed(s)
    BY <2>1 DEF Owed
  <2>10. QED
    BY <2>1, <2>4, <2>5, <2>7, <2>8, <2>9 DEF Reading
<1>3. QED
  BY <1>1, <1>2

\* The publisher takes the next view of the log: everybody is one view behind.
LEMMA PopReading ==
    ASSUME TypeOK, Reading, PublisherPop
    PROVE  Reading'
<1>1. /\ publisher = "pop" /\ targets = {}
      /\ UNCHANGED <<log, subscribed, targets, delivered>>
  BY DEF PublisherPop, Reading, history
<1>2. CASE publishQueue = <<>>
  <2>1. UNCHANGED <<publishQueue, current>> /\ publisher' = "done"
    BY <1>2 DEF PublisherPop
  <2>2. QED
    BY <1>1, <2>1 DEF Reading, Taken, Owed, GivenUpTo, Last
<1>3. CASE publishQueue # <<>>
  <2>1. /\ current' = Head(publishQueue) /\ publishQueue' = Tail(publishQueue)
        /\ publisher' = "copy"
    BY <1>3 DEF PublisherPop
  <2>2. /\ Len(publishQueue') = Len(publishQueue) - 1
        /\ \A i \in 1 .. Len(publishQueue') : publishQueue'[i] = publishQueue[i + 1]
        /\ current' = publishQueue[1]
    BY <1>3, <2>1, HeadTailProperties DEF TypeOK
  <2>3. Taken' = Taken + 1 /\ Taken \in Nat /\ Len(publishQueue) > 0
    BY <1>1, <1>3, <2>2, TakenIsNumber DEF Taken, Reading
  <2>4. \A i \in 1 .. Len(publishQueue') : publishQueue'[i] = log'[Taken' + i]
    <3>1. ASSUME NEW i \in 1 .. Len(publishQueue')
          PROVE  publishQueue'[i] = log'[Taken' + i]
      <4>1. i + 1 \in 1 .. Len(publishQueue) /\ Taken + (i + 1) = Taken' + i
        BY <2>2, <2>3, TakenIsNumber
      <4>2. publishQueue[i + 1] = log[Taken + (i + 1)]
        BY <4>1 DEF Reading
      <4>3. QED
        BY <1>1, <2>2, <4>1, <4>2
    <3>2. QED
      BY <3>1
  <2>5. current' = log'[Taken'] /\ Taken' > 0
    <3>1. publishQueue[1] = log[Taken + 1]
      BY <2>3, TakenIsNumber DEF Reading
    <3>2. QED
      BY <1>1, <2>2, <2>3, <3>1
  <2>6. \A s \in Subscriber : ~Owed(s) /\ (Owed(s)' <=> subscribed[s] = "yes")
    BY <1>1, <2>1 DEF Owed
  <2>7. Taken' - 1 = Taken
    BY <2>3
  <2>8. \A s \in Subscriber : GivenUpTo(s, Taken) <=> GivenUpTo(s, Taken - 1)'
    BY <1>1, <2>7 DEF GivenUpTo, Last
  <2>9. \A s \in Subscriber : subscribed'[s] = "yes" => GivenUpTo(s, Taken - 1)'
    BY <1>1, <2>6, <2>8 DEF Reading
  <2>10. \A s \in Subscriber : subscribed'[s] = "no" => delivered'[s] = <<>>
    BY <1>1 DEF Reading
  <2>11. Taken' >= 0 /\ targets' = {}
    BY <1>1, <2>3
  <2>12. QED
    BY <1>1, <2>4, <2>5, <2>6, <2>9, <2>10, <2>11 DEF Reading
<1>4. QED
  BY <1>2, <1>3

\* The callbacks copied are those of the subscribers owed the view.
LEMMA CopyReading ==
    ASSUME TypeOK, Reading, CopySubscribers
    PROVE  Reading'
<1>1. /\ publisher = "copy" /\ targets = {}
      /\ targets' = {s \in Subscriber : subscribed[s] = "yes"}
      /\ publisher' = IF targets' = {} THEN "pop" ELSE "call"
      /\ UNCHANGED <<log, publishQueue, subscribed, current, delivered>>
  BY DEF CopySubscribers, Reading, queues, history
<1>2. \A s \in Subscriber : /\ Owed(s)' <=> Owed(s)
                            /\ Owed(s) <=> subscribed[s] = "yes"
  BY <1>1 DEF Owed
<1>3. Taken' = Taken
  BY <1>1 DEF Taken
<1>4. \A s \in Subscriber : /\ GivenUpTo(s, Taken)' <=> GivenUpTo(s, Taken)
                            /\ GivenUpTo(s, Taken - 1)' <=> GivenUpTo(s, Taken - 1)
  BY <1>1, <1>3 DEF GivenUpTo, Last
<1>5. QED
  BY <1>1, <1>2, <1>3, <1>4 DEF Reading

\* A callback hands over the owed view to one subscriber.
LEMMA CallReading ==
    ASSUME TypeOK, Reading, NEW s \in Subscriber, Call(s)
    PROVE  Reading'
<1>1. /\ publisher = "call" /\ s \in targets /\ targets' = targets \ {s}
      /\ publisher' = IF targets' = {} THEN "pop" ELSE "call"
      /\ delivered' = [delivered EXCEPT ![s] = Append(delivered[s], current)]
      /\ UNCHANGED <<log, publishQueue, subscribed, current>>
  BY DEF Call, queues
<1>2. Taken' = Taken /\ Taken > 0 /\ current = log[Taken]
  BY <1>1 DEF Taken, Reading
<1>3. delivered[s] \in Seq(View) /\ current \in View
  BY DEF TypeOK
<1>4. delivered'[s] = Append(delivered[s], current)
  BY <1>1 DEF TypeOK
<1>5. Last(delivered'[s]) = current
  BY <1>3, <1>4, AppendProperties, LenProperties DEF Last
<1>6. GivenUpTo(s, Taken)' /\ ~Owed(s)' /\ subscribed[s] # "no"
  BY <1>1, <1>2, <1>5 DEF GivenUpTo, Owed, Last, Reading
<1>7. ASSUME NEW t \in Subscriber, t # s
      PROVE  /\ Owed(t)' <=> Owed(t)
             /\ delivered'[t] = delivered[t]
             /\ GivenUpTo(t, Taken)' <=> GivenUpTo(t, Taken)
             /\ GivenUpTo(t, Taken - 1)' <=> GivenUpTo(t, Taken - 1)
  <2>1. delivered'[t] = delivered[t] /\ (Owed(t)' <=> Owed(t))
    BY <1>1, <1>7 DEF Owed, TypeOK
  <2>2. QED
    BY <1>1, <1>2, <2>1 DEF GivenUpTo, Last
<1>8. \A t \in targets' : subscribed'[t] # "no"
  BY <1>1 DEF Reading
<1>9. publisher' # "call" => targets' = {}
  BY <1>1
<1>10. QED
  BY <1>1, <1>2, <1>6, <1>7, <1>8, <1>9 DEF Reading

\* Somebody who comes was given nothing; somebody who goes is owed nothing new.
LEMMA SubscriptionReading ==
    ASSUME TypeOK, Reading, NEW s \in Subscriber, Subscribe(s) \/ Unsubscribe(s)
    PROVE  Reading'
<1>1. UNCHANGED <<log, publishQueue, publisher, current, targets, delivered>>
  BY DEF Subscribe, Unsubscribe, threads, queues, history
<1>2. /\ subscribed'[s] # "no"
      /\ subscribed'[s] = "yes" => subscribed[s] = "no"
      /\ \A t \in Subscriber : t # s => subscribed'[t] = subscribed[t]
  BY DEF Subscribe, Unsubscribe, TypeOK
<1>3. Taken' = Taken
  BY <1>1 DEF Taken
<1>4. \A t \in Subscriber : /\ GivenUpTo(t, Taken)' <=> GivenUpTo(t, Taken)
                            /\ GivenUpTo(t, Taken - 1)' <=> GivenUpTo(t, Taken - 1)
  BY <1>1, <1>3 DEF GivenUpTo, Last
<1>5. \A t \in Subscriber : t # s => (Owed(t)' <=> Owed(t))
  BY <1>1, <1>2 DEF Owed
<1>6. /\ (Owed(s)' => GivenUpTo(s, Taken - 1))
      /\ subscribed'[s] = "yes" => GivenUpTo(s, Taken)
  <2>1. CASE subscribed[s] = "no"
    BY <2>1 DEF Reading, GivenUpTo
  <2>2. CASE subscribed[s] # "no"
    <3>1. subscribed'[s] # "yes" /\ targets' = targets
      BY <1>1, <1>2, <2>2
    <3>2. Owed(s)' => Owed(s)
      BY <3>1 DEF Owed
    <3>3. QED
      BY <3>1, <3>2 DEF Reading
  <2>3. QED
    BY <2>1, <2>2
<1>7. /\ subscribed'[s] # "no"
      /\ (Owed(s)' => GivenUpTo(s, Taken - 1)')
      /\ (subscribed'[s] = "yes" => GivenUpTo(s, Taken)')
  BY <1>2, <1>4, <1>6
<1>8. \A t \in Subscriber : t # s =>
          /\ subscribed'[t] = "no" => delivered'[t] = <<>>
          /\ Owed(t)' => GivenUpTo(t, Taken - 1)'
          /\ subscribed'[t] = "yes" /\ ~Owed(t)' => GivenUpTo(t, Taken)'
  BY <1>1, <1>2, <1>4, <1>5 DEF Reading
<1>9. \A t \in Subscriber :
          /\ subscribed'[t] = "no" => delivered'[t] = <<>>
          /\ Owed(t)' => GivenUpTo(t, Taken - 1)'
          /\ subscribed'[t] = "yes" /\ ~Owed(t)' => GivenUpTo(t, Taken)'
  BY <1>7, <1>8, Zenon
<1>10. \A t \in targets' : subscribed'[t] # "no"
  BY <1>1, <1>2 DEF Reading, TypeOK
<1>11. /\ Taken' >= 0 /\ (publisher' # "call" => targets' = {})
       /\ \A i \in 1 .. Len(publishQueue') : publishQueue'[i] = log'[Taken' + i]
       /\ publisher' \in {"copy", "call"} => Taken' > 0 /\ current' = log'[Taken']
  BY <1>1, <1>3 DEF Reading
<1>12. QED
  BY <1>9, <1>10, <1>11, Zenon DEF Reading

\* Every step keeps what a subscriber saw a contiguous piece of the log.
LEMMA ReadingStep ==
    ASSUME TypeOK, Lifecycle, Reading, [Next]_vars
    PROVE  Reading'
<1> USE DEF threads, queues, books, calls, history
<1>1. CASE Start
  <2>1. /\ publisher \in {"none", "done"} /\ publisher' = "pop"
        /\ UNCHANGED <<log, publishQueue, subscribed, current, targets, delivered>>
    BY <1>1 DEF Start, Lifecycle
  <2>2. QED
    BY <2>1 DEF Reading, Taken, Owed, GivenUpTo, Last
<1>2. CASE UNCHANGED <<log, publishQueue, publisher, subscribed, current, targets, delivered>>
  BY <1>2 DEF Reading, Taken, Owed, GivenUpTo, Last
<1>3. QED
  <2>1. CASE Owner
    BY <1>1, <1>2, <2>1 DEF Owner, SetExpectedExchanges, Stop, CloseQueue,
                            JoinWorker, ClosePublishQueue, JoinPublisher
  <2>2. CASE Worker
    BY <1>2, <2>2, EnqueueReading DEF Worker, WorkerCheck, WorkerPop, Apply
  <2>3. CASE Publisher
    BY <2>3, PopReading, CopyReading, CallReading DEF Publisher
  <2>4. CASE \E s \in Subscriber : Subscribe(s) \/ Unsubscribe(s)
    BY <2>4, SubscriptionReading
  <2>5. CASE (\E x \in Exchange : Push(x)) \/ UNCHANGED vars
    BY <1>2, <2>5 DEF Push, vars
  <2>6. QED
    BY <2>1, <2>2, <2>3, <2>4, <2>5 DEF Next

\* Subscribers read contiguous pieces of the log in every behaviour.
LEMMA ReadingInvariant == Spec => []Reading
<1>1. Init => Reading
  <2> SUFFICES ASSUME Init PROVE Reading
    OBVIOUS
  <2>1. Len(publishQueue) = 0 /\ Len(log) = 0
    BY EmptySeq DEF Init
  <2>2. QED
    BY <2>1 DEF Init, Reading, Taken, Owed, GivenUpTo
<1>2. QED
  BY <1>1, ReadingStep, LifecycleHolds, PTL DEF Spec

(***************************************************************************)
(* When stop() has returned both threads are gone and the publish queue is *)
(* drained: who was being served and stayed has the last published view.   *)
(***************************************************************************)
THEOREM StopDrainsEverything == Spec => []StopDrains
<1>1. ASSUME TypeOK, Lifecycle, Reading
      PROVE  StopDrains
  <2> SUFFICES ASSUME owner = "stopped"
               PROVE  /\ worker \in {"none", "done"} /\ publisher \in {"none", "done"}
                      /\ publishQueue = <<>>
                      /\ \A s \in Subscriber :
                            subscribed[s] = "yes" /\ delivered[s] # <<>> =>
                                Last(delivered[s]) = Last(log)
    BY DEF StopDrains
  <2>1. /\ worker \in {"none", "done"} /\ publisher \in {"none", "done"}
        /\ publishQueue = <<>>
    BY <1>1 DEF Lifecycle
  <2>2. Taken = Len(log)
    <3>1. Len(publishQueue) = 0 /\ Len(log) \in Nat
      BY <1>1, <2>1, EmptySeq, TakenIsNumber
    <3>2. QED
      BY <3>1 DEF Taken
  <2>3. \A s \in Subscriber : ~Owed(s)
    BY <1>1, <2>1 DEF Owed, Reading
  <2>4. QED
    BY <1>1, <2>1, <2>2, <2>3 DEF Reading, GivenUpTo, Last
<1>2. QED
  BY <1>1, LifecycleHolds, ReadingInvariant, PTL

(***************************************************************************)
(* Counting the events on their way to the view.                           *)
(***************************************************************************)

\* The events of one exchange in the queue can be counted.
LEMMA QueuedIsFinite ==
    ASSUME TypeOK, NEW x \in Exchange
    PROVE  IsFiniteSet(Queued(x)) /\ Cardinality(Queued(x)) \in Nat
<1>1. Queued(x) \in SUBSET (1 .. Len(events)) /\ Len(events) \in Nat
  BY LenProperties DEF Queued, TypeOK
<1>2. IsFiniteSet(1 .. Len(events))
  BY <1>1, FS_Interval
<1>3. IsFiniteSet(Queued(x))
  BY <1>1, <1>2, FS_Subset
<1>4. QED
  BY <1>3, FS_CardinalityType

\* A pushed event is queued once, for its own exchange.
LEMMA PushCounts ==
    ASSUME TypeOK, NEW y \in Exchange, events' = Append(events, y), NEW x \in Exchange
    PROVE  /\ Cardinality(Queued(x))' \in Nat
           /\ Cardinality(Queued(x))' <= Cardinality(Queued(x)) + (IF x = y THEN 1 ELSE 0)
<1>1. /\ Len(events) \in Nat /\ Len(events') = Len(events) + 1
      /\ \A i \in 1 .. Len(events) : events'[i] = events[i]
      /\ events'[Len(events) + 1] = y
  BY AppendProperties, LenProperties DEF TypeOK
<1>2. CASE x = y
  <2>1. Queued(x)' = Queued(x) \cup {Len(events) + 1}
    BY <1>1, <1>2 DEF Queued
  <2>2. Cardinality(Queued(x) \cup {Len(events) + 1}) =
            IF Len(events) + 1 \in Queued(x) THEN Cardinality(Queued(x))
                                             ELSE Cardinality(Queued(x)) + 1
    BY QueuedIsFinite, FS_AddElement
  <2>3. QED
    BY <1>2, <2>1, <2>2, QueuedIsFinite
<1>3. CASE x # y
  <2>1. Queued(x)' = Queued(x)
    BY <1>1, <1>3 DEF Queued
  <2>2. QED
    BY <1>3, <2>1, QueuedIsFinite
<1>4. QED
  BY <1>2, <1>3

\* A popped event leaves the queue, and every other one moves up by one place.
LEMMA PopCounts ==
    ASSUME TypeOK, events # <<>>, events' = Tail(events), NEW x \in Exchange
    PROVE  /\ Cardinality(Queued(x))' \in Nat
           /\ Cardinality(Queued(x))' <=
                  Cardinality(Queued(x)) - (IF x = Head(events) THEN 1 ELSE 0)
<1> DEFINE rest == Queued(x) \ {1}
           place == [i \in Queued(x)' |-> i + 1]
<1>1. /\ Len(events) \in Nat \ {0} /\ Len(events') = Len(events) - 1
      /\ \A i \in 1 .. Len(events') : events'[i] = events[i + 1]
      /\ Head(events) = events[1]
  BY HeadTailProperties, EmptySeq DEF TypeOK
<1>2. IsFiniteSet(rest) /\ Cardinality(rest) =
          IF x = Head(events) THEN Cardinality(Queued(x)) - 1 ELSE Cardinality(Queued(x))
  <2>1. 1 \in Queued(x) <=> x = Head(events)
    BY <1>1 DEF Queued
  <2>2. QED
    BY <2>1, QueuedIsFinite, FS_RemoveElement
<1>3. \A i \in Queued(x)' : i \in Int /\ i + 1 \in rest
  BY <1>1 DEF Queued
<1>4. place \in [Queued(x)' -> rest]
  BY <1>3
<1>5. \A a, b \in Queued(x)' : place[a] = place[b] => a = b
  BY <1>3
<1> HIDE DEF rest, place
<1>6. place \in Injection(Queued(x)', rest)
  BY <1>4, <1>5, Fun_IsInj
<1>7. IsFiniteSet(Queued(x)') /\ Cardinality(Queued(x)') <= Cardinality(rest)
  BY <1>2, <1>6, FS_Injection
<1>8. QED
  BY <1>2, <1>7, QueuedIsFinite, FS_CardinalityType

\* An event is counted where it is: queued, in hand, or in the view.
LEMMA CountStep ==
    ASSUME TypeOK, Lifecycle, NothingInvented, [Next]_vars
    PROVE  NothingInvented'
<1> USE DEF threads, queues, books, calls, history
<1>1. \A x \in Exchange : /\ view[x] \in Nat /\ pushed[x] \in Nat
                          /\ Cardinality(Queued(x)) \in Nat
  <2>1. \A x \in Exchange : view[x] \in Nat /\ pushed[x] \in Nat
    BY EngineAssumption DEF TypeOK, View
  <2>2. \A x \in Exchange : Cardinality(Queued(x)) \in Nat
    BY QueuedIsFinite
  <2>3. QED
    BY <2>1, <2>2
<1>2. ASSUME UNCHANGED <<view, events, pushed>>,
             \A x \in Exchange : InHand(x)' = InHand(x)
      PROVE  NothingInvented'
  BY <1>2 DEF NothingInvented, Queued
<1>3. ASSUME NEW y \in Exchange, Push(y)
      PROVE  NothingInvented'
  <2> SUFFICES ASSUME NEW x \in Exchange
               PROVE  (view[x] + InHand(x) + Cardinality(Queued(x)) <= pushed[x])'
    BY DEF NothingInvented
  <2>1. view' = view /\ InHand(x)' = InHand(x) /\ InHand(x) \in Nat
    BY <1>3 DEF Push, InHand
  <2>2. pushed'[x] = pushed[x] + (IF x = y THEN 1 ELSE 0)
    BY <1>3 DEF Push, TypeOK
  <2>3. /\ Cardinality(Queued(x))' \in Nat
        /\ Cardinality(Queued(x))' <= Cardinality(Queued(x)) + (IF x = y THEN 1 ELSE 0)
    <3>1. CASE eventsClosed
      BY <1>1, <1>3, <3>1 DEF Push, Queued
    <3>2. CASE ~eventsClosed
      BY <1>3, <3>2, PushCounts DEF Push
    <3>3. QED
      BY <3>1, <3>2
  <2>4. view[x] + InHand(x) + Cardinality(Queued(x)) <= pushed[x]
    BY DEF NothingInvented
  <2>5. QED
    BY <1>1, <2>1, <2>2, <2>3, <2>4
<1>4. CASE WorkerPop /\ events # <<>>
  <2> SUFFICES ASSUME NEW x \in Exchange
               PROVE  (view[x] + InHand(x) + Cardinality(Queued(x)) <= pushed[x])'
    BY DEF NothingInvented
  <2>1. /\ UNCHANGED <<view, pushed>> /\ events' = Tail(events) /\ InHand(x) = 0
        /\ InHand(x)' = IF x = Head(events) THEN 1 ELSE 0
    BY <1>4 DEF WorkerPop, InHand
  <2>2. /\ Cardinality(Queued(x))' \in Nat
        /\ Cardinality(Queued(x))' <=
               Cardinality(Queued(x)) - (IF x = Head(events) THEN 1 ELSE 0)
    BY <1>4, <2>1, PopCounts
  <2>3. view[x] + InHand(x) + Cardinality(Queued(x)) <= pushed[x]
    BY DEF NothingInvented
  <2>4. QED
    BY <1>1, <2>1, <2>2, <2>3
<1>5. CASE Apply
  <2> SUFFICES ASSUME NEW x \in Exchange
               PROVE  (view[x] + InHand(x) + Cardinality(Queued(x)) <= pushed[x])'
    BY DEF NothingInvented
  <2>1. /\ UNCHANGED <<pushed, events>> /\ InHand(x)' = 0
        /\ InHand(x) = IF x = update THEN 1 ELSE 0
    BY <1>5 DEF Apply, InHand
  <2>2. view'[x] = view[x] + InHand(x)
    BY <1>1, <1>5, <2>1 DEF Apply, TypeOK, View
  <2>3. Cardinality(Queued(x))' = Cardinality(Queued(x))
    BY <2>1 DEF Queued
  <2>4. view[x] + InHand(x) + Cardinality(Queued(x)) <= pushed[x]
    BY DEF NothingInvented
  <2>5. QED
    BY <1>1, <2>1, <2>2, <2>3, <2>4
<1>6. QED
  <2>1. CASE Owner
    <3>1. UNCHANGED <<view, events, pushed, update>>
      BY <2>1 DEF Owner, SetExpectedExchanges, Start, Stop, CloseQueue, JoinWorker,
                  ClosePublishQueue, JoinPublisher
    <3>2. worker' = "apply" <=> worker = "apply"
      BY <2>1 DEF Owner, SetExpectedExchanges, Start, Stop, CloseQueue, JoinWorker,
                  ClosePublishQueue, JoinPublisher, Lifecycle
    <3>3. QED
      BY <1>2, <3>1, <3>2 DEF InHand
  <2>2. CASE Worker
    BY <1>2, <1>4, <1>5, <2>2 DEF Worker, WorkerCheck, WorkerPop, EnqueueSnapshot, InHand
  <2>3. CASE Publisher
    BY <1>2, <2>3 DEF Publisher, PublisherPop, CopySubscribers, Call, InHand
  <2>4. CASE (\E s \in Subscriber : Subscribe(s) \/ Unsubscribe(s)) \/ UNCHANGED vars
    BY <1>2, <2>4 DEF Subscribe, Unsubscribe, vars, InHand
  <2>5. QED
    BY <1>3, <2>1, <2>2, <2>3, <2>4 DEF Next

\* No more events are queued, in hand or consolidated than were pushed.
LEMMA CountInvariant == Spec => []NothingInvented
<1>1. Init => NothingInvented
  <2> SUFFICES ASSUME Init, NEW x \in Exchange
               PROVE  view[x] + InHand(x) + Cardinality(Queued(x)) <= pushed[x]
    BY DEF NothingInvented
  <2>1. Queued(x) = {}
    BY EmptySeq DEF Init, Queued
  <2>2. Cardinality(Queued(x)) = 0
    BY <2>1, FS_EmptySet
  <2>3. QED
    BY <2>2 DEF Init, NoView, InHand
<1>2. QED
  BY <1>1, CountStep, LifecycleHolds, PTL DEF Spec

(***************************************************************************)
(* The engine implements the publication log.                              *)
(***************************************************************************)

\* The view is within the log's views: nothing in it was not pushed.
LEMMA ViewIsBounded ==
    ASSUME TypeOK, NothingInvented
    PROVE  view \in [Exchange -> 0 .. MaxEvents]
<1>1. ASSUME NEW x \in Exchange PROVE view[x] \in 0 .. MaxEvents
  <2>1. /\ view[x] \in Nat /\ InHand(x) \in Nat /\ Cardinality(Queued(x)) \in Nat
        /\ pushed[x] \in 0 .. MaxEvents
    BY QueuedIsFinite DEF TypeOK, View, InHand
  <2>2. view[x] + InHand(x) + Cardinality(Queued(x)) <= pushed[x]
    BY DEF NothingInvented
  <2>3. QED
    BY <2>1, <2>2, EngineAssumption
<1>2. QED
  BY <1>1 DEF TypeOK, View

\* Entering the log is publishing: the view is newer than the log's last.
LEMMA EnqueueIsPublish ==
    ASSUME TypeOK, NothingInvented, LogKeepsUp, EnqueueSnapshot, ~publishClosed
    PROVE  Promise!Next
<1>1. log' = Append(log, view) /\ UNCHANGED delivered
  BY DEF EnqueueSnapshot
<1>2. ASSUME log # <<>> PROVE Promise!Newer(view, log[Len(log)])
  <2>1. PICK x \in Exchange : view = [log[Len(log)] EXCEPT ![x] = @ + 1]
    BY <1>2 DEF LogKeepsUp, EnqueueSnapshot, OneMore, Last
  <2>2. log[Len(log)] \in View
    BY <1>2, AppendToLog, ElementOfSeq DEF TypeOK
  <2>3. \A y \in Exchange :
            /\ log[Len(log)][y] \in Nat
            /\ view[y] = IF y = x THEN log[Len(log)][y] + 1 ELSE log[Len(log)][y]
    BY <2>1, <2>2 DEF View
  <2>4. view # log[Len(log)]
    BY <2>3
  <2>5. QED
    BY <2>3, <2>4 DEF Promise!Newer
<1>3. Promise!Publish(view)
  BY <1>1, <1>2 DEF Promise!Publish
<1>4. QED
  BY <1>3, ViewIsBounded DEF Promise!Next

\* A callback delivers the view that follows the subscriber's last one.
LEMMA CallIsDeliver ==
    ASSUME TypeOK, Reading, NEW s \in Subscriber, Call(s)
    PROVE  Promise!Next
<1>1. /\ publisher = "call" /\ s \in targets /\ UNCHANGED log
      /\ delivered' = [delivered EXCEPT ![s] = Append(@, current)]
  BY DEF Call
<1>2. Taken \in 1 .. Len(log) /\ current = log[Taken]
  BY <1>1, TakenIsNumber DEF Reading, Taken
<1>3. GivenUpTo(s, Taken - 1)
  BY <1>1 DEF Reading, Owed
<1>4. delivered[s] = <<>> \/ (Taken > 1 /\ delivered[s][Len(delivered[s])] = log[Taken - 1])
  BY <1>2, <1>3 DEF GivenUpTo, Last
<1>5. Promise!Deliver(s, Taken)
  BY <1>1, <1>2, <1>4 DEF Promise!Deliver
<1>6. QED
  BY <1>2, <1>5 DEF Promise!Next

\* Each step of the engine is a step of the publication log, or a stutter.
LEMMA StepIsLogStep ==
    ASSUME TypeOK, LogKeepsUp, Reading, NothingInvented, [Next]_vars
    PROVE  [Promise!Next]_(Promise!vars)
<1> USE DEF Promise!vars, threads, queues, books, calls, history
<1>1. CASE Owner
  BY <1>1 DEF Owner, SetExpectedExchanges, Start, Stop, CloseQueue, JoinWorker,
              ClosePublishQueue, JoinPublisher
<1>2. CASE Worker
  BY <1>2, EnqueueIsPublish DEF Worker, WorkerCheck, WorkerPop, Apply, EnqueueSnapshot
<1>3. CASE Publisher
  BY <1>3, CallIsDeliver DEF Publisher, PublisherPop, CopySubscribers
<1>4. CASE \/ \E x \in Exchange : Push(x)
           \/ \E s \in Subscriber : Subscribe(s) \/ Unsubscribe(s)
           \/ UNCHANGED vars
  BY <1>4 DEF Push, Subscribe, Unsubscribe, vars
<1>5. QED
  BY <1>1, <1>2, <1>3, <1>4 DEF Next

(***************************************************************************)
(* All subscribers read contiguous pieces of one log of views, each newer  *)
(* than the one before, however the threads, the owner and the subscribers *)
(* interleave.                                                             *)
(***************************************************************************)
THEOREM EngineIsPublicationLog == Spec => ImplementsPublicationLog
<1>1. Init => Promise!Init
  BY DEF Init, Promise!Init
<1>2. QED
  BY <1>1, StepIsLogStep, TypeCorrect, LogInvariant, ReadingInvariant, CountInvariant, PTL
     DEF Spec, ImplementsPublicationLog, Promise!Spec

=============================================================================
