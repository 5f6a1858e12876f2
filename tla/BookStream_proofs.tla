------------------------- MODULE BookStream_proofs -------------------------
(***************************************************************************)
(* Proofs about BookStream: stop() is final, the engine outlives the       *)
(* handlers of its streams, the callback sees the views in order, and no   *)
(* feed is dialled before the hosts are resolved.  What the streams need   *)
(* does not depend on the configuration, so there is an invariant for the  *)
(* client and the streams and another for main() and its configuration.    *)
(***************************************************************************)
EXTENDS BookStream, FiniteSetTheorems, WellFoundedInduction, TLAPS

(***************************************************************************)
(* The inductive invariants.                                               *)
(***************************************************************************)

\* The client and the streams are well-typed.
StreamTypes ==
    /\ published \in 0 .. MaxViews /\ targets \subseteq Call /\ blocked \in BOOLEAN
    /\ targets # {} => published > 0
    /\ handler \in [Call -> {"none", "start", "streaming", "returned"}]
    /\ queue \in [Call -> Seq(Views)] /\ wire \in [Call -> Seq(Views)]
    /\ rpc \in [Call -> {"none", "idle", "open", "cancelled", "ended"}]
    /\ run \in {"check", "register", "call", "test", "read", "unregister", "finish", "again", "done"}
    /\ running \in BOOLEAN /\ active \in BOOLEAN
    /\ calls \in 0 .. MaxCalls
    /\ owner \in {"created", "started", "cancelling", "joining", "stopped"}
    /\ received \in Seq(Call \X Views)

\* Where run() has a call: it is the last one made.
Calling == {"call", "test", "read", "unregister", "finish"}

\* A call is under way only while run() is in it, and run() only between
\* start() and the return of stop().
OneCall ==
    /\ \A c \in Call : rpc[c] \in {"idle", "open"} => c = calls /\ run \in Calling
    /\ run \in Calling \cup {"again"} => calls > 0
    /\ owner \in {"created", "stopped"} => run = "done"

\* Handlers live only while the server does, and the engine is stopped last.
ServerFirst ==
    /\ main \notin Serving \cup {"Shutdown"} =>
           \A c \in Call : handler[c] \in {"none", "returned"}
    /\ engine = "stopped" => main \in Ended

\* The view a subscribed handler was given last: the one in hand is still to come
\* for the handlers whose callback has not been called.
Given(c) == IF c \in targets THEN published - 1 ELSE published

\* What is under way to the client of a call: a run of consecutive views that
\* ends, while the handler is subscribed, with the view it was given last.
InFlight(c) ==
    /\ handler[c] # "none" => c <= calls
    /\ c = calls /\ run = "call" => handler[c] = "none"
    /\ c \in targets => handler[c] \in {"streaming", "returned"}
    /\ handler[c] \in {"none", "start"} => queue[c] = <<>> /\ wire[c] = <<>>
    /\ \A k \in 1 .. Len(wire[c]) : wire[c][k] = wire[c][1] + k - 1 /\ wire[c][k] <= published
    /\ Subscribed(c) =>
           /\ \A k \in 1 .. Len(queue[c]) : queue[c][k] = Given(c) - Len(queue[c]) + k
           /\ \A k \in 1 .. Len(wire[c]) :
                  wire[c][k] = Given(c) - Len(queue[c]) - Len(wire[c]) + k

\* The view the callback saw last, and what the current call brings next.
Continues ==
    received # <<>> =>
        LET call == received[Len(received)][1]
            view == received[Len(received)][2]
        IN  /\ call <= calls /\ view <= published
            /\ handler[call] \in {"streaming", "returned"}
            /\ calls > 0 /\ wire[calls] # <<>> =>
                   /\ wire[calls][1] > view
                   /\ call = calls => wire[calls][1] = view + 1
            /\ calls > 0 /\ Subscribed(calls) =>
                   /\ view <= Given(calls) - Len(queue[calls]) - Len(wire[calls])
                   /\ call = calls => view = Given(calls) - Len(queue[calls]) - Len(wire[calls])

Ordered ==
    /\ \A c \in Call : InFlight(c)
    /\ Continues
    /\ ViewsInOrder

(***************************************************************************)
(* Types, and the two invariants on the lives of calls and handlers.       *)
(***************************************************************************)

\* The call run() is in is one of the calls.
LEMMA CurrentCall ==
    ASSUME StreamTypes, OneCall, run \in Calling \cup {"again"}
    PROVE  calls \in Call
BY StreamAssumption DEF StreamTypes, OneCall, Call

\* Steps of run() and of the thread that starts and stops the client.
LEMMA ClientTypes ==
    ASSUME StreamTypes, OneCall, Run \/ Start \/ StopFlag \/ Owner
    PROVE  StreamTypes'
<1>1. CASE Register
  <2>1. calls + 1 \in 0 .. MaxCalls \/ calls' = calls
    BY <1>1, StreamAssumption DEF Register, StreamTypes
  <2>2. QED
    BY <1>1, <2>1 DEF Register, StreamTypes, service, engineState
<1>2. CASE MakeCall
  BY <1>2 DEF MakeCall, StreamTypes, engineState
<1>3. CASE Read
  <2>1. CASE UNCHANGED <<received, wire>>
    BY <1>3, <2>1 DEF Read, StreamTypes, service, engineState
  <2>2. CASE /\ wire[calls] # <<>>
             /\ received' = Append(received, <<calls, Head(wire[calls])>>)
             /\ wire' = [wire EXCEPT ![calls] = Tail(@)]
    <3>1. calls \in Call
      BY <1>3, CurrentCall DEF Read, Calling
    <3>2. wire[calls] \in Seq(Views)
      BY <3>1 DEF StreamTypes
    <3>3. Head(wire[calls]) \in Views /\ Tail(wire[calls]) \in Seq(Views)
      BY <2>2, <3>2
    <3>4. received' \in Seq(Call \X Views)
      BY <2>2, <3>1, <3>3 DEF StreamTypes
    <3>5. wire' \in [Call -> Seq(Views)]
      BY <2>2, <3>3 DEF StreamTypes
    <3>6. QED
      BY <1>3, <3>4, <3>5 DEF Read, StreamTypes, service, engineState
  <2>3. QED
    BY <1>3, <2>1, <2>2 DEF Read
<1>4. CASE Connect \/ TestRunning \/ Unregister \/ Finish \/ Again
  BY <1>4 DEF Connect, TestRunning, Unregister, Finish, Again, StreamTypes, service, engineState,
     grpc
<1>5. CASE Start \/ StopFlag \/ Owner
  BY <1>5 DEF Start, StopFlag, Owner, Cancel, JoinRun, StreamTypes, service, engineState, grpc
<1>6. QED
  BY <1>1, <1>2, <1>3, <1>4, <1>5 DEF Run

\* Steps of the handlers, the network, the engine and main().
LEMMA ServerTypes ==
    ASSUME StreamTypes,
           \/ \E c \in Call : Handler(c) \/ Break(c)
           \/ Publish \/ Publisher \/ Main \/ SignalArrives
    PROVE  StreamTypes'
<1>1. ASSUME NEW c \in Call, Write(c)
      PROVE  StreamTypes'
  <2>1. queue[c] \in Seq(Views) /\ queue[c] # <<>> /\ wire[c] \in Seq(Views)
    BY <1>1 DEF Write, StreamTypes
  <2>2. Head(queue[c]) \in Views /\ Tail(queue[c]) \in Seq(Views)
    BY <2>1
  <2>3. Append(wire[c], Head(queue[c])) \in Seq(Views)
    BY <2>1, <2>2
  <2>4. QED
    BY <1>1, <2>2, <2>3 DEF Write, Return, StreamTypes, client, program, engineState
<1>2. ASSUME NEW c \in Call, Admit(c) \/ Notice(c) \/ Break(c)
      PROVE  StreamTypes'
  <2>1. /\ UNCHANGED <<client, engineState, queue, wire>>
        /\ handler' \in [Call -> {"none", "start", "streaming", "returned"}]
        /\ rpc' \in [Call -> {"none", "idle", "open", "cancelled", "ended"}]
    BY <1>2 DEF Admit, Notice, Break, Return, StreamTypes, grpc, service
  <2>2. QED
    BY <2>1 DEF StreamTypes, client, engineState
<1>3. CASE Publish
  <2>1. published' \in 0 .. MaxViews /\ published' > 0 /\ targets' \subseteq Call
    BY <1>3, StreamAssumption DEF Publish, StreamTypes
  <2>2. QED
    BY <1>3, <2>1 DEF Publish, StreamTypes, client, grpc
<1>4. ASSUME NEW c \in Call, CallBack(c)
      PROVE  StreamTypes'
  <2>1. published \in Views
    BY <1>4, StreamAssumption DEF CallBack, StreamTypes, Views
  <2>2. Append(queue[c], published) \in Seq(Views)
    BY <2>1 DEF StreamTypes
  <2>3. queue' \in [Call -> Seq(Views)]
    BY <1>4, <2>2 DEF CallBack, StreamTypes
  <2>4. QED
    BY <1>4, <2>3 DEF CallBack, StreamTypes, client, grpc
<1>5. ASSUME NEW c \in Call, CallBackLate(c)
      PROVE  StreamTypes'
  <2>1. /\ targets' \subseteq Call /\ (targets' # {} => published > 0)
        /\ UNCHANGED <<client, published, queue, wire>>
    BY <1>5 DEF CallBackLate, StreamTypes
  <2>2. /\ blocked' \in BOOLEAN
        /\ handler' \in [Call -> {"none", "start", "streaming", "returned"}]
        /\ rpc' \in [Call -> {"none", "idle", "open", "cancelled", "ended"}]
    <3>1. CASE blocked' \in BOOLEAN /\ UNCHANGED <<program, handler, rpc>>
      BY <3>1 DEF StreamTypes
    <3>2. CASE Die /\ UNCHANGED blocked
      BY <3>2 DEF Die, StreamTypes
    <3>3. QED
      BY <1>5, <3>1, <3>2 DEF CallBackLate
  <2>3. QED
    BY <2>1, <2>2 DEF StreamTypes, client
<1>6. CASE Main \/ SignalArrives
  <2>1. UNCHANGED <<client, engineState, handler, queue, grpc>>
    BY <1>6 DEF Main, SignalArrives
  <2>2. QED
    BY <2>1 DEF StreamTypes, client, engineState, grpc
<1>7. QED
  BY <1>1, <1>2, <1>3, <1>4, <1>5, <1>6 DEF Handler, Publisher

\* Steps of run() and of the owner keep OneCall.
LEMMA ClientOneCall ==
    ASSUME StreamTypes, OneCall, Run \/ Start \/ StopFlag \/ Owner
    PROVE  OneCall'
<1>1. CASE Connect \/ Register
  BY <1>1, StreamAssumption DEF Connect, Register, StreamTypes, OneCall, Calling, Call, grpc
<1>2. CASE MakeCall
  <2>1. calls \in Call
    BY <1>2, CurrentCall DEF MakeCall, Calling
  <2>2. QED
    BY <1>2, <2>1 DEF MakeCall, StreamTypes, OneCall, Calling
<1>3. CASE TestRunning \/ Read \/ Unregister \/ Finish \/ Again
  BY <1>3 DEF TestRunning, Read, Unregister, Finish, Again, StreamTypes, OneCall, Calling, grpc
<1>4. CASE Start \/ StopFlag
  BY <1>4 DEF Start, StopFlag, StreamTypes, OneCall, Calling, grpc
<1>5. CASE Owner
  BY <1>5 DEF Owner, Cancel, JoinRun, StreamTypes, OneCall, Calling, grpc
<1>6. QED
  BY <1>1, <1>2, <1>3, <1>4, <1>5 DEF Run

\* Neither the server nor the network makes a call.
LEMMA ServerOneCall ==
    ASSUME StreamTypes, OneCall,
           \/ \E c \in Call : Handler(c) \/ Break(c)
           \/ Publish \/ Publisher \/ Main \/ SignalArrives
    PROVE  OneCall'
<1>1. ASSUME NEW c \in Call, Handler(c) \/ Break(c)
      PROVE  OneCall'
  BY <1>1 DEF Handler, Admit, Write, Notice, Break, StreamTypes, OneCall, client, grpc
<1>2. CASE Publish \/ Main \/ SignalArrives
  BY <1>2 DEF Publish, Main, SignalArrives, OneCall, client, grpc
<1>3. ASSUME NEW c \in Call, CallBack(c) \/ CallBackLate(c)
      PROVE  OneCall'
  BY <1>3 DEF CallBack, CallBackLate, Die, OneCall, client, grpc
<1>4. QED
  BY <1>1, <1>2, <1>3 DEF Publisher

\* main() leaves Shutdown() when the last handler returned, and only a server
\* that is up starts another.
LEMMA ServerFirstStep ==
    ASSUME StreamTypes, OneCall, ServerFirst, [Next]_vars
    PROVE  ServerFirst'
<1>1. CASE MakeCall
  <2>1. calls \in Call
    BY <1>1, CurrentCall DEF MakeCall, Calling
  <2>2. QED
    BY <1>1, <2>1 DEF MakeCall, StreamTypes, ServerFirst, program
<1>2. CASE Connect \/ Register \/ TestRunning \/ Read \/ Unregister \/ Finish \/ Again
           \/ Start \/ StopFlag \/ Owner \/ Publish
  BY <1>2 DEF Connect, Register, TestRunning, Read, Unregister, Finish, Again, Start, StopFlag,
     Owner, Cancel, JoinRun, Publish, ServerFirst, program, service
<1>3. ASSUME NEW c \in Call, Handler(c) \/ Break(c)
      PROVE  ServerFirst'
  <2>1. /\ handler' \in [Call -> {"none", "start", "streaming", "returned"}]
        /\ \A d \in Call : handler'[d] # handler[d] => handler[d] \in {"start", "streaming"}
        /\ UNCHANGED <<main, engine>>
    BY <1>3 DEF Handler, Admit, Write, Notice, Break, Return, StreamTypes, program, service
  <2>2. QED
    BY <2>1 DEF ServerFirst
<1>4. CASE SignalArrives
  BY <1>4 DEF SignalArrives, Signal, ServerFirst, Serving, Ended
<1>5. CASE Main
  <2>1. CASE MainStep
    BY <1>5, <2>1 DEF Main, MainStep, LoadConfig, Attempt, Resolve, Retry, NextHost, AfterWait,
       StartEngine, BuildAndStart, StartFeed, LeaveLoop, StopFeeds,
       ServerFirst, Serving, Ended
  <2>2. CASE ShutdownReturn(\A c \in Call : handler[c] \in {"none", "returned"})
    BY <1>5, <2>2 DEF Main, ShutdownReturn, ServerFirst, Serving, Ended
  <2>3. CASE StopEngine(PublisherEnds)
    BY <1>5, <2>3 DEF Main, StopEngine, ServerFirst, Serving, Ended
  <2>4. QED
    BY <1>5, <2>1, <2>2, <2>3 DEF Main
<1>6. CASE UNCHANGED vars
  BY <1>6 DEF vars, service, program, ServerFirst
<1>7. ASSUME NEW c \in Call, CallBack(c) \/ CallBackLate(c)
      PROVE  ServerFirst'
  <2>1. CASE UNCHANGED <<main, engine, handler>>
    BY <2>1 DEF ServerFirst
  <2>2. CASE Die
    BY <2>2 DEF Die, ServerFirst
  <2>3. QED
    BY <1>7, <2>1, <2>2 DEF CallBack, CallBackLate, program
<1>8. QED
  BY <1>1, <1>2, <1>3, <1>4, <1>5, <1>6, <1>7 DEF Next, Run, Publisher

-----------------------------------------------------------------------------
(***************************************************************************)
(* The order of the views.                                                 *)
(***************************************************************************)

streams == <<published, targets, handler, queue, wire, calls, received>>

\* Most steps touch no stream: only a new call may put run() before its call.
LEMMA OrderedFrame ==
    ASSUME Ordered, UNCHANGED streams, run' = "call" => run = "call"
    PROVE  Ordered'
BY DEF Ordered, InFlight, Continues, ViewsInOrder, Subscribed, Given, streams

\* A new call: nothing was ever under way to it.
LEMMA OrderedRegister ==
    ASSUME StreamTypes, Ordered, Register
    PROVE  Ordered'
<1>1. CASE UNCHANGED <<active, calls, rpc>> /\ run' = "check"
  BY <1>1, OrderedFrame DEF Register, service, engineState, streams
<1>2. CASE calls < MaxCalls /\ calls' = calls + 1
  <2>1. /\ calls' = calls + 1 /\ calls' \in Call /\ calls \in Nat
        /\ UNCHANGED <<published, targets, handler, queue, wire, received>>
    BY <1>2, StreamAssumption DEF Register, StreamTypes, Call, service, engineState
  <2>2. handler[calls'] = "none"
    BY <2>1 DEF Ordered, InFlight, Call
  <2>3. wire[calls'] = <<>> /\ ~Subscribed(calls')
    BY <2>1, <2>2 DEF Ordered, InFlight, Subscribed
  <2>4. ASSUME NEW c \in Call
        PROVE  InFlight(c)'
    <3>1. InFlight(c)
      BY DEF Ordered
    <3>2. handler[c] # "none" => c <= calls'
      BY <3>1, <2>1 DEF InFlight, Call
    <3>3. c = calls' => handler[c] = "none"
      BY <2>2
    <3>4. QED
      BY <3>1, <3>2, <3>3, <2>1 DEF InFlight, Subscribed, Given
  <2>5. Continues'
    <3>1. SUFFICES ASSUME received # <<>>
                   PROVE  Continues'
      BY <2>1 DEF Continues
    <3>2. received[Len(received)] \in Call \X Views
      BY <3>1 DEF StreamTypes
    <3>3. Continues
      BY DEF Ordered
    <3>4. QED
      BY <2>1, <2>3, <3>1, <3>2, <3>3 DEF Continues, Subscribed, Call
  <2>6. ViewsInOrder'
    BY <2>1 DEF Ordered, ViewsInOrder
  <2>7. QED
    BY <2>4, <2>5, <2>6 DEF Ordered
<1>3. QED
  BY <1>1, <1>2 DEF Register

\* The call is made: its handler starts with nothing queued.
LEMMA OrderedMakeCall ==
    ASSUME StreamTypes, OneCall, Ordered, MakeCall
    PROVE  Ordered'
<1>1. calls \in Call /\ handler[calls] = "none"
  BY CurrentCall DEF MakeCall, Calling, Ordered, InFlight
<1>2. /\ UNCHANGED <<published, targets, queue, wire, calls, received>>
      /\ run' # "call"
      /\ handler' \in [Call -> {"none", "start", "streaming", "returned"}]
      /\ handler'[calls] \in {"none", "start"}
      /\ \A c \in Call : c # calls => handler'[c] = handler[c]
  BY <1>1 DEF MakeCall, StreamTypes, engineState
<1>3. queue[calls] = <<>> /\ wire[calls] = <<>>
  BY <1>1 DEF Ordered, InFlight
<1>4. ASSUME NEW c \in Call
      PROVE  InFlight(c)'
  <2>1. InFlight(c)
    BY DEF Ordered
  <2>2. CASE c = calls
    <3>1. handler'[c] \in {"none", "start"} /\ c <= calls
      BY <1>2, <2>2, <1>1 DEF Call
    <3>2. QED
      BY <1>1, <1>2, <1>3, <2>2, <3>1, <2>1 DEF InFlight, Subscribed
  <2>3. CASE c # calls
    BY <1>2, <2>1, <2>3 DEF InFlight, Subscribed, Given
  <2>4. QED
    BY <2>2, <2>3
<1>5. Continues'
  <2>1. SUFFICES ASSUME received # <<>>
                 PROVE  Continues'
    BY <1>2 DEF Continues
  <2>2. received[Len(received)][1] \in Call /\ Continues
    BY <2>1 DEF StreamTypes, Ordered
  <2>3. handler[received[Len(received)][1]] \in {"streaming", "returned"}
    BY <2>1, <2>2 DEF Continues
  <2>4. received[Len(received)][1] # calls
    BY <1>1, <2>3
  <2>5. handler'[received[Len(received)][1]] \in {"streaming", "returned"}
    BY <1>2, <2>2, <2>3, <2>4
  <2>6. wire'[calls'] = <<>> /\ handler'[calls'] # "streaming"
    BY <1>2, <1>3
  <2>7. QED
    BY <1>2, <2>2, <2>5, <2>6 DEF Continues, Subscribed
<1>6. ViewsInOrder'
  BY <1>2 DEF Ordered, ViewsInOrder
<1>7. QED
  BY <1>4, <1>5, <1>6 DEF Ordered

\* A step that leaves a call's handler, queue and wire alone.
LEMMA SameInFlight ==
    ASSUME NEW c \in Call, InFlight(c), run' # "call",
           UNCHANGED <<published, targets, calls>>,
           handler'[c] = handler[c], queue'[c] = queue[c], wire'[c] = wire[c]
    PROVE  InFlight(c)'
<1>1. (Subscribed(c)' <=> Subscribed(c)) /\ Given(c)' = Given(c)
  BY DEF Subscribed, Given
<1>2. QED
  BY <1>1 DEF InFlight

\* The callback gets the next view of the current call.
LEMMA OrderedRead ==
    ASSUME StreamTypes, OneCall, Ordered, Read
    PROVE  Ordered'
<1>1. CASE UNCHANGED <<received, wire>>
  <2>1. UNCHANGED streams /\ run' # "call"
    BY <1>1 DEF Read, streams, service, engineState, StreamTypes
  <2>2. QED
    BY <2>1, OrderedFrame
<1>2. CASE /\ wire[calls] # <<>>
           /\ received' = Append(received, <<calls, Head(wire[calls])>>)
           /\ wire' = [wire EXCEPT ![calls] = Tail(@)]
           /\ run' = "test"
  <2> DEFINE old == wire[calls]
             new == wire'[calls]
             view == Head(wire[calls])
  <2>1. calls \in Call /\ calls \in Nat /\ calls > 0
    BY CurrentCall DEF Read, Calling, Call
  <2>2. old \in Seq(Views) /\ old # <<>> /\ received \in Seq(Call \X Views)
    BY <1>2, <2>1 DEF StreamTypes
  <2>3. /\ UNCHANGED <<published, targets, handler, queue, calls>>
        /\ published \in Nat /\ Given(calls) \in Int /\ Given(calls)' = Given(calls)
    BY DEF Read, service, engineState, StreamTypes, Given
  <2>4. /\ view = old[1] /\ view \in Nat
        /\ new \in Seq(Views) /\ Len(new) = Len(old) - 1 /\ Len(new) \in Nat
        /\ \A k \in 1 .. Len(new) : new[k] = old[k + 1] /\ k + 1 \in 1 .. Len(old)
    <3>1. new = Tail(old)
      BY <1>2, <2>1 DEF StreamTypes
    <3>2. view = old[1] /\ view \in Views
      BY <2>2
    <3>3. /\ new \in Seq(Views) /\ Len(new) = Len(old) - 1 /\ Len(new) \in Nat
          /\ \A k \in 1 .. Len(new) : new[k] = old[k + 1] /\ k + 1 \in 1 .. Len(old)
      BY <2>2, <3>1
    <3>4. QED
      BY <3>2, <3>3 DEF Views
  <2>5. /\ Len(received') = Len(received) + 1 /\ Len(received) \in Nat
        /\ received'[Len(received')] = <<calls, view>>
        /\ \A k \in 1 .. Len(received) : received'[k] = received[k]
    BY <1>2, <2>1, <2>2, <2>4
  <2>6. InFlight(calls) /\ Len(queue[calls]) \in Nat /\ Continues
    BY <2>1 DEF Ordered, StreamTypes
  <2>7. handler[calls] \in {"streaming", "returned"}
    BY <2>1, <2>2, <2>6 DEF InFlight, StreamTypes
  <2>8. old = wire[calls] /\ new = wire'[calls] /\ view = Head(wire[calls])
    OBVIOUS
  <2> HIDE DEF old, new, view
  <2>13. /\ view <= published
         /\ \A k \in 1 .. Len(old) : old[k] = view + k - 1 /\ old[k] <= published
         /\ Subscribed(calls) => view = Given(calls) - Len(queue[calls]) - Len(new)
    <3>1. 1 \in 1 .. Len(old)
      BY <2>4
    <3>2. Subscribed(calls) => old[1] = Given(calls) - Len(queue[calls]) - Len(old) + 1
      BY <2>6, <2>8, <3>1 DEF InFlight
    <3>3. \A k \in 1 .. Len(old) : old[k] = view + k - 1 /\ old[k] <= published
      BY <2>4, <2>6, <2>8 DEF InFlight
    <3>4. view <= published
      BY <2>4, <3>1, <3>3
    <3>5. Subscribed(calls) => view = Given(calls) - Len(queue[calls]) - Len(new)
      <4>1. view = old[1] /\ Len(old) = Len(new) + 1
            /\ Len(old) \in Nat /\ Len(new) \in Nat
        BY <2>2, <2>4
      <4>2. QED
        BY <4>1, <3>2, <2>3, <2>6
    <3>6. QED
      BY <3>3, <3>4, <3>5
  <2>9. ASSUME NEW c \in Call
        PROVE  InFlight(c)'
    <3>1. InFlight(c)
      BY DEF Ordered
    <3>2. CASE c = calls
      <4>1. \A k \in 1 .. Len(new) : new[k] = view + k /\ new[k] <= published
        BY <2>4, <2>13
      <4>2. \A k \in 1 .. Len(new) : new[k] = new[1] + k - 1 /\ new[k] <= published
        <5>1. Len(new) > 0 => new[1] = view + 1
          BY <2>4, <4>1
        <5>2. QED
          BY <2>4, <4>1, <5>1
      <4>3. Subscribed(calls) =>
              \A k \in 1 .. Len(new) :
                  new[k] = Given(calls) - Len(queue[calls]) - Len(new) + k
        <5>1. Len(new) \in Nat
          BY <2>4
        <5>2. SUFFICES ASSUME Subscribed(calls), NEW k \in 1 .. Len(new)
                       PROVE  new[k] = Given(calls) - Len(queue[calls]) - Len(new) + k
          OBVIOUS
        <5>3. view = Given(calls) - Len(queue[calls]) - Len(new) /\ new[k] = view + k
          BY <2>13, <4>1, <5>2
        <5>4. QED
          BY <2>3, <2>6, <5>1, <5>3
      <4>4. wire'[c] = new /\ queue'[c] = queue[calls] /\ handler'[c] = handler[calls]
            /\ published' = published /\ calls' = calls /\ targets' = targets
            /\ Given(c)' = Given(calls)
        BY <2>3, <2>8, <3>2 DEF Given
      <4>5. run' # "call"
        BY <1>2 DEF Read
      <4>6. Subscribed(c)' <=> Subscribed(calls)
        BY <4>4 DEF Subscribed
      <4>7. Subscribed(calls) =>
              \A k \in 1 .. Len(queue'[c]) : queue'[c][k] = Given(calls) - Len(queue'[c]) + k
        BY <3>1, <3>2, <4>4 DEF InFlight
      <4>8. handler'[c] \in {"streaming", "returned"} /\ c <= calls
        BY <2>1, <2>7, <3>2, <4>4
      <4>9. QED
        BY <4>2, <4>3, <4>4, <4>5, <4>6, <4>7, <4>8 DEF InFlight
    <3>3. CASE c # calls
      <4>1. wire'[c] = wire[c]
        BY <1>2, <2>1, <3>3 DEF StreamTypes
      <4>2. run' # "call"
        BY <1>2 DEF Read
      <4>3. QED
        BY <2>3, <3>1, <4>1, <4>2, SameInFlight
    <3>4. QED
      BY <3>2, <3>3
  <2>10. Continues'
    <3>1. new # <<>> => new[1] = view + 1 /\ new[1] > view
      <4>1. new # <<>> => 1 \in 1 .. Len(new) /\ 2 \in 1 .. Len(old)
        BY <2>4
      <4>2. QED
        BY <2>4, <2>13, <4>1
    <3>2. Subscribed(calls) =>
              view = Given(calls) - Len(queue[calls]) - Len(new)
              /\ view <= Given(calls) - Len(queue[calls]) - Len(new)
      <4>1. view \in Nat /\ (Subscribed(calls) => view = Given(calls) - Len(queue[calls]) - Len(new))
        BY <2>4, <2>13
      <4>2. QED
        BY <4>1
    <3>3. received' # <<>>
      BY <2>5
    <3>4. received'[Len(received')][1] = calls /\ received'[Len(received')][2] = view
      BY <2>5
    <3>5. calls <= calls /\ view <= published
      BY <2>1, <2>13
    <3>6. QED
      BY <2>3, <2>7, <2>8, <3>1, <3>2, <3>4, <3>5 DEF Continues, Subscribed
  <2>11. ViewsInOrder'
    <3>1. ASSUME NEW k \in 2 .. Len(received')
          PROVE  /\ received'[k][2] > received'[k - 1][2]
                 /\ received'[k][1] = received'[k - 1][1] => received'[k][2] = received'[k - 1][2] + 1
      <4>1. CASE k <= Len(received)
        BY <2>5, <4>1 DEF Ordered, ViewsInOrder
      <4>2. CASE k = Len(received')
        <5>1. received # <<>> /\ received'[k - 1] = received[Len(received)]
              /\ received[Len(received)] \in Call \X Views
          BY <2>2, <2>5, <4>2
        <5>2. QED
          BY <1>2, <2>1, <2>4, <2>5, <2>6, <2>8, <4>2, <5>1 DEF Continues
      <4>3. QED
        BY <2>5, <4>1, <4>2
    <3>2. QED
      BY <3>1 DEF ViewsInOrder
  <2>12. QED
    BY <2>9, <2>10, <2>11 DEF Ordered
<1>3. QED
  BY <1>1, <1>2 DEF Read

\* A handler that returns, or an accepted one that has sent nothing yet.
LEMMA OrderedHandler ==
    ASSUME StreamTypes, Ordered, NEW c \in Call, Admit(c) \/ Notice(c)
    PROVE  Ordered'
<1>1. /\ UNCHANGED <<published, targets, queue, wire, calls, received, run>>
      /\ handler' \in [Call -> {"none", "start", "streaming", "returned"}]
      /\ \A d \in Call : d # c => handler'[d] = handler[d]
      /\ \/ handler[c] = "start" /\ handler'[c] \in {"streaming", "returned"}
         \/ handler[c] = "streaming" /\ handler'[c] = "returned"
  BY DEF Admit, Notice, Return, StreamTypes, client, engineState, grpc
<1>2. /\ handler[c] = "start" => queue[c] = <<>> /\ wire[c] = <<>>
      /\ calls \in Nat /\ published \in Nat /\ c <= calls
  BY <1>1 DEF Ordered, InFlight, StreamTypes
<1>3. ASSUME NEW d \in Call
      PROVE  InFlight(d)'
  <2>1. InFlight(d)
    BY DEF Ordered
  <2>2. CASE d = c /\ handler[c] = "start"
    <3>1. queue[c] = <<>> /\ wire[c] = <<>> /\ c <= calls
      BY <1>2, <2>2
    <3>2. /\ \A k \in 1 .. Len(queue[c]) : FALSE
          /\ \A k \in 1 .. Len(wire[c]) : FALSE
      BY <3>1
    <3>3. handler'[c] \notin {"none", "start"} /\ (c = calls => run # "call")
      BY <1>1, <2>1, <2>2 DEF InFlight
    <3>4. QED
      BY <1>1, <2>1, <2>2, <3>1, <3>2, <3>3 DEF InFlight, Subscribed
  <2>5. CASE d = c /\ handler[c] = "streaming"
    BY <1>1, <1>2, <2>1, <2>5 DEF InFlight, Subscribed
  <2>3. CASE d # c
    BY <1>1, <2>1, <2>3 DEF InFlight, Subscribed, Given
  <2>4. QED
    BY <1>1, <2>2, <2>3, <2>5
<1>4. Continues'
  <2>1. SUFFICES ASSUME received # <<>>
                 PROVE  Continues'
    BY <1>1 DEF Continues
  <2> DEFINE call == received[Len(received)][1]
             view == received[Len(received)][2]
  <2>2. call \in Call /\ view \in Nat /\ Continues
    BY <2>1 DEF StreamTypes, Ordered, Views
  <2>3. handler[call] \in {"streaming", "returned"}
    BY <2>1, <2>2 DEF Continues
  <2>4. handler'[call] \in {"streaming", "returned"}
    BY <1>1, <2>2, <2>3
  <2>5. CASE handler[c] = "start" /\ c = calls
    <3>1. call # calls /\ wire[calls] = <<>> /\ queue[calls] = <<>>
      BY <1>2, <2>3, <2>5
    <3>2. c \notin targets
      BY <2>5 DEF Ordered, InFlight
    <3>3. Given(calls)' = published
      BY <1>1, <2>5, <3>2 DEF Given
    <3>4. view <= published - Len(queue[calls]) - Len(wire[calls])
      BY <1>2, <2>1, <2>2, <3>1 DEF Continues
    <3>5. QED
      BY <1>1, <2>1, <2>2, <2>4, <3>1, <3>3, <3>4 DEF Continues, Subscribed
  <2>6. CASE ~(handler[c] = "start" /\ c = calls)
    <3>1. (calls > 0 /\ Subscribed(calls))' => calls > 0 /\ Subscribed(calls)
      BY <1>1, <2>6 DEF Subscribed, StreamTypes, Call
    <3>2. QED
      BY <1>1, <2>1, <2>2, <2>4, <3>1 DEF Continues, Given
  <2>7. QED
    BY <2>5, <2>6
<1>5. ViewsInOrder'
  BY <1>1 DEF Ordered, ViewsInOrder
<1>6. QED
  BY <1>3, <1>4, <1>5 DEF Ordered

\* A view is published: the subscribed handlers are still to get it.
LEMMA OrderedPublish ==
    ASSUME StreamTypes, Ordered, Publish
    PROVE  Ordered'
<1>1. /\ published' = published + 1 /\ published \in Nat /\ targets = {}
      /\ targets' = {c \in Call : Subscribed(c)}
      /\ UNCHANGED <<run, calls, received, handler, queue, wire>>
  BY DEF Publish, StreamTypes, client, grpc
<1>2. ASSUME NEW c \in Call, Subscribed(c)
      PROVE  Given(c)' = Given(c)
  BY <1>1, <1>2 DEF Given
<1>3. ASSUME NEW c \in Call
      PROVE  InFlight(c)'
  <2>1. InFlight(c) /\ wire[c] \in Seq(Views)
    BY DEF Ordered, StreamTypes
  <2>2. \A k \in 1 .. Len(wire[c]) : wire[c][k] = wire[c][1] + k - 1 /\ wire[c][k] <= published'
    <3>1. \A k \in 1 .. Len(wire[c]) : wire[c][k] \in Nat
      <4>1. \A k \in 1 .. Len(wire[c]) : wire[c][k] \in Views
        BY <2>1
      <4>2. QED
        BY <4>1 DEF Views
    <3>2. \A k \in 1 .. Len(wire[c]) : wire[c][k] = wire[c][1] + k - 1 /\ wire[c][k] <= published
      BY <2>1 DEF InFlight
    <3>3. QED
      BY <1>1, <3>1, <3>2
  <2>3. c \in targets' => handler[c] = "streaming"
    BY <1>1 DEF Subscribed
  <2>4. QED
    BY <1>1, <1>2, <2>1, <2>2, <2>3 DEF InFlight, Subscribed
<1>4. Continues'
  <2>1. SUFFICES ASSUME received # <<>>
                 PROVE  Continues'
    BY <1>1 DEF Continues
  <2>2. received[Len(received)][2] \in Nat /\ Continues
    BY <2>1 DEF StreamTypes, Ordered, Views
  <2>3. calls > 0 /\ Subscribed(calls) => Given(calls)' = Given(calls)
    <3>1. calls > 0 => calls \in Call
      BY DEF StreamTypes, Call
    <3>2. QED
      BY <1>1, <1>2, <3>1 DEF Given
  <2>4. received[Len(received)][2] <= published'
    BY <1>1, <2>1, <2>2 DEF Continues
  <2>5. QED
    BY <1>1, <2>1, <2>2, <2>3, <2>4 DEF Continues, Subscribed, Given
<1>5. ViewsInOrder'
  BY <1>1 DEF Ordered, ViewsInOrder
<1>6. QED
  BY <1>3, <1>4, <1>5 DEF Ordered

\* A callback is called: the view in hand is the next one of its handler.
LEMMA OrderedCallBack ==
    ASSUME StreamTypes, Ordered, NEW c \in Call, CallBack(c)
    PROVE  Ordered'
<1> DEFINE old == queue[c]
           new == queue'[c]
           sent == wire[c]
<1>1. /\ UNCHANGED <<published, run, calls, received, handler, wire>> /\ published \in Nat
      /\ published \in Views /\ Subscribed(c)
      /\ new = Append(old, published)
      /\ \A d \in Call : d # c => queue'[d] = queue[d] /\ (d \in targets' <=> d \in targets)
      /\ c \in targets /\ c \notin targets'
  BY StreamAssumption DEF CallBack, StreamTypes, Views, client, grpc
<1>2. /\ Given(c) = published - 1 /\ Given(c)' = published
      /\ \A d \in Call : d # c => Given(d)' = Given(d)
  BY <1>1 DEF Given
<1>3. /\ Len(new) = Len(old) + 1 /\ Len(old) \in Nat /\ Len(sent) \in Nat
      /\ new[Len(old) + 1] = published
      /\ \A k \in 1 .. Len(old) : new[k] = old[k]
  <2>1. old \in Seq(Views) /\ sent \in Seq(Views)
    BY DEF StreamTypes
  <2>2. QED
    BY <1>1, <2>1
<1>4. Given(c)' - Len(new) = Given(c) - Len(old) /\ Len(new) \in Nat
  BY <1>1, <1>2, <1>3
<1>5. ASSUME NEW d \in Call
      PROVE  InFlight(d)'
  <2>1. InFlight(d)
    BY DEF Ordered
  <2>2. CASE d = c
    <3>1. /\ \A k \in 1 .. Len(old) : old[k] = Given(c) - Len(old) + k
          /\ \A k \in 1 .. Len(sent) : sent[k] = Given(c) - Len(old) - Len(sent) + k
      BY <1>1, <2>1, <2>2 DEF InFlight
    <3>2. ASSUME NEW k \in 1 .. Len(new)
          PROVE  new[k] = published - Len(new) + k
      <4> HIDE DEF old, new, sent
      <4>1. CASE k \in 1 .. Len(old)
        BY <1>2, <1>3, <1>4, <3>1, <4>1
      <4>2. CASE k = Len(old) + 1
        <5>1. published - Len(new) + k = published
          BY <1>1, <1>3, <4>2
        <5>2. QED
          BY <1>3, <4>2, <5>1
      <4>3. QED
        BY <1>3, <4>1, <4>2
    <3>3. \A k \in 1 .. Len(sent) : sent[k] = published - Len(new) - Len(sent) + k
      <4> HIDE DEF old, new, sent
      <4>1. published - Len(new) = Given(c) - Len(old)
        BY <1>2, <1>4
      <4>2. QED
        BY <3>1, <4>1
    <3>4. Subscribed(d)' /\ Given(d)' = published /\ handler[d] = "streaming"
      BY <1>1, <1>2, <2>2 DEF Subscribed
    <3>5. QED
      BY <1>1, <2>1, <2>2, <3>2, <3>3, <3>4 DEF InFlight
  <2>3. CASE d # c
    BY <1>1, <1>2, <2>1, <2>3 DEF InFlight, Subscribed
  <2>4. QED
    BY <2>2, <2>3
<1>6. Continues'
  <2>1. SUFFICES ASSUME received # <<>>
                 PROVE  Continues'
    BY <1>1 DEF Continues
  <2>2. received[Len(received)][2] \in Nat /\ Continues
    BY <2>1 DEF StreamTypes, Ordered, Views
  <2>3. ASSUME calls > 0, Subscribed(calls)
        PROVE  Given(calls)' - Len(queue'[calls]) = Given(calls) - Len(queue[calls])
    <3>1. calls \in Call
      BY <2>3 DEF StreamTypes, Call
    <3>2. QED
      BY <1>1, <1>2, <1>4, <3>1
  <2>4. QED
    BY <1>1, <2>1, <2>2, <2>3 DEF Continues, Subscribed
<1>7. ViewsInOrder'
  BY <1>1 DEF Ordered, ViewsInOrder
<1>8. QED
  BY <1>5, <1>6, <1>7 DEF Ordered

\* A late callback gives nothing to a subscribed handler; it may end them all.
LEMMA OrderedCallBackLate ==
    ASSUME StreamTypes, Ordered, NEW c \in Call, CallBackLate(c)
    PROVE  Ordered'
<1>1. /\ UNCHANGED <<published, run, calls, received, queue, wire>>
      /\ targets' = targets \ {c} /\ ~Subscribed(c)
      /\ handler' \in [Call -> {"none", "start", "streaming", "returned"}]
      /\ \A d \in Call : handler'[d] = handler[d]
                           \/ (handler[d] # "none" /\ handler'[d] = "returned")
  BY DEF CallBackLate, Die, StreamTypes, client, program
<1>2. ASSUME NEW d \in Call
      PROVE  InFlight(d)'
  <2>1. InFlight(d)
    BY DEF Ordered
  <2>2. CASE handler'[d] = handler[d]
    <3>1. Subscribed(d)' => Subscribed(d) /\ Given(d)' = Given(d)
      BY <1>1, <2>2 DEF Subscribed, Given
    <3>2. QED
      BY <1>1, <2>1, <2>2, <3>1 DEF InFlight
  <2>3. CASE handler[d] # "none" /\ handler'[d] = "returned"
    BY <1>1, <2>1, <2>3 DEF InFlight, Subscribed
  <2>4. QED
    BY <1>1, <2>2, <2>3
<1>3. Continues'
  <2>1. SUFFICES ASSUME received # <<>>
                 PROVE  Continues'
    BY <1>1 DEF Continues
  <2>2. received[Len(received)][1] \in Call /\ Continues
    BY <2>1 DEF StreamTypes, Ordered
  <2>3. handler'[received[Len(received)][1]] \in {"streaming", "returned"}
    BY <1>1, <2>1, <2>2 DEF Continues
  <2>4. calls > 0 /\ Subscribed(calls)' => Subscribed(calls) /\ Given(calls)' = Given(calls)
    BY <1>1 DEF Subscribed, Given, StreamTypes, Call
  <2>5. QED
    BY <1>1, <2>1, <2>2, <2>3, <2>4 DEF Continues, Subscribed
<1>4. ViewsInOrder'
  BY <1>1 DEF Ordered, ViewsInOrder
<1>5. QED
  BY <1>2, <1>3, <1>4 DEF Ordered

\* A handler takes the next view from its queue, and writes it or returns.
LEMMA OrderedWrite ==
    ASSUME StreamTypes, Ordered, NEW c \in Call, Write(c)
    PROVE  Ordered'
<1> DEFINE old == queue[c]
           rest == queue'[c]
           sent == wire[c]
           out == wire'[c]
           given == Given(c)
<1>1. /\ UNCHANGED <<published, targets, calls, received, run>> /\ published \in Nat /\ calls \in Nat
      /\ old \in Seq(Views) /\ old # <<>> /\ sent \in Seq(Views) /\ Subscribed(c)
      /\ queue' \in [Call -> Seq(Views)] /\ queue'[c] = Tail(old)
      /\ \A d \in Call : d # c => queue'[d] = queue[d]
      /\ given \in Int /\ given <= published /\ \A d \in Call : Given(d)' = Given(d)
  BY DEF Write, StreamTypes, Subscribed, Given, client, engineState
<1>2. /\ Len(rest) = Len(old) - 1 /\ Len(rest) \in Nat
      /\ Len(old) \in Nat /\ Len(old) > 0 /\ Len(sent) \in Nat
      /\ \A k \in 1 .. Len(rest) : rest[k] = old[k + 1] /\ k + 1 \in 1 .. Len(old)
      /\ Head(old) = old[1] /\ 1 \in 1 .. Len(old) /\ old[1] \in Views
  BY <1>1
<1>3. /\ \A k \in 1 .. Len(old) : old[k] = given - Len(old) + k
      /\ \A k \in 1 .. Len(sent) : sent[k] = given - Len(old) - Len(sent) + k
  BY <1>1 DEF Ordered, InFlight
<1> HIDE DEF old, rest, sent, out, given
<1>4. CASE rpc[c] = "open"
  <2>1. UNCHANGED handler /\ \A d \in Call : d # c => wire'[d] = wire[d]
    BY <1>4 DEF Write, StreamTypes
  <2>2. out = Append(sent, old[1])
    BY <1>2, <1>4 DEF Write, StreamTypes, old, sent, out
  <2>3. /\ Len(out) = Len(sent) + 1 /\ Len(out) \in Nat
        /\ out[Len(sent) + 1] = old[1]
        /\ \A k \in 1 .. Len(sent) : out[k] = sent[k]
    BY <1>1, <1>2, <2>2
  <2>4. given - Len(rest) - Len(out) = given - Len(old) - Len(sent)
    BY <1>1, <1>2, <2>3
  <2>5. ASSUME NEW k \in 1 .. Len(out)
        PROVE  out[k] = given - Len(rest) - Len(out) + k
    <3>1. k \in 1 .. Len(sent) \/ k = Len(sent) + 1
      BY <1>2, <2>3
    <3>2. CASE k \in 1 .. Len(sent)
      <4>1. out[k] = given - Len(old) - Len(sent) + k
        BY <1>3, <2>3, <3>2
      <4>2. QED
        BY <2>4, <4>1
    <3>3. CASE k = Len(sent) + 1
      <4>1. out[k] = old[1]
        BY <2>3, <3>3
      <4>2. old[1] = given - Len(old) + 1
        BY <1>2, <1>3
      <4>3. given - Len(old) - Len(sent) + k = given - Len(old) + 1
        BY <1>1, <1>2, <3>3
      <4>4. QED
        BY <2>4, <4>1, <4>2, <4>3
    <3>4. QED
      BY <3>1, <3>2, <3>3
  <2>6. \A k \in 1 .. Len(out) :
            out[k] = out[1] + k - 1 /\ out[k] <= published
    <3>1. 1 \in 1 .. Len(out) /\ Len(out) \in Nat /\ Len(rest) \in Nat
      BY <1>2, <2>3
    <3>2. out[1] = given - Len(rest) - Len(out) + 1
      BY <2>5, <3>1
    <3>3. QED
      BY <1>1, <2>5, <3>1, <3>2
  <2>7. \A k \in 1 .. Len(rest) : rest[k] = given - Len(rest) + k
    BY <1>1, <1>2, <1>3
  <2>8. ASSUME NEW d \in Call
        PROVE  InFlight(d)'
    <3>1. CASE d = c
      <4>1. InFlight(c) /\ handler[c] = "streaming" /\ handler'[c] = "streaming"
        BY <1>1, <2>1 DEF Ordered, Subscribed
      <4>2. /\ \A k \in 1 .. Len(wire'[c]) :
                   wire'[c][k] = wire'[c][1] + k - 1 /\ wire'[c][k] <= published'
            /\ \A k \in 1 .. Len(queue'[c]) : queue'[c][k] = Given(c)' - Len(queue'[c]) + k
            /\ \A k \in 1 .. Len(wire'[c]) :
                   wire'[c][k] = Given(c)' - Len(queue'[c]) - Len(wire'[c]) + k
        BY <1>1, <2>5, <2>6, <2>7 DEF rest, out, given
      <4>3. QED
        BY <1>1, <3>1, <4>1, <4>2 DEF InFlight
    <3>2. CASE d # c
      <4>1. InFlight(d)
        BY DEF Ordered
      <4>2. QED
        BY <1>1, <2>1, <3>2, <4>1 DEF InFlight, Subscribed
    <3>3. QED
      BY <3>1, <3>2
  <2>9. Continues'
    <3>1. SUFFICES ASSUME received # <<>>
                   PROVE  Continues'
      BY <1>1 DEF Continues
    <3> DEFINE call == received[Len(received)][1]
               view == received[Len(received)][2]
    <3>2. call \in Call /\ view \in Nat /\ Continues
      BY <3>1 DEF StreamTypes, Ordered, Views
    <3>3. /\ call <= calls /\ view <= published
          /\ handler'[call] \in {"streaming", "returned"}
      BY <2>1, <3>1, <3>2 DEF Continues
    <3>4. CASE c # calls
      <4>1. calls > 0 => calls \in Call
        BY DEF StreamTypes, Call
      <4>2. calls > 0 => wire'[calls] = wire[calls] /\ queue'[calls] = queue[calls]
        BY <1>1, <2>1, <3>4, <4>1
      <4>3. QED
        BY <1>1, <2>1, <3>1, <3>2, <3>3, <4>1, <4>2 DEF Continues, Subscribed
    <3>5. CASE c = calls
      <4>1. /\ view <= given - Len(old) - Len(sent)
            /\ call = calls => view = given - Len(old) - Len(sent)
        <5>1. calls > 0 /\ Subscribed(calls)
          BY <1>1, <3>5 DEF Call
        <5>2. QED
          BY <3>1, <3>2, <3>5, <5>1 DEF Continues, old, sent, given
      <4>2. out[1] = given - Len(old) - Len(sent) + 1
        <5>1. 1 \in 1 .. Len(out)
          BY <1>2, <2>3
        <5>2. QED
          BY <2>4, <2>5, <5>1
      <4>3. /\ out[1] > view
            /\ call = calls => out[1] = view + 1
        <5>1. given - Len(old) - Len(sent) \in Int
          BY <1>1, <1>2
        <5>2. QED
          BY <3>2, <4>1, <4>2, <5>1
      <4>4. /\ view <= given - Len(rest) - Len(out)
            /\ call = calls => view = given - Len(rest) - Len(out)
        BY <2>4, <4>1
      <4>5. QED
        BY <1>1, <3>1, <3>3, <3>5, <4>3, <4>4 DEF Continues, Subscribed, rest, out, given
    <3>6. QED
      BY <3>4, <3>5
  <2>10. ViewsInOrder'
    BY <1>1 DEF Ordered, ViewsInOrder
  <2>11. QED
    BY <2>8, <2>9, <2>10 DEF Ordered
<1>5. CASE rpc[c] # "open"
  <2>1. /\ UNCHANGED wire /\ handler' \in [Call -> {"none", "start", "streaming", "returned"}]
        /\ handler'[c] = "returned" /\ \A d \in Call : d # c => handler'[d] = handler[d]
    BY <1>5 DEF Write, Return, StreamTypes
  <2>2. ASSUME NEW d \in Call
        PROVE  InFlight(d)'
    <3>1. InFlight(d)
      BY DEF Ordered
    <3>2. CASE d = c
      BY <1>1, <2>1, <3>1, <3>2 DEF InFlight, Subscribed
    <3>3. CASE d # c
      BY <1>1, <2>1, <3>1, <3>3 DEF InFlight, Subscribed
    <3>4. QED
      BY <3>2, <3>3
  <2>3. Continues'
    <3>1. SUFFICES ASSUME received # <<>>
                   PROVE  Continues'
      BY <1>1 DEF Continues
    <3>2. received[Len(received)][1] \in Call /\ Continues
      BY <3>1 DEF StreamTypes, Ordered
    <3>3. handler'[received[Len(received)][1]] \in {"streaming", "returned"}
      BY <2>1, <3>1, <3>2 DEF Continues
    <3>4. calls > 0 => calls \in Call
      BY DEF StreamTypes, Call
    <3>5. QED
      BY <1>1, <2>1, <3>1, <3>2, <3>3, <3>4 DEF Continues, Subscribed
  <2>4. ViewsInOrder'
    BY <1>1 DEF Ordered, ViewsInOrder
  <2>5. QED
    BY <2>2, <2>3, <2>4 DEF Ordered
<1>6. QED
  BY <1>4, <1>5

\* Every step keeps the order.
LEMMA OrderedStep ==
    ASSUME StreamTypes, OneCall, Ordered, [Next]_vars
    PROVE  Ordered'
<1>1. CASE Connect \/ TestRunning \/ Unregister \/ Finish \/ Again
           \/ Start \/ StopFlag \/ Owner
  <2>1. UNCHANGED streams /\ (run' = "call" => run = "call")
    BY <1>1 DEF Connect, TestRunning, Unregister, Finish, Again, Start, StopFlag, Owner, Cancel,
       JoinRun, streams, service, engineState, grpc
  <2>2. QED
    BY <2>1, OrderedFrame
<1>2. CASE (\E c \in Call : Break(c)) \/ Main \/ SignalArrives \/ UNCHANGED vars
  <2>1. UNCHANGED streams /\ UNCHANGED run
    BY <1>2 DEF Break, Main, SignalArrives, vars, streams, client, service, engineState, grpc
  <2>2. QED
    BY <2>1, OrderedFrame
<1>3. ASSUME NEW c \in Call, Handler(c)
      PROVE  Ordered'
  BY <1>3, OrderedHandler, OrderedWrite DEF Handler
<1>4. QED
  BY <1>1, <1>2, <1>3, OrderedRegister, OrderedMakeCall, OrderedRead, OrderedPublish,
     OrderedCallBack, OrderedCallBackLate DEF Next, Run, Publisher

(***************************************************************************)
(* The theorems.                                                           *)
(***************************************************************************)

\* The invariants hold together.
LEMMA StreamInvariant == Spec => [](StreamTypes /\ OneCall /\ ServerFirst /\ Ordered)
<1> DEFINE I == StreamTypes /\ OneCall /\ ServerFirst /\ Ordered
<1>1. Init => I
  <2>1. SUFFICES ASSUME Init
                 PROVE  I
    OBVIOUS
  <2>2. <<>> \in Seq(Views) /\ <<>> \in Seq(Call \X Views) /\ Len(<<>>) = 0
    OBVIOUS
  <2>3. 0 \in 0 .. MaxViews /\ 0 \in 0 .. MaxCalls
    BY StreamAssumption
  <2>4. StreamTypes
    BY <2>1, <2>2, <2>3 DEF Init, StreamTypes
  <2>5. OneCall
    BY <2>1 DEF Init, OneCall, Calling
  <2>6. ServerFirst
    BY <2>1 DEF Init, ProgramInit, ServerFirst
  <2>7. \A c \in Call : InFlight(c)
    BY <2>1, <2>2 DEF Init, InFlight, Subscribed
  <2>8. Continues /\ ViewsInOrder
    BY <2>1, <2>2 DEF Init, Continues, ViewsInOrder
  <2>9. QED
    BY <2>4, <2>5, <2>6, <2>7, <2>8 DEF Ordered
<1>2. I /\ [Next]_vars => I'
  <2>1. SUFFICES ASSUME I, [Next]_vars
                 PROVE  I'
    OBVIOUS
  <2>2. CASE UNCHANGED vars
    <3>1. StreamTypes' /\ OneCall'
      BY <2>1, <2>2 DEF vars, client, service, engineState, grpc, StreamTypes, OneCall
    <3>2. QED
      BY <2>1, <3>1, ServerFirstStep, OrderedStep
  <2>3. CASE Next
    <3>1. StreamTypes' /\ OneCall'
      BY <2>1, <2>3, ClientTypes, ServerTypes, ClientOneCall, ServerOneCall DEF Next
    <3>2. QED
      BY <2>1, <3>1, ServerFirstStep, OrderedStep
  <2>4. QED
    BY <2>1, <2>2, <2>3
<1>3. QED
  BY <1>1, <1>2, PTL DEF Spec

\* Across reconnects no older view follows a newer one, and within a call no
\* view is missing, however often the link breaks.
THEOREM ViewsComeInOrder == Spec => []ViewsInOrder
<1>1. Ordered => ViewsInOrder
  BY DEF Ordered
<1>2. QED
  BY <1>1, StreamInvariant, PTL

\* When stop() has returned, the callback runs no more and no call is open.
THEOREM StoppedForGood == Spec => []StopIsFinal
<1>1. OneCall => StopIsFinal
  BY DEF OneCall, StopIsFinal, Calling
<1>2. QED
  BY <1>1, StreamInvariant, PTL

\* The engine is stopped only after the last handler that refers to it.
THEOREM HandlersGoFirst == Spec => []EngineOutlivesHandlers
<1>1. ServerFirst => EngineOutlivesHandlers
  BY DEF ServerFirst, EngineOutlivesHandlers, Ended, Serving
<1>2. QED
  BY <1>1, StreamInvariant, PTL

-----------------------------------------------------------------------------
(***************************************************************************)
(* collectFeedHosts: the hosts of any list of feeds.                       *)
(***************************************************************************)

LessThan == {ss \in Nat \X Nat : ss[1] < ss[2]}

\* A set of naturals that is not empty has a least element.
LEMMA LeastNumber ==
    ASSUME NEW T \in SUBSET Nat, T # {}
    PROVE  \E x \in T : \A y \in T : x <= y
<1>1. IsWellFoundedOn(LessThan, Nat)
  BY NatLessThanWellFounded DEF OpToRel, LessThan
<1>2. PICK x \in T : \A y \in T : <<y, x>> \notin LessThan
  BY <1>1, WFMin
<1>3. ASSUME NEW y \in T, y < x PROVE FALSE
  <2>1. <<y, x>> \in Nat \X Nat /\ <<y, x>>[1] < <<y, x>>[2]
    BY <1>3
  <2>2. <<y, x>> \in LessThan
    BY <2>1 DEF LessThan
  <2>3. QED
    BY <2>2, <1>2
<1>4. QED
  BY <1>3

\* A set that holds 0 and the successor of every element is all of Nat.
LEMMA AllNaturals ==
    ASSUME NEW T \in SUBSET Nat, 0 \in T, \A n \in T : n + 1 \in T
    PROVE  T = Nat
<1>1. SUFFICES ASSUME Nat \ T # {} PROVE FALSE
  OBVIOUS
<1>2. PICK x \in Nat \ T : \A y \in Nat \ T : x <= y
  BY <1>1, LeastNumber
<1>3. x # 0 /\ x - 1 \in Nat /\ x - 1 \in T
  BY <1>2
<1>4. QED
  BY <1>2, <1>3

\* The greatest of some indices.
LEMMA GreatestIndex ==
    ASSUME NEW n \in Nat, NEW s \in SUBSET (1 .. n), s # {}
    PROVE  Max(s) \in s /\ \A x \in s : x <= Max(s)
<1> DEFINE above == {u \in Nat : \A x \in s : x <= u}
<1>1. n \in above
  OBVIOUS
<1>2. PICK u \in above : \A v \in above : u <= v
  <2> HIDE DEF above
  <2>1. above \in SUBSET Nat
    BY DEF above
  <2>2. QED
    BY <1>1, <2>1, LeastNumber
<1>3. u \in s
  <2>1. SUFFICES ASSUME u \notin s PROVE FALSE
    OBVIOUS
  <2>2. \A x \in s : x \in Nat /\ x > 0 /\ x <= u /\ x # u
    BY <1>2, <2>1
  <2>3. u \in Nat /\ u > 0
    <3>1. PICK x \in s : TRUE
      OBVIOUS
    <3>2. QED
      BY <1>2, <2>2, <3>1
  <2>4. \A x \in s : x <= u - 1
    BY <2>2, <2>3
  <2>5. u - 1 \in above
    BY <2>3, <2>4
  <2>6. QED
    BY <1>2, <2>3, <2>5
<1>4. \A x \in s : x <= u
  BY <1>2
<1>5. \A x \in s : x \in Int
  OBVIOUS
<1>6. QED
  BY <1>3, <1>4, <1>5 DEF Max

\* The body of the loop.
Collect(found, feed) ==
    IF feed.url = NoHost \/ Contains(found, feed.url)
    THEN found ELSE Append(found, feed.url)

\* A function that holds the hosts found in every set of feeds, taken in order.
Collects(it, feeds, S) ==
    it = [s \in SUBSET S |-> IF s = {} THEN <<>>
                             ELSE Collect(it[s \ {Max(s)}], feeds[Max(s)])]

\* The recursion of the loop has a solution: one exists up to every cardinality.
LEMMA CollectsExist ==
    ASSUME NEW n \in Nat, NEW feeds
    PROVE  \E it : Collects(it, feeds, 1 .. n)
<1> DEFINE S == 1 .. n
           Small(k) == {s \in SUBSET S : Cardinality(s) <= k}
           Solves(it, k) ==
               it = [s \in Small(k) |-> IF s = {} THEN <<>>
                                        ELSE Collect(it[s \ {Max(s)}], feeds[Max(s)])]
           N == {k \in Nat : \E it : Solves(it, k)}
<1>0. IsFiniteSet(S)
  BY FS_Interval
<1>1. \A s \in SUBSET S : IsFiniteSet(s) /\ Cardinality(s) \in Nat
  <2> HIDE DEF S
  <2> QED
    BY <1>0, FS_Subset, FS_CardinalityType
<1>2. 0 \in N
  <2>1. \A s \in Small(0) : s = {}
    BY <1>1, FS_EmptySet
  <2>2. Solves([s \in Small(0) |-> <<>>], 0)
    BY <2>1
  <2>3. QED
    BY <2>2
<1>3. ASSUME NEW k \in N PROVE k + 1 \in N
  <2>1. PICK it : Solves(it, k)
    OBVIOUS
  <2> DEFINE next == [s \in Small(k + 1) |-> IF s = {} THEN <<>>
                        ELSE Collect(it[s \ {Max(s)}], feeds[Max(s)])]
  <2>2. ASSUME NEW s \in Small(k + 1), s # {} PROVE s \ {Max(s)} \in Small(k)
    <3>1. Max(s) \in s
      BY <2>2, GreatestIndex
    <3>2. Cardinality(s \ {Max(s)}) = Cardinality(s) - 1
      BY <1>1, <3>1, FS_RemoveElement
    <3>3. k \in Nat /\ Cardinality(s) \in Nat /\ Cardinality(s) <= k + 1
      BY <1>1
    <3>4. Cardinality(s \ {Max(s)}) <= k
      BY <3>2, <3>3
    <3>5. QED
      BY <3>4
  <2>3. \A s \in Small(k) : s \in Small(k + 1) /\ next[s] = it[s]
    <3>1. \A s \in Small(k) : s \in Small(k + 1)
      BY <1>1
    <3>2. \A s \in Small(k) :
              it[s] = IF s = {} THEN <<>> ELSE Collect(it[s \ {Max(s)}], feeds[Max(s)])
      BY <2>1
    <3> HIDE DEF Small
    <3>3. QED
      BY <3>1, <3>2
  <2>4. next = [s \in Small(k + 1) |-> IF s = {} THEN <<>>
                  ELSE Collect(next[s \ {Max(s)}], feeds[Max(s)])]
    <3>1. ASSUME NEW s \in Small(k + 1), s # {}
          PROVE  next[s \ {Max(s)}] = it[s \ {Max(s)}]
      BY <2>2, <2>3, <3>1
    <3> HIDE DEF Small
    <3>2. QED
      BY <3>1
  <2>5. \E f : Solves(f, k + 1)
    <3> HIDE DEF next
    <3> QED
      BY <2>4
  <2>6. QED
    <3> HIDE DEF Solves
    <3> QED
      BY <2>5
<1>4. N = Nat
  <2> N \in SUBSET Nat
    OBVIOUS
  <2> HIDE DEF N
  <2> QED
    BY <1>2, <1>3, AllNaturals
<1>5. Cardinality(S) \in Nat
  BY <1>1
<1>6. PICK it : Solves(it, Cardinality(S))
  BY <1>4, <1>5
<1>7. Small(Cardinality(S)) = SUBSET S
  <2> HIDE DEF S
  <2> QED
    BY <1>0, FS_Subset
<1>8. QED
  BY <1>6, <1>7 DEF Collects

\* One feed more: what is found stays, and a host that is named is there.
LEMMA CollectEffect ==
    ASSUME NEW U, NEW found \in Seq(U), NoHost \notin Range(found),
           NEW feed, feed.url \in U
    PROVE  /\ Collect(found, feed) \in Seq(U)
           /\ NoHost \notin Range(Collect(found, feed))
           /\ Range(found) \subseteq Range(Collect(found, feed))
           /\ feed.url \in {NoHost} \cup Range(Collect(found, feed))
<1>1. CASE feed.url = NoHost
  BY <1>1 DEF Collect
<1>2. CASE feed.url # NoHost /\ Contains(found, feed.url)
  <2>1. feed.url \in Range(found)
    BY <1>2 DEF Contains, Range
  <2>2. Collect(found, feed) = found
    BY <1>2 DEF Collect
  <2>3. QED
    BY <2>1, <2>2
<1>3. CASE feed.url # NoHost /\ ~Contains(found, feed.url)
  <2> DEFINE more == Append(found, feed.url)
  <2>1. Collect(found, feed) = more
    BY <1>3 DEF Collect
  <2>2. /\ more \in Seq(U) /\ DOMAIN found = 1 .. Len(found)
        /\ DOMAIN more = 1 .. Len(found) + 1 /\ more[Len(found) + 1] = feed.url
        /\ \A k \in 1 .. Len(found) : more[k] = found[k]
        /\ Len(found) \in Nat
    OBVIOUS
  <2> HIDE DEF more
  <2>3. Range(more) = Range(found) \cup {feed.url}
    <3>1. \A k \in DOMAIN more : k \in DOMAIN found \/ k = Len(found) + 1
      BY <2>2
    <3>2. \A k \in DOMAIN found : k \in DOMAIN more /\ more[k] = found[k]
      BY <2>2
    <3>3. Len(found) + 1 \in DOMAIN more
      BY <2>2
    <3>4. QED
      BY <2>2, <3>1, <3>2, <3>3 DEF Range
  <2>4. QED
    BY <1>3, <2>1, <2>2, <2>3
<1>4. QED
  BY <1>1, <1>2, <1>3

\* Every host a list of feeds names is collected, and no feed without a host.
LEMMA HostsAreCollected ==
    ASSUME NEW feeds, NEW n \in Nat, DOMAIN feeds = 1 .. n
    PROVE  /\ CollectFeedHosts(feeds) \in Seq({feeds[k].url : k \in 1 .. n})
           /\ NoHost \notin Range(CollectFeedHosts(feeds))
           /\ \A k \in 1 .. n : feeds[k].url \in {NoHost} \cup Range(CollectFeedHosts(feeds))
<1> DEFINE U == {feeds[k].url : k \in 1 .. n}
           it == CHOOSE f : Collects(f, feeds, 1 .. n)
           Good(k) == /\ it[1 .. k] \in Seq(U)
                      /\ NoHost \notin Range(it[1 .. k])
                      /\ \A j \in 1 .. k : feeds[j].url \in {NoHost} \cup Range(it[1 .. k])
           N == {k \in Nat : k <= n => Good(k)}
<1>1. CollectFeedHosts(feeds) = it[1 .. n]
  BY DEF CollectFeedHosts, FoldLeft, MapThenFoldSet, Collects, Collect
<1>2. Collects(it, feeds, 1 .. n)
  BY CollectsExist
<1>3. \A s \in SUBSET (1 .. n) :
         it[s] = IF s = {} THEN <<>> ELSE Collect(it[s \ {Max(s)}], feeds[Max(s)])
  <2> HIDE DEF it
  <2>1. QED
    BY <1>2, Zenon DEF Collects
<1> HIDE DEF it
<1>4. 0 \in N
  <2>1. it[1 .. 0] = <<>>
    <3>1. 1 .. 0 = {} /\ 1 .. 0 \in SUBSET (1 .. n)
      OBVIOUS
    <3>2. QED
      BY <1>3, <3>1
  <2>2. Range(<<>>) = {}
    BY DEF Range
  <2>3. Good(0)
    <3>1. <<>> \in Seq(U) /\ \A j \in 1 .. 0 : FALSE
      OBVIOUS
    <3> HIDE DEF U
    <3>2. QED
      BY <2>1, <2>2, <3>1
  <2>4. QED
    <3> HIDE DEF Good
    <3> QED
      BY <2>3
<1>5. ASSUME NEW k \in N PROVE k + 1 \in N
  <2>0. k \in Nat
    OBVIOUS
  <2>1. SUFFICES ASSUME k + 1 <= n PROVE Good(k + 1)
    OBVIOUS
  <2>2. Good(k)
    BY <2>1
  <2> DEFINE s == 1 .. k + 1
  <2>3. s \in SUBSET (1 .. n) /\ s # {} /\ k + 1 \in s /\ k + 1 \in 1 .. n
    <3>1. \A x \in 1 .. k + 1 : x \in 1 .. n
      BY <2>0, <2>1
    <3>2. k + 1 \in 1 .. k + 1
      BY <2>0
    <3>3. QED
      BY <3>1, <3>2
  <2>4. Max(s) = k + 1
    <3>1. Max(s) \in s /\ \A x \in s : x <= Max(s)
      BY <2>3, GreatestIndex
    <3>2. QED
      BY <2>3, <3>1
  <2>5. s \ {k + 1} = 1 .. k
    OBVIOUS
  <2>6. it[s] = Collect(it[1 .. k], feeds[k + 1])
    <3> HIDE DEF s
    <3> QED
      BY <1>3, <2>3, <2>4, <2>5
  <2>7. feeds[k + 1].url \in U
    BY <2>3
  <2> HIDE DEF U
  <2>8. /\ it[s] \in Seq(U) /\ NoHost \notin Range(it[s])
        /\ Range(it[1 .. k]) \subseteq Range(it[s])
        /\ feeds[k + 1].url \in {NoHost} \cup Range(it[s])
    BY <2>2, <2>6, <2>7, CollectEffect
  <2>9. \A j \in 1 .. k + 1 : j \in 1 .. k \/ j = k + 1
    OBVIOUS
  <2>10. QED
    BY <2>2, <2>8, <2>9
<1>6. N = Nat
  <2> N \in SUBSET Nat
    OBVIOUS
  <2> HIDE DEF N
  <2> QED
    BY <1>4, <1>5, AllNaturals
<1>7. Good(n)
  <2>1. n \in N
    BY <1>6
  <2> HIDE DEF Good
  <2>2. QED
    BY <2>1
<1>8. QED
  BY <1>1, <1>7

-----------------------------------------------------------------------------
(***************************************************************************)
(* No feed is dialled before its host: the wait of main().                 *)
(***************************************************************************)

Urls == {config.feeds[k].url : k \in 1 .. Len(config.feeds)}

\* main(), its configuration and its history are well-typed.
ProgramTypes ==
    /\ main \in Ended \cup Serving \cup {"load", "wait", "resolve", "retry", "found", "waited",
                                       "configure", "serve", "Shutdown", "stopEngine"}
    /\ g_running \in BOOLEAN /\ environment \in Environment
    /\ config \in {NoConfig} \cup {LoadAggregatorConfig(document) :
                                   document \in {d \in Document : ~Throws(d)}}
    /\ Len(config.feeds) \in Nat
    /\ hosts \in Seq(Urls) /\ NoHost \notin Range(hosts)
    /\ engine \in {"none", "running", "stopped"}
    /\ feeding \in 0 .. Len(config.feeds)
    /\ resolved \subseteq Urls

\* Every host of the configuration has been resolved or is still waited for,
\* and main() goes on to the feeds only when none is left.
Awaited ==
    /\ main = "load" => config = NoConfig /\ hosts = <<>> /\ resolved = {} /\ feeding = 0
    /\ \A k \in 1 .. Len(config.feeds) : config.feeds[k].url \in resolved \cup {NoHost} \cup Range(hosts)
    /\ main \in {"resolve", "retry", "found"} => hosts # <<>>
    /\ main = "found" => Head(hosts) \in resolved
    /\ main = "waited" /\ g_running => hosts = <<>>
    /\ main \in {"configure", "serve"} \cup Serving /\ ShouldWaitForFeeds(environment) => hosts = <<>>
    /\ feeding > 0 => main \in Serving

\* A configuration that was read: as many feeds as the document has.
LEMMA LoadedFeeds ==
    ASSUME NEW document \in Document, ~Throws(document)
    PROVE  LET feeds == LoadAggregatorConfig(document).feeds
           IN  Len(feeds) \in Nat /\ DOMAIN feeds = 1 .. Len(feeds)
<1> DEFINE n == Len(document.feeds)
           feeds == [k \in 1 .. n |-> FeedConfig(document.feeds[k])]
<1>1. n \in Nat
  BY DocumentAssumption DEF Throws
<1>2. LoadAggregatorConfig(document).feeds = feeds
  BY DEF LoadAggregatorConfig
<1>3. feeds \in Seq({FeedConfig(document.feeds[k]) : k \in 1 .. n})
  <2>1. feeds \in [1 .. n -> {FeedConfig(document.feeds[k]) : k \in 1 .. n}]
    OBVIOUS
  <2> HIDE DEF feeds
  <2>2. QED
    BY <1>1, <2>1
<1>4. Len(feeds) = n
  BY <1>1, <1>3
<1>5. QED
  BY <1>1, <1>2, <1>4

\* The configuration is read: all of its hosts are to be waited for.
LEMMA AwaitedLoad ==
    ASSUME ProgramTypes, Awaited, NEW document \in Document, LoadConfig(document)
    PROVE  ProgramTypes' /\ Awaited'
<1>1. CASE Throws(document)
  <2>1. main' = "failed" /\ UNCHANGED <<g_running, environment, config, hosts, engine, feeding, resolved>>
    BY <1>1 DEF LoadConfig
  <2>2. ProgramTypes'
    BY <2>1 DEF ProgramTypes, Urls, Ended
  <2>3. Awaited'
    BY <2>1 DEF Awaited, LoadConfig, Serving
  <2>4. QED
    BY <2>2, <2>3
<1>2. CASE ~Throws(document)
  <2> DEFINE feeds == config'.feeds
             n == Len(feeds)
  <2>1. /\ main = "load" /\ config' = LoadAggregatorConfig(document)
        /\ hosts' = CollectFeedHosts(feeds)
        /\ main' = IF ShouldWaitForFeeds(environment) THEN "wait" ELSE "configure"
        /\ UNCHANGED <<g_running, environment, engine, feeding, resolved>>
    BY <1>2 DEF LoadConfig
  <2>2. n \in Nat /\ DOMAIN feeds = 1 .. n
    BY <1>2, <2>1, LoadedFeeds
  <2>3. feeding = 0 /\ resolved = {}
    BY <2>1 DEF Awaited
  <2>4. /\ hosts' \in Seq(Urls') /\ NoHost \notin Range(hosts')
        /\ \A k \in 1 .. n : feeds[k].url \in {NoHost} \cup Range(hosts')
    <3> HIDE DEF feeds
    <3>1. /\ CollectFeedHosts(feeds) \in Seq({feeds[k].url : k \in 1 .. n})
          /\ NoHost \notin Range(CollectFeedHosts(feeds))
          /\ \A k \in 1 .. n : feeds[k].url \in {NoHost} \cup Range(CollectFeedHosts(feeds))
      BY <2>2, HostsAreCollected
    <3>2. QED
      BY <2>1, <3>1 DEF Urls, feeds
  <2>5. ProgramTypes'
    BY <1>2, <2>1, <2>2, <2>3, <2>4 DEF ProgramTypes
  <2>6. Awaited'
    BY <2>1, <2>3, <2>4 DEF Awaited, Serving
  <2>7. QED
    BY <2>5, <2>6
<1>3. QED
  BY <1>1, <1>2

\* The next host is resolved: it leaves the list for the history.
LEMMA AwaitedNext ==
    ASSUME ProgramTypes, Awaited, NextHost
    PROVE  ProgramTypes' /\ Awaited'
<1>1. UNCHANGED <<g_running, environment, config, engine, feeding, resolved>> /\ main = "found"
  BY DEF NextHost
<1>2. hosts \in Seq(Urls) /\ hosts # <<>> /\ Head(hosts) \in resolved
  BY <1>1 DEF ProgramTypes, Awaited
<1>3. CASE g_running
  <2>1. main' = "wait" /\ hosts' = Tail(hosts)
    BY <1>3 DEF NextHost
  <2>2. hosts' \in Seq(Urls)
    BY <1>2, <2>1
  <2>3. Range(hosts) = {Head(hosts)} \cup Range(hosts')
    <3>1. /\ DOMAIN hosts = 1 .. Len(hosts) /\ DOMAIN hosts' = 1 .. Len(hosts) - 1
          /\ Head(hosts) = hosts[1] /\ Len(hosts) \in Nat /\ Len(hosts) > 0
          /\ \A k \in 1 .. Len(hosts) - 1 : hosts'[k] = hosts[k + 1]
      BY <1>2, <2>1
    <3>2. \A k \in DOMAIN hosts : k = 1 \/ (k - 1 \in DOMAIN hosts' /\ hosts[k] = hosts'[k - 1])
      BY <3>1
    <3>3. 1 \in DOMAIN hosts /\ \A k \in DOMAIN hosts' : k + 1 \in DOMAIN hosts /\ hosts'[k] = hosts[k + 1]
      BY <3>1
    <3>4. QED
      BY <3>1, <3>2, <3>3 DEF Range
  <2>4. ProgramTypes'
    <3>1. Urls' = Urls
      BY <1>1 DEF Urls
    <3>2. QED
      BY <1>1, <2>1, <2>2, <2>3, <3>1 DEF ProgramTypes
  <2>5. Awaited'
    BY <1>1, <1>2, <2>1, <2>3 DEF Awaited, Serving
  <2>6. QED
    BY <2>4, <2>5
<1>4. CASE ~g_running
  <2>1. main' = "waited" /\ UNCHANGED hosts
    BY <1>4 DEF NextHost
  <2>2. QED
    BY <1>1, <1>4, <2>1 DEF ProgramTypes, Urls, Awaited, Serving
<1>5. QED
  BY <1>3, <1>4 DEF ProgramTypes

\* The resolver answers for the first host.
LEMMA AwaitedResolve ==
    ASSUME ProgramTypes, Awaited, Resolve
    PROVE  ProgramTypes' /\ Awaited'
<1>1. /\ main = "resolve" /\ hosts # <<>> /\ hosts \in Seq(Urls)
      /\ UNCHANGED <<g_running, environment, config, hosts, engine, feeding>>
  BY DEF Resolve, Awaited, ProgramTypes
<1>2. Head(hosts) \in Urls
  BY <1>1
<1>3. /\ main' \in {"found", "retry"}
      /\ resolved \subseteq resolved' /\ resolved' \subseteq resolved \cup {Head(hosts)}
      /\ main' = "found" => Head(hosts) \in resolved'
  BY DEF Resolve
<1>4. ProgramTypes'
  <2>1. Urls' = Urls
    BY <1>1 DEF Urls
  <2>2. QED
    BY <1>1, <1>2, <1>3, <2>1 DEF ProgramTypes
<1>5. Awaited'
  BY <1>1, <1>3 DEF Awaited, Serving
<1>6. QED
  BY <1>4, <1>5

\* The steps of main() that leave the hosts alone.
LEMMA AwaitedMain ==
    ASSUME ProgramTypes, Awaited,
           \/ Attempt \/ Retry \/ AfterWait \/ StartEngine \/ BuildAndStart \/ StartFeed
           \/ LeaveLoop \/ StopFeeds \/ StopEngine(PublisherEnds) \/ Signal \/ Die
           \/ ShutdownReturn(\A c \in Call : handler[c] \in {"none", "returned"})
           \/ UNCHANGED program
    PROVE  ProgramTypes' /\ Awaited'
<1>1. UNCHANGED <<environment, config, hosts, resolved>>
  BY DEF Attempt, Retry, AfterWait, StartEngine, BuildAndStart, StartFeed, LeaveLoop,
     StopFeeds, StopEngine, Signal, Die, ShutdownReturn, program
<1>2. Urls' = Urls
  BY <1>1 DEF Urls
<1>3. ProgramTypes'
  <2>1. /\ main' \in Ended \cup Serving \cup {"load", "wait", "resolve", "retry", "found", "waited",
                                            "configure", "serve", "Shutdown", "stopEngine"}
        /\ g_running' \in BOOLEAN /\ engine' \in {"none", "running", "stopped"}
    BY DEF Attempt, Retry, AfterWait, StartEngine, BuildAndStart, StartFeed, LeaveLoop,
       StopFeeds, StopEngine, Signal, Die, ShutdownReturn, program, ProgramTypes, Ended, Serving
  <2>2. feeding' \in 0 .. Len(config.feeds)
    <3> DEFINE n == Len(config.feeds)
    <3>1. n \in Nat /\ feeding \in 0 .. n
      BY DEF ProgramTypes
    <3>2. CASE StartFeed
      <4>1. feeding' = feeding \/ (feeding < n /\ feeding' = feeding + 1)
        BY <3>2 DEF StartFeed
      <4> HIDE DEF n
      <4>2. feeding' \in 0 .. n
        BY <3>1, <4>1
      <4>3. QED
        BY <4>2 DEF n
    <3>3. CASE ~StartFeed
      <4>1. feeding' = feeding \/ feeding' = 0
        BY <3>3 DEF Attempt, Retry, AfterWait, StartEngine, BuildAndStart, LeaveLoop,
           StopFeeds, StopEngine, Signal, Die, ShutdownReturn, program
      <4> HIDE DEF n
      <4>2. feeding' \in 0 .. n
        BY <3>1, <4>1
      <4>3. QED
        BY <4>2 DEF n
    <3>4. QED
      BY <3>2, <3>3
  <2>3. QED
    BY <1>1, <1>2, <2>1, <2>2 DEF ProgramTypes
<1>4. Awaited'
  <2>1. main' = "load" => main = "load" /\ UNCHANGED feeding
    BY DEF Attempt, Retry, AfterWait, StartEngine, BuildAndStart, StartFeed, LeaveLoop,
       StopFeeds, StopEngine, Signal, Die, ShutdownReturn, program, Ended
  <2>2. main' \in {"resolve", "retry", "found"} => hosts # <<>>
    BY DEF Attempt, Retry, AfterWait, StartEngine, BuildAndStart, StartFeed, LeaveLoop,
       StopFeeds, StopEngine, Signal, Die, ShutdownReturn, program, Awaited
  <2>3. main' = "found" => main = "found"
    BY DEF Attempt, Retry, AfterWait, StartEngine, BuildAndStart, StartFeed, LeaveLoop,
       StopFeeds, StopEngine, Signal, Die, ShutdownReturn, program
  <2>4. main' = "waited" /\ g_running' => hosts = <<>>
    BY DEF Attempt, Retry, AfterWait, StartEngine, BuildAndStart, StartFeed, LeaveLoop,
       StopFeeds, StopEngine, Signal, Die, ShutdownReturn, program, Awaited
  <2>5. main' \in {"configure", "serve"} \cup Serving /\ ShouldWaitForFeeds(environment) => hosts = <<>>
    BY DEF Attempt, Retry, AfterWait, StartEngine, BuildAndStart, StartFeed, LeaveLoop,
       StopFeeds, StopEngine, Signal, Die, ShutdownReturn, program, Awaited, Serving
  <2>6. feeding' > 0 => main' \in Serving
    BY DEF Attempt, Retry, AfterWait, StartEngine, BuildAndStart, StartFeed, LeaveLoop,
       StopFeeds, StopEngine, Signal, Die, ShutdownReturn, program, Awaited, ProgramTypes, Serving,
       Ended
  <2>7. QED
    BY <1>1, <2>1, <2>2, <2>3, <2>4, <2>5, <2>6 DEF Awaited
<1>5. QED
  BY <1>3, <1>4

\* The rest of the system leaves main() and what it knows alone.
LEMMA ProgramInvariant == Spec => [](ProgramTypes /\ Awaited)
<1>1. Init => ProgramTypes /\ Awaited
  <2>1. SUFFICES ASSUME ProgramInit
                 PROVE  ProgramTypes /\ Awaited
    BY DEF Init
  <2>2. config = NoConfig /\ config.feeds = <<>> /\ Len(config.feeds) = 0 /\ hosts = <<>>
    BY <2>1 DEF ProgramInit, NoConfig
  <2>3. <<>> \in Seq(Urls) /\ Range(<<>>) = {}
    BY DEF Range
  <2>4. ProgramTypes
    BY <2>1, <2>2, <2>3 DEF ProgramInit, ProgramTypes
  <2>5. Awaited
    BY <2>1, <2>2 DEF ProgramInit, Awaited, Serving
  <2>6. QED
    BY <2>4, <2>5
<1>2. ProgramTypes /\ Awaited /\ [Next]_vars => (ProgramTypes /\ Awaited)'
  <2>1. SUFFICES ASSUME ProgramTypes, Awaited, [Next]_vars
                 PROVE  ProgramTypes' /\ Awaited'
    OBVIOUS
  <2>2. CASE Main
    BY <2>1, <2>2, AwaitedLoad, AwaitedNext, AwaitedResolve, AwaitedMain DEF Main, MainStep
  <2>3. CASE SignalArrives
    BY <2>1, <2>3, AwaitedMain DEF SignalArrives
  <2>4. CASE Run \/ Start \/ StopFlag \/ Owner \/ Publish \/ UNCHANGED vars
    <3>1. UNCHANGED program
      BY <2>4 DEF Run, Connect, Register, MakeCall, TestRunning, Read, Unregister, Finish, Again,
         Start, StopFlag, Owner, Cancel, JoinRun, Publish, service, vars
    <3>2. QED
      BY <2>1, <3>1, AwaitedMain
  <2>5. ASSUME NEW c \in Call, Handler(c) \/ Break(c)
        PROVE  ProgramTypes' /\ Awaited'
    <3>1. UNCHANGED program
      BY <2>5 DEF Handler, Admit, Write, Notice, Break, service
    <3>2. QED
      BY <2>1, <3>1, AwaitedMain
  <2>6. CASE Publisher
    <3>1. UNCHANGED program \/ Die
      BY <2>6 DEF Publisher, CallBack, CallBackLate
    <3>2. QED
      BY <2>1, <3>1, AwaitedMain
  <2>7. QED
    BY <2>1, <2>2, <2>3, <2>4, <2>5, <2>6 DEF Next
<1>3. QED
  BY <1>1, <1>2, PTL DEF Spec

\* The whole state is well-typed.
THEOREM TypeCorrect == Spec => []TypeOK
<1>1. StreamTypes /\ ProgramTypes => TypeOK
  BY DEF StreamTypes, ProgramTypes, TypeOK, Urls
<1>2. QED
  BY <1>1, StreamInvariant, ProgramInvariant, PTL

\* No feed is started before every host of the configuration has been
\* resolved, whatever the configuration and even when a signal interrupts
\* the wait.
THEOREM HostsBeforeFeeds == Spec => []DialsResolvedHosts
<1>1. ProgramTypes /\ Awaited => DialsResolvedHosts
  <2>1. SUFFICES ASSUME ProgramTypes, Awaited, feeding > 0, ShouldWaitForFeeds(environment),
                        NEW k \in 1 .. Len(config.feeds)
                 PROVE  config.feeds[k].url \in resolved \cup {NoHost}
    BY DEF DialsResolvedHosts
  <2>2. hosts = <<>>
    BY <2>1 DEF Awaited
  <2>3. Range(hosts) = {}
    BY <2>2 DEF Range
  <2>4. QED
    BY <2>1, <2>3 DEF Awaited
<1>2. QED
  BY <1>1, ProgramInvariant, PTL

=============================================================================
