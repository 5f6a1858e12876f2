----------------------------- MODULE BookStream -----------------------------
(***************************************************************************)
(* aggregator_service and one client of its gRPC stream: main()            *)
(* (AggregatorService), the handlers AggregatorGrpcService::StreamBooks    *)
(* (grpc_service.cpp) and BookStreamClient (book_stream_client.cpp).       *)
(*                                                                         *)
(* gRPC is external.  A call is "idle" while only its context exists, then *)
(* "open", until the server or the network ends it or the client cancels   *)
(* it.  A context cancelled before its call is made stays cancelled, and   *)
(* Finish waits for the end of the call.  Views are numbered as the engine *)
(* publishes them; AggregationEngine shows in which order that is.         *)
(***************************************************************************)
EXTENDS AggregatorService

CONSTANTS MaxViews,     \* bound: views published
          MaxCalls,     \* bound: calls the client makes
          ClientToken, ClientSymbol

ASSUME StreamAssumption == MaxViews \in Nat /\ MaxCalls \in Nat

Call == 1 .. MaxCalls
Views == 1 .. MaxViews

VARIABLES
    published,  \* views the engine has published
    handler,    \* StreamBooks, one per call
    queue,      \* the handler's local queue
    targets,    \* publish(): the handlers whose copied callback is not called yet
    blocked,    \* the publisher waits for a mutex that is no more
    rpc,        \* external: the state of each call
    wire,       \* external: views written and not read
    run,        \* pc of BookStreamClient::run()
    running,    \* running_
    active,     \* active_context_ # nullptr
    calls,      \* the number of contexts made; the last is the current one
    owner,      \* where the thread that calls start() and stop() is
    received    \* history: <<call, view>> for each callback

client == <<run, running, active, calls, owner, received>>
engineState == <<published, targets, blocked>>
service == <<program, engineState, handler, queue>>
grpc == <<rpc, wire>>
vars == <<client, service, grpc>>

TypeOK ==
    /\ main \in Ended \cup Serving \cup {"load", "wait", "resolve", "retry", "found", "waited",
                                       "configure", "serve", "Shutdown", "stopEngine"}
    /\ g_running \in BOOLEAN /\ environment \in Environment
    /\ config \in {NoConfig} \cup {LoadAggregatorConfig(document) :
                                   document \in {d \in Document : ~Throws(d)}}
    /\ Range(hosts) \cap {NoHost} = {} /\ engine \in {"none", "running", "stopped"}
    /\ feeding \in 0 .. Len(config.feeds)
    /\ resolved \subseteq {config.feeds[k].url : k \in 1 .. Len(config.feeds)}
    /\ published \in 0 .. MaxViews /\ targets \subseteq Call /\ blocked \in BOOLEAN
    /\ handler \in [Call -> {"none", "start", "streaming", "returned"}]
    /\ queue \in [Call -> Seq(Views)] /\ wire \in [Call -> Seq(Views)]
    /\ rpc \in [Call -> {"none", "idle", "open", "cancelled", "ended"}]
    /\ run \in {"check", "register", "call", "test", "read", "unregister", "finish", "again", "done"}
    /\ running \in BOOLEAN /\ active \in BOOLEAN
    /\ calls \in 0 .. MaxCalls
    /\ owner \in {"created", "started", "cancelling", "joining", "stopped"}
    /\ received \in Seq(Call \X Views)

Init ==
    /\ ProgramInit /\ published = 0 /\ targets = {} /\ blocked = FALSE
    /\ handler = [c \in Call |-> "none"]
    /\ queue = [c \in Call |-> <<>>] /\ wire = [c \in Call |-> <<>>]
    /\ rpc = [c \in Call |-> "none"]
    /\ run = "done" /\ running = FALSE /\ active = FALSE /\ calls = 0
    /\ owner = "created" /\ received = <<>>

-----------------------------------------------------------------------------
(* BookStreamClient::run().                                                *)

\* Line 68: the loop goes on while the client has not been stopped.
Connect ==
    /\ run = "check"
    /\ run' = IF running THEN "register" ELSE "done"
    /\ UNCHANGED <<running, active, calls, owner, received, service, grpc>>

\* Lines 70-84: no channel is retried, with one a context is made and registered.
Register ==
    /\ run = "register"
    /\ \/ run' = "check" /\ UNCHANGED <<active, calls, rpc>>
       \/ /\ calls < MaxCalls
          /\ calls' = calls + 1
          /\ rpc' = [rpc EXCEPT ![calls'] = "idle"]
          /\ active' = TRUE
          /\ run' = "call"
    /\ UNCHANGED <<running, owner, received, service, wire>>

\* Line 89: the call is made, unless it is refused or already cancelled.
MakeCall ==
    /\ run = "call"
    /\ run' = "test"
    /\ IF rpc[calls] = "idle" /\ main \in Serving
       THEN /\ rpc' = [rpc EXCEPT ![calls] = "open"]
            /\ handler' = [handler EXCEPT ![calls] = "start"]
       ELSE /\ rpc' = [rpc EXCEPT ![calls] = IF @ = "idle" THEN "ended" ELSE @]
            /\ UNCHANGED handler
    /\ UNCHANGED <<running, active, calls, owner, received, program, engineState, queue, wire>>

\* The left operand of the loop condition of line 91.
TestRunning ==
    /\ run = "test"
    /\ run' = IF running THEN "read" ELSE "unregister"
    /\ UNCHANGED <<running, active, calls, owner, received, service, grpc>>

\* The right operand: waits for a view, handed to the callback, or the end.
Read ==
    /\ run = "read"
    /\ \/ /\ wire[calls] # <<>> /\ rpc[calls] # "cancelled"
          /\ received' = Append(received, <<calls, Head(wire[calls])>>)
          /\ wire' = [wire EXCEPT ![calls] = Tail(@)]
          /\ run' = "test"
       \/ /\ rpc[calls] = "cancelled" \/ (rpc[calls] = "ended" /\ wire[calls] = <<>>)
          /\ run' = "unregister"
          /\ UNCHANGED <<received, wire>>
    /\ UNCHANGED <<running, active, calls, owner, service, rpc>>

Unregister ==
    /\ run = "unregister"
    /\ active' = FALSE
    /\ run' = "finish"
    /\ UNCHANGED <<running, calls, owner, received, service, grpc>>

Finish ==
    /\ run = "finish" /\ rpc[calls] \in {"cancelled", "ended"}
    /\ run' = "again"
    /\ UNCHANGED <<running, active, calls, owner, received, service, grpc>>

Again ==
    /\ run = "again"
    /\ run' = IF running THEN "check" ELSE "done"
    /\ UNCHANGED <<running, active, calls, owner, received, service, grpc>>

Run == Connect \/ Register \/ MakeCall \/ TestRunning \/ Read \/ Unregister \/ Finish \/ Again

-----------------------------------------------------------------------------
(* BookStreamClient::start() and stop().                                   *)

Start ==
    /\ owner = "created"
    /\ owner' = "started" /\ running' = TRUE /\ run' = "check"
    /\ UNCHANGED <<active, calls, received, service, grpc>>

StopFlag ==
    /\ owner = "started"
    /\ owner' = "cancelling" /\ running' = FALSE
    /\ UNCHANGED <<run, active, calls, received, service, grpc>>

\* cancelActiveContext(): TryCancel, if a context is registered right now.
Cancel ==
    /\ owner = "cancelling"
    /\ owner' = "joining"
    /\ rpc' = IF active /\ rpc[calls] \in {"idle", "open"}
              THEN [rpc EXCEPT ![calls] = "cancelled"]
              ELSE rpc
    /\ UNCHANGED <<run, running, active, calls, received, service, wire>>

\* Fault: stop() does not wait for the thread.
DetachRun ==
    /\ owner = "joining"
    /\ owner' = "stopped"
    /\ UNCHANGED <<run, running, active, calls, received, service, grpc>>

JoinRun ==
    /\ owner = "joining" /\ run = "done"
    /\ owner' = "stopped"
    /\ UNCHANGED <<run, running, active, calls, received, service, grpc>>

Owner == Cancel \/ JoinRun

-----------------------------------------------------------------------------
(* AggregatorGrpcService::StreamBooks, and the engine's publisher.         *)

\* A handler is subscribed as long as its SubscriptionGuard lives.
Subscribed(c) == handler[c] = "streaming"

Return(c) == handler' = [handler EXCEPT ![c] = "returned"]

\* AttachAuth() and authorize(); the client always names a symbol.
Accepted == config.auth_token \in {"", ClientToken} /\ config.symbol = ClientSymbol

\* Lines 38-53: a wrong token or symbol ends the call, else it subscribes.
Admit(c) ==
    /\ handler[c] = "start"
    /\ \/ Accepted /\ handler' = [handler EXCEPT ![c] = "streaming"] /\ UNCHANGED rpc
       \/ /\ ~Accepted /\ Return(c)
          /\ rpc' = [rpc EXCEPT ![c] = IF @ = "open" THEN "ended" ELSE @]
    /\ UNCHANGED <<client, program, engineState, queue, wire>>

\* Fault: the handler writes the newest view and forgets the others.
WriteNewest(c) ==
    /\ handler[c] = "streaming" /\ queue[c] # <<>>
    /\ queue' = [queue EXCEPT ![c] = <<>>]
    /\ IF rpc[c] = "open"
       THEN wire' = [wire EXCEPT ![c] = Append(@, queue[c][Len(queue[c])])] /\ UNCHANGED handler
       ELSE Return(c) /\ UNCHANGED wire
    /\ UNCHANGED <<client, program, engineState, rpc>>

\* Fault: after a timeout the snapshot popped before is written again.
WriteSnapshotAgain(c) ==
    /\ handler[c] = "streaming" /\ rpc[c] = "open"
    /\ wire' = [wire EXCEPT ![c] =
           Append(@, IF queue[c] = <<>> THEN published ELSE Head(queue[c]))]
    /\ queue' = [queue EXCEPT ![c] = IF @ = <<>> THEN @ ELSE Tail(@)]
    /\ UNCHANGED <<client, program, engineState, handler, rpc>>

\* Lines 57-66: the next view is written, or Write fails and the handler ends.
Write(c) ==
    /\ handler[c] = "streaming" /\ queue[c] # <<>>
    /\ queue' = [queue EXCEPT ![c] = Tail(@)]
    /\ IF rpc[c] = "open"
       THEN wire' = [wire EXCEPT ![c] = Append(@, Head(queue[c]))] /\ UNCHANGED handler
       ELSE Return(c) /\ UNCHANGED wire
    /\ UNCHANGED <<client, program, engineState, rpc>>

\* Lines 56-62: the handler polls IsCancelled; returning unsubscribes it.
Notice(c) ==
    /\ handler[c] = "streaming" /\ rpc[c] # "open"
    /\ Return(c)
    /\ UNCHANGED <<client, program, engineState, queue, grpc>>

Handler(c) == Admit(c) \/ Write(c) \/ Notice(c)

\* Lines 170-176 of aggregator.cpp: the callbacks are copied under the mutex.  The
\* first view needs a feed; queued ones are published after the feeds stop.
Publish ==
    /\ engine = "running" /\ config.feeds # <<>>
    /\ feeding > 0 \/ main \in {"stopFeeds", "Shutdown", "stopEngine"}
    /\ published < MaxViews /\ targets = {} /\ ~blocked
    /\ published' = published + 1
    /\ targets' = {c \in Call : Subscribed(c)}
    /\ UNCHANGED <<client, program, blocked, handler, queue, grpc>>

\* Lines 177-181, without the mutex: the handler's callback queues the view.
CallBack(c) ==
    /\ c \in targets /\ ~blocked /\ Subscribed(c)
    /\ targets' = targets \ {c}
    /\ queue' = [queue EXCEPT ![c] = Append(@, published)]
    /\ UNCHANGED <<client, program, published, blocked, handler, grpc>>

\* The process ends, and the calls it served with it.
Die ==
    /\ main' = "killed" /\ engine' = "none" /\ feeding' = 0
    /\ handler' = [c \in Call |-> IF handler[c] = "none" THEN "none" ELSE "returned"]
    /\ rpc' = [c \in Call |-> IF rpc[c] = "open" THEN "ended" ELSE rpc[c]]
    /\ UNCHANGED <<g_running, environment, config, hosts, resolved>>

(***************************************************************************)
(* The copied callback of a handler that has returned reads variables of a *)
(* frame that is gone (grpc_service.cpp, lines 45-52): undefined, so there *)
(* may be nothing to see of it, or the publisher blocks on what was the    *)
(* queue's mutex, or the process ends.                                     *)
(***************************************************************************)
CallBackLate(c) ==
    /\ c \in targets /\ ~blocked /\ ~Subscribed(c)
    /\ targets' = targets \ {c}
    /\ \/ blocked' \in BOOLEAN /\ UNCHANGED <<program, handler, rpc>>
       \/ Die /\ UNCHANGED blocked
    /\ UNCHANGED <<client, published, queue, wire>>

Publisher == \E c \in Call : CallBack(c) \/ CallBackLate(c)

\* The connection breaks.
Break(c) ==
    /\ rpc[c] = "open"
    /\ rpc' = [rpc EXCEPT ![c] = "ended"]
    /\ UNCHANGED <<client, service, wire>>

\* The engine's stop() joins the publisher (aggregator.cpp:93).
PublisherEnds == targets = {} /\ ~blocked

\* Fault: the handlers are not waited for.
MainNoWait ==
    /\ MainStep \/ ShutdownReturn(TRUE) \/ StopEngine(PublisherEnds)
    /\ UNCHANGED <<client, engineState, handler, queue, grpc>>

Main ==
    /\ \/ MainStep
       \/ ShutdownReturn(\A c \in Call : handler[c] \in {"none", "returned"})
       \/ StopEngine(PublisherEnds)
    /\ UNCHANGED <<client, engineState, handler, queue, grpc>>

SignalArrives == Signal /\ UNCHANGED <<client, engineState, handler, queue, grpc>>

-----------------------------------------------------------------------------

Next == \/ Run \/ Start \/ StopFlag \/ Owner
        \/ \E c \in Call : Handler(c) \/ Break(c)
        \/ Publish \/ Publisher \/ Main \/ SignalArrives

(***************************************************************************)
(* The client's thread, a stop() that began, the handlers, the callbacks   *)
(* and main() go on; a host need never be resolved.  Nothing makes the     *)
(* engine publish, the link break, the owner start or stop the client or a *)
(* signal arrive.                                                          *)
(***************************************************************************)
Fairness == /\ WF_vars(Run) /\ WF_vars(Owner) /\ WF_vars(Main) /\ WF_vars(Publisher)
            /\ \A c \in Call : WF_vars(Handler(c))

Spec == Init /\ [][Next]_vars /\ Fairness

(***************************************************************************)
(* Properties.                                                             *)
(***************************************************************************)

(***************************************************************************)
(* Across reconnects the callback never sees an older view, and within one *)
(* call it sees every view: run() finishes a call before it makes another, *)
(* and a handler is subscribed to nothing before its own call.             *)
(***************************************************************************)
ViewsInOrder ==
    \A k \in 2 .. Len(received) :
        LET last == received[k - 1]
            this == received[k]
        IN  /\ this[2] > last[2]
            /\ this[1] = last[1] => this[2] = last[2] + 1

(***************************************************************************)
(* When stop() has returned no callback runs any more and no call is left  *)
(* open: the callback's captures may be destroyed.                         *)
(***************************************************************************)
StopIsFinal ==
    owner = "stopped" => run = "done" /\ \A c \in Call : rpc[c] # "open"

\* A queued view reaches the callback unless its call or the client ends.
ViewsArrive ==
    \A c \in Call, v \in Views :
        (Subscribed(c) /\ \E k \in 1 .. Len(queue[c]) : queue[c][k] = v)
            ~> (\E k \in 1 .. Len(received) : received[k] = <<c, v>>) \/ rpc[c] # "open" \/ ~running

(***************************************************************************)
(* tests/services/test_book_stream_client.cpp calls stop() while the       *)
(* server is up and expects it to return.                                  *)
(***************************************************************************)
StopReturns == owner = "cancelling" ~> owner = "stopped"

(***************************************************************************)
(* "waits for feed hostnames in the config to resolve before dialing their *)
(* WebSockets" (README.md:106): no feed is started before every host has   *)
(* been resolved, even when a signal interrupts the wait.                  *)
(***************************************************************************)
DialsResolvedHosts ==
    feeding > 0 /\ ShouldWaitForFeeds(environment) =>
        \A k \in 1 .. Len(config.feeds) : config.feeds[k].url \in resolved \cup {NoHost}

(***************************************************************************)
(* A handler holds a reference to the engine and its subscription, so the  *)
(* engine is stopped, and destroyed, only after the last handler returned. *)
(***************************************************************************)
EngineOutlivesHandlers ==
    engine = "stopped" => \A c \in Call : handler[c] \in {"none", "returned"}

(***************************************************************************)
(* A signal ends the program, whether it waits for a host that never       *)
(* resolves, starts up, serves, or publishes nothing any more.  Shutdown() *)
(* has no deadline: a client that goes on streaming can hold it up, and    *)
(* the join of a publisher that a late callback has blocked never returns. *)
(***************************************************************************)
SignalEnds == ~g_running /\ owner = "stopped" ~> main \in Ended \/ blocked

=============================================================================
