---------------------------- MODULE ExchangeFeed ----------------------------
(***************************************************************************)
(* One venue: the mock exchange that replays a file over WebSockets        *)
(* (services/cex_type1_service/main.cpp), the feed that receives it        *)
(* (src/cex_type1/feed.cpp) and the book the feed's events end up in.      *)
(*                                                                         *)
(* WebSockets are external.  A connection is "up" until one end closes it  *)
(* or the network breaks it; frames in flight may then be lost, and the    *)
(* sender may learn of it late.  The engine's queue between feed and book  *)
(* is left out: ConcurrentQueue and AggregationEngine show it is a FIFO.   *)
(***************************************************************************)
EXTENDS LimitOrderBook, Sequences

CONSTANTS File,         \* the NDJSON file: a sequence of lines
          SkipUntil,    \* start_sequence arguments the mock is started with
          MaxCalls,     \* bound: connections the feed makes
          MaxTaken      \* bound: lines the mock sends

\* A "garbled" line fails to parse or lacks a field the feed insists on, a
\* "long" one exceeds the 4096 bytes of the feed's buffer.
Line == [kind : {"snapshot", "new_order", "cancel_order", "garbled", "long", "empty"},
         sequence : Nat, levels : SnapshotLevels, order : Order]

ASSUME FeedAssumption == /\ File \in Seq(Line) /\ File # <<>>
                         /\ SkipUntil \subseteq Nat
                         /\ MaxCalls \in Nat /\ MaxTaken \in Nat
                         /\ Cardinality(Exchange) = 1 /\ Cardinality(Stamp) = 1

Call == 1 .. MaxCalls
Index == DOMAIN File
Frame == [count : 1 .. MaxTaken, line : Index]

VARIABLES
    skip_until,      \* skip_until_
    position,        \* lines read of the file, shared by the connections
    past_threshold,  \* past_threshold_
    taken,           \* history: lines next() has returned
    up,              \* g_running of the mock exchange
    server,          \* main() of the mock exchange and its HTTPServer
    handler,         \* handleRequest, one per connection
    payload,         \* the line handleRequest holds
    link,            \* external: the state of each connection
    wire,            \* external: frames sent and not received
    feed,            \* pc of WebSocketExchangeFeed::run() and pump()
    call,            \* the number of connections made; the last is current
    running,         \* running_
    book,            \* the exchange's LimitOrderBook
    received         \* history: <<connection, frame>> for each frame received

mock == <<skip_until, position, past_threshold, taken, up, server, handler, payload>>
socket == <<link, wire>>
client == <<feed, call, running, book, received>>
vars == <<mock, socket, client>>

TypeOK ==
    /\ skip_until \in SkipUntil
    /\ position \in 0 .. Len(File) /\ past_threshold \in BOOLEAN
    /\ taken \in 0 .. MaxTaken /\ up \in BOOLEAN
    /\ server \in {"starting", "listening", "stopped"}
    /\ handler \in [Call -> {"none", "queued", "next", "send", "refused", "done"}]
    /\ payload \in [Call -> Frame \cup {<<>>}]
    /\ link \in [Call -> {"none", "up", "broken"}]
    /\ wire \in [Call -> Seq(Frame)]
    /\ feed \in {"check", "connect", "handshake", "loop", "receive", "stopped"}
    /\ call \in 0 .. MaxCalls /\ running \in BOOLEAN
    /\ book \in Book /\ received \in Seq(Call \X Frame)

\* The mock is starting; the feed has been made.
Init ==
    /\ skip_until \in SkipUntil
    /\ position = 0 /\ past_threshold = (skip_until = 0) /\ taken = 0
    /\ up = TRUE /\ server = "starting"
    /\ handler = [c \in Call |-> "none"] /\ payload = [c \in Call |-> <<>>]
    /\ link = [c \in Call |-> "none"] /\ wire = [c \in Call |-> <<>>]
    /\ feed = "stopped" /\ call = 0 /\ running = FALSE
    /\ book = EmptyBook /\ received = <<>>

-----------------------------------------------------------------------------
(* The mock exchange: main(), handleRequest and PayloadCycler.             *)

\* The file or the port cannot be opened, or a signal comes before its handler
\* is installed: the mock ends.
StartServer ==
    /\ server = "starting"
    /\ server' \in {"listening", "stopped"}
    /\ UNCHANGED <<skip_until, position, past_threshold, taken, up, handler, payload, socket, client>>

\* The loop of main() ends and the HTTPServer drops the connections it has not
\* given to its thread; the thread finishes by itself.
StopServer ==
    /\ server = "listening" /\ ~up
    /\ server' = "stopped"
    /\ LET dropped == {c \in Call : handler[c] = "queued"}
       IN  /\ handler' = [c \in Call |-> IF c \in dropped THEN "refused" ELSE handler[c]]
           /\ link' = [c \in Call |-> IF c \in dropped THEN "broken" ELSE link[c]]
    /\ UNCHANGED <<skip_until, position, past_threshold, taken, up, payload, wire, client>>

Serving(c) == handler[c] \in {"next", "send"}

\* The WebSocket is answered; if the mock is stopping it is closed again.
Answer(c) ==
    /\ handler' = [handler EXCEPT ![c] = IF up THEN "next" ELSE "done"]
    /\ link' = [link EXCEPT ![c] = IF up THEN @ ELSE "broken"]
    /\ UNCHANGED <<skip_until, position, past_threshold, taken, up, server, payload, wire, client>>

\* Fault: connections are served at the same time.
AcceptMany(c) == handler[c] = "queued" /\ Answer(c)

\* setMaxThreads(1): a connection waits until the one before is done with.
Waiting(c) == handler[c] = "queued" /\ \A d \in Call : ~Serving(d)

Accept(c) == Waiting(c) /\ Answer(c)

\* A connection ends on the mock's side.
Close(c, how) ==
    /\ handler' = [handler EXCEPT ![c] = how]
    /\ link' = [link EXCEPT ![c] = "broken"]
    /\ UNCHANGED wire

\* An exception leaves the loop of handleRequest; its WebSocket is closed.
Finish(c) == Close(c, "done")

\* A wrong token: handleRequest answers with an error.
Unauthorized(c) ==
    /\ Waiting(c) /\ Close(c, "refused")
    /\ UNCHANGED <<skip_until, position, past_threshold, taken, up, server, payload, client>>

\* A wrong path: there is no handler, and the server answers with an error.
NotFound(c) ==
    /\ Waiting(c) /\ Close(c, "refused")
    /\ UNCHANGED <<skip_until, position, past_threshold, taken, up, server, payload, client>>

\* Fault: the threshold itself is skipped too.
AllowsAbove(line) == line.sequence > skip_until

SequenceAllows(line) == line.sequence >= skip_until

\* next() reads a line: it is passed over, or returned.
NextLine(c) ==
    /\ handler[c] = "next" /\ position < Len(File) /\ taken < MaxTaken
    /\ position' = position + 1
    /\ LET line == File[position']
       IN  IF line.kind = "empty" \/ ~(past_threshold \/ SequenceAllows(line))
           THEN UNCHANGED <<past_threshold, taken, handler, payload>>
           ELSE /\ past_threshold' = TRUE
                /\ taken' = taken + 1
                /\ payload' = [payload EXCEPT ![c] = [count |-> taken', line |-> position']]
                /\ handler' = [handler EXCEPT ![c] = "send"]
    /\ UNCHANGED <<skip_until, up, server, socket, client>>

\* At the end of the file next() opens it again, or throws if it cannot.
Reopen(c) ==
    /\ handler[c] = "next" /\ position = Len(File)
    /\ \/ position' = 0 /\ UNCHANGED <<handler, socket>>
       \/ Finish(c) /\ UNCHANGED position
    /\ UNCHANGED <<skip_until, past_threshold, taken, up, server, payload, client>>

\* sendFrame: into a broken connection the frame is lost, the error unnoticed.
\* Then the loop condition is tested.
Send(c) ==
    /\ handler[c] = "send"
    /\ wire' = [wire EXCEPT ![c] = IF link[c] = "up" THEN Append(@, payload[c]) ELSE @]
    /\ handler' = [handler EXCEPT ![c] = IF up THEN "next" ELSE "done"]
    /\ link' = [link EXCEPT ![c] = IF up THEN @ ELSE "broken"]
    /\ UNCHANGED <<skip_until, position, past_threshold, taken, up, server, payload, client>>

\* sendFrame throws: the line it held is lost.
SendFails(c) ==
    /\ handler[c] = "send" /\ link[c] = "broken"
    /\ Finish(c)
    /\ UNCHANGED <<skip_until, position, past_threshold, taken, up, server, payload, client>>

\* SIGINT or SIGTERM.
Interrupt ==
    /\ up /\ server # "stopped" /\ up' = FALSE
    /\ UNCHANGED <<skip_until, position, past_threshold, taken, server, handler, payload, socket,
                   client>>

\* The network breaks a connection, with some of the frames in flight.
Break(c) ==
    /\ link[c] = "up"
    /\ link' = [link EXCEPT ![c] = "broken"]
    /\ \E k \in 0 .. Len(wire[c]) : wire' = [wire EXCEPT ![c] = SubSeq(@, 1, k)]
    /\ UNCHANGED <<mock, client>>

-----------------------------------------------------------------------------
(* The feed: run() and pump().                                             *)

\* start(), for the first time or after stop() has joined the thread.
Start ==
    /\ ~running /\ feed = "stopped"
    /\ running' = TRUE /\ feed' = "check"
    /\ UNCHANGED <<mock, socket, call, book, received>>

\* Lines 80 and 86: the loop condition of run().
Check ==
    /\ feed = "check"
    /\ feed' = IF running THEN "connect" ELSE "stopped"
    /\ UNCHANGED <<mock, socket, call, running, book, received>>

Connect ==
    /\ feed = "connect" /\ server = "listening" /\ call < MaxCalls
    /\ call' = call + 1
    /\ link' = [link EXCEPT ![call'] = "up"]
    /\ handler' = [handler EXCEPT ![call'] = "queued"]
    /\ feed' = "handshake"
    /\ UNCHANGED <<skip_until, position, past_threshold, taken, up, server, payload, wire,
                   running, book, received>>

ConnectFails ==
    /\ feed = "connect"
    /\ feed' = "check"
    /\ UNCHANGED <<mock, socket, call, running, book, received>>

\* The constructor of WebSocket returns, the answer being one that opens it; or
\* it throws, refused, broken or timed out.
Handshake ==
    /\ feed = "handshake"
    /\ \/ /\ handler[call] \in {"next", "send", "done"}
          /\ feed' = "loop" /\ UNCHANGED socket
       \/ /\ handler[call] \in {"queued", "refused"} \/ link[call] = "broken"
          /\ feed' = "check"
          /\ link' = [link EXCEPT ![call] = "broken"]
          /\ wire' = [wire EXCEPT ![call] = <<>>]
    /\ UNCHANGED <<mock, call, running, book, received>>

\* pump() returns or throws, and the WebSocket is closed.
Leave == /\ feed' = "check"
         /\ link' = [link EXCEPT ![call] = "broken"]
         /\ wire' = [wire EXCEPT ![call] = <<>>]
         /\ UNCHANGED <<mock, call, running>>

\* Line 111: the loop condition of pump().
Loop ==
    /\ feed = "loop"
    /\ IF running THEN feed' = "receive" /\ UNCHANGED <<mock, socket, call, running>> ELSE Leave
    /\ UNCHANGED <<book, received>>

\* A known type, and the fields that type needs.
Parses(line) == line.kind \in {"snapshot", "new_order", "cancel_order"}

\* The book of the exchange applies an event (LimitOrderBook::apply).  One that
\* fails an assertion would end the engine's process, the feed with it; here
\* what follows is kept, so that more can happen than in the program.
Apply(line) ==
    LET touched == Touch(book, CHOOSE x \in Exchange : TRUE, CHOOSE t \in Stamp : TRUE)
        advanced == Advance(touched, line.sequence)
    IN  IF Stale(book, line.sequence) THEN touched
        ELSE CASE line.kind = "snapshot"  -> Snapshot(advanced, line.levels)
               [] line.kind = "new_order" -> NewOrder(advanced, line.order)
               [] OTHER                   -> CancelOrder(advanced, line.order.id)

\* A frame becomes an event; what does not parse is skipped, what does not fit
\* the buffer makes receiveFrame throw.
Receive ==
    /\ feed = "receive" /\ wire[call] # <<>>
    /\ LET frame == Head(wire[call])
           line == File[frame.line]
       IN  IF line.kind = "long"
           THEN Leave /\ UNCHANGED <<book, received>>
           ELSE /\ received' = Append(received, <<call, frame>>)
                /\ book' = IF Parses(line) THEN Apply(line) ELSE book
                /\ wire' = [wire EXCEPT ![call] = Tail(@)]
                /\ feed' = "loop"
                /\ UNCHANGED <<mock, link, call, running>>

\* Fault: without a receive timeout only a broken connection is noticed.
EndOnClose ==
    /\ feed = "receive" /\ wire[call] = <<>> /\ link[call] = "broken"
    /\ Leave
    /\ UNCHANGED <<book, received>>

\* No frame for five seconds, or no frame any more.
ReceiveEnd ==
    /\ feed = "receive" /\ wire[call] = <<>>
    /\ Leave
    /\ UNCHANGED <<book, received>>

\* stop(): the flag; the thread is joined when feed is "stopped".
Stop ==
    /\ running /\ running' = FALSE
    /\ UNCHANGED <<mock, socket, feed, call, book, received>>

Pump == Check \/ ConnectFails \/ Handshake \/ Loop \/ Receive \/ ReceiveEnd
Host == StartServer \/ StopServer
Serve(c) == Accept(c) \/ Unauthorized(c) \/ NotFound(c) \/ NextLine(c) \/ Reopen(c) \/ Send(c) \/ SendFails(c)

Next == \/ Host \/ Interrupt \/ Pump \/ Connect \/ Start \/ Stop
        \/ \E c \in Call : Serve(c) \/ Break(c)

(***************************************************************************)
(* Both programs keep running, an attempt to connect succeeds now and then *)
(* and a handler that keeps sending into a broken connection is told so.   *)
(***************************************************************************)
Fairness == /\ WF_vars(Host) /\ WF_vars(Pump) /\ SF_vars(Connect)
            /\ \A c \in Call : WF_vars(Serve(c)) /\ SF_vars(SendFails(c))

Spec == Init /\ [][Next]_vars /\ Fairness

(***************************************************************************)
(* Properties.                                                             *)
(***************************************************************************)

(***************************************************************************)
(* Lines are lost when a connection ends, never within one: the feed gets  *)
(* what the mock took from the file in the order taken, nothing twice, and *)
(* a gap only between two connections.  Serving two connections at a time  *)
(* would break this, the position in the file being shared.                *)
(***************************************************************************)
GapsOnlyBetweenCalls ==
    \A k \in 2 .. Len(received) :
        LET last == received[k - 1]
            this == received[k]
        IN  /\ this[2].count > last[2].count
            /\ this[1] = last[1] => this[2].count = last[2].count + 1

\* stop() joins the thread within one receive timeout, whatever the mock does.
StopReturns == ~running ~> feed = "stopped"

\* Interrupted, the mock stops listening and serves nobody any more, even while
\* it looks for the threshold, provided some line of the file reaches it.
MockStops ==
    ~up ~> (server = "stopped" /\ \A c \in Call : ~Serving(c)) \/ taken = MaxTaken

(***************************************************************************)
(* The file is replayed with the same sequence numbers.  No line takes     *)
(* effect twice, nor after a later one, whichever lines were lost: what a  *)
(* received line changes, it changes above every line understood before,   *)
(* unless it carries no number at all.                                     *)
(***************************************************************************)
SequenceOf(entry) == File[entry[2].line].sequence

NoLineTwice ==
    [][<<book'.level, book'.orders>> # <<book.level, book.orders>> =>
         LET this == SequenceOf(received'[Len(received')])
         IN  this = 0 \/ \A k \in DOMAIN received :
                 Parses(File[received[k][2].line]) => SequenceOf(received[k]) < this]_vars

=============================================================================
