------------------------ MODULE ExchangeFeed_proofs ------------------------
(***************************************************************************)
(* Proofs about ExchangeFeed: its types, that frames are lost only between *)
(* two connections, and that no line takes effect twice.                   *)
(***************************************************************************)
EXTENDS ExchangeFeed, FiniteSetTheorems, TLAPS

(***************************************************************************)
(* The inductive invariants.                                               *)
(***************************************************************************)

\* pump() and the handshake have a connection; the mock serves one at a time.
OneServed ==
    /\ feed \in {"handshake", "loop", "receive"} => call > 0
    /\ \A c, d \in Call : Serving(c) /\ Serving(d) => c = d

\* The lines taken from the file that are no longer in the hands of a handler.
Sent(c) == IF handler[c] = "send" THEN taken - 1 ELSE taken

Live(c) == link[c] = "up" /\ Serving(c)

\* The frames in flight are consecutive lines taken, and those of a live
\* connection end with the line sent last.
InFlight(c) ==
    /\ handler[c] = "send" => payload[c] \in Frame /\ payload[c].count = taken
    /\ handler[c] # "none" => c <= call
    /\ handler[c] \in {"none", "queued"} => wire[c] = <<>>
    /\ \A k \in 1 .. Len(wire[c]) : /\ wire[c][k].count = wire[c][1].count + k - 1
                                    /\ wire[c][k].count <= taken
    /\ Live(c) => \A k \in 1 .. Len(wire[c]) :
                      wire[c][k].count = Sent(c) - Len(wire[c]) + k

\* The frame received last, and what the current connection brings next.
Continues ==
    received # <<>> =>
        LET last == received[Len(received)][1]
            count == received[Len(received)][2].count
        IN  /\ last <= call /\ count <= taken
            /\ handler[last] \notin {"none", "queued"}
            /\ call > 0 /\ wire[call] # <<>> =>
                   /\ wire[call][1].count > count
                   /\ last = call => wire[call][1].count = count + 1
            /\ call > 0 /\ Live(call) =>
                   /\ count <= Sent(call) - Len(wire[call])
                   /\ last = call => count = Sent(call) - Len(wire[call])

Ordered ==
    /\ \A c \in Call : InFlight(c)
    /\ Continues
    /\ GapsOnlyBetweenCalls

\* No received line that is understood carries a number above the book's.
BookIsAhead ==
    \A k \in DOMAIN received :
        Parses(File[received[k][2].line]) => SequenceOf(received[k]) <= book.sequence

(***************************************************************************)
(* Types.                                                                  *)
(***************************************************************************)

\* A line of the file has the fields of a line.
LEMMA LineOfFile ==
    ASSUME NEW k \in Index
    PROVE  /\ File[k] \in Line /\ File[k].sequence \in Nat
           /\ File[k].levels \in SnapshotLevels /\ File[k].order \in Order
<1>1. File[k] \in Line
  BY FeedAssumption DEF Index
<1>2. QED
  BY <1>1 DEF Line

(***************************************************************************)
(* What the operations of a LimitOrderBook return is a book with the       *)
(* sequence number it had.                                                 *)
(***************************************************************************)
LEMMA OperationsReturn ==
    ASSUME NEW b \in Book
    PROVE  /\ \A levels \in SnapshotLevels :
                 Snapshot(b, levels) \in {c \in Book : c.sequence = b.sequence}
           /\ \A o \in Order : NewOrder(b, o) \in {c \in Book : c.sequence = b.sequence}
           /\ \A id \in OrderId : CancelOrder(b, id) \in {c \in Book : c.sequence = b.sequence}
<1> DEFINE Kept(c) == c \in Book /\ c.sequence = b.sequence
<1>1. \A old \in Levels, side \in Side, price \in Price, delta \in Int :
          ApplyDelta(old, side, price, delta) \in Levels
  BY DEF ApplyDelta, Levels
<1>2. ASSUME NEW o \in Order
      PROVE  /\ o.side \in Side /\ o.price \in Price /\ o.id \in OrderId
             /\ o.quantity \in Int /\ -o.quantity \in Int
  <2>1. o.side \in Side /\ o.price \in Price /\ o.id \in OrderId /\ o.quantity \in Quantity
    BY DEF Order
  <2>2. o.quantity \in Int
    BY <2>1, BookAssumption
  <2>3. \A n \in Int : -n \in Int
    OBVIOUS
  <2>4. QED
    BY <2>1, <2>2, <2>3
<1>3. ASSUME NEW o \in b.orders PROVE Kept(Withdraw(b, o))
  <2>1. o \in Order /\ b.level \in Levels
    BY DEF Book
  <2>2. ApplyDelta(b.level, o.side, o.price, -o.quantity) \in Levels
    BY <1>1, <1>2, <2>1
  <2>3. QED
    BY <2>2 DEF Withdraw, Book
<1>4. ASSUME NEW id \in OrderId PROVE Kept(CancelOrder(b, id))
  <2>1. CASE id = 0 \/ Resting(b, id) = {}
    BY <2>1 DEF CancelOrder
  <2>2. CASE ~(id = 0 \/ Resting(b, id) = {})
    <3>1. (CHOOSE o \in Resting(b, id) : TRUE) \in b.orders
      BY <2>2 DEF Resting
    <3>2. QED
      BY <1>3, <2>2, <3>1 DEF CancelOrder
  <2>3. QED
    BY <2>1, <2>2
<1>5. ASSUME NEW o \in Order PROVE Kept(NewOrder(b, o))
  <2> DEFINE cleared == CancelOrder(b, o.id)
  <2>1. cleared \in Book /\ cleared.sequence = b.sequence
    BY <1>2, <1>4
  <2>2. NewOrder(b, o) \in {b, cleared, Rest(cleared, o)}
    BY DEF NewOrder
  <2> HIDE DEF cleared
  <2>3. ApplyDelta(cleared.level, o.side, o.price, o.quantity) \in Levels
    BY <1>1, <1>2, <2>1 DEF Book
  <2>4. Rest(cleared, o) \in Book /\ Rest(cleared, o).sequence = cleared.sequence
    BY <2>1, <2>3 DEF Rest, Book
  <2>5. QED
    BY <2>1, <2>2, <2>4
<1>6. ASSUME NEW levels \in SnapshotLevels PROVE Kept(Snapshot(b, levels))
  <2>1. levels \in Levels
    <3>1. \A q \in Quantity : q > 0 => q \in Nat
      BY BookAssumption
    <3>2. {0} \cup {q \in Quantity : q > 0} \subseteq Nat
      BY <3>1
    <3>3. QED
      BY <3>2 DEF SnapshotLevels, Levels
  <2>2. QED
    BY <2>1 DEF Snapshot, Book
<1>7. QED
  BY <1>4, <1>5, <1>6

\* What one event does to the book: a stale one moves no level, no order and no
\* number, any other takes the book to its own number, if it carries one.
LEMMA ApplyReturns ==
    ASSUME book \in Book, NEW k \in Index, Parses(File[k])
    PROVE  /\ Apply(File[k]) \in Book
           /\ Stale(book, File[k].sequence) =>
                  /\ Apply(File[k]).level = book.level
                  /\ Apply(File[k]).orders = book.orders
                  /\ Apply(File[k]).sequence = book.sequence
           /\ ~Stale(book, File[k].sequence) =>
                  Apply(File[k]).sequence =
                      IF File[k].sequence = 0 THEN book.sequence ELSE File[k].sequence
<1> DEFINE line == File[k]
           x == CHOOSE x \in Exchange : TRUE
           t == CHOOSE t \in Stamp : TRUE
           touched == Touch(book, x, t)
           advanced == Advance(touched, line.sequence)
<1>1. /\ line.sequence \in Nat /\ line.levels \in SnapshotLevels /\ line.order \in Order
      /\ line.order.id \in OrderId
  BY LineOfFile DEF Order
<1>2. x \in Exchange /\ t \in Nat
  <2>1. Exchange # {} /\ Stamp # {}
    <3>1. Cardinality({}) = 0 /\ Cardinality(Exchange) = 1 /\ Cardinality(Stamp) = 1
      BY FeedAssumption, FS_EmptySet
    <3>2. QED
      BY <3>1
  <2>2. QED
    BY <2>1, BookAssumption
<1>3. Apply(line) = IF Stale(book, line.sequence) THEN touched
                    ELSE CASE line.kind = "snapshot"  -> Snapshot(advanced, line.levels)
                           [] line.kind = "new_order" -> NewOrder(advanced, line.order)
                           [] OTHER                   -> CancelOrder(advanced, line.order.id)
  BY DEF Apply
<1> HIDE DEF line, x, t
<1>4. /\ touched \in Book /\ touched.sequence = book.sequence
      /\ touched.level = book.level /\ touched.orders = book.orders
      /\ advanced \in Book
      /\ advanced.sequence = IF line.sequence = 0 THEN book.sequence ELSE line.sequence
  <2>1. \A n \in Nat : /\ touched \in Book /\ touched.sequence = book.sequence
                       /\ touched.level = book.level /\ touched.orders = book.orders
                       /\ Advance(touched, n) \in Book
                       /\ Advance(touched, n).sequence = IF n = 0 THEN book.sequence ELSE n
    <3>1. touched \in Book /\ touched.sequence = book.sequence
          /\ touched.level = book.level /\ touched.orders = book.orders
      BY <1>2 DEF Touch, Book
    <3> HIDE DEF touched
    <3>2. QED
      BY <3>1 DEF Advance, Book
  <2>2. QED
    BY <1>1, <2>1
<1> HIDE DEF touched, advanced
<1>5. /\ Snapshot(advanced, line.levels) \in Book
      /\ Snapshot(advanced, line.levels).sequence = advanced.sequence
      /\ NewOrder(advanced, line.order) \in Book
      /\ NewOrder(advanced, line.order).sequence = advanced.sequence
      /\ CancelOrder(advanced, line.order.id) \in Book
      /\ CancelOrder(advanced, line.order.id).sequence = advanced.sequence
  <2>1. advanced \in Book
    BY <1>4
  <2>2. /\ Snapshot(advanced, line.levels) \in Book
        /\ Snapshot(advanced, line.levels).sequence = advanced.sequence
    BY <1>1, <2>1, OperationsReturn
  <2>3. /\ NewOrder(advanced, line.order) \in Book
        /\ NewOrder(advanced, line.order).sequence = advanced.sequence
    BY <1>1, <2>1, OperationsReturn
  <2>4. /\ CancelOrder(advanced, line.order.id) \in Book
        /\ CancelOrder(advanced, line.order.id).sequence = advanced.sequence
    BY <1>1, <2>1, OperationsReturn
  <2>5. QED
    BY <2>2, <2>3, <2>4
<1>6. CASE Stale(book, line.sequence)
  <2>1. Apply(line) = touched
    BY <1>3, <1>6
  <2>2. QED
    BY <1>4, <1>6, <2>1 DEF line
<1>7. CASE ~Stale(book, line.sequence)
  <2>1. Apply(line) \in {Snapshot(advanced, line.levels), NewOrder(advanced, line.order),
                         CancelOrder(advanced, line.order.id)}
    BY <1>3, <1>7
  <2>2. QED
    BY <1>4, <1>5, <1>7, <2>1 DEF line
<1>8. QED
  BY <1>6, <1>7 DEF line

\* Steps of the mock exchange and of the network.
LEMMA MockTypes ==
    ASSUME TypeOK, \A c \in Call : InFlight(c),
           Host \/ Interrupt \/ \E c \in Call : Serve(c) \/ Break(c)
    PROVE  TypeOK'
<1>1. CASE Host \/ Interrupt
  <2>1. CASE Interrupt
    BY <2>1 DEF Interrupt, TypeOK, socket, client
  <2>2. CASE StartServer
    BY <2>2 DEF StartServer, TypeOK, socket, client
  <2>3. CASE StopServer
    BY <2>3 DEF StopServer, TypeOK, socket, client
  <2>4. QED
    BY <1>1, <2>1, <2>2, <2>3 DEF Host
<1>2. ASSUME NEW c \in Call, Accept(c) \/ Unauthorized(c) \/ NotFound(c) \/ SendFails(c) \/ Reopen(c)
      PROVE  TypeOK'
  <2>1. 0 \in 0 .. Len(File)
    BY FeedAssumption
  <2>2. CASE Accept(c)
    BY <2>2 DEF Accept, Answer, Finish, Close, TypeOK, client, socket
  <2>3. CASE Unauthorized(c) \/ NotFound(c)
    BY <2>3 DEF Unauthorized, NotFound, Answer, Finish, Close, TypeOK, client, socket
  <2>4. CASE SendFails(c)
    BY <2>4 DEF SendFails, Answer, Finish, Close, TypeOK, client, socket
  <2>5. CASE Reopen(c)
    BY <2>1, <2>5 DEF Reopen, Finish, Close, TypeOK, client, socket
  <2>6. QED
    BY <1>2, <2>2, <2>3, <2>4, <2>5
<1>3. ASSUME NEW c \in Call, NextLine(c)
      PROVE  TypeOK'
  <2>1. position' = position + 1 /\ position + 1 \in 1 .. Len(File) /\ position' \in Index
        /\ position' \in 0 .. Len(File)
    BY <1>3, FeedAssumption DEF NextLine, TypeOK, Index
  <2>2. CASE UNCHANGED <<past_threshold, taken, handler, payload>>
    BY <1>3, <2>1, <2>2 DEF NextLine, TypeOK, client, socket
  <2>3. CASE /\ past_threshold' = TRUE /\ taken' = taken + 1
             /\ payload' = [payload EXCEPT ![c] = [count |-> taken', line |-> position']]
             /\ handler' = [handler EXCEPT ![c] = "send"]
    <3>1. taken' \in 1 .. MaxTaken /\ taken' \in 0 .. MaxTaken
      BY <1>3, <2>3, FeedAssumption DEF NextLine, TypeOK
    <3>2. [count |-> taken', line |-> position'] \in Frame
      BY <2>1, <3>1 DEF Frame
    <3>3. QED
      BY <1>3, <2>1, <2>3, <3>1, <3>2 DEF NextLine, TypeOK, client, socket
  <2>4. QED
    BY <1>3, <2>2, <2>3 DEF NextLine
<1>4. ASSUME NEW c \in Call, Send(c)
      PROVE  TypeOK'
  <2>1. wire' \in [Call -> Seq(Frame)]
    <3>1. wire[c] \in Seq(Frame) /\ payload[c] \in Frame
      BY <1>4 DEF Send, TypeOK, InFlight
    <3>2. Append(wire[c], payload[c]) \in Seq(Frame)
      BY <3>1
    <3>3. QED
      BY <1>4, <3>2 DEF Send, TypeOK
  <2>2. QED
    BY <1>4, <2>1 DEF Send, TypeOK, client
<1>5. ASSUME NEW c \in Call, Break(c)
      PROVE  TypeOK'
  <2>1. PICK k \in 0 .. Len(wire[c]) : wire' = [wire EXCEPT ![c] = SubSeq(@, 1, k)]
    BY <1>5 DEF Break
  <2>2. wire[c] \in Seq(Frame)
    BY DEF TypeOK
  <2>3. SubSeq(wire[c], 1, k) \in Seq(Frame)
    BY <2>1, <2>2
  <2>4. QED
    BY <1>5, <2>1, <2>3 DEF Break, TypeOK, mock, client
<1>6. QED
  BY <1>1, <1>2, <1>3, <1>4, <1>5 DEF Serve


\* Steps of the feed.
LEMMA FeedTypes ==
    ASSUME TypeOK, OneServed, Pump \/ Connect \/ Start \/ Stop
    PROVE  TypeOK'
<1>1. CASE Check \/ ConnectFails \/ Start \/ Stop
  BY <1>1 DEF Check, ConnectFails, Start, Stop, TypeOK, mock, socket
<1>2. CASE Connect
  <2>1. call + 1 \in 0 .. MaxCalls
    BY <1>2, FeedAssumption DEF Connect, TypeOK
  <2>2. QED
    BY <1>2, <2>1 DEF Connect, TypeOK
<1>3. <<>> \in Seq(Frame)
  OBVIOUS
<1>4. ASSUME Leave, UNCHANGED <<book, received>>
      PROVE  TypeOK'
  BY <1>3, <1>4 DEF Leave, TypeOK, mock
<1>5. CASE Handshake
  BY <1>3, <1>5 DEF Handshake, TypeOK, mock, socket
<1>6. CASE Loop \/ ReceiveEnd
  BY <1>4, <1>6 DEF Loop, ReceiveEnd, TypeOK, mock, socket
<1>7. CASE Receive
  <2> DEFINE frame == Head(wire[call])
  <2>1. CASE Leave /\ UNCHANGED <<book, received>>
    BY <1>4, <2>1
  <2>2. CASE /\ received' = Append(received, <<call, frame>>)
             /\ book' = IF Parses(File[frame.line]) THEN Apply(File[frame.line]) ELSE book
             /\ wire' = [wire EXCEPT ![call] = Tail(@)]
             /\ feed' = "loop" /\ UNCHANGED <<mock, link, call, running>>
    <3>1. call \in Call
      BY <1>7 DEF Receive, OneServed, TypeOK, Call
    <3>2. wire[call] \in Seq(Frame) /\ wire[call] # <<>>
      BY <1>7, <3>1 DEF Receive, TypeOK
    <3>3. frame \in Frame /\ Tail(wire[call]) \in Seq(Frame)
      BY <3>2
    <3>4. received' \in Seq(Call \X Frame)
      BY <2>2, <3>1, <3>3 DEF TypeOK
    <3>5. book' \in Book
      <4>1. frame.line \in Index
        BY <3>3 DEF Frame
      <4>2. QED
        BY <2>2, <4>1, ApplyReturns DEF TypeOK
    <3>6. wire' \in [Call -> Seq(Frame)]
      BY <2>2, <3>3 DEF TypeOK
    <3>7. QED
      BY <2>2, <3>4, <3>5, <3>6 DEF TypeOK, mock
  <2>3. QED
    BY <1>7, <2>1, <2>2 DEF Receive
<1>8. QED
  BY <1>1, <1>2, <1>5, <1>6, <1>7 DEF Pump

(***************************************************************************)
(* One connection at a time.                                               *)
(***************************************************************************)

\* A connection is served only when no other is.
LEMMA OneServedStep ==
    ASSUME TypeOK, OneServed, [Next]_vars
    PROVE  OneServed'
<1>1. CASE StartServer \/ Interrupt \/ Check \/ ConnectFails \/ Handshake \/ Loop \/ Receive
           \/ ReceiveEnd \/ Start \/ Stop \/ (\E c \in Call : Break(c)) \/ UNCHANGED vars
  BY <1>1 DEF StartServer, Interrupt, Check, ConnectFails, Handshake, Loop, Receive, ReceiveEnd,
     Leave, Start, Stop, Break, vars, mock, client, OneServed, Serving
<1>2. CASE StopServer
  BY <1>2 DEF StopServer, client, OneServed, Serving
<1>3. ASSUME NEW c \in Call, Serve(c)
      PROVE  OneServed'
  <2>1. /\ UNCHANGED <<feed, call>>
        /\ \A d \in Call : d # c => handler'[d] = handler[d]
        /\ handler'[c] \in {"next", "send"} =>
               Serving(c) \/ \A d \in Call : ~Serving(d)
    BY <1>3 DEF Serve, Accept, Unauthorized, NotFound, NextLine, Reopen, Send, SendFails,
       Waiting, Answer, Finish, Close, client, TypeOK, Serving
  <2>2. QED
    BY <2>1 DEF OneServed, Serving
<1>4. CASE Connect
  <2>1. /\ call' = call + 1 /\ call \in Nat
        /\ \A d \in Call : Serving(d)' => Serving(d)
    BY <1>4 DEF Connect, TypeOK, Serving
  <2>2. QED
    BY <2>1 DEF OneServed
<1>5. QED
  BY <1>1, <1>2, <1>3, <1>4 DEF Next, Host, Pump

(***************************************************************************)
(* The order of the frames.                                                *)
(***************************************************************************)

\* Most steps deliver nothing: connections end, frames in flight are lost.
Quiet ==
    /\ UNCHANGED <<taken, payload, call, received>>
    /\ \A c \in Call :
          /\ handler'[c] = handler[c] \/ handler'[c] \in {"next", "refused", "done"}
          /\ handler[c] = "none" => handler'[c] = "none"
          /\ \/ wire'[c] = wire[c] \/ wire'[c] = <<>>
             \/ \E k \in 0 .. Len(wire[c]) : wire'[c] = SubSeq(wire[c], 1, k)
          /\ Live(c)' => Live(c) /\ Sent(c)' = Sent(c) /\ wire'[c] = wire[c]

\* A quiet step keeps the order.
LEMMA OrderedQuiet ==
    ASSUME TypeOK, Ordered, Quiet
    PROVE  Ordered'
<1>1. ASSUME NEW c \in Call
      PROVE  /\ \A k \in 1 .. Len(wire'[c]) : k \in 1 .. Len(wire[c]) /\ wire'[c][k] = wire[c][k]
             /\ wire'[c] # <<>> => 1 \in 1 .. Len(wire'[c])
             /\ wire[c] = <<>> => wire'[c] = <<>>
  <2>1. wire[c] \in Seq(Frame)
    BY DEF TypeOK
  <2>2. CASE wire'[c] = wire[c] \/ wire'[c] = <<>>
    BY <2>1, <2>2
  <2>3. CASE \E k \in 0 .. Len(wire[c]) : wire'[c] = SubSeq(wire[c], 1, k)
    BY <2>1, <2>3
  <2>4. QED
    BY <2>2, <2>3 DEF Quiet
<1>2. ASSUME NEW c \in Call
      PROVE  InFlight(c)'
  <2>1. InFlight(c) /\ UNCHANGED <<taken, payload, call>>
    BY DEF Ordered, Quiet
  <2>2. /\ handler'[c] = "send" => handler[c] = "send"
        /\ handler'[c] # "none" => handler[c] # "none"
        /\ handler'[c] \in {"none", "queued"} => wire'[c] = <<>>
    BY <1>1, <2>1 DEF Quiet, InFlight
  <2>3. \A k \in 1 .. Len(wire'[c]) : /\ wire'[c][k].count = wire'[c][1].count + k - 1
                                      /\ wire'[c][k].count <= taken
    <3>1. SUFFICES ASSUME NEW k \in 1 .. Len(wire'[c])
                   PROVE  /\ wire'[c][k].count = wire'[c][1].count + k - 1
                          /\ wire'[c][k].count <= taken
      OBVIOUS
    <3>2. wire'[c][k] = wire[c][k] /\ k \in 1 .. Len(wire[c])
      BY <1>1, <3>1
    <3>3. wire'[c] # <<>>
      BY <3>1
    <3>4. wire'[c][1] = wire[c][1]
      BY <1>1, <3>3
    <3>5. QED
      BY <2>1, <3>2, <3>4 DEF InFlight
  <2>4. Live(c)' => \A k \in 1 .. Len(wire'[c]) :
                        wire'[c][k].count = Sent(c)' - Len(wire'[c]) + k
    BY <2>1 DEF Quiet, InFlight
  <2>5. QED
    BY <2>1, <2>2, <2>3, <2>4 DEF InFlight
<1>3. Continues'
  <2>1. SUFFICES ASSUME received # <<>>
                 PROVE  Continues'
    BY DEF Continues, Quiet
  <2>2. received[Len(received)][1] \in Call /\ Continues
    BY <2>1 DEF TypeOK, Ordered
  <2>3. handler'[received[Len(received)][1]] \notin {"none", "queued"}
    BY <2>1, <2>2 DEF Continues, Quiet
  <2>4. call > 0 => call \in Call
    BY DEF TypeOK, Call
  <2>5. call > 0 /\ wire'[call] # <<>> => wire[call] # <<>> /\ wire'[call][1] = wire[call][1]
    BY <1>1, <2>4
  <2>6. call > 0 /\ Live(call)' =>
            Live(call) /\ Sent(call)' - Len(wire'[call]) = Sent(call) - Len(wire[call])
    BY <2>4 DEF Quiet
  <2>7. UNCHANGED <<taken, call, received>>
    BY DEF Quiet
  <2>8. QED
    BY <2>1, <2>2, <2>3, <2>5, <2>6, <2>7 DEF Continues
<1>4. GapsOnlyBetweenCalls'
  BY DEF Ordered, Quiet, GapsOnlyBetweenCalls
<1>5. QED
  BY <1>2, <1>3, <1>4 DEF Ordered

\* The steps of the mock and the network that are quiet.
LEMMA QuietMock ==
    ASSUME TypeOK,
           \/ Host \/ Interrupt
           \/ \E c \in Call : \/ Unauthorized(c) \/ NotFound(c) \/ Reopen(c) \/ SendFails(c) \/ Break(c)
                              \/ Accept(c) /\ ~up
                              \/ Send(c) /\ link[c] # "up"
                              \/ NextLine(c) /\ UNCHANGED <<taken, handler, payload>>
    PROVE  Quiet
<1>1. CASE StartServer \/ Interrupt
  BY <1>1 DEF StartServer, Interrupt, Quiet, Live, Serving, Sent, socket, client
<1>2. CASE StopServer
  BY <1>2 DEF StopServer, client, TypeOK, Quiet, Live, Serving, Sent
<1>3. ASSUME NEW c \in Call,
             Unauthorized(c) \/ NotFound(c) \/ (Accept(c) /\ ~up) \/ SendFails(c)
      PROVE  Quiet
  BY <1>3 DEF Unauthorized, NotFound, Accept, Answer, Waiting, SendFails, Finish, Close,
     client, TypeOK, Quiet, Live, Serving, Sent
<1>4. ASSUME NEW c \in Call, Reopen(c)
      PROVE  Quiet
  BY <1>4 DEF Reopen, Finish, Close, socket, client, TypeOK, Quiet, Live, Serving, Sent
<1>5. ASSUME NEW c \in Call, Send(c), link[c] # "up"
      PROVE  Quiet
  <2>1. UNCHANGED <<taken, payload, call, received, wire>> /\ link'[c] # "up"
    BY <1>5 DEF Send, client, TypeOK
  <2>2. /\ handler[c] = "send" /\ handler'[c] \in {"next", "done"}
        /\ \A d \in Call : d # c => handler'[d] = handler[d] /\ link'[d] = link[d]
    BY <1>5 DEF Send, TypeOK
  <2>3. QED
    BY <2>1, <2>2 DEF Quiet, Live, Serving, Sent
<1>6. ASSUME NEW c \in Call, NextLine(c), UNCHANGED <<taken, handler, payload>>
      PROVE  Quiet
  BY <1>6 DEF NextLine, socket, client, Quiet, Live, Serving, Sent
<1>7. ASSUME NEW c \in Call, Break(c)
      PROVE  Quiet
  <2>1. UNCHANGED <<taken, handler, payload, call, received>>
    BY <1>7 DEF Break, mock, client
  <2>2. PICK k \in 0 .. Len(wire[c]) : wire' = [wire EXCEPT ![c] = SubSeq(@, 1, k)]
    BY <1>7 DEF Break
  <2>3. wire'[c] = SubSeq(wire[c], 1, k) /\ link'[c] # "up"
        /\ \A d \in Call : d # c => wire'[d] = wire[d] /\ link'[d] = link[d]
    BY <1>7, <2>2 DEF Break, TypeOK
  <2>4. QED
    BY <2>1, <2>2, <2>3 DEF Quiet, Live, Serving, Sent
<1>8. QED
  BY <1>1, <1>2, <1>3, <1>4, <1>5, <1>6, <1>7 DEF Host

\* The steps of the feed that are quiet: the others connect and receive.
LEMMA QuietFeed ==
    ASSUME TypeOK, OneServed,
           \/ Check \/ ConnectFails \/ Handshake \/ Loop \/ ReceiveEnd \/ Start \/ Stop
           \/ Receive /\ Leave /\ UNCHANGED <<book, received>>
           \/ UNCHANGED vars
    PROVE  Quiet
<1>1. CASE Check \/ ConnectFails \/ Start \/ Stop \/ UNCHANGED vars
  BY <1>1 DEF Check, ConnectFails, Start, Stop, vars, mock, socket, client, Quiet, Live, Serving, Sent
<1>2. ASSUME Leave, UNCHANGED <<book, received>>, call \in Call
      PROVE  Quiet
  BY <1>2 DEF Leave, mock, TypeOK, Quiet, Live, Serving, Sent
<1>3. CASE Handshake
  <2>1. call \in Call
    BY <1>3 DEF Handshake, OneServed, TypeOK, Call
  <2>2. CASE UNCHANGED socket
    BY <1>3, <2>2 DEF Handshake, mock, socket, Quiet, Live, Serving, Sent
  <2>3. CASE /\ link' = [link EXCEPT ![call] = "broken"]
             /\ wire' = [wire EXCEPT ![call] = <<>>]
    BY <1>3, <2>1, <2>3 DEF Handshake, mock, TypeOK, Quiet, Live, Serving, Sent
  <2>4. QED
    BY <1>3, <2>2, <2>3 DEF Handshake
<1>4. CASE Loop \/ ReceiveEnd \/ (Receive /\ Leave /\ UNCHANGED <<book, received>>)
  <2>1. call \in Call
    BY <1>4 DEF Loop, ReceiveEnd, Receive, OneServed, TypeOK, Call
  <2>2. QED
    BY <1>2, <1>4, <2>1 DEF Loop, ReceiveEnd, mock, socket, Quiet, Live, Serving, Sent
<1>5. QED
  BY <1>1, <1>3, <1>4

\* A connection that is answered starts after the line taken last.
LEMMA OrderedAnswer ==
    ASSUME TypeOK, Ordered, NEW c \in Call, Accept(c), up
    PROVE  Ordered'
<1>1. /\ UNCHANGED <<taken, payload, link, wire, call, received>>
      /\ handler[c] = "queued" /\ handler'[c] = "next"
      /\ \A d \in Call : d # c => handler'[d] = handler[d]
  BY DEF Accept, Waiting, Answer, client, TypeOK
<1>2. wire[c] = <<>> /\ c <= call /\ taken \in Nat
  BY <1>1 DEF Ordered, InFlight, TypeOK
<1>3. ASSUME NEW d \in Call
      PROVE  InFlight(d)'
  <2>1. InFlight(d)
    BY DEF Ordered
  <2>2. CASE d = c
    <3>1. \A k \in 1 .. Len(wire[c]) : FALSE
      BY <1>2
    <3>2. QED
      BY <1>1, <1>2, <2>2, <3>1 DEF InFlight
  <2>3. CASE d # c
    BY <1>1, <2>1, <2>3 DEF InFlight, Live, Serving, Sent
  <2>4. QED
    BY <2>2, <2>3
<1>4. Continues'
  <2>1. SUFFICES ASSUME received # <<>>
                 PROVE  Continues'
    BY <1>1 DEF Continues
  <2> DEFINE last == received[Len(received)][1]
             count == received[Len(received)][2].count
  <2>2. last \in Call /\ count \in Nat /\ Continues
    BY <2>1 DEF TypeOK, Ordered, Frame
  <2>3. /\ last # c /\ handler'[last] \notin {"none", "queued"}
        /\ count <= taken /\ last <= call
    BY <1>1, <2>1, <2>2 DEF Continues
  <2>4. CASE c = call
    <3>1. Len(wire[call]) = 0 /\ Sent(call)' = taken
      BY <1>1, <1>2, <2>4 DEF Sent
    <3>2. count <= Sent(call)' - Len(wire[call])
      BY <1>2, <2>2, <2>3, <3>1
    <3>3. QED
      BY <1>1, <1>2, <2>1, <2>3, <2>4, <3>2 DEF Continues
  <2>5. CASE c # call
    <3>1. call > 0 => call \in Call
      BY DEF TypeOK, Call
    <3>2. call > 0 => (Live(call)' <=> Live(call)) /\ Sent(call)' = Sent(call)
      BY <1>1, <2>5, <3>1 DEF Live, Serving, Sent
    <3>3. QED
      BY <1>1, <2>1, <2>2, <2>3, <3>2 DEF Continues
  <2>6. QED
    BY <2>4, <2>5
<1>5. GapsOnlyBetweenCalls'
  BY <1>1 DEF Ordered, GapsOnlyBetweenCalls
<1>6. QED
  BY <1>3, <1>4, <1>5 DEF Ordered

\* A new line is taken: the one connection served holds it.
LEMMA OrderedNextLine ==
    ASSUME TypeOK, OneServed, Ordered, NEW c \in Call, NextLine(c), taken' # taken
    PROVE  Ordered'
<1>1. /\ taken' = taken + 1 /\ taken \in Nat /\ taken' \in Nat
      /\ UNCHANGED <<link, wire, call, received>>
      /\ handler[c] = "next" /\ handler'[c] = "send"
      /\ \A d \in Call : d # c => handler'[d] = handler[d]
      /\ payload' = [payload EXCEPT ![c] = [count |-> taken', line |-> position']]
  BY DEF NextLine, socket, client, TypeOK
<1>2. payload'[c] \in Frame /\ payload'[c].count = taken'
  <2>1. position' \in Index
    BY FeedAssumption DEF NextLine, TypeOK, Index
  <2>2. taken' \in 1 .. MaxTaken
    BY <1>1, FeedAssumption DEF NextLine
  <2>3. QED
    BY <1>1, <2>1, <2>2 DEF TypeOK, Frame
<1>3. /\ \A d \in Call : d # c => ~Serving(d) /\ ~Serving(d)'
      /\ Sent(c)' = Sent(c) /\ (Live(c)' <=> Live(c))
  BY <1>1 DEF OneServed, Serving, Sent, Live
<1>4. ASSUME NEW d \in Call
      PROVE  InFlight(d)'
  <2>1. InFlight(d) /\ wire[d] \in Seq(Frame)
    BY DEF Ordered, TypeOK
  <2>2. \A k \in 1 .. Len(wire[d]) : /\ wire[d][k].count = wire[d][1].count + k - 1
                                     /\ wire[d][k].count <= taken'
    <3>1. \A k \in 1 .. Len(wire[d]) : wire[d][k] \in Frame
      BY <2>1
    <3>2. \A k \in 1 .. Len(wire[d]) : wire[d][k].count \in Nat
      BY <3>1 DEF Frame
    <3>3. QED
      BY <1>1, <2>1, <3>2 DEF InFlight
  <2>3. CASE d = c
    <3>1. Live(c) => \A k \in 1 .. Len(wire[c]) : wire[c][k].count = Sent(c) - Len(wire[c]) + k
      BY <2>1, <2>3 DEF InFlight
    <3>2. c <= call
      BY <1>1, <2>1, <2>3 DEF InFlight
    <3>3. QED
      BY <1>1, <1>2, <1>3, <2>2, <2>3, <3>1, <3>2 DEF InFlight
  <2>4. CASE d # c
    <3>1. handler'[d] = handler[d] /\ handler[d] # "send" /\ ~Live(d)'
      BY <1>1, <1>3, <2>4 DEF Live, Serving
    <3>2. QED
      BY <1>1, <2>1, <2>2, <3>1 DEF InFlight
  <2>5. QED
    BY <2>3, <2>4
<1>5. Continues'
  <2>1. SUFFICES ASSUME received # <<>>
                 PROVE  Continues'
    BY <1>1 DEF Continues
  <2> DEFINE last == received[Len(received)][1]
             count == received[Len(received)][2].count
  <2>2. last \in Call /\ count \in Nat /\ Continues
    BY <2>1 DEF TypeOK, Ordered, Frame
  <2>3. handler'[last] \notin {"none", "queued"} /\ count <= taken' /\ last <= call
    BY <1>1, <2>1, <2>2 DEF Continues
  <2>4. call > 0 => call \in Call
    BY DEF TypeOK, Call
  <2>5. call > 0 /\ Live(call)' => Live(call) /\ Sent(call)' = Sent(call)
    BY <1>1, <1>3, <2>4 DEF Live
  <2>6. QED
    BY <1>1, <2>1, <2>2, <2>3, <2>5 DEF Continues
<1>6. GapsOnlyBetweenCalls'
  BY <1>1 DEF Ordered, GapsOnlyBetweenCalls
<1>7. QED
  BY <1>4, <1>5, <1>6 DEF Ordered

\* A line is sent: it follows what is in flight, or the frame received last.
LEMMA OrderedSend ==
    ASSUME TypeOK, OneServed, Ordered, NEW c \in Call, Send(c), link[c] = "up"
    PROVE  Ordered'
<1> DEFINE old == wire[c]
           new == wire'[c]
           held == payload[c]
<1>1. /\ UNCHANGED <<taken, payload, call, received>> /\ taken \in Nat
      /\ handler[c] = "send" /\ handler'[c] \in {"next", "done"}
      /\ \A d \in Call : d # c => /\ handler'[d] = handler[d] /\ link'[d] = link[d]
                                  /\ wire'[d] = wire[d]
      /\ new = Append(old, held) /\ old \in Seq(Frame)
  BY DEF Send, client, TypeOK
<1>2. held \in Frame /\ held.count = taken /\ InFlight(c) /\ Live(c) /\ Sent(c) = taken - 1
  BY <1>1 DEF Ordered, InFlight, Live, Serving, Sent
<1>3. /\ Len(new) = Len(old) + 1 /\ Len(old) \in Nat /\ Len(new) \in Nat
      /\ new[Len(old) + 1] = held /\ \A k \in 1 .. Len(old) : new[k] = old[k]
      /\ new # <<>>
  BY <1>1, <1>2
<1>4. \A k \in 1 .. Len(old) : old[k].count = taken - 1 - Len(old) + k
  BY <1>2 DEF InFlight
<1>5. Live(c)' => Sent(c)' = taken
  BY <1>1 DEF Live, Serving, Sent
<1>6. InFlight(c)' <=> /\ c <= call
                       /\ \A k \in 1 .. Len(new) : /\ new[k].count = new[1].count + k - 1
                                                   /\ new[k].count <= taken
                       /\ Live(c)' => \A k \in 1 .. Len(new) :
                                          new[k].count = Sent(c)' - Len(new) + k
  BY <1>1 DEF InFlight
<1> HIDE DEF old, new, held
<1>7. \A k \in 1 .. Len(new) : new[k].count = taken - Len(new) + k
  <2>1. SUFFICES ASSUME NEW k \in 1 .. Len(new)
                 PROVE  new[k].count = taken - Len(new) + k
    OBVIOUS
  <2>2. taken - Len(new) + k = taken - 1 - Len(old) + k
    BY <1>1, <1>3
  <2>3. CASE k \in 1 .. Len(old)
    BY <1>3, <1>4, <2>2, <2>3
  <2>4. CASE k = Len(old) + 1
    <3>1. new[k].count = taken
      BY <1>2, <1>3, <2>4
    <3>2. taken - Len(new) + k = taken
      BY <1>1, <1>3, <2>4
    <3>3. QED
      BY <3>1, <3>2
  <2>5. QED
    BY <1>3, <2>3, <2>4
<1>8. new[1].count = taken - Len(old)
  <2>1. 1 \in 1 .. Len(new) /\ taken - Len(new) + 1 = taken - Len(old)
    BY <1>1, <1>3
  <2>2. QED
    BY <1>7, <2>1
<1>9. ASSUME NEW d \in Call
      PROVE  InFlight(d)'
  <2>1. CASE d = c
    <3>1. c <= call
      BY <1>1, <1>2 DEF InFlight
    <3>2. \A k \in 1 .. Len(new) : new[k].count = new[1].count + k - 1 /\ new[k].count <= taken
      BY <1>1, <1>3, <1>7, <1>8
    <3>3. QED
      BY <1>5, <1>6, <1>7, <2>1, <3>1, <3>2
  <2>2. CASE d # c
    <3>1. InFlight(d)
      BY DEF Ordered
    <3>2. QED
      BY <1>1, <2>2, <3>1 DEF InFlight, Live, Serving, Sent
  <2>3. QED
    BY <2>1, <2>2
<1>10. Continues'
  <2>1. SUFFICES ASSUME received # <<>>
                 PROVE  Continues'
    BY <1>1 DEF Continues
  <2> DEFINE last == received[Len(received)][1]
             count == received[Len(received)][2].count
  <2>2. last \in Call /\ count \in Nat /\ Continues
    BY <2>1 DEF TypeOK, Ordered, Frame
  <2>3. last <= call /\ count <= taken /\ handler'[last] \notin {"none", "queued"}
    BY <1>1, <2>1, <2>2 DEF Continues
  <2>4. CASE c = call
    <3>1. call > 0
      BY <2>4 DEF Call
    <3>2. /\ count <= taken - 1 - Len(old)
          /\ last = call => count = taken - 1 - Len(old)
      BY <1>2, <2>1, <2>2, <2>4, <3>1 DEF Continues, old
    <3> HIDE DEF last, count
    <3>3. /\ new[1].count > count
          /\ last = call => new[1].count = count + 1
      BY <1>1, <1>3, <1>8, <2>2, <3>2
    <3>4. /\ count <= taken - Len(new)
          /\ last = call => count = taken - Len(new)
      <4>1. taken - Len(new) = taken - 1 - Len(old)
        BY <1>1, <1>3
      <4>2. QED
        BY <3>2, <4>1
    <3>5. /\ new = wire'[call] /\ (Live(call)' => Sent(call)' = taken)
      BY <1>1, <1>5, <2>4 DEF new
    <3>6. QED
      BY <1>1, <2>1, <2>3, <3>3, <3>4, <3>5 DEF Continues, last, count
  <2>5. CASE c # call
    <3>1. call > 0 => call \in Call
      BY DEF TypeOK, Call
    <3>2. call > 0 => /\ wire'[call] = wire[call] /\ Sent(call)' = Sent(call)
                      /\ Live(call)' <=> Live(call)
      BY <1>1, <2>5, <3>1 DEF Live, Serving, Sent
    <3>3. QED
      BY <1>1, <2>1, <2>2, <2>3, <3>2 DEF Continues
  <2>6. QED
    BY <2>4, <2>5
<1>11. GapsOnlyBetweenCalls'
  BY <1>1 DEF Ordered, GapsOnlyBetweenCalls
<1>12. QED
  BY <1>9, <1>10, <1>11 DEF Ordered

\* A new connection: nothing was ever sent on it.
LEMMA OrderedConnect ==
    ASSUME TypeOK, Ordered, Connect
    PROVE  Ordered'
<1>1. /\ call' = call + 1 /\ call \in Nat /\ call' \in Call /\ call' \in Nat
      /\ UNCHANGED <<taken, payload, wire, received>>
      /\ handler'[call'] = "queued"
      /\ \A d \in Call : d # call' => handler'[d] = handler[d] /\ link'[d] = link[d]
  BY FeedAssumption DEF Connect, TypeOK, Call
<1>2. handler[call'] = "none"
  BY <1>1 DEF Ordered, InFlight, Call
<1>3. wire[call'] = <<>>
  BY <1>1, <1>2 DEF Ordered, InFlight
<1>4. ASSUME NEW d \in Call
      PROVE  InFlight(d)'
  <2>1. InFlight(d)
    BY DEF Ordered
  <2>2. CASE d = call'
    <3>1. \A k \in 1 .. Len(wire[call']) : FALSE
      BY <1>3
    <3>2. QED
      BY <1>1, <1>3, <2>2, <3>1 DEF InFlight
  <2>3. CASE d # call'
    <3>1. handler'[d] # "none" => d <= call'
      BY <1>1, <2>1, <2>3 DEF InFlight, Call
    <3>2. QED
      BY <1>1, <2>1, <2>3, <3>1 DEF InFlight, Live, Serving, Sent
  <2>4. QED
    BY <2>2, <2>3
<1>5. Continues'
  <2>1. SUFFICES ASSUME received # <<>>
                 PROVE  Continues'
    BY <1>1 DEF Continues
  <2> DEFINE last == received[Len(received)][1]
             count == received[Len(received)][2].count
  <2>2. last \in Call /\ last \in Nat /\ Continues
    BY <2>1 DEF TypeOK, Ordered, Call
  <2>3. last <= call /\ count <= taken /\ handler[last] \notin {"none", "queued"}
    BY <2>1, <2>2 DEF Continues
  <2>4. last # call' /\ last <= call' /\ handler'[last] \notin {"none", "queued"}
    BY <1>1, <2>2, <2>3
  <2>5. wire'[call'] = <<>> /\ ~Live(call)'
    BY <1>1, <1>3 DEF Live, Serving
  <2>6. QED
    BY <1>1, <2>1, <2>3, <2>4, <2>5 DEF Continues
<1>6. GapsOnlyBetweenCalls'
  BY <1>1 DEF Ordered, GapsOnlyBetweenCalls
<1>7. QED
  BY <1>4, <1>5, <1>6 DEF Ordered

\* What is left of a sequence without its head.
LEMMA HeadAndTail ==
    ASSUME NEW S, NEW s \in Seq(S), s # <<>>
    PROVE  /\ Head(s) = s[1] /\ Head(s) \in S
           /\ Tail(s) \in Seq(S) /\ Len(Tail(s)) = Len(s) - 1
           /\ Len(Tail(s)) \in Nat /\ Len(s) \in Nat /\ 1 \in 1 .. Len(s)
           /\ \A k \in 1 .. Len(Tail(s)) : Tail(s)[k] = s[k + 1] /\ k + 1 \in 1 .. Len(s)
OBVIOUS

\* The feed gets the next frame of the current connection.
LEMMA OrderedReceive ==
    ASSUME TypeOK, OneServed, Ordered, Receive, UNCHANGED <<mock, link, call>>,
           wire' = [wire EXCEPT ![call] = Tail(@)],
           received' = Append(received, <<call, Head(wire[call])>>)
    PROVE  Ordered'
<1> DEFINE old == wire[call]
           new == wire'[call]
           frame == Head(wire[call])
           sent == Sent(call)
<1>1. call \in Call /\ call \in Nat /\ call > 0
  BY DEF Receive, OneServed, TypeOK, Call
<1>2. old \in Seq(Frame) /\ old # <<>> /\ received \in Seq(Call \X Frame)
  BY <1>1 DEF Receive, TypeOK
<1>3. /\ UNCHANGED <<taken, handler, payload, link, call>> /\ taken \in Nat
      /\ handler[call] \in {"none", "queued", "next", "send", "refused", "done"}
      /\ \A d \in Call : d # call => wire'[d] = wire[d]
      /\ \A d \in Call : (Live(d)' <=> Live(d)) /\ Sent(d)' = Sent(d)
      /\ sent \in Int
  BY <1>1 DEF mock, TypeOK, Live, Serving, Sent
<1>4. /\ frame = old[1] /\ frame \in Frame /\ frame.count \in Nat
      /\ new \in Seq(Frame) /\ Len(new) = Len(old) - 1
      /\ Len(new) \in Nat /\ Len(old) \in Nat /\ 1 \in 1 .. Len(old)
      /\ \A k \in 1 .. Len(new) : new[k] = old[k + 1] /\ k + 1 \in 1 .. Len(old)
  <2>1. new = Tail(old)
    BY <1>1 DEF TypeOK
  <2>2. frame = Head(old)
    OBVIOUS
  <2> HIDE DEF old, new, frame
  <2>3. /\ frame = old[1] /\ frame \in Frame
        /\ new \in Seq(Frame) /\ Len(new) = Len(old) - 1
        /\ Len(new) \in Nat /\ Len(old) \in Nat /\ 1 \in 1 .. Len(old)
        /\ \A k \in 1 .. Len(new) : new[k] = old[k + 1] /\ k + 1 \in 1 .. Len(old)
    BY <1>2, <2>1, <2>2, HeadAndTail
  <2>4. frame.count \in Nat
    BY <2>3 DEF Frame
  <2>5. QED
    BY <2>3, <2>4
<1>5. /\ Len(received') = Len(received) + 1 /\ Len(received) \in Nat
      /\ received'[Len(received')] = <<call, frame>>
      /\ \A k \in 1 .. Len(received) : received'[k] = received[k]
  BY <1>1, <1>2, <1>4
<1>6. InFlight(call) /\ Continues
  BY <1>1 DEF Ordered
<1>7. handler[call] \notin {"none", "queued"}
  BY <1>2, <1>6 DEF InFlight
<1>8. /\ \A k \in 1 .. Len(old) : old[k].count = frame.count + k - 1 /\ old[k].count <= taken
      /\ Live(call) => \A k \in 1 .. Len(old) : old[k].count = sent - Len(old) + k
  BY <1>4, <1>6 DEF InFlight
<1>9. old = wire[call] /\ new = wire'[call] /\ frame = Head(wire[call]) /\ sent = Sent(call)
  OBVIOUS
<1> HIDE DEF old, new, frame, sent
<1>10. /\ \A k \in 1 .. Len(new) : new[k].count = frame.count + k /\ new[k].count <= taken
       /\ frame.count <= taken
       /\ Live(call) => frame.count = sent - Len(new)
  <2>1. \A k \in 1 .. Len(new) : new[k].count = frame.count + k /\ new[k].count <= taken
    <3>1. SUFFICES ASSUME NEW k \in 1 .. Len(new)
                   PROVE  new[k].count = frame.count + k /\ new[k].count <= taken
      OBVIOUS
    <3>2. new[k] = old[k + 1] /\ k + 1 \in 1 .. Len(old)
      BY <1>4, <3>1
    <3>3. old[k + 1].count = frame.count + (k + 1) - 1 /\ old[k + 1].count <= taken
      BY <1>8, <3>2
    <3>4. frame.count + (k + 1) - 1 = frame.count + k
      BY <1>4
    <3>5. QED
      BY <3>2, <3>3, <3>4
  <2>2. frame.count <= taken
    BY <1>4, <1>8
  <2>3. Live(call) => frame.count = sent - Len(new)
    <3>1. Live(call) => frame.count = sent - Len(old) + 1
      BY <1>4, <1>8
    <3>2. sent - Len(old) + 1 = sent - Len(new)
      BY <1>3, <1>4
    <3>3. QED
      BY <3>1, <3>2
  <2>4. QED
    BY <2>1, <2>2, <2>3
<1>11. ASSUME NEW d \in Call
       PROVE  InFlight(d)'
  <2>1. InFlight(d)
    BY DEF Ordered
  <2>2. CASE d = call
    <3>1. \A k \in 1 .. Len(new) : new[k].count = new[1].count + k - 1 /\ new[k].count <= taken
      <4>1. Len(new) > 0 => new[1].count = frame.count + 1
        <5>1. Len(new) > 0 => 1 \in 1 .. Len(new)
          BY <1>4
        <5>2. QED
          BY <5>1, <1>10
      <4>2. ASSUME NEW k \in 1 .. Len(new)
            PROVE  new[k].count = new[1].count + k - 1 /\ new[k].count <= taken
        <5>1. new[k].count = frame.count + k /\ new[k].count <= taken
          BY <1>10
        <5>2. new[1].count = frame.count + 1
          BY <1>4, <4>1, <4>2
        <5>3. QED
          BY <1>4, <5>1, <5>2
      <4>3. QED
        BY <4>2
    <3>2. Live(call) => \A k \in 1 .. Len(new) : new[k].count = sent - Len(new) + k
      BY <1>3, <1>4, <1>10
    <3>3. QED
      BY <1>3, <1>7, <1>9, <2>1, <2>2, <3>1, <3>2 DEF InFlight
  <2>3. CASE d # call
    <3>1. wire'[d] = wire[d] /\ (Live(d)' <=> Live(d)) /\ Sent(d)' = Sent(d)
      BY <1>3, <2>3
    <3>2. QED
      BY <1>3, <2>1, <3>1 DEF InFlight
  <2>4. QED
    BY <2>2, <2>3
<1>12. Continues'
  <2>1. new # <<>> => new[1].count = frame.count + 1 /\ new[1].count > frame.count
    <3>1. new # <<>> => 1 \in 1 .. Len(new)
      BY <1>4
    <3>2. QED
      <4>1. new # <<>> => new[1].count = frame.count + 1
        BY <1>10, <3>1
      <4>2. QED
        BY <1>4, <4>1
  <2>2. Live(call) => /\ frame.count = sent - Len(new)
                      /\ frame.count <= sent - Len(new)
    BY <1>4, <1>10
  <2>3. received'[Len(received')][1] = call /\ received'[Len(received')][2] = frame
    BY <1>5
  <2>4. call <= call
    BY <1>1
  <2>5. (Live(call)' <=> Live(call)) /\ Sent(call)' = sent
    BY <1>1, <1>3, <1>9
  <2>6. QED
    BY <1>3, <1>7, <1>9, <1>10, <2>1, <2>2, <2>3, <2>4, <2>5 DEF Continues
<1>13. GapsOnlyBetweenCalls'
  <2>1. ASSUME NEW k \in 2 .. Len(received')
        PROVE  /\ received'[k][2].count > received'[k - 1][2].count
               /\ received'[k][1] = received'[k - 1][1] =>
                      received'[k][2].count = received'[k - 1][2].count + 1
    <3>1. CASE k <= Len(received)
      BY <1>5, <3>1 DEF Ordered, GapsOnlyBetweenCalls
    <3>2. CASE k = Len(received')
      <4>1. received # <<>> /\ received'[k - 1] = received[Len(received)]
        BY <1>2, <1>5, <3>2
      <4>2. received'[k] = <<call, frame>>
        BY <1>5, <3>2
      <4>3. frame.count > received[Len(received)][2].count
            /\ (received[Len(received)][1] = call =>
                   frame.count = received[Len(received)][2].count + 1)
        BY <1>1, <1>2, <1>4, <1>6, <1>9, <4>1 DEF Continues
      <4>4. QED
        BY <4>1, <4>2, <4>3
    <3>3. QED
      BY <1>5, <3>1, <3>2
  <2>2. QED
    BY <2>1 DEF GapsOnlyBetweenCalls
<1>14. QED
  BY <1>11, <1>12, <1>13 DEF Ordered

\* A received frame is delivered, or it is too long and the connection ends.
LEMMA ReceiveEffect ==
    ASSUME Receive
    PROVE  \/ Leave /\ UNCHANGED <<book, received>>
           \/ LET frame == Head(wire[call])
              IN  /\ received' = Append(received, <<call, frame>>)
                  /\ book' = IF Parses(File[frame.line]) THEN Apply(File[frame.line]) ELSE book
                  /\ wire' = [wire EXCEPT ![call] = Tail(@)]
                  /\ UNCHANGED <<mock, link, call>>
BY DEF Receive

\* A line is taken, or next() passes it over.
LEMMA NextLineEffect ==
    ASSUME TypeOK, NEW c \in Call, NextLine(c)
    PROVE  taken' # taken \/ UNCHANGED <<taken, handler, payload>>
<1>1. CASE taken' = taken + 1
  BY <1>1 DEF TypeOK
<1>2. CASE UNCHANGED <<taken, handler, payload>>
  BY <1>2
<1>3. QED
  BY <1>1, <1>2 DEF NextLine

\* Every step keeps the order.
LEMMA OrderedStep ==
    ASSUME TypeOK, OneServed, Ordered, [Next]_vars
    PROVE  Ordered'
<1>1. CASE Host \/ Interrupt
  BY <1>1, QuietMock, OrderedQuiet
<1>2. ASSUME NEW c \in Call, Serve(c) \/ Break(c)
      PROVE  Ordered'
  <2>1. CASE Unauthorized(c) \/ NotFound(c) \/ Reopen(c) \/ SendFails(c) \/ Break(c)
    BY <2>1, QuietMock, OrderedQuiet
  <2>2. CASE Accept(c)
    BY <2>2, QuietMock, OrderedQuiet, OrderedAnswer
  <2>3. CASE Send(c)
    BY <2>3, QuietMock, OrderedQuiet, OrderedSend
  <2>4. CASE NextLine(c)
    BY <2>4, NextLineEffect, QuietMock, OrderedQuiet, OrderedNextLine
  <2>5. QED
    BY <1>2, <2>1, <2>2, <2>3, <2>4 DEF Serve
<1>3. CASE Check \/ ConnectFails \/ Handshake \/ Loop \/ ReceiveEnd \/ Start \/ Stop \/ UNCHANGED vars
  BY <1>3, QuietFeed, OrderedQuiet
<1>4. CASE Receive
  <2>1. CASE Leave /\ UNCHANGED <<book, received>>
    BY <1>4, <2>1, QuietFeed, OrderedQuiet
  <2>2. CASE ~(Leave /\ UNCHANGED <<book, received>>)
    <3>1. /\ received' = Append(received, <<call, Head(wire[call])>>)
          /\ wire' = [wire EXCEPT ![call] = Tail(@)]
          /\ UNCHANGED <<mock, link, call>>
      BY <1>4, <2>2, ReceiveEffect
    <3>2. QED
      BY <1>4, <3>1, OrderedReceive
  <2>3. QED
    BY <2>1, <2>2
<1>5. CASE Connect
  BY <1>5, OrderedConnect
<1>6. QED
  BY <1>1, <1>2, <1>3, <1>4, <1>5 DEF Next, Pump

(***************************************************************************)
(* The number of the book.                                                 *)
(***************************************************************************)

\* An event that moves a level or an order carries no number, or one above
\* that of the book; either way the book's number does not fall behind it.
LEMMA ApplyAdvances ==
    ASSUME book \in Book, NEW k \in Index, Parses(File[k])
    PROVE  /\ Apply(File[k]).sequence \in Nat
           /\ book.sequence <= Apply(File[k]).sequence
           /\ File[k].sequence <= Apply(File[k]).sequence
           /\ <<Apply(File[k]).level, Apply(File[k]).orders>> # <<book.level, book.orders>> =>
                  File[k].sequence = 0 \/ book.sequence < File[k].sequence
<1>1. File[k].sequence \in Nat /\ book.sequence \in Nat
  BY LineOfFile DEF Book
<1>2. CASE Stale(book, File[k].sequence)
  BY <1>1, <1>2, ApplyReturns DEF Stale
<1>3. CASE ~Stale(book, File[k].sequence)
  BY <1>1, <1>3, ApplyReturns DEF Stale
<1>4. QED
  BY <1>2, <1>3

\* What a step does to the book, and to what was received.
LEMMA BookStep ==
    ASSUME TypeOK, OneServed, [Next]_vars
    PROVE  \/ UNCHANGED <<book, received>>
           \/ \E frame \in Frame :
                 /\ received' = Append(received, <<call, frame>>)
                 /\ book' = IF Parses(File[frame.line]) THEN Apply(File[frame.line]) ELSE book
<1>1. CASE Receive
  <2>1. call \in Call
    BY <1>1 DEF Receive, OneServed, TypeOK, Call
  <2>2. wire[call] \in Seq(Frame) /\ wire[call] # <<>>
    BY <1>1, <2>1 DEF Receive, TypeOK
  <2>3. Head(wire[call]) \in Frame
    BY <2>2
  <2>4. QED
    BY <1>1, <2>3, ReceiveEffect
<1>2. CASE Host \/ Interrupt \/ \E c \in Call : Serve(c) \/ Break(c)
  BY <1>2 DEF Host, StartServer, StopServer, Interrupt, Serve, Break, Accept, Answer, Unauthorized,
     NotFound, NextLine, Reopen, Send, SendFails, client
<1>3. CASE Check \/ ConnectFails \/ Handshake \/ Loop \/ ReceiveEnd \/ Connect \/ Start \/ Stop
           \/ UNCHANGED vars
  BY <1>3 DEF Check, ConnectFails, Handshake, Loop, ReceiveEnd, Connect, Start, Stop, vars, client
<1>4. QED
  BY <1>1, <1>2, <1>3 DEF Next, Pump

\* The book stays ahead of every line that was understood, and what a step
\* changes in it carries a number above all of them.
LEMMA BookIsAheadStep ==
    ASSUME TypeOK, OneServed, BookIsAhead, [Next]_vars
    PROVE  /\ BookIsAhead'
           /\ <<book'.level, book'.orders>> # <<book.level, book.orders>> =>
                LET this == SequenceOf(received'[Len(received')])
                IN  this = 0 \/ \A k \in DOMAIN received :
                        Parses(File[received[k][2].line]) => SequenceOf(received[k]) < this
<1>1. CASE UNCHANGED <<book, received>>
  BY <1>1 DEF BookIsAhead
<1>2. ASSUME NEW frame \in Frame,
             received' = Append(received, <<call, frame>>),
             book' = IF Parses(File[frame.line]) THEN Apply(File[frame.line]) ELSE book
      PROVE  /\ BookIsAhead'
             /\ <<book'.level, book'.orders>> # <<book.level, book.orders>> =>
                  LET this == SequenceOf(received'[Len(received')])
                  IN  this = 0 \/ \A k \in DOMAIN received :
                          Parses(File[received[k][2].line]) => SequenceOf(received[k]) < this
  <2>1. /\ DOMAIN received = 1 .. Len(received) /\ Len(received) \in Nat
        /\ DOMAIN received' = 1 .. Len(received) + 1 /\ Len(received') = Len(received) + 1
        /\ received'[Len(received) + 1] = <<call, frame>>
        /\ \A k \in 1 .. Len(received) : received'[k] = received[k]
    <3>1. received \in [1 .. Len(received) -> Call \X Frame] /\ Len(received) \in Nat
      BY DEF TypeOK
    <3>2. QED
      BY <1>2, <3>1
  <2>2. \A k \in 1 .. Len(received) :
            received[k][2].line \in Index /\ SequenceOf(received[k]) \in Nat
    <3>1. \A k \in 1 .. Len(received) : received[k][2] \in Frame
      BY DEF TypeOK
    <3>2. QED
      BY <3>1, LineOfFile DEF Frame, SequenceOf
  <2>3. frame.line \in Index /\ book \in Book /\ book.sequence \in Nat
    BY DEF Frame, TypeOK, Book
  <2>4. book.sequence <= book'.sequence /\ book'.sequence \in Nat
    BY <1>2, <2>3, ApplyAdvances
  <2>5. Parses(File[frame.line]) => SequenceOf(<<call, frame>>) <= book'.sequence
    BY <1>2, <2>3, ApplyAdvances DEF SequenceOf
  <2>6. BookIsAhead'
    <3>1. SUFFICES ASSUME NEW k \in DOMAIN received', Parses(File[received'[k][2].line])
                   PROVE  SequenceOf(received'[k]) <= book'.sequence
      BY DEF BookIsAhead, SequenceOf
    <3>2. CASE k \in 1 .. Len(received)
      <4>1. received'[k] = received[k] /\ k \in DOMAIN received
        BY <2>1, <3>2
      <4>2. SequenceOf(received[k]) <= book.sequence /\ SequenceOf(received[k]) \in Nat
        BY <2>2, <3>1, <3>2, <4>1 DEF BookIsAhead
      <4>3. QED
        BY <2>3, <2>4, <4>1, <4>2
    <3>3. CASE k = Len(received) + 1
      <4>1. received'[k] = <<call, frame>>
        BY <2>1, <3>3
      <4>2. Parses(File[frame.line])
        BY <3>1, <4>1
      <4>3. QED
        BY <2>5, <4>1, <4>2
    <3>4. QED
      BY <2>1, <3>1, <3>2, <3>3
  <2>7. ASSUME <<book'.level, book'.orders>> # <<book.level, book.orders>>
        PROVE  \/ SequenceOf(<<call, frame>>) = 0
               \/ \A k \in DOMAIN received :
                     Parses(File[received[k][2].line]) =>
                         SequenceOf(received[k]) < SequenceOf(<<call, frame>>)
    <3>1. Parses(File[frame.line]) /\ book' = Apply(File[frame.line])
      BY <1>2, <2>7
    <3>2. \/ SequenceOf(<<call, frame>>) = 0
          \/ book.sequence < SequenceOf(<<call, frame>>)
      BY <2>3, <2>7, <3>1, ApplyAdvances DEF SequenceOf
    <3>3. SequenceOf(<<call, frame>>) \in Nat
      BY <2>3, LineOfFile DEF SequenceOf
    <3>4. ASSUME NEW k \in DOMAIN received, Parses(File[received[k][2].line]),
                 book.sequence < SequenceOf(<<call, frame>>)
          PROVE  SequenceOf(received[k]) < SequenceOf(<<call, frame>>)
      <4>1. k \in 1 .. Len(received)
        BY <2>1
      <4>2. SequenceOf(received[k]) <= book.sequence /\ SequenceOf(received[k]) \in Nat
        BY <2>2, <3>4, <4>1 DEF BookIsAhead
      <4>3. QED
        BY <2>3, <3>3, <3>4, <4>2
    <3>5. QED
      BY <3>2, <3>4
  <2>8. received'[Len(received')] = <<call, frame>>
    BY <2>1
  <2>9. QED
    BY <2>6, <2>7, <2>8
<1>3. QED
  BY <1>1, <1>2, BookStep

(***************************************************************************)
(* The theorems.                                                           *)
(***************************************************************************)

FeedInvariant == TypeOK /\ OneServed /\ Ordered /\ BookIsAhead

\* The invariants hold when the programs start.
LEMMA InitInvariant == Init => FeedInvariant
<1> SUFFICES ASSUME Init PROVE FeedInvariant
  OBVIOUS
<1>1. <<>> \in Seq(Frame) /\ <<>> \in Seq(Call \X Frame) /\ Len(<<>>) = 0
  OBVIOUS
<1>2. 0 \in 0 .. Len(File) /\ 0 \in 0 .. MaxTaken /\ 0 \in 0 .. MaxCalls
  BY FeedAssumption
<1>3. EmptyBook \in Book
  BY DEF EmptyBook, EmptyLevels, Book, Levels
<1>4. TypeOK
  BY <1>1, <1>2, <1>3 DEF Init, TypeOK
<1>5. OneServed
  BY DEF Init, OneServed, Serving
<1>6. \A c \in Call : InFlight(c)
  BY <1>1 DEF Init, InFlight, Live, Serving
<1>7. Continues /\ GapsOnlyBetweenCalls /\ BookIsAhead
  BY <1>1 DEF Init, Continues, GapsOnlyBetweenCalls, BookIsAhead
<1>8. QED
  BY <1>4, <1>5, <1>6, <1>7 DEF FeedInvariant, Ordered

\* Every step keeps the types.
LEMMA TypeStep ==
    ASSUME TypeOK, OneServed, Ordered, [Next]_vars
    PROVE  TypeOK'
<1>1. CASE UNCHANGED vars
  BY <1>1 DEF vars, mock, socket, client, TypeOK
<1>2. CASE Next
  BY <1>2, MockTypes, FeedTypes DEF Next, Ordered
<1>3. QED
  BY <1>1, <1>2

\* The invariants hold together.
LEMMA FeedInvariance == Spec => []FeedInvariant
<1>1. FeedInvariant /\ [Next]_vars => FeedInvariant'
  BY TypeStep, OneServedStep, OrderedStep, BookIsAheadStep DEF FeedInvariant
<1>2. QED
  BY <1>1, InitInvariant, PTL DEF Spec

\* Every variable of the mock exchange and the feed keeps its type.
THEOREM TypeCorrect == Spec => []TypeOK
<1>1. FeedInvariant => TypeOK
  BY DEF FeedInvariant
<1>2. QED
  BY <1>1, FeedInvariance, PTL

\* The feed gets the lines in the order taken, none twice, and misses lines
\* only between two connections, whatever breaks and whoever closes.
THEOREM LossOnlyBetweenCalls == Spec => []GapsOnlyBetweenCalls
<1>1. FeedInvariant => GapsOnlyBetweenCalls
  BY DEF FeedInvariant, Ordered
<1>2. QED
  BY <1>1, FeedInvariance, PTL

\* No numbered line takes effect twice or after a later one, for every file
\* and however often the replay wraps around.
THEOREM LinesTakeEffectOnce == Spec => NoLineTwice
<1>1. FeedInvariant /\ [Next]_vars =>
        [<<book'.level, book'.orders>> # <<book.level, book.orders>> =>
            LET this == SequenceOf(received'[Len(received')])
            IN  this = 0 \/ \A k \in DOMAIN received :
                    Parses(File[received[k][2].line]) => SequenceOf(received[k]) < this]_vars
  BY BookIsAheadStep DEF FeedInvariant
<1>2. QED
  BY <1>1, FeedInvariance, PTL DEF Spec, NoLineTwice

=============================================================================
