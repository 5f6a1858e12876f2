------------------------------ MODULE ScqRing ------------------------------
(***************************************************************************)
(* The lock-free ring of indices kept in lockfree-waitfree for the queues  *)
(* to come (lfring_cas1.h): lfring_enqueue and lfring_dequeue, with        *)
(* nonempty = false, interleaved between their accesses to shared memory.  *)
(*                                                                         *)
(* An entry of the array is one word in the code: the cycle of the ticket  *)
(* it was written for, the safe bit n, and an index, n - 1 for none.  The  *)
(* atomics are sequentially consistent here, a compare-exchange fails only *)
(* when the values differ, and 64-bit tickets do not wrap around.          *)
(***************************************************************************)
EXTENDS Integers, FiniteSets

CONSTANTS Half,         \* 2^order; the ring has twice as many slots
          Producer, Consumer,
          MaxCalls      \* bound: calls of each thread

ASSUME RingAssumption == /\ Half \in Nat \ {0}
                         /\ Producer \cap Consumer = {} /\ IsFiniteSet(Consumer)
                         /\ MaxCalls \in [Producer \cup Consumer -> Nat]

Thread == Producer \cup Consumer
Slots == 2 * Half
Index == 0 .. Half - 1
None == Slots - 1

VARIABLES
    head, tail, threshold, array,
    pc,       \* the next access to shared memory, or "idle" between calls
    ticket,   \* the local tail of an enqueue, the local head of a dequeue
    entry,    \* the local entry
    limits,   \* the arguments <<tail, head>> of __lfring_catchup
    index,    \* what an enqueuer was given, None when that was dequeued
    calls,    \* history: calls a thread has made
    stored,   \* history: indices whose enqueue has returned, not dequeued
    before,   \* history: what was stored when an index came in, and still is
    emptied   \* history: dequeuers since whose call the ring may have been empty

ring == <<head, tail, threshold, array>>
local == <<ticket, entry, limits>>
vars == <<ring, local, pc, index, calls, stored, before, emptied>>

Cycle(position) == position \div Slots
Slot(position) == position % Slots
Fresh == [cycle |-> -1, safe |-> TRUE, index |-> None]

Threshold == Half + Slots - 1

InitEmpty == /\ tail = 0 /\ threshold = -1
             /\ array = [s \in 0 .. Slots - 1 |-> Fresh]
             /\ stored = {} /\ before = [i \in Index |-> {}]

InitFull == /\ tail = Half /\ threshold = Threshold
            /\ array = [s \in 0 .. Slots - 1 |->
                  IF s < Half THEN [cycle |-> 0, safe |-> TRUE, index |-> s] ELSE Fresh]
            /\ stored = Index /\ before = [i \in Index |-> 0 .. i - 1]

Init == /\ InitEmpty \/ InitFull
        /\ head = 0
        /\ pc = [t \in Thread |-> "idle"]
        /\ ticket = [t \in Thread |-> 0]
        /\ entry = [t \in Thread |-> Fresh]
        /\ limits = [c \in Consumer |-> <<0, 0>>]
        /\ index = [p \in Producer |-> None]
        /\ calls = [t \in Thread |-> 0]
        /\ emptied = {}

Entering == {index[p] : p \in Producer} \ {None}
Busy == {c \in Consumer : pc[c] # "idle"}

\* As many dequeues besides c's are under way as there are indices for them.
MayBeEmptyFor(c) == Cardinality(stored) <= Cardinality(Busy \ {c})

Goto(t, label) == pc' = [pc EXCEPT ![t] = label]
Observe == emptied' = {c \in Busy' : c \in emptied \/ MayBeEmptyFor(c)'}
Quiet == UNCHANGED <<index, calls, stored, before>> /\ Observe

Forget(t) == /\ ticket' = [ticket EXCEPT ![t] = 0]
             /\ entry' = [entry EXCEPT ![t] = Fresh]

-----------------------------------------------------------------------------
(* lfring_enqueue.                                                         *)

TakeTail(p) == /\ ticket' = [ticket EXCEPT ![p] = tail]
               /\ tail' = tail + 1
               /\ Goto(p, "load")
               /\ UNCHANGED <<head, threshold, array, entry, limits>>

\* The caller owns the index: it is not in the ring, which has room for all.
Enqueue(p, i) ==
    /\ pc[p] = "idle" /\ calls[p] < MaxCalls[p]
    /\ i \in Index \ (stored \cup Entering)
    /\ TakeTail(p)
    /\ index' = [index EXCEPT ![p] = i]
    /\ calls' = [calls EXCEPT ![p] = @ + 1]
    /\ before' = [before EXCEPT ![i] = stored]
    /\ UNCHANGED stored /\ Observe

NextTail(p) == pc[p] = "ticket" /\ TakeTail(p) /\ Quiet

\* Fault: an entry without index is good for any cycle.
JudgeIndex(p, seen) ==
    IF seen.index = None THEN IF seen.safe THEN "exchange" ELSE "head" ELSE "ticket"

\* Lines 179-183: only an older entry without index can be replaced.
Judge(p, seen) ==
    IF seen.index = None /\ seen.cycle < Cycle(ticket[p])
    THEN IF seen.safe THEN "exchange" ELSE "head"
    ELSE "ticket"

\* Line 177; a failed exchange (line 186) loads the entry, too.
LoadSlot(p) == /\ entry' = [entry EXCEPT ![p] = array[Slot(ticket[p])]]
               /\ Goto(p, Judge(p, entry'[p]))
               /\ UNCHANGED <<ring, ticket, limits>>

Load(p) == pc[p] = "load" /\ LoadSlot(p) /\ Quiet

\* Fault: an unsafe slot is used whatever the head is.
LoadNoHead(p) ==
    /\ pc[p] = "head"
    /\ Goto(p, "exchange")
    /\ UNCHANGED <<ring, local>> /\ Quiet

\* An unsafe slot is used only while no dequeuer has taken its ticket.
LoadHead(p) ==
    /\ pc[p] = "head"
    /\ Goto(p, IF head <= ticket[p] THEN "exchange" ELSE "ticket")
    /\ UNCHANGED <<ring, local>> /\ Quiet

\* Fault: a failed exchange is tried again with the entry it was tried with.
StoreStubbornly(p) ==
    /\ pc[p] = "exchange"
    /\ IF array[Slot(ticket[p])] = entry[p]
       THEN /\ array' = [array EXCEPT ![Slot(ticket[p])] =
                   [cycle |-> Cycle(ticket[p]), safe |-> TRUE, index |-> index[p]]]
            /\ Goto(p, "threshold") /\ Forget(p)
            /\ UNCHANGED <<head, tail, threshold, limits>>
       ELSE UNCHANGED <<ring, local, pc>>
    /\ Quiet

StoreIndex(p) ==
    /\ pc[p] = "exchange"
    /\ IF array[Slot(ticket[p])] = entry[p]
       THEN /\ array' = [array EXCEPT ![Slot(ticket[p])] =
                   [cycle |-> Cycle(ticket[p]), safe |-> TRUE, index |-> index[p]]]
            /\ Goto(p, "threshold") /\ Forget(p)
            /\ UNCHANGED <<head, tail, threshold, limits>>
       ELSE LoadSlot(p)
    /\ Quiet

ReturnEnqueue(p) ==
    /\ Goto(p, "idle") /\ Forget(p)
    /\ stored' = stored \cup ({index[p]} \ {None})
    /\ index' = [index EXCEPT ![p] = None]
    /\ UNCHANGED <<limits, calls, before>> /\ Observe

LoadThreshold(p) ==
    /\ pc[p] = "threshold"
    /\ IF threshold = Threshold
       THEN ReturnEnqueue(p)
       ELSE Goto(p, "reset") /\ UNCHANGED local /\ Quiet
    /\ UNCHANGED ring

ResetThreshold(p) ==
    /\ pc[p] = "reset"
    /\ threshold' = Threshold
    /\ ReturnEnqueue(p)
    /\ UNCHANGED <<head, tail, array>>

Produce(p) == \/ \E i \in Index : Enqueue(p, i)
              \/ NextTail(p) \/ Load(p) \/ LoadHead(p) \/ StoreIndex(p)
              \/ LoadThreshold(p) \/ ResetThreshold(p)

-----------------------------------------------------------------------------
(* lfring_dequeue.                                                         *)

\* Line 219: with the threshold used up the ring is taken for empty.
Dequeue(c) ==
    /\ pc[c] = "idle" /\ calls[c] < MaxCalls[c]
    /\ calls' = [calls EXCEPT ![c] = @ + 1]
    /\ Goto(c, IF threshold < 0 THEN "idle" ELSE "ticket")
    /\ UNCHANGED <<ring, local, index, stored, before>> /\ Observe

TakeHead(c) ==
    /\ pc[c] = "ticket"
    /\ ticket' = [ticket EXCEPT ![c] = head]
    /\ head' = head + 1
    /\ Goto(c, "examine")
    /\ UNCHANGED <<tail, threshold, array, entry, limits>> /\ Quiet

\* Fault: any index that is found is taken, not only that of the ticket.
AppraiseIndex(c, seen) ==
    IF seen.index # None THEN "consume"
    ELSE IF seen.cycle < Cycle(ticket[c]) THEN "mark" ELSE "tail"

\* Lines 232-248: an older entry is marked, unless it is one already unsafe.
Appraise(c, seen) ==
    IF seen.cycle = Cycle(ticket[c]) THEN "consume"
    ELSE IF seen.cycle < Cycle(ticket[c]) /\ (seen.index = None \/ seen.safe)
    THEN "mark" ELSE "tail"

\* Lines 229-230; the re-reading of line 245 only makes this read a later one.
ExamineSlot(c) == /\ entry' = [entry EXCEPT ![c] = array[Slot(ticket[c])]]
                  /\ Goto(c, Appraise(c, entry'[c]))
                  /\ UNCHANGED <<ring, ticket, limits>>

Examine(c) == pc[c] = "examine" /\ ExamineSlot(c) /\ Quiet

\* Lines 234-236: fetch_or leaves no index, and the one that was loaded is returned.
Consume(c) ==
    /\ pc[c] = "consume"
    /\ array' = [array EXCEPT ![Slot(ticket[c])].index = None]
    /\ stored' = stored \ {entry[c].index}
    /\ index' = [p \in Producer |-> IF index[p] = entry[c].index THEN None ELSE index[p]]
    /\ before' = [i \in Index |-> before[i] \ {entry[c].index}]
    /\ Goto(c, "idle") /\ Forget(c)
    /\ UNCHANGED <<head, tail, threshold, limits, calls>> /\ Observe

\* An index that is left behind becomes unsafe, an empty slot gets the cycle.
Marked(c, seen) ==
    IF seen.index # None
    THEN [seen EXCEPT !.safe = FALSE]
    ELSE [seen EXCEPT !.cycle = Cycle(ticket[c])]

MarkSlot(c) ==
    /\ pc[c] = "mark"
    /\ IF array[Slot(ticket[c])] = entry[c]
       THEN /\ array' = [array EXCEPT ![Slot(ticket[c])] = Marked(c, entry[c])]
            /\ Goto(c, "tail") /\ UNCHANGED <<head, tail, threshold, ticket, limits>>
            /\ entry' = [entry EXCEPT ![c] = Fresh]
       ELSE ExamineSlot(c)
    /\ Quiet

\* Lines 254-256: at the tail the call will end empty.
LoadTail(c) ==
    /\ pc[c] = "tail"
    /\ limits' = [limits EXCEPT ![c] = <<tail, ticket[c] + 1>>]
    /\ Goto(c, IF tail <= ticket[c] + 1 THEN "catchup" ELSE "next")
    /\ UNCHANGED <<ring, ticket, entry>> /\ Quiet

\* __lfring_catchup: the tail is moved up to the head, unless others do it.
CatchUp(c) ==
    /\ pc[c] = "catchup"
    /\ IF tail = limits[c][1]
       THEN tail' = limits[c][2] /\ Goto(c, "give up")
       ELSE UNCHANGED tail /\ Goto(c, "catchup head")
    /\ UNCHANGED <<head, threshold, array, local>> /\ Quiet

CatchUpHead(c) ==
    /\ pc[c] = "catchup head"
    /\ limits' = [limits EXCEPT ![c] = <<@[1], head>>]
    /\ Goto(c, "catchup tail")
    /\ UNCHANGED <<ring, ticket, entry>> /\ Quiet

CatchUpTail(c) ==
    /\ pc[c] = "catchup tail"
    /\ limits' = [limits EXCEPT ![c] = <<tail, @[2]>>]
    /\ Goto(c, IF tail >= limits[c][2] THEN "give up" ELSE "catchup")
    /\ UNCHANGED <<ring, ticket, entry>> /\ Quiet

\* Lines 257 and 262: the threshold goes down; LFRING_EMPTY or the next ticket.
LowerThreshold(c) ==
    /\ pc[c] \in {"give up", "next"}
    /\ threshold' = threshold - 1
    /\ Goto(c, IF pc[c] = "give up" \/ threshold <= 0 THEN "idle" ELSE "ticket")
    /\ Forget(c)
    /\ limits' = [limits EXCEPT ![c] = <<0, 0>>]
    /\ UNCHANGED <<head, tail, array>> /\ Quiet

TakeOut(c) == \/ Dequeue(c) \/ TakeHead(c) \/ Examine(c) \/ Consume(c) \/ MarkSlot(c)
              \/ LoadTail(c) \/ CatchUp(c) \/ CatchUpHead(c) \/ CatchUpTail(c)
              \/ LowerThreshold(c)

-----------------------------------------------------------------------------

Next == (\E p \in Producer : Produce(p)) \/ (\E c \in Consumer : TakeOut(c))

Underway(t) == pc[t] # "idle"

\* Every thread is scheduled while it is inside a call; none need make one.
Spec == /\ Init /\ [][Next]_vars
        /\ \A p \in Producer : WF_vars(Underway(p) /\ Produce(p))
        /\ \A c \in Consumer : WF_vars(Underway(c) /\ TakeOut(c))

(***************************************************************************)
(* Properties.                                                             *)
(***************************************************************************)

(***************************************************************************)
(* A dequeue returns an index that was put in and that no other dequeue    *)
(* has returned since, whoever has overtaken whom between the ticket and   *)
(* the slot.                                                               *)
(***************************************************************************)
NothingTwice ==
    [][\A c \in Consumer :
         Consume(c) => entry[c].index \in stored \cup Entering]_vars

(***************************************************************************)
(* First in, first out: when an index is returned, those that were in the  *)
(* ring before its enqueue began are gone, or there is a dequeue under way *)
(* for each of them.                                                       *)
(***************************************************************************)
FirstInFirstOut ==
    [][\A c \in Consumer :
         Consume(c) =>
             Cardinality(before[entry[c].index]) <= Cardinality(Busy \ {c})]_vars

(***************************************************************************)
(* LFRING_EMPTY is only returned when at some moment of the call the ring  *)
(* was empty, or had no more in it than the other dequeues under way could *)
(* take: the threshold never hides an index that has been enqueued.  That  *)
(* is so while there are no more dequeuers than indices: each may lower    *)
(* the threshold after an enqueue has reset it, for a try that failed      *)
(* before, and more of them than it has to spare would use it up.          *)
(***************************************************************************)
ReturnsEmpty(c) ==
    /\ pc'[c] = "idle"
    /\ pc[c] \in {"give up", "next"} \/ (pc[c] = "idle" /\ calls'[c] # calls[c])

EmptyIsEmpty ==
    [][\A c \in Consumer : ReturnsEmpty(c) => c \in emptied \/ MayBeEmptyFor(c)]_vars

(***************************************************************************)
(* Once no new call begins, the calls under way all end: those that are    *)
(* left cannot keep one another from a slot, or sending one another on to  *)
(* the next ticket, for ever (lines 173 and 223 loop).  While others keep  *)
(* calling, one call may be overtaken without end: the ring is lock-free,  *)
(* not wait-free.                                                          *)
(***************************************************************************)
CallsEnd ==
    <>[][calls' = calls]_vars => []<>(\A t \in Thread : ~Underway(t))

=============================================================================
