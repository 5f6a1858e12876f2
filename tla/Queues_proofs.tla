--------------------------- MODULE Queues_proofs ---------------------------
(***************************************************************************)
(* Proofs about the two queues.                                            *)
(*                                                                         *)
(* The lock-free ring of indices (ScqRing): for any number of enqueuers    *)
(* and dequeuers and any size, no index is returned twice and the ring is  *)
(* first in, first out.  The invariant follows a ticket: from when it is   *)
(* taken until its dequeuer has dealt with its slot it is pending, and     *)
(* whatever lies in a slot for it, or may still be put there, needs it to  *)
(* be pending.                                                             *)
(*                                                                         *)
(* The queue with a mutex (ConcurrentQueue): its types, that no wake-up is *)
(* lost, and that its steps are steps of a FIFO channel.  NoLostWakeup is  *)
(* inductive given the types; its proof counts the notifications under     *)
(* way.                                                                    *)
(*                                                                         *)
(* The two have no variable in common, nor any thread.                     *)
(***************************************************************************)
EXTENDS ScqRing, ConcurrentQueue, FiniteSetTheorems, SequenceTheorems, TLAPS

-----------------------------------------------------------------------------
(* The ring: types.                                                        *)

Position == 0 .. Slots - 1
Entry == [cycle : Int, safe : BOOLEAN, index : Index \cup {None}]

EnqueueLabel == {"idle", "ticket", "load", "head", "exchange", "threshold", "reset"}
DequeueLabel == {"idle", "ticket", "examine", "consume", "mark", "tail", "next",
                 "catchup", "catchup head", "catchup tail", "give up"}

PcOK == /\ pc \in [Thread -> EnqueueLabel \cup DequeueLabel]
        /\ \A p \in Producer : pc[p] \in EnqueueLabel
        /\ \A c \in Consumer : pc[c] \in DequeueLabel

RingOK == /\ head \in Nat /\ tail \in Nat /\ threshold \in Int
          /\ array \in [Position -> Entry]

LocalsOK == /\ ticket \in [Thread -> Nat]
            /\ entry \in [Thread -> Entry]
            /\ limits \in [Consumer -> Nat \X Nat]

HistoryOK == /\ index \in [Producer -> Index \cup {None}]
             /\ stored \in SUBSET Index
             /\ before \in [Index -> SUBSET Index]

TypeOK == PcOK /\ RingOK /\ LocalsOK /\ HistoryOK

\* The ring has positions, and none of its indices says that there is none.
LEMMA RingSize ==
    /\ Half \in Nat \ {0} /\ Slots \in Nat \ {0} /\ None \notin Index
    /\ Fresh \in Entry
<1>1. Half \in Nat \ {0} /\ Slots = 2 * Half /\ None = Slots - 1
  BY RingAssumption DEF Slots, None
<1>2. None \notin Index
  BY <1>1 DEF Index
<1>3. QED
  BY <1>1, <1>2 DEF Fresh, Entry

\* Enqueuers and dequeuers are threads, and no thread is both.
LEMMA Threads ==
    /\ \A p \in Producer : p \in Thread /\ p \notin Consumer
    /\ \A c \in Consumer : c \in Thread /\ c \notin Producer
BY RingAssumption DEF Thread

\* A ticket is a slot and a cycle.
LEMMA TicketIsPlace ==
    ASSUME NEW T \in Nat
    PROVE  /\ Slot(T) \in Position /\ Cycle(T) \in Nat
           /\ T = Slots * Cycle(T) + Slot(T)
<1>1. Slots \in Nat /\ Slots > 0 /\ T \in Int /\ Slots \in Int
  BY RingSize
<1>2. /\ T % Slots \in 0 .. Slots - 1
      /\ T \div Slots \in Nat
      /\ T = Slots * (T \div Slots) + (T % Slots)
  BY <1>1
<1>3. QED
  BY <1>2 DEF Slot, Cycle, Position

\* Two tickets differ in their slots or in their cycles.
LEMMA PlaceIsTicket ==
    ASSUME NEW T \in Nat, NEW U \in Nat, Slot(T) = Slot(U), Cycle(T) = Cycle(U)
    PROVE  T = U
BY TicketIsPlace

\* A later cycle of a slot is a later ticket.
LEMMA LaterCycle ==
    ASSUME NEW T \in Nat, NEW U \in Nat, Slot(T) = Slot(U), Cycle(T) <= Cycle(U)
    PROVE  T <= U
<1> DEFINE t == Cycle(T)
           u == Cycle(U)
           s == Slot(T)
<1>1. /\ t \in Nat /\ u \in Nat /\ t <= u /\ Slots \in Nat
      /\ T = Slots * t + s /\ U = Slots * u + s /\ s \in Nat
  BY TicketIsPlace, RingSize DEF Position
<1> HIDE DEF t, u, s
<1>2. Slots * t <= Slots * u /\ Slots * t \in Nat /\ Slots * u \in Nat
  BY <1>1
<1>3. QED
  BY <1>1, <1>2

\* The first tickets are those of cycle 0.
LEMMA FirstTickets ==
    ASSUME NEW s \in Position
    PROVE  s \in Nat /\ Slot(s) = s /\ Cycle(s) = 0
<1>1. Slots \in Nat /\ Slots > 0 /\ s \in Nat /\ s < Slots
  BY RingSize DEF Position
<1>2. s % Slots = s
  BY <1>1
<1>3. s \div Slots = 0
  BY <1>1
<1>4. QED
  BY <1>1, <1>2, <1>3 DEF Slot, Cycle

LEMMA InitTyped == Init => TypeOK
<1>1. SUFFICES ASSUME Init PROVE TypeOK
  OBVIOUS
<1>2. PcOK
  <2>1. pc = [t \in Thread |-> "idle"]
    BY <1>1 DEF Init
  <2>2. "idle" \in EnqueueLabel /\ "idle" \in DequeueLabel
    BY DEF EnqueueLabel, DequeueLabel
  <2>3. QED
    BY <2>1, <2>2, Threads DEF PcOK
<1>3. LocalsOK
  <2>1. /\ ticket = [t \in Thread |-> 0]
        /\ entry = [t \in Thread |-> Fresh]
        /\ limits = [c \in Consumer |-> <<0, 0>>]
    BY <1>1 DEF Init
  <2>2. QED
    BY <2>1, RingSize DEF LocalsOK
<1>4. Half \in Nat /\ Slots = 2 * Half
  BY RingAssumption DEF Slots
<1>5. CASE InitEmpty
  <2>1. RingOK
    BY <1>1, <1>5, RingSize DEF Init, InitEmpty, RingOK, Position
  <2>2. HistoryOK
    BY <1>1, <1>5 DEF Init, InitEmpty, HistoryOK
  <2>3. QED
    BY <1>2, <1>3, <2>1, <2>2 DEF TypeOK
<1>6. CASE InitFull
  <2>1. array \in [Position -> Entry]
    <3>1. ASSUME NEW s \in Position, s < Half
          PROVE  [cycle |-> 0, safe |-> TRUE, index |-> s] \in Entry
      BY <1>4, <3>1 DEF Position, Index, Entry
    <3>2. array = [s \in Position |->
                     IF s < Half THEN [cycle |-> 0, safe |-> TRUE, index |-> s] ELSE Fresh]
      BY <1>6 DEF InitFull, Position
    <3>3. QED
      BY <3>1, <3>2, RingSize
  <2>2. RingOK
    BY <1>1, <1>4, <1>6, <2>1 DEF Init, InitFull, RingOK, Threshold
  <2>3. HistoryOK
    <3>1. \A i \in Index : 0 .. i - 1 \in SUBSET Index
      BY <1>4 DEF Index
    <3>2. before = [i \in Index |-> 0 .. i - 1] /\ stored = Index
      BY <1>6 DEF InitFull
    <3>3. QED
      BY <1>1, <3>1, <3>2 DEF Init, HistoryOK
  <2>4. QED
    BY <1>2, <1>3, <2>2, <2>3 DEF TypeOK
<1>7. QED
  BY <1>1, <1>5, <1>6 DEF Init

\* A thread at a new place: an enqueuer's or a dequeuer's.
LEMMA GotoProducer ==
    ASSUME PcOK, NEW p \in Producer, NEW label \in EnqueueLabel, Goto(p, label)
    PROVE  /\ PcOK'
           /\ pc'[p] = label
           /\ \A t \in Thread \ {p} : pc'[t] = pc[t]
           /\ \A c \in Consumer : pc'[c] = pc[c]
<1>1. pc' = [pc EXCEPT ![p] = label] /\ pc \in [Thread -> EnqueueLabel \cup DequeueLabel]
  BY DEF PcOK, Goto
<1>2. /\ pc'[p] = label /\ pc' \in [Thread -> EnqueueLabel \cup DequeueLabel]
      /\ \A t \in Thread \ {p} : pc'[t] = pc[t]
  BY <1>1, Threads
<1>3. QED
  BY <1>2, Threads DEF PcOK

LEMMA GotoConsumer ==
    ASSUME PcOK, NEW c \in Consumer, NEW label \in DequeueLabel, Goto(c, label)
    PROVE  /\ PcOK'
           /\ pc'[c] = label
           /\ \A t \in Thread \ {c} : pc'[t] = pc[t]
           /\ \A p \in Producer : pc'[p] = pc[p]
<1>1. pc' = [pc EXCEPT ![c] = label] /\ pc \in [Thread -> EnqueueLabel \cup DequeueLabel]
  BY DEF PcOK, Goto
<1>2. /\ pc'[c] = label /\ pc' \in [Thread -> EnqueueLabel \cup DequeueLabel]
      /\ \A t \in Thread \ {c} : pc'[t] = pc[t]
  BY <1>1, Threads
<1>3. QED
  BY <1>2, Threads DEF PcOK

\* What a ticket's slot holds is an entry.
LEMMA SlotIsEntry ==
    ASSUME TypeOK, NEW t \in Thread
    PROVE  /\ ticket[t] \in Nat /\ Slot(ticket[t]) \in Position
           /\ array[Slot(ticket[t])] \in Entry /\ Cycle(ticket[t]) \in Nat
BY TicketIsPlace DEF TypeOK, RingOK, LocalsOK

-----------------------------------------------------------------------------
(* The kinds of steps an enqueuer takes, and what each changes.            *)

\* Line 176: a ticket for the tail.
Ticketed(p) ==
    /\ pc'[p] = "load" /\ ticket'[p] = tail /\ tail' = tail + 1
    /\ \A q \in Producer \ {p} :
         pc'[q] = pc[q] /\ ticket'[q] = ticket[q] /\ entry'[q] = entry[q]

\* What no step of an enqueuer changes for the dequeuers.
Unseen == /\ head' = head
          /\ \A c \in Consumer :
               /\ pc'[c] = pc[c] /\ ticket'[c] = ticket[c]
               /\ entry'[c] = entry[c] /\ limits'[c] = limits[c]

LEMMA TakeTailStep ==
    ASSUME TypeOK, NEW p \in Producer, TakeTail(p)
    PROVE  /\ PcOK' /\ RingOK' /\ LocalsOK'
           /\ Ticketed(p) /\ Unseen /\ array' = array /\ entry' = entry
<1>1. /\ PcOK' /\ pc'[p] = "load"
      /\ \A q \in Producer \ {p} : pc'[q] = pc[q]
      /\ \A c \in Consumer : pc'[c] = pc[c]
  BY GotoProducer, Threads DEF TypeOK, TakeTail, EnqueueLabel
<1>2. /\ ticket' = [ticket EXCEPT ![p] = tail] /\ tail' = tail + 1
      /\ head' = head /\ threshold' = threshold /\ array' = array
      /\ entry' = entry /\ limits' = limits
  BY DEF TakeTail
<1>3. RingOK'
  BY <1>2 DEF TypeOK, RingOK
<1>4. ticket \in [Thread -> Nat] /\ tail \in Nat
  BY DEF TypeOK, RingOK, LocalsOK
<1>5. /\ ticket'[p] = tail /\ ticket' \in [Thread -> Nat]
      /\ \A t \in Thread \ {p} : ticket'[t] = ticket[t]
  BY <1>2, <1>4, Threads
<1>6. LocalsOK'
  BY <1>2, <1>5 DEF TypeOK, LocalsOK
<1>7. Ticketed(p) /\ Unseen
  BY <1>1, <1>2, <1>5, Threads DEF Ticketed, Unseen
<1>8. QED
  BY <1>1, <1>2, <1>3, <1>6, <1>7

\* Line 177: the slot's entry is loaded and judged.
Loaded(p) ==
    /\ pc'[p] = Judge(p, array[Slot(ticket[p])])
    /\ entry'[p] = array[Slot(ticket[p])] /\ ticket' = ticket
    /\ \A q \in Producer \ {p} : pc'[q] = pc[q] /\ entry'[q] = entry[q]

LEMMA LoadSlotStep ==
    ASSUME TypeOK, NEW p \in Producer, LoadSlot(p)
    PROVE  /\ PcOK' /\ RingOK' /\ LocalsOK'
           /\ Loaded(p) /\ Unseen /\ ring' = ring
<1>1. /\ entry' = [entry EXCEPT ![p] = array[Slot(ticket[p])]]
      /\ Goto(p, Judge(p, entry'[p]))
      /\ ring' = ring /\ ticket' = ticket /\ limits' = limits
  BY DEF LoadSlot
<1>2. entry \in [Thread -> Entry] /\ array[Slot(ticket[p])] \in Entry
  BY SlotIsEntry, Threads DEF TypeOK, LocalsOK
<1>3. /\ entry'[p] = array[Slot(ticket[p])] /\ entry' \in [Thread -> Entry]
      /\ \A t \in Thread \ {p} : entry'[t] = entry[t]
  BY <1>1, <1>2, Threads
<1>4. Judge(p, entry'[p]) \in {"exchange", "head", "ticket"}
  BY DEF Judge
<1>5. /\ PcOK' /\ pc'[p] = Judge(p, entry'[p])
      /\ \A q \in Producer \ {p} : pc'[q] = pc[q]
      /\ \A c \in Consumer : pc'[c] = pc[c]
  BY <1>1, <1>4, GotoProducer, Threads DEF TypeOK, EnqueueLabel
<1>6. RingOK'
  BY <1>1 DEF TypeOK, RingOK, ring
<1>7. LocalsOK'
  BY <1>1, <1>3 DEF TypeOK, LocalsOK
<1>8. Loaded(p) /\ Unseen
  BY <1>1, <1>3, <1>5, Threads DEF Loaded, Unseen, ring
<1>9. QED
  BY <1>1, <1>5, <1>6, <1>7, <1>8

\* Line 186: the exchange succeeds.
Stored(p) ==
    /\ array[Slot(ticket[p])] = entry[p]
    /\ array' = [array EXCEPT ![Slot(ticket[p])] =
           [cycle |-> Cycle(ticket[p]), safe |-> TRUE, index |-> index[p]]]
    /\ pc'[p] = "threshold"
    /\ \A q \in Producer \ {p} :
         pc'[q] = pc[q] /\ ticket'[q] = ticket[q] /\ entry'[q] = entry[q]
    /\ tail' = tail

\* Forgetting touches one thread.
LEMMA ForgetStep ==
    ASSUME LocalsOK, NEW t \in Thread, Forget(t)
    PROVE  /\ ticket' \in [Thread -> Nat] /\ entry' \in [Thread -> Entry]
           /\ \A u \in Thread \ {t} : ticket'[u] = ticket[u] /\ entry'[u] = entry[u]
<1>1. /\ ticket' = [ticket EXCEPT ![t] = 0] /\ entry' = [entry EXCEPT ![t] = Fresh]
      /\ ticket \in [Thread -> Nat] /\ entry \in [Thread -> Entry]
  BY DEF Forget, LocalsOK
<1>2. QED
  BY <1>1, RingSize

LEMMA StoreStep ==
    ASSUME TypeOK, NEW p \in Producer, StoreIndex(p), array[Slot(ticket[p])] = entry[p]
    PROVE  /\ PcOK' /\ RingOK' /\ LocalsOK'
           /\ Stored(p) /\ Unseen
<1>1. /\ array' = [array EXCEPT ![Slot(ticket[p])] =
             [cycle |-> Cycle(ticket[p]), safe |-> TRUE, index |-> index[p]]]
      /\ Goto(p, "threshold") /\ Forget(p)
      /\ head' = head /\ tail' = tail /\ threshold' = threshold /\ limits' = limits
  BY DEF StoreIndex
<1>2. /\ PcOK' /\ pc'[p] = "threshold"
      /\ \A q \in Producer \ {p} : pc'[q] = pc[q]
      /\ \A c \in Consumer : pc'[c] = pc[c]
  BY <1>1, GotoProducer, Threads DEF TypeOK, EnqueueLabel
<1>3. /\ ticket' \in [Thread -> Nat] /\ entry' \in [Thread -> Entry]
      /\ \A u \in Thread \ {p} : ticket'[u] = ticket[u] /\ entry'[u] = entry[u]
  BY <1>1, ForgetStep, Threads DEF TypeOK
<1>4. [cycle |-> Cycle(ticket[p]), safe |-> TRUE, index |-> index[p]] \in Entry
  BY SlotIsEntry, Threads DEF TypeOK, HistoryOK, Entry
<1>5. RingOK'
  BY <1>1, <1>4 DEF TypeOK, RingOK
<1>6. LocalsOK'
  BY <1>1, <1>3 DEF TypeOK, LocalsOK
<1>7. Stored(p) /\ Unseen
  BY <1>1, <1>2, <1>3, Threads DEF Stored, Unseen
<1>8. QED
  BY <1>2, <1>5, <1>6, <1>7

\* Line 192: the enqueue returns.
Returned(p) ==
    /\ pc'[p] = "idle"
    /\ \A q \in Producer \ {p} :
         pc'[q] = pc[q] /\ ticket'[q] = ticket[q] /\ entry'[q] = entry[q]
    /\ stored' = stored \cup ({index[p]} \ {None})
    /\ index' = [index EXCEPT ![p] = None] /\ before' = before

LEMMA ReturnStep ==
    ASSUME TypeOK, NEW p \in Producer, ReturnEnqueue(p), head' = head
    PROVE  /\ PcOK' /\ LocalsOK' /\ HistoryOK'
           /\ Returned(p) /\ Unseen
<1>1. /\ Goto(p, "idle") /\ Forget(p) /\ limits' = limits
      /\ stored' = stored \cup ({index[p]} \ {None})
      /\ index' = [index EXCEPT ![p] = None] /\ before' = before
  BY DEF ReturnEnqueue
<1>2. /\ PcOK' /\ pc'[p] = "idle"
      /\ \A q \in Producer \ {p} : pc'[q] = pc[q]
      /\ \A c \in Consumer : pc'[c] = pc[c]
  BY <1>1, GotoProducer, Threads DEF TypeOK, EnqueueLabel
<1>3. /\ ticket' \in [Thread -> Nat] /\ entry' \in [Thread -> Entry]
      /\ \A u \in Thread \ {p} : ticket'[u] = ticket[u] /\ entry'[u] = entry[u]
  BY <1>1, ForgetStep, Threads DEF TypeOK
<1>4. LocalsOK'
  BY <1>1, <1>3 DEF TypeOK, LocalsOK
<1>5. HistoryOK'
  BY <1>1 DEF TypeOK, HistoryOK
<1>6. Returned(p) /\ Unseen
  BY <1>1, <1>2, <1>3, Threads DEF Returned, Unseen
<1>7. QED
  BY <1>2, <1>4, <1>5, <1>6

\* A step that only moves an enqueuer: line 182, and line 190 before a reset.
Moved(p) == /\ ticket' = ticket /\ entry' = entry
            /\ \A q \in Producer \ {p} : pc'[q] = pc[q]

LEMMA MoveStep ==
    ASSUME TypeOK, NEW p \in Producer, NEW label, Goto(p, label), UNCHANGED <<ring, local>>,
           label \in {"exchange", "ticket", "reset"}
    PROVE  /\ PcOK' /\ RingOK' /\ LocalsOK'
           /\ Moved(p) /\ pc'[p] = label /\ Unseen
<1>1. /\ ticket' = ticket /\ entry' = entry /\ limits' = limits
      /\ head' = head /\ tail' = tail /\ threshold' = threshold /\ array' = array
  BY DEF ring, local
<1>2. /\ PcOK' /\ pc'[p] = label
      /\ \A q \in Producer \ {p} : pc'[q] = pc[q]
      /\ \A c \in Consumer : pc'[c] = pc[c]
  BY GotoProducer, Threads DEF TypeOK, EnqueueLabel
<1>3. RingOK' /\ LocalsOK'
  BY <1>1 DEF TypeOK, RingOK, LocalsOK
<1>4. QED
  BY <1>1, <1>2, <1>3 DEF Moved, Unseen

-----------------------------------------------------------------------------
(* The kinds of steps a dequeuer takes, and what each changes.             *)

\* A dequeuer between its ticket and what becomes of the ticket's slot.
Holds(c) == pc[c] \in {"examine", "consume", "mark"}

\* What __lfring_catchup is given is in order.
LimitsOK == \A c \in Consumer : pc[c] = "catchup" => limits[c][1] <= limits[c][2]

\* What no step of a dequeuer changes for the other threads.
Apart(c) == /\ \A t \in Thread \ {c} :
                 pc'[t] = pc[t] /\ ticket'[t] = ticket[t] /\ entry'[t] = entry[t]
            /\ \A d \in Consumer \ {c} : limits'[d] = limits[d]

Unrecorded == index' = index /\ stored' = stored /\ before' = before

\* A step away from the ring's slots.
Aside(c) == /\ ~Holds(c) /\ ~Holds(c)'
            /\ head' = head /\ array' = array /\ tail' >= tail
            /\ Apart(c) /\ Unrecorded

LEMMA AsideStep ==
    ASSUME TypeOK, LimitsOK, NEW c \in Consumer,
           \/ Dequeue(c) \/ LoadTail(c) \/ CatchUp(c) \/ CatchUpHead(c) \/ CatchUpTail(c)
           \/ LowerThreshold(c)
    PROVE  TypeOK' /\ LimitsOK' /\ Aside(c)
<1>1. /\ head \in Nat /\ tail \in Nat /\ threshold \in Int
      /\ limits \in [Consumer -> Nat \X Nat] /\ ticket[c] \in Nat
      /\ limits[c][1] \in Nat /\ limits[c][2] \in Nat
  BY Threads DEF TypeOK, RingOK, LocalsOK
<1>2. /\ head' = head /\ array' = array
      /\ Unrecorded
  BY DEF Dequeue, LoadTail, CatchUp, CatchUpHead, CatchUpTail, LowerThreshold, Quiet,
         Unrecorded, ring, local
<1>3. /\ ticket' \in [Thread -> Nat] /\ entry' \in [Thread -> Entry]
      /\ \A u \in Thread \ {c} : ticket'[u] = ticket[u] /\ entry'[u] = entry[u]
  <2>1. CASE LowerThreshold(c)
    BY <2>1, ForgetStep, Threads DEF LowerThreshold, TypeOK
  <2>2. CASE ~LowerThreshold(c)
    <3>1. ticket' = ticket /\ entry' = entry
      BY <2>2 DEF Dequeue, LoadTail, CatchUp, CatchUpHead, CatchUpTail, ring, local
    <3>2. QED
      BY <3>1 DEF TypeOK, LocalsOK
  <2>3. QED
    BY <2>1, <2>2
<1>4. PICK label \in DequeueLabel \ {"examine", "consume", "mark"} : Goto(c, label)
  BY DEF Dequeue, LoadTail, CatchUp, CatchUpHead, CatchUpTail, LowerThreshold, DequeueLabel
<1>5. /\ PcOK' /\ pc'[c] = label
      /\ \A t \in Thread \ {c} : pc'[t] = pc[t]
  BY <1>4, GotoConsumer DEF TypeOK
<1>6. ~Holds(c) /\ ~Holds(c)'
  <2>1. pc[c] \in {"idle", "tail", "catchup", "catchup head", "catchup tail", "give up", "next"}
    BY DEF Dequeue, LoadTail, CatchUp, CatchUpHead, CatchUpTail, LowerThreshold
  <2>2. QED
    BY <1>4, <1>5, <2>1 DEF Holds
<1>7. /\ limits' \in [Consumer -> Nat \X Nat]
      /\ \A d \in Consumer \ {c} : limits'[d] = limits[d]
      /\ pc'[c] = "catchup" => limits'[c][1] <= limits'[c][2]
  <2>1. CASE Dequeue(c) \/ CatchUp(c)
    <3>1. limits' = limits
      BY <2>1 DEF Dequeue, CatchUp, local
    <3>2. Goto(c, "idle") \/ Goto(c, "ticket") \/ Goto(c, "give up") \/ Goto(c, "catchup head")
      BY <2>1 DEF Dequeue, CatchUp
    <3>3. pc'[c] # "catchup"
      BY <3>2, GotoConsumer DEF TypeOK, DequeueLabel
    <3>4. QED
      BY <1>1, <3>1, <3>3
  <2>2. CASE LoadTail(c)
    <3>1. limits' = [limits EXCEPT ![c] = <<tail, ticket[c] + 1>>]
      BY <2>2 DEF LoadTail
    <3>2. Goto(c, IF tail <= ticket[c] + 1 THEN "catchup" ELSE "next")
      BY <2>2 DEF LoadTail
    <3>3. pc'[c] = IF tail <= ticket[c] + 1 THEN "catchup" ELSE "next"
      BY <3>2, GotoConsumer DEF TypeOK, DequeueLabel
    <3>4. <<tail, ticket[c] + 1>> \in Nat \X Nat
      BY <1>1
    <3>5. limits'[c] = <<tail, ticket[c] + 1>>
      BY <1>1, <3>1
    <3>6. QED
      BY <1>1, <3>1, <3>3, <3>4, <3>5
  <2>3. CASE CatchUpHead(c)
    <3>1. limits' = [limits EXCEPT ![c] = <<limits[c][1], head>>] /\ Goto(c, "catchup tail")
      BY <2>3 DEF CatchUpHead
    <3>2. pc'[c] # "catchup"
      BY <3>1, GotoConsumer DEF TypeOK, DequeueLabel
    <3>3. <<limits[c][1], head>> \in Nat \X Nat
      BY <1>1
    <3>4. QED
      BY <1>1, <3>1, <3>2, <3>3
  <2>4. CASE CatchUpTail(c)
    <3>1. /\ limits' = [limits EXCEPT ![c] = <<tail, limits[c][2]>>]
          /\ Goto(c, IF tail >= limits[c][2] THEN "give up" ELSE "catchup")
      BY <2>4 DEF CatchUpTail
    <3>2. pc'[c] = IF tail >= limits[c][2] THEN "give up" ELSE "catchup"
      BY <3>1, GotoConsumer DEF TypeOK, DequeueLabel
    <3>3. <<tail, limits[c][2]>> \in Nat \X Nat
      BY <1>1
    <3>4. limits'[c] = <<tail, limits[c][2]>>
      BY <1>1, <3>1
    <3>5. limits'[c][1] = tail /\ limits'[c][2] = limits[c][2]
      BY <3>4
    <3>6. pc'[c] = "catchup" => limits'[c][1] <= limits'[c][2]
      <4>1. tail \in Nat /\ limits[c][2] \in Nat
        BY <1>1
      <4>2. CASE tail >= limits[c][2]
        BY <3>2, <4>2
      <4>3. CASE tail < limits[c][2]
        BY <3>5, <4>1, <4>3
      <4>4. QED
        BY <4>1, <4>2, <4>3
    <3>7. QED
      BY <1>1, <3>1, <3>3, <3>6
  <2>5. CASE LowerThreshold(c)
    <3>1. /\ limits' = [limits EXCEPT ![c] = <<0, 0>>]
          /\ Goto(c, IF pc[c] = "give up" \/ threshold <= 0 THEN "idle" ELSE "ticket")
      BY <2>5 DEF LowerThreshold
    <3>2. pc'[c] # "catchup"
      BY <3>1, GotoConsumer DEF TypeOK, DequeueLabel
    <3>3. QED
      BY <1>1, <3>1, <3>2
  <2>6. QED
    BY <2>1, <2>2, <2>3, <2>4, <2>5
<1>8. tail' \in Nat /\ tail' >= tail /\ threshold' \in Int
  <2>1. CASE CatchUp(c)
    <3>1. threshold' = threshold /\ pc[c] = "catchup"
      BY <2>1 DEF CatchUp
    <3>2. limits[c][1] <= limits[c][2]
      BY <3>1 DEF LimitsOK
    <3>3. tail' = tail \/ (tail = limits[c][1] /\ tail' = limits[c][2])
      BY <2>1 DEF CatchUp
    <3>4. QED
      BY <1>1, <3>1, <3>2, <3>3
  <2>2. CASE LowerThreshold(c)
    <3>1. tail' = tail /\ threshold' = threshold - 1
      BY <2>2 DEF LowerThreshold
    <3>2. QED
      BY <1>1, <3>1
  <2>3. CASE ~CatchUp(c) /\ ~LowerThreshold(c)
    <3>1. tail' = tail /\ threshold' = threshold
      BY <2>3 DEF Dequeue, LoadTail, CatchUpHead, CatchUpTail, ring
    <3>2. QED
      BY <1>1, <3>1
  <2>4. QED
    BY <2>1, <2>2, <2>3
<1>9. RingOK' /\ LocalsOK' /\ HistoryOK'
  BY <1>1, <1>2, <1>3, <1>7, <1>8 DEF TypeOK, RingOK, LocalsOK, HistoryOK, Unrecorded
<1>10. Aside(c)
  BY <1>2, <1>3, <1>5, <1>6, <1>7, <1>8 DEF Aside, Apart
<1>11. LimitsOK'
  <2>1. \A d \in Consumer \ {c} : pc'[d] = pc[d] /\ limits'[d] = limits[d]
    BY <1>5, <1>7, Threads
  <2>2. QED
    BY <1>7, <2>1 DEF LimitsOK
<1>12. QED
  BY <1>5, <1>9, <1>10, <1>11 DEF TypeOK

\* A step that leaves the limits alone, and does not go to them.
LEMMA LimitsKeep ==
    ASSUME LimitsOK, NEW c \in Consumer, limits' = limits, pc'[c] # "catchup",
           \A d \in Consumer \ {c} : pc'[d] = pc[d]
    PROVE  LimitsOK'
BY DEF LimitsOK

\* Line 226: a ticket for the head.
Headed(c) == /\ pc'[c] = "examine" /\ ~Holds(c) /\ ticket'[c] = head /\ head' = head + 1
             /\ array' = array /\ tail' = tail
             /\ Apart(c) /\ Unrecorded

LEMMA TakeHeadStep ==
    ASSUME TypeOK, LimitsOK, NEW c \in Consumer, TakeHead(c)
    PROVE  TypeOK' /\ LimitsOK' /\ Headed(c)
<1>1. /\ ticket' = [ticket EXCEPT ![c] = head] /\ head' = head + 1
      /\ Goto(c, "examine") /\ pc[c] = "ticket"
      /\ tail' = tail /\ threshold' = threshold /\ array' = array
      /\ entry' = entry /\ limits' = limits /\ Unrecorded
  BY DEF TakeHead, Quiet, Unrecorded
<1>2. /\ PcOK' /\ pc'[c] = "examine"
      /\ \A t \in Thread \ {c} : pc'[t] = pc[t]
  BY <1>1, GotoConsumer DEF TypeOK, DequeueLabel
<1>3. ticket \in [Thread -> Nat] /\ head \in Nat
  BY DEF TypeOK, RingOK, LocalsOK
<1>4. /\ ticket' \in [Thread -> Nat] /\ ticket'[c] = head
      /\ \A t \in Thread \ {c} : ticket'[t] = ticket[t]
  BY <1>1, <1>3, Threads
<1>5. RingOK' /\ LocalsOK' /\ HistoryOK'
  BY <1>1, <1>4 DEF TypeOK, RingOK, LocalsOK, HistoryOK, Unrecorded
<1>6. Headed(c)
  BY <1>1, <1>2, <1>4 DEF Headed, Apart, Holds
<1>7. LimitsOK'
  BY <1>1, <1>2, Threads, LimitsKeep
<1>8. QED
  BY <1>2, <1>5, <1>6, <1>7 DEF TypeOK

\* Lines 229-230: the slot's entry is loaded and appraised.
Examined(c) == /\ pc'[c] = Appraise(c, array[Slot(ticket[c])])
               /\ entry'[c] = array[Slot(ticket[c])]
               /\ ticket' = ticket /\ head' = head /\ array' = array /\ tail' = tail
               /\ Apart(c) /\ Unrecorded

LEMMA ExamineStep ==
    ASSUME TypeOK, LimitsOK, NEW c \in Consumer, ExamineSlot(c), Quiet
    PROVE  TypeOK' /\ LimitsOK' /\ Examined(c)
<1>1. /\ entry' = [entry EXCEPT ![c] = array[Slot(ticket[c])]]
      /\ Goto(c, Appraise(c, entry'[c]))
      /\ head' = head /\ tail' = tail /\ threshold' = threshold /\ array' = array
      /\ ticket' = ticket /\ limits' = limits /\ Unrecorded
  BY DEF ExamineSlot, Quiet, Unrecorded, ring
<1>2. entry \in [Thread -> Entry] /\ array[Slot(ticket[c])] \in Entry
  BY SlotIsEntry, Threads DEF TypeOK, LocalsOK
<1>3. /\ entry'[c] = array[Slot(ticket[c])] /\ entry' \in [Thread -> Entry]
      /\ \A t \in Thread \ {c} : entry'[t] = entry[t]
  BY <1>1, <1>2, Threads
<1>4. Appraise(c, entry'[c]) \in {"consume", "mark", "tail"}
  BY DEF Appraise
<1>5. /\ PcOK' /\ pc'[c] = Appraise(c, entry'[c])
      /\ \A t \in Thread \ {c} : pc'[t] = pc[t]
  BY <1>1, <1>4, GotoConsumer DEF TypeOK, DequeueLabel
<1>6. RingOK' /\ LocalsOK' /\ HistoryOK'
  BY <1>1, <1>3 DEF TypeOK, RingOK, LocalsOK, HistoryOK, Unrecorded
<1>7. Examined(c)
  BY <1>1, <1>3, <1>5 DEF Examined, Apart
<1>8. LimitsOK'
  BY <1>1, <1>4, <1>5, Threads, LimitsKeep
<1>9. QED
  BY <1>5, <1>6, <1>7, <1>8 DEF TypeOK

\* Lines 234-236: the slot is emptied and its index returned.
Consumed(c) ==
    /\ array' = [array EXCEPT ![Slot(ticket[c])] = [@ EXCEPT !.index = None]]
    /\ pc'[c] = "idle" /\ head' = head /\ tail' = tail
    /\ stored' = stored \ {entry[c].index}
    /\ index' = [p \in Producer |-> IF index[p] = entry[c].index THEN None ELSE index[p]]
    /\ before' = [i \in Index |-> before[i] \ {entry[c].index}]
    /\ Apart(c)

LEMMA ConsumeStep ==
    ASSUME TypeOK, LimitsOK, NEW c \in Consumer, Consume(c)
    PROVE  TypeOK' /\ LimitsOK' /\ Consumed(c)
<1>1. /\ array' = [array EXCEPT ![Slot(ticket[c])] = [@ EXCEPT !.index = None]]
      /\ Goto(c, "idle") /\ Forget(c)
      /\ head' = head /\ tail' = tail /\ threshold' = threshold /\ limits' = limits
      /\ stored' = stored \ {entry[c].index}
      /\ index' = [p \in Producer |-> IF index[p] = entry[c].index THEN None ELSE index[p]]
      /\ before' = [i \in Index |-> before[i] \ {entry[c].index}]
  BY DEF Consume
<1>2. /\ PcOK' /\ pc'[c] = "idle"
      /\ \A t \in Thread \ {c} : pc'[t] = pc[t]
  BY <1>1, GotoConsumer DEF TypeOK, DequeueLabel
<1>3. /\ ticket' \in [Thread -> Nat] /\ entry' \in [Thread -> Entry]
      /\ \A u \in Thread \ {c} : ticket'[u] = ticket[u] /\ entry'[u] = entry[u]
  BY <1>1, ForgetStep, Threads DEF TypeOK
<1>4. [array[Slot(ticket[c])] EXCEPT !.index = None] \in Entry
  BY SlotIsEntry, Threads DEF Entry
<1>5. RingOK'
  BY <1>1, <1>4 DEF TypeOK, RingOK
<1>6. LocalsOK'
  BY <1>1, <1>3 DEF TypeOK, LocalsOK
<1>7. HistoryOK'
  BY <1>1 DEF TypeOK, HistoryOK
<1>8. Consumed(c)
  BY <1>1, <1>2, <1>3 DEF Consumed, Apart
<1>9. LimitsOK'
  BY <1>1, <1>2, Threads, LimitsKeep
<1>10. QED
  BY <1>2, <1>5, <1>6, <1>7, <1>8, <1>9 DEF TypeOK

\* Lines 247-248: the slot is marked as the dequeuer found it.
MarkedAt(c) ==
    /\ array[Slot(ticket[c])] = entry[c]
    /\ array' = [array EXCEPT ![Slot(ticket[c])] = Marked(c, entry[c])]
    /\ pc[c] = "mark" /\ pc'[c] = "tail" /\ ticket' = ticket /\ head' = head /\ tail' = tail
    /\ Apart(c) /\ Unrecorded

LEMMA MarkStep ==
    ASSUME TypeOK, LimitsOK, NEW c \in Consumer, MarkSlot(c),
           array[Slot(ticket[c])] = entry[c]
    PROVE  TypeOK' /\ LimitsOK' /\ MarkedAt(c)
<1>1. /\ array' = [array EXCEPT ![Slot(ticket[c])] = Marked(c, entry[c])]
      /\ Goto(c, "tail") /\ pc[c] = "mark" /\ entry' = [entry EXCEPT ![c] = Fresh]
      /\ head' = head /\ tail' = tail /\ threshold' = threshold
      /\ ticket' = ticket /\ limits' = limits /\ Unrecorded
  BY DEF MarkSlot, Quiet, Unrecorded
<1>2. /\ PcOK' /\ pc'[c] = "tail"
      /\ \A t \in Thread \ {c} : pc'[t] = pc[t]
  BY <1>1, GotoConsumer DEF TypeOK, DequeueLabel
<1>3. entry \in [Thread -> Entry] /\ entry[c] \in Entry /\ Cycle(ticket[c]) \in Nat
  BY SlotIsEntry, Threads DEF TypeOK, LocalsOK
<1>4. entry' \in [Thread -> Entry] /\ \A t \in Thread \ {c} : entry'[t] = entry[t]
  BY <1>1, <1>3, RingSize
<1>5. Marked(c, entry[c]) \in Entry
  <2>1. [entry[c] EXCEPT !.safe = FALSE] \in Entry
    BY <1>3 DEF Entry
  <2>2. [entry[c] EXCEPT !.cycle = Cycle(ticket[c])] \in Entry
    BY <1>3 DEF Entry
  <2>3. QED
    BY <2>1, <2>2 DEF Marked
<1>6. RingOK' /\ LocalsOK' /\ HistoryOK'
  BY <1>1, <1>4, <1>5 DEF TypeOK, RingOK, LocalsOK, HistoryOK, Unrecorded
<1>7. MarkedAt(c)
  BY <1>1, <1>2, <1>4 DEF MarkedAt, Apart
<1>8. LimitsOK'
  BY <1>1, <1>2, Threads, LimitsKeep
<1>9. QED
  BY <1>2, <1>6, <1>7, <1>8 DEF TypeOK

-----------------------------------------------------------------------------
(* The inductive invariant.                                                *)

\* The tickets whose index is in the ring, and that index.
In == {T \in Nat : /\ array[Slot(T)].cycle = Cycle(T)
                   /\ array[Slot(T)].index # None}
IndexAt(T) == array[Slot(T)].index

\* The dequeuer of a ticket is yet to come, or has not dealt with its slot.
Pending(T) == T >= head \/ \E c \in Consumer : Holds(c) /\ ticket[c] = T

\* No two dequeuers have one ticket.
Tickets == \A c \in Consumer :
             Holds(c) => /\ ticket[c] < head
                         /\ \A d \in Consumer : Holds(d) /\ ticket[d] = ticket[c] => d = c

\* A slot without index that has the cycle of a ticket is done with.
Spent == \A T \in Nat : array[Slot(T)].cycle = Cycle(T) /\ Pending(T) => T \in In

\* What the dequeuer is about to take is what it has seen; what it is about
\* to mark was older than its ticket.
SeenBy(c) == /\ pc[c] = "consume" => ticket[c] \in In /\ IndexAt(ticket[c]) = entry[c].index
             /\ pc[c] = "mark" => entry[c].cycle < Cycle(ticket[c])

Seen == \A c \in Consumer : SeenBy(c)

\* Every index in the ring has its dequeuer still to come.
Awaited == \A T \in In : Pending(T)

\* So has every ticket for which an enqueuer may use a safe slot.
SafeSlots == \A T \in Nat :
               array[Slot(T)].safe /\ array[Slot(T)].cycle < Cycle(T) => Pending(T)

\* An entry that was found empty is in its slot still, or a later one is.
VacantFor(p) ==
    pc[p] \in {"head", "exchange"} =>
        /\ entry[p].index = None /\ entry[p].cycle < Cycle(ticket[p])
        /\ \/ array[Slot(ticket[p])] = entry[p]
           \/ array[Slot(ticket[p])].cycle > entry[p].cycle

\* While it is there, no dequeuer has given up the ticket it is wanted for.
GrantedTo(p) ==
    pc[p] = "exchange" /\ array[Slot(ticket[p])] = entry[p] =>
        \A T \in Nat : Slot(T) = Slot(ticket[p]) /\ Cycle(T) >= Cycle(ticket[p])
                         => Pending(T)

Vacant == \A p \in Producer : VacantFor(p)
Granted == \A p \in Producer : GrantedTo(p)

\* An index is with one enqueuer on its way into the ring, or is stored, ...
Carried == \A p \in Producer :
             /\ pc[p] = "idle" => index[p] = None
             /\ pc[p] \in {"ticket", "load", "head", "exchange"} =>
                  /\ index[p] # None
                  /\ \A s \in Position : array[s].index # index[p]
             /\ index[p] # None =>
                  /\ index[p] \notin stored
                  /\ \A q \in Producer : index[q] = index[p] => q = p

\* ... and the slots hold, once each, those that have come in.
Entered(i) == \/ i \in stored
              \/ \E p \in Producer : pc[p] \in {"threshold", "reset"} /\ index[p] = i

Placed == /\ \A s \in Position :
               array[s].index # None => /\ array[s].cycle \in Nat
                                        /\ array[s].index \in stored \cup Entering
          /\ \A s, t \in Position : array[s].index # None /\ array[s].index = array[t].index
                                      => s = t
          /\ \A i \in Index : Entered(i) => \E T \in In : IndexAt(T) = i

\* What was in before an index has an earlier ticket.
Placing == {p \in Producer : pc[p] \in {"load", "head", "exchange"}}

InOrder == /\ \A i \in Index : before[i] \subseteq stored
           /\ \A T, U \in In : IndexAt(T) \in before[IndexAt(U)] => T < U
           /\ \A T \in In : T < tail
           /\ \A p \in Placing : /\ ticket[p] < tail
                                 /\ \A T \in In : IndexAt(T) \in before[index[p]]
                                                    => T < ticket[p]

Dequeuers == Tickets /\ Spent /\ Seen /\ Awaited /\ SafeSlots
Enqueuers == Vacant /\ Granted
Contents == Carried /\ Placed /\ InOrder

RingInv == TypeOK /\ LimitsOK /\ Dequeuers /\ Enqueuers /\ Contents

-----------------------------------------------------------------------------
(* What becomes of a slot, and of the tickets in the ring.                 *)

LEMMA SlotTyped ==
    ASSUME RingOK, NEW s \in Position
    PROVE  /\ array[s] \in Entry /\ array[s].cycle \in Int
           /\ array[s].safe \in BOOLEAN /\ array[s].index \in Index \cup {None}
<1>1. array[s] \in Entry
  BY DEF RingOK
<1>2. QED
  BY <1>1 DEF Entry

\* An enqueuer puts an index into an empty, older slot.
Put(T, i) == LET s == Slot(T) IN
    /\ array[s].index = None /\ array[s].cycle < Cycle(T)
    /\ array'[s].index = i /\ array'[s].cycle = Cycle(T) /\ array'[s].safe

\* A dequeuer clears its slot.
Clear(T) == LET s == Slot(T) IN
    /\ T \in In
    /\ array'[s].index = None /\ array'[s].cycle = array[s].cycle
    /\ array'[s].safe = array[s].safe

\* A dequeuer marks an older slot: one with an index ...
Spoil(T) == LET s == Slot(T) IN
    /\ array[s].index # None /\ array[s].cycle < Cycle(T)
    /\ array'[s].index = array[s].index /\ array'[s].cycle = array[s].cycle
    /\ ~array'[s].safe

\* ... or an empty one.
Skip(T) == LET s == Slot(T) IN
    /\ array[s].index = None /\ array[s].cycle < Cycle(T)
    /\ array'[s].index = None /\ array'[s].cycle = Cycle(T)
    /\ array'[s].safe = array[s].safe

OtherSlots(T) == \A s \in Position \ {Slot(T)} : array'[s] = array[s]

LEMMA StoredPuts ==
    ASSUME TypeOK, NEW p \in Producer, Stored(p), pc[p] = "exchange", Vacant
    PROVE  Put(ticket[p], index[p]) /\ OtherSlots(ticket[p])
<1> DEFINE s == Slot(ticket[p])
           new == [cycle |-> Cycle(ticket[p]), safe |-> TRUE, index |-> index[p]]
<1>1. array[s] = entry[p] /\ array' = [array EXCEPT ![s] = new]
  BY DEF Stored
<1>2. entry[p].index = None /\ entry[p].cycle < Cycle(ticket[p])
  BY DEF Vacant, VacantFor
<1>3. s \in Position /\ array \in [Position -> Entry]
  BY SlotIsEntry, Threads DEF TypeOK, RingOK
<1>4. array'[s] = new /\ \A u \in Position \ {s} : array'[u] = array[u]
  BY <1>1, <1>3
<1>5. new.index = index[p] /\ new.cycle = Cycle(ticket[p]) /\ new.safe = TRUE
  OBVIOUS
<1>6. QED
  BY <1>1, <1>2, <1>4, <1>5 DEF Put, OtherSlots

LEMMA ConsumedClears ==
    ASSUME TypeOK, NEW c \in Consumer, Consumed(c), pc[c] = "consume", Seen
    PROVE  /\ Clear(ticket[c]) /\ OtherSlots(ticket[c])
           /\ IndexAt(ticket[c]) = entry[c].index /\ entry[c].index \in Index
<1> DEFINE s == Slot(ticket[c])
           new == [array[s] EXCEPT !.index = None]
<1>1. array' = [array EXCEPT ![s] = new]
  BY DEF Consumed
<1>2. s \in Position /\ array \in [Position -> Entry] /\ array[s] \in Entry
  BY SlotIsEntry, Threads DEF TypeOK, RingOK
<1>3. array'[s] = new /\ \A u \in Position \ {s} : array'[u] = array[u]
  BY <1>1, <1>2
<1>4. new.index = None /\ new.cycle = array[s].cycle /\ new.safe = array[s].safe
  BY <1>2 DEF Entry
<1>5. ticket[c] \in In /\ IndexAt(ticket[c]) = entry[c].index
  BY DEF Seen, SeenBy
<1>6. entry[c].index \in Index
  <2>1. array[s].index # None /\ array[s].index = entry[c].index
    BY <1>5 DEF In, IndexAt
  <2>2. QED
    BY <1>2, <2>1 DEF Entry
<1>7. QED
  BY <1>3, <1>4, <1>5, <1>6 DEF Clear, OtherSlots

LEMMA MarkedSpoilsOrSkips ==
    ASSUME TypeOK, NEW c \in Consumer, MarkedAt(c), Seen
    PROVE  /\ Spoil(ticket[c]) \/ Skip(ticket[c])
           /\ OtherSlots(ticket[c])
<1> DEFINE s == Slot(ticket[c])
<1>1. array[s] = entry[c] /\ array' = [array EXCEPT ![s] = Marked(c, entry[c])]
      /\ entry[c].cycle < Cycle(ticket[c])
  BY DEF MarkedAt, Seen, SeenBy
<1>2. s \in Position /\ array \in [Position -> Entry] /\ array[s] \in Entry
  BY SlotIsEntry, Threads DEF TypeOK, RingOK
<1>3. array'[s] = Marked(c, array[s]) /\ \A u \in Position \ {s} : array'[u] = array[u]
  BY <1>1, <1>2
<1>4. CASE array[s].index # None
  <2> DEFINE new == [array[s] EXCEPT !.safe = FALSE]
  <2>1. array'[s] = new
    BY <1>3, <1>4 DEF Marked
  <2>2. new.index = array[s].index /\ new.cycle = array[s].cycle /\ new.safe = FALSE
    BY <1>2 DEF Entry
  <2>3. QED
    BY <1>1, <1>3, <1>4, <2>1, <2>2 DEF Spoil, OtherSlots
<1>5. CASE array[s].index = None
  <2> DEFINE new == [array[s] EXCEPT !.cycle = Cycle(ticket[c])]
  <2>1. array'[s] = new
    BY <1>3, <1>5 DEF Marked
  <2>2. new.index = array[s].index /\ new.cycle = Cycle(ticket[c]) /\ new.safe = array[s].safe
    BY <1>2 DEF Entry
  <2>3. QED
    BY <1>1, <1>3, <1>5, <2>1, <2>2 DEF Skip, OtherSlots
<1>6. QED
  BY <1>4, <1>5

\* An entry is replaced by one of a later cycle, or it had an index.
Later == \A s \in Position :
           \/ array'[s] = array[s]
           \/ array'[s].cycle > array[s].cycle
           \/ array[s].index # None /\ array'[s].cycle = array[s].cycle

LEMMA SlotsGrow ==
    ASSUME RingOK, NEW T \in Nat, OtherSlots(T),
           (\E i \in Index : Put(T, i)) \/ Clear(T) \/ Spoil(T) \/ Skip(T)
    PROVE  Later
<1>1. Slot(T) \in Position /\ Cycle(T) \in Nat
  BY TicketIsPlace
<1>2. array[Slot(T)].cycle \in Int
  BY <1>1, SlotTyped
<1>3. \/ array'[Slot(T)].cycle > array[Slot(T)].cycle
      \/ array[Slot(T)].index # None /\ array'[Slot(T)].cycle = array[Slot(T)].cycle
  BY <1>1, <1>2 DEF Put, Clear, Spoil, Skip, In
<1>4. QED
  BY <1>3 DEF Later, OtherSlots

\* The index of a ticket in the ring stays what it is.
SameIndices(S) == \A U \in S : IndexAt(U)' = IndexAt(U)

LEMMA PutComesIn ==
    ASSUME NEW T \in Nat, NEW i \in Index, Put(T, i), OtherSlots(T)
    PROVE  In' = In \cup {T} /\ T \notin In /\ SameIndices(In) /\ IndexAt(T)' = i
<1>1. array[Slot(T)].index = None /\ array'[Slot(T)].index = i
      /\ array'[Slot(T)].cycle = Cycle(T) /\ i # None
  BY RingSize DEF Put
<1>2. ASSUME NEW U \in Nat, Slot(U) # Slot(T)
      PROVE  array'[Slot(U)] = array[Slot(U)]
  BY <1>2, TicketIsPlace DEF OtherSlots
<1>3. ASSUME NEW U \in Nat, Slot(U) = Slot(T)
      PROVE  U \notin In /\ (U \in In' <=> U = T)
  <2>1. U \notin In
    BY <1>1, <1>3 DEF In
  <2>2. U \in In' <=> Cycle(T) = Cycle(U)
    BY <1>1, <1>3 DEF In
  <2>3. QED
    BY <1>3, <2>1, <2>2, PlaceIsTicket
<1>4. \A U \in Nat : U \in In' <=> U \in In \/ U = T
  BY <1>2, <1>3 DEF In
<1>5. In \subseteq Nat /\ In' \subseteq Nat
  BY DEF In
<1>6. In' = In \cup {T}
  BY <1>4, <1>5
<1>7. T \notin In
  BY <1>3
<1>8. SameIndices(In)
  BY <1>2, <1>3, <1>5 DEF SameIndices, IndexAt
<1>9. IndexAt(T)' = i
  BY <1>1 DEF IndexAt
<1>10. QED
  BY <1>6, <1>7, <1>8, <1>9

LEMMA ClearGoesOut ==
    ASSUME NEW T \in Nat, Clear(T), OtherSlots(T)
    PROVE  In' = In \ {T} /\ SameIndices(In')
<1>1. array'[Slot(T)].index = None /\ array[Slot(T)].cycle = Cycle(T)
  BY DEF Clear, In
<1>2. ASSUME NEW U \in Nat, Slot(U) # Slot(T)
      PROVE  array'[Slot(U)] = array[Slot(U)]
  BY <1>2, TicketIsPlace DEF OtherSlots
<1>3. ASSUME NEW U \in Nat, Slot(U) = Slot(T)
      PROVE  U \notin In' /\ (U \in In => U = T)
  <2>1. U \notin In'
    BY <1>1, <1>3 DEF In
  <2>2. U \in In => Cycle(T) = Cycle(U)
    BY <1>1, <1>3 DEF In
  <2>3. QED
    BY <1>3, <2>1, <2>2, PlaceIsTicket
<1>4. \A U \in Nat : U \in In' <=> U \in In /\ U # T
  BY <1>2, <1>3 DEF In
<1>5. In \subseteq Nat /\ In' \subseteq Nat
  BY DEF In
<1>6. In' = In \ {T}
  BY <1>4, <1>5
<1>7. SameIndices(In')
  BY <1>2, <1>3, <1>5 DEF SameIndices, IndexAt
<1>8. QED
  BY <1>6, <1>7

LEMMA MarkKeepsIn ==
    ASSUME NEW T \in Nat, Spoil(T) \/ Skip(T), OtherSlots(T)
    PROVE  In' = In /\ SameIndices(In)
<1>1. ASSUME NEW U \in Nat, Slot(U) # Slot(T)
      PROVE  array'[Slot(U)] = array[Slot(U)]
  BY <1>1, TicketIsPlace DEF OtherSlots
<1>2. ASSUME NEW U \in Nat, Slot(U) = Slot(T)
      PROVE  /\ U \in In' <=> U \in In
             /\ U \in In => IndexAt(U)' = IndexAt(U)
  BY <1>2 DEF Spoil, Skip, In, IndexAt
<1>3. \A U \in Nat : U \in In' <=> U \in In
  BY <1>1, <1>2 DEF In
<1>4. In \subseteq Nat /\ In' \subseteq Nat
  BY DEF In
<1>5. In' = In
  BY <1>3, <1>4
<1>6. SameIndices(In)
  BY <1>1, <1>2, <1>4 DEF SameIndices, IndexAt
<1>7. QED
  BY <1>5, <1>6

-----------------------------------------------------------------------------
(* The dequeuers' part: no ticket is dealt with before or after its turn.  *)

\* A step after which the same dequeuers hold the same tickets.
SameHolders == /\ head' = head
               /\ \A d \in Consumer : /\ Holds(d)' <=> Holds(d)
                                      /\ Holds(d) => ticket'[d] = ticket[d]

LEMMA SamePending ==
    ASSUME SameHolders
    PROVE  \A T \in Nat : Pending(T)' <=> Pending(T)
<1>1. \A T \in Nat : (\E d \in Consumer : Holds(d)' /\ ticket'[d] = T)
                       <=> (\E d \in Consumer : Holds(d) /\ ticket[d] = T)
  BY DEF SameHolders
<1>2. QED
  BY <1>1 DEF Pending, SameHolders

\* A step in which a dequeuer is done with its ticket.
LetsGo(c) == /\ head' = head /\ Holds(c) /\ ~Holds(c)'
             /\ \A d \in Consumer \ {c} : /\ Holds(d)' <=> Holds(d)
                                          /\ ticket'[d] = ticket[d]

LEMMA OnePendingLess ==
    ASSUME TypeOK, Tickets, NEW c \in Consumer, LetsGo(c)
    PROVE  /\ \A T \in Nat : Pending(T)' <=> Pending(T) /\ T # ticket[c]
           /\ ticket[c] \in Nat /\ Pending(ticket[c])
<1>1. ticket[c] \in Nat /\ head \in Nat
  BY Threads DEF TypeOK, RingOK, LocalsOK
<1>2. ticket[c] < head
  BY DEF Tickets, LetsGo
<1>3. ASSUME NEW T \in Nat
      PROVE  Pending(T)' <=> Pending(T) /\ T # ticket[c]
  <2>1. ASSUME Pending(T)'
        PROVE  Pending(T) /\ T # ticket[c]
    <3>1. CASE T >= head'
      BY <1>1, <1>2, <3>1 DEF Pending, LetsGo
    <3>2. CASE \E d \in Consumer : Holds(d)' /\ ticket'[d] = T
      <4>1. PICK d \in Consumer : Holds(d)' /\ ticket'[d] = T
        BY <3>2
      <4>2. d # c /\ Holds(d) /\ ticket[d] = T
        BY <4>1 DEF LetsGo
      <4>3. T # ticket[c]
        BY <4>2 DEF Tickets, LetsGo
      <4>4. QED
        BY <4>2, <4>3 DEF Pending
    <3>3. QED
      BY <2>1, <3>1, <3>2 DEF Pending
  <2>2. ASSUME Pending(T), T # ticket[c]
        PROVE  Pending(T)'
    <3>1. CASE T >= head
      BY <3>1 DEF Pending, LetsGo
    <3>2. CASE \E d \in Consumer : Holds(d) /\ ticket[d] = T
      <4>1. PICK d \in Consumer : Holds(d) /\ ticket[d] = T
        BY <3>2
      <4>2. d # c /\ Holds(d)' /\ ticket'[d] = T
        BY <2>2, <4>1 DEF LetsGo
      <4>3. QED
        BY <4>2 DEF Pending
    <3>3. QED
      BY <2>2, <3>1, <3>2 DEF Pending
  <2>3. QED
    BY <2>1, <2>2
<1>4. Pending(ticket[c])
  BY DEF Pending, LetsGo
<1>5. QED
  BY <1>1, <1>3, <1>4

\* A new ticket was the head's before.
LEMMA HeadedPending ==
    ASSUME TypeOK, NEW c \in Consumer, Headed(c)
    PROVE  \A T \in Nat : Pending(T)' <=> Pending(T)
<1>1. head \in Nat /\ head' = head + 1 /\ ticket'[c] = head /\ Holds(c)' /\ ~Holds(c)
  BY DEF TypeOK, RingOK, Headed, Holds
<1>2. \A d \in Consumer \ {c} : /\ Holds(d)' <=> Holds(d)
                                /\ ticket'[d] = ticket[d]
  BY Threads DEF Headed, Apart, Holds
<1>3. ASSUME NEW T \in Nat
      PROVE  Pending(T)' <=> Pending(T)
  <2>1. T >= head <=> T >= head' \/ T = head
    BY <1>1
  <2>2. (\E d \in Consumer : Holds(d)' /\ ticket'[d] = T)
          <=> T = head \/ \E d \in Consumer : Holds(d) /\ ticket[d] = T
    BY <1>1, <1>2
  <2>3. QED
    BY <2>1, <2>2 DEF Pending
<1>4. QED
  BY <1>3

LEMMA TicketsKeep ==
    ASSUME Tickets, head' = head,
           \A d \in Consumer : Holds(d)' => Holds(d) /\ ticket'[d] = ticket[d]
    PROVE  Tickets'
BY DEF Tickets

LEMMA TicketsHeaded ==
    ASSUME TypeOK, Tickets, NEW c \in Consumer, Headed(c)
    PROVE  Tickets'
<1>1. head \in Nat /\ head' = head + 1 /\ ticket'[c] = head
  BY DEF TypeOK, RingOK, Headed
<1>2. \A d \in Consumer \ {c} : /\ Holds(d)' <=> Holds(d)
                                /\ ticket'[d] = ticket[d] /\ ticket[d] \in Nat
  BY Threads DEF Headed, Apart, Holds, TypeOK, LocalsOK
<1>3. \A d \in Consumer \ {c} : Holds(d)' => ticket'[d] < head
  BY <1>2 DEF Tickets
<1>4. ASSUME NEW d \in Consumer, Holds(d)'
      PROVE  ticket'[d] < head'
  <2>1. CASE d = c
    BY <1>1, <2>1
  <2>2. CASE d # c
    BY <1>1, <1>2, <1>3, <1>4, <2>2
  <2>3. QED
    BY <2>1, <2>2
<1>5. ASSUME NEW d \in Consumer, NEW e \in Consumer, Holds(d)', Holds(e)',
             ticket'[e] = ticket'[d]
      PROVE  e = d
  <2>1. CASE d = c \/ e = c
    BY <1>1, <1>2, <1>3, <1>5, <2>1
  <2>2. CASE d # c /\ e # c
    BY <1>2, <1>5, <2>2 DEF Tickets
  <2>3. QED
    BY <2>1, <2>2
<1>6. QED
  BY <1>4, <1>5 DEF Tickets

\* Slots that do not change, for tickets that do not, either.
LEMMA SlotsStay ==
    ASSUME Spent, Awaited, SafeSlots, array' = array,
           \A T \in Nat : Pending(T)' <=> Pending(T)
    PROVE  Spent' /\ Awaited' /\ SafeSlots' /\ In' = In /\ SameIndices(In)
<1>1. In' = In /\ SameIndices(In) /\ In \subseteq Nat
  BY DEF In, SameIndices, IndexAt
<1>2. Spent'
  BY <1>1 DEF Spent
<1>3. Awaited'
  BY <1>1 DEF Awaited
<1>4. SafeSlots'
  BY DEF SafeSlots
<1>5. QED
  BY <1>1, <1>2, <1>3, <1>4

\* A dequeuer may pass over a slot that is unsafe or has a later cycle.
LEMMA PassOver ==
    ASSUME TypeOK, Tickets, Spent, Awaited, SafeSlots, NEW c \in Consumer, LetsGo(c),
           array' = array, ticket[c] \notin In,
           ~(array[Slot(ticket[c])].safe /\ array[Slot(ticket[c])].cycle < Cycle(ticket[c]))
    PROVE  Spent' /\ Awaited' /\ SafeSlots' /\ In' = In /\ SameIndices(In)
<1>1. In' = In /\ SameIndices(In) /\ In \subseteq Nat
  BY DEF In, SameIndices, IndexAt
<1>2. \A T \in Nat : Pending(T)' <=> Pending(T) /\ T # ticket[c]
  BY OnePendingLess
<1>3. Spent'
  BY <1>1, <1>2 DEF Spent
<1>4. Awaited'
  BY <1>1, <1>2 DEF Awaited
<1>5. SafeSlots'
  BY <1>2 DEF SafeSlots
<1>6. QED
  BY <1>1, <1>3, <1>4, <1>5

\* A dequeuer clears the slot of its ticket.
LEMMA ClearKeeps ==
    ASSUME TypeOK, Tickets, Spent, Awaited, SafeSlots, NEW c \in Consumer, LetsGo(c),
           Clear(ticket[c]), OtherSlots(ticket[c])
    PROVE  Spent' /\ Awaited' /\ SafeSlots'
<1> DEFINE T == ticket[c]
<1>1. T \in Nat /\ \A U \in Nat : Pending(U)' <=> Pending(U) /\ U # T
  BY OnePendingLess
<1>2. In' = In \ {T} /\ In \subseteq Nat
  BY <1>1, ClearGoesOut DEF In
<1>3. \A U \in Nat : /\ array'[Slot(U)].cycle = array[Slot(U)].cycle
                     /\ array'[Slot(U)].safe = array[Slot(U)].safe
  BY TicketIsPlace DEF Clear, OtherSlots
<1>4. array[Slot(T)].cycle = Cycle(T)
  BY DEF Clear, In
<1> HIDE DEF T
<1>5. Spent'
  BY <1>1, <1>2, <1>3 DEF Spent
<1>6. Awaited'
  BY <1>1, <1>2 DEF Awaited
<1>7. ASSUME NEW U \in Nat, array'[Slot(U)].safe, array'[Slot(U)].cycle < Cycle(U)
      PROVE  Pending(U)'
  <2>1. Pending(U)
    BY <1>3, <1>7 DEF SafeSlots
  <2>2. U # T
    BY <1>1, <1>3, <1>4, <1>7, TicketIsPlace
  <2>3. QED
    BY <1>1, <2>1, <2>2
<1>8. QED
  BY <1>5, <1>6, <1>7 DEF SafeSlots

\* A dequeuer marks the slot of its ticket.
LEMMA MarkKeeps ==
    ASSUME TypeOK, Tickets, Spent, Awaited, SafeSlots, NEW c \in Consumer, LetsGo(c),
           Spoil(ticket[c]) \/ Skip(ticket[c]), OtherSlots(ticket[c])
    PROVE  Spent' /\ Awaited' /\ SafeSlots'
<1> DEFINE T == ticket[c]
<1>1. T \in Nat /\ \A U \in Nat : Pending(U)' <=> Pending(U) /\ U # T
  BY OnePendingLess
<1>2. In' = In /\ In \subseteq Nat
  BY <1>1, MarkKeepsIn DEF In
<1>3. array[Slot(T)].cycle < Cycle(T) /\ array[Slot(T)].cycle \in Int /\ Cycle(T) \in Nat
  BY <1>1, TicketIsPlace, SlotTyped DEF Spoil, Skip, TypeOK
<1>4. T \notin In
  BY <1>3 DEF In
<1>5. \A U \in Nat : Slot(U) # Slot(T) => array'[Slot(U)] = array[Slot(U)]
  BY TicketIsPlace DEF OtherSlots
<1>6. \/ /\ array'[Slot(T)].cycle = array[Slot(T)].cycle /\ ~array'[Slot(T)].safe
      \/ /\ array'[Slot(T)].cycle = Cycle(T)
         /\ array'[Slot(T)].safe = array[Slot(T)].safe
  BY DEF Spoil, Skip
<1> HIDE DEF T
<1>7. ASSUME NEW U \in Nat, array'[Slot(U)].cycle = Cycle(U), Pending(U)'
      PROVE  U \in In'
  <2>1. Pending(U) /\ U # T
    BY <1>1, <1>7
  <2>2. array[Slot(U)].cycle = Cycle(U)
    <3>1. CASE Slot(U) # Slot(T)
      BY <1>5, <1>7, <3>1
    <3>2. CASE Slot(U) = Slot(T)
      <4>1. Cycle(U) # Cycle(T)
        BY <1>1, <2>1, <3>2, PlaceIsTicket
      <4>2. QED
        BY <1>6, <1>7, <3>2, <4>1
    <3>3. QED
      BY <3>1, <3>2
  <2>3. QED
    BY <1>2, <2>1, <2>2 DEF Spent
<1>8. Awaited'
  BY <1>1, <1>2, <1>4 DEF Awaited
<1>9. ASSUME NEW U \in Nat, array'[Slot(U)].safe, array'[Slot(U)].cycle < Cycle(U)
      PROVE  Pending(U)'
  <2>1. array[Slot(U)].safe /\ array[Slot(U)].cycle < Cycle(U) /\ U # T
    <3>1. CASE Slot(U) # Slot(T)
      BY <1>5, <1>9, <3>1
    <3>2. CASE Slot(U) = Slot(T)
      <4>1. array'[Slot(T)].cycle = Cycle(T) /\ array[Slot(T)].safe
        BY <1>6, <1>9, <3>2
      <4>2. Cycle(T) < Cycle(U) /\ Cycle(U) \in Nat
        BY <1>9, <3>2, <4>1, TicketIsPlace
      <4>3. QED
        BY <1>3, <3>2, <4>1, <4>2
    <3>3. QED
      BY <3>1, <3>2
  <2>2. QED
    BY <1>1, <2>1 DEF SafeSlots
<1>10. QED
  BY <1>7, <1>8, <1>9 DEF Spent, SafeSlots

\* An enqueuer uses a slot no dequeuer has passed over.
LEMMA PutKeeps ==
    ASSUME TypeOK, Spent, Awaited, SafeSlots, SameHolders,
           NEW T \in Nat, NEW i \in Index, Put(T, i), OtherSlots(T),
           \A U \in Nat : Slot(U) = Slot(T) /\ Cycle(U) >= Cycle(T) => Pending(U)
    PROVE  Spent' /\ Awaited' /\ SafeSlots'
<1>1. \A U \in Nat : Pending(U)' <=> Pending(U)
  BY SamePending
<1>2. In' = In \cup {T} /\ In \subseteq Nat
  BY PutComesIn DEF In
<1>3. \A U \in Nat : Slot(U) # Slot(T) => array'[Slot(U)] = array[Slot(U)]
  BY TicketIsPlace DEF OtherSlots
<1>4. array'[Slot(T)].cycle = Cycle(T)
  BY DEF Put
<1>5. ASSUME NEW U \in Nat, array'[Slot(U)].cycle = Cycle(U), Pending(U)'
      PROVE  U \in In'
  <2>1. CASE Slot(U) # Slot(T)
    BY <1>1, <1>2, <1>3, <1>5, <2>1 DEF Spent
  <2>2. CASE Slot(U) = Slot(T)
    <3>1. U = T
      BY <1>4, <1>5, <2>2, PlaceIsTicket
    <3>2. QED
      BY <1>2, <3>1
  <2>3. QED
    BY <2>1, <2>2
<1>6. Awaited'
  <2>1. Pending(T)
    BY TicketIsPlace
  <2>2. QED
    BY <1>1, <1>2, <2>1 DEF Awaited
<1>7. ASSUME NEW U \in Nat, array'[Slot(U)].safe, array'[Slot(U)].cycle < Cycle(U)
      PROVE  Pending(U)'
  <2>1. CASE Slot(U) # Slot(T)
    BY <1>1, <1>3, <1>7, <2>1 DEF SafeSlots
  <2>2. CASE Slot(U) = Slot(T)
    <3>1. Cycle(U) >= Cycle(T)
      BY <1>4, <1>7, <2>2, TicketIsPlace
    <3>2. QED
      BY <1>1, <2>2, <3>1
  <2>3. QED
    BY <2>1, <2>2
<1>8. QED
  BY <1>5, <1>6, <1>7 DEF Spent, SafeSlots

\* What a dequeuer has seen stays so while it is not its own turn.
LEMMA SeenStays ==
    ASSUME NEW d \in Consumer, SeenBy(d),
           pc'[d] = pc[d], ticket'[d] = ticket[d], entry'[d] = entry[d],
           pc[d] = "consume" /\ ticket[d] \in In => ticket[d] \in In',
           SameIndices(In \cap In')
    PROVE  SeenBy(d)'
<1>1. CASE pc[d] = "consume"
  <2>1. ticket[d] \in In \cap In' /\ IndexAt(ticket[d]) = entry[d].index
    BY <1>1 DEF SeenBy
  <2>2. array'[Slot(ticket[d])].index = array[Slot(ticket[d])].index
    BY <2>1 DEF SameIndices, IndexAt
  <2>3. IndexAt(ticket[d])' = entry'[d].index
    BY <2>1, <2>2 DEF IndexAt
  <2>4. QED
    BY <1>1, <2>1, <2>3 DEF SeenBy
<1>2. CASE pc[d] = "mark"
  BY <1>2 DEF SeenBy
<1>3. QED
  BY <1>1, <1>2 DEF SeenBy

\* It is right about the entry it loads.
LEMMA ExaminedSeen ==
    ASSUME TypeOK, Spent, NEW c \in Consumer, Examined(c), Holds(c)
    PROVE  SeenBy(c)'
<1> DEFINE T == ticket[c]
           seen == array[Slot(T)]
<1>1. /\ ticket'[c] = T /\ T \in Nat /\ array' = array /\ entry'[c] = seen
      /\ pc'[c] = Appraise(c, seen)
  BY SlotIsEntry, Threads DEF Examined
<1>2. Pending(T)
  BY DEF Holds, Pending
<1>3. CASE seen.cycle = Cycle(T)
  <2>1. T \in In
    BY <1>1, <1>2, <1>3 DEF Spent
  <2>2. T \in In' /\ IndexAt(T)' = seen.index
    BY <1>1, <2>1 DEF In, IndexAt
  <2>3. pc'[c] = "consume"
    BY <1>1, <1>3 DEF Appraise
  <2>4. QED
    BY <1>1, <2>2, <2>3 DEF SeenBy
<1>4. CASE seen.cycle # Cycle(T)
  <2>1. pc'[c] # "consume" /\ (pc'[c] = "mark" => seen.cycle < Cycle(T))
    BY <1>1, <1>4 DEF Appraise
  <2>2. QED
    BY <1>1, <2>1 DEF SeenBy
<1>5. QED
  BY <1>3, <1>4

-----------------------------------------------------------------------------
(* The enqueuers' part: a slot that was found usable, and is unchanged,    *)
(* is usable still.                                                        *)

\* A ticket is not let go while its slot stays empty and older.
HeldWhileEmpty ==
    \A T \in Nat : Pending(T) => \/ Pending(T)'
                                 \/ array'[Slot(T)] # array[Slot(T)]
                                 \/ array[Slot(T)].index # None
                                 \/ ~(array[Slot(T)].cycle < Cycle(T))

\* For an enqueuer that does not move.
LEMMA UsableStays ==
    ASSUME TypeOK, RingOK', Later, HeldWhileEmpty,
           NEW p \in Producer, VacantFor(p), GrantedTo(p),
           pc'[p] = pc[p], ticket'[p] = ticket[p], entry'[p] = entry[p]
    PROVE  VacantFor(p)' /\ GrantedTo(p)'
<1> DEFINE s == Slot(ticket[p])
           old == array[s]
           new == array'[s]
<1>1. CASE pc[p] \notin {"head", "exchange"}
  BY <1>1 DEF VacantFor, GrantedTo
<1>2. CASE pc[p] \in {"head", "exchange"}
  <2>1. /\ entry[p].index = None /\ entry[p].cycle < Cycle(ticket[p])
        /\ old = entry[p] \/ old.cycle > entry[p].cycle
    BY <1>2 DEF VacantFor
  <2>2. s \in Position /\ ticket[p] \in Nat /\ Cycle(ticket[p]) \in Nat
    BY SlotIsEntry, Threads
  <2>3. old.cycle \in Int /\ entry[p].cycle \in Int
    BY <2>2, SlotTyped, Threads DEF TypeOK, LocalsOK, Entry
  <2>4. new.cycle \in Int
    BY <2>2 DEF RingOK, Entry
  <2>5. new = old \/ new.cycle > old.cycle \/ (old.index # None /\ new.cycle = old.cycle)
    BY <2>2 DEF Later
  <2> HIDE DEF new, old
  <2>6. \/ new = entry[p] /\ old = entry[p]
        \/ new.cycle > entry[p].cycle
    BY <2>1, <2>3, <2>4, <2>5
  <2>7. VacantFor(p)'
    BY <1>2, <2>1, <2>6 DEF VacantFor, new
  <2>8. ASSUME pc[p] = "exchange", new = entry[p],
               NEW T \in Nat, Slot(T) = s, Cycle(T) >= Cycle(ticket[p])
        PROVE  Pending(T)'
    <3>1. old = entry[p] /\ new = old
      BY <2>3, <2>4, <2>6, <2>8
    <3>2. Pending(T)
      BY <2>8, <3>1 DEF GrantedTo, old
    <3>3. old.cycle < Cycle(T) /\ old.index = None
      BY <2>1, <2>2, <2>3, <2>8, <3>1, TicketIsPlace
    <3>4. QED
      BY <2>8, <3>1, <3>2, <3>3 DEF HeldWhileEmpty, old, new
  <2>9. GrantedTo(p)'
    BY <2>8 DEF GrantedTo, new
  <2>10. QED
    BY <2>7, <2>9
<1>3. QED
  BY <1>1, <1>2

\* For one that has just loaded and judged the entry.
LEMMA JudgedUsable ==
    ASSUME TypeOK, SafeSlots, NEW p \in Producer, Loaded(p), array' = array,
           \A T \in Nat : Pending(T)' <=> Pending(T)
    PROVE  VacantFor(p)' /\ GrantedTo(p)'
<1> DEFINE T == ticket[p]
           seen == array[Slot(T)]
<1>1. /\ ticket'[p] = T /\ T \in Nat /\ entry'[p] = seen /\ pc'[p] = Judge(p, seen)
      /\ seen.cycle \in Int /\ Cycle(T) \in Nat
  BY SlotIsEntry, SlotTyped, Threads DEF Loaded, TypeOK
<1>2. VacantFor(p)'
  <2>1. pc'[p] \in {"head", "exchange"} => seen.index = None /\ seen.cycle < Cycle(T)
    BY <1>1 DEF Judge
  <2>2. QED
    BY <1>1, <2>1 DEF VacantFor
<1>3. ASSUME pc'[p] = "exchange", NEW U \in Nat, Slot(U) = Slot(T), Cycle(U) >= Cycle(T)
      PROVE  Pending(U)'
  <2>1. seen.safe /\ seen.cycle < Cycle(T)
    BY <1>1, <1>3 DEF Judge
  <2>2. array[Slot(U)].safe /\ array[Slot(U)].cycle < Cycle(U)
    BY <1>1, <1>3, <2>1, TicketIsPlace
  <2>3. QED
    BY <2>2 DEF SafeSlots
<1>4. GrantedTo(p)'
  BY <1>1, <1>3 DEF GrantedTo
<1>5. QED
  BY <1>2, <1>4

\* For one whose ticket the head has not come to.
LEMMA AheadUsable ==
    ASSUME TypeOK, NEW p \in Producer, Moved(p), array' = array, VacantFor(p),
           pc[p] = "head", pc'[p] = "exchange", head <= ticket[p], head' = head
    PROVE  VacantFor(p)' /\ GrantedTo(p)'
<1>1. ticket' = ticket /\ entry' = entry /\ ticket[p] \in Nat /\ head \in Nat
  BY SlotIsEntry, Threads DEF Moved, TypeOK, RingOK
<1>2. VacantFor(p)'
  BY <1>1 DEF VacantFor
<1>3. ASSUME NEW U \in Nat, Slot(U) = Slot(ticket[p]), Cycle(U) >= Cycle(ticket[p])
      PROVE  Pending(U)'
  <2>1. ticket[p] <= U
    BY <1>1, <1>3, LaterCycle, TicketIsPlace
  <2>2. U >= head'
    BY <1>1, <2>1
  <2>3. QED
    BY <2>2 DEF Pending
<1>4. QED
  BY <1>1, <1>2, <1>3 DEF GrantedTo

\* For one that is elsewhere.
LEMMA NotUsing ==
    ASSUME NEW p \in Producer, pc'[p] \notin {"head", "exchange"}
    PROVE  VacantFor(p)' /\ GrantedTo(p)'
BY DEF VacantFor, GrantedTo

-----------------------------------------------------------------------------
(* The contents: each index in one place, and the places in order.         *)

Bringing(p) == pc[p] \in {"ticket", "load", "head", "exchange"}
Leaving(p) == pc[p] \in {"threshold", "reset"}

LEMMA InTyped ==
    ASSUME RingOK, NEW T \in In
    PROVE  /\ T \in Nat /\ Slot(T) \in Position
           /\ IndexAt(T) \in Index /\ array[Slot(T)].index = IndexAt(T)
<1>1. T \in Nat /\ array[Slot(T)].index # None
  BY DEF In
<1>2. QED
  BY <1>1, TicketIsPlace, SlotTyped DEF IndexAt

\* A step that leaves every index in its slot.
IndicesStay == /\ In' = In /\ SameIndices(In)
               /\ \A s \in Position : /\ array'[s].index = array[s].index
                                      /\ array[s].index # None =>
                                           array'[s].cycle = array[s].cycle

LEMMA SameArray ==
    ASSUME array' = array
    PROVE  IndicesStay
BY DEF IndicesStay, In, SameIndices, IndexAt

LEMMA MarkIndicesStay ==
    ASSUME NEW T \in Nat, Spoil(T) \/ Skip(T), OtherSlots(T)
    PROVE  IndicesStay
<1>1. In' = In /\ SameIndices(In)
  BY MarkKeepsIn
<1>2. Slot(T) \in Position
  BY TicketIsPlace
<1>3. ASSUME NEW s \in Position
      PROVE  /\ array'[s].index = array[s].index
             /\ array[s].index # None => array'[s].cycle = array[s].cycle
  <2>1. CASE s = Slot(T)
    BY <2>1 DEF Spoil, Skip
  <2>2. CASE s # Slot(T)
    BY <2>2 DEF OtherSlots
  <2>3. QED
    BY <2>1, <2>2
<1>4. QED
  BY <1>1, <1>3 DEF IndicesStay

\* Enqueuers that at most go on to the next stage.
LEMMA CarriedStays ==
    ASSUME Carried, index' = index, stored' = stored, IndicesStay,
           \A p \in Producer : /\ pc'[p] = "idle" => pc[p] = "idle"
                               /\ Bringing(p)' => Bringing(p)
    PROVE  Carried'
BY DEF Carried, Bringing, IndicesStay

LEMMA PlacedStays ==
    ASSUME Placed, index' = index, stored' = stored, IndicesStay,
           \A p \in Producer : Leaving(p)' => Leaving(p)
    PROVE  Placed'
<1>1. Entering' = Entering
  BY DEF Entering
<1>2. \A i \in Index : Entered(i)' => Entered(i)
  BY DEF Entered, Leaving
<1>3. \A i \in Index : Entered(i)' => \E T \in In' : IndexAt(T)' = i
  BY <1>2 DEF Placed, IndicesStay, SameIndices
<1>4. \A s \in Position :
        array'[s].index # None => /\ array'[s].cycle \in Nat
                                  /\ array'[s].index \in stored' \cup Entering'
  BY <1>1 DEF Placed, IndicesStay
<1>5. \A s, t \in Position : array'[s].index # None /\ array'[s].index = array'[t].index
                               => s = t
  BY DEF Placed, IndicesStay
<1>6. QED
  BY <1>3, <1>4, <1>5 DEF Placed

\* The first three parts of InOrder, for a step that leaves the ring's indices.
LEMMA OrderStays ==
    ASSUME TypeOK, InOrder, before' = before, stored \subseteq stored', IndicesStay,
           tail' \in Nat, tail' >= tail,
           \A p \in Placing' : \/ /\ p \in Placing /\ ticket'[p] = ticket[p]
                                  /\ index'[p] = index[p]
                               \/ ticket'[p] = tail /\ tail' > tail
    PROVE  InOrder'
<1>1. In' = In /\ (\A T \in In : IndexAt(T)' = IndexAt(T) /\ T \in Nat) /\ tail \in Nat
  BY DEF IndicesStay, SameIndices, In, TypeOK, RingOK
<1>2. \A i \in Index : before'[i] \subseteq stored'
  BY DEF InOrder
<1>3. \A T, U \in In' : IndexAt(T)' \in before'[IndexAt(U)'] => T < U
  BY <1>1 DEF InOrder
<1>4. \A T \in In' : T < tail'
  BY <1>1 DEF InOrder
<1>5. ASSUME NEW p \in Placing'
      PROVE  /\ ticket'[p] < tail'
             /\ \A T \in In' : IndexAt(T)' \in before'[index'[p]] => T < ticket'[p]
  <2>1. p \in Producer
    BY DEF Placing
  <2>2. CASE ticket'[p] = tail /\ tail' > tail
    BY <1>1, <2>2 DEF InOrder
  <2>3. CASE p \in Placing /\ ticket'[p] = ticket[p] /\ index'[p] = index[p]
    <3>1. /\ ticket[p] < tail /\ ticket[p] \in Nat
          /\ \A T \in In : IndexAt(T) \in before[index[p]] => T < ticket[p]
      BY <2>1, <2>3, Threads DEF InOrder, TypeOK, LocalsOK
    <3>2. QED
      BY <1>1, <2>3, <3>1
  <2>4. QED
    BY <2>2, <2>3
<1>6. QED
  BY <1>2, <1>3, <1>4, <1>5 DEF InOrder

LEMMA ContentsStay ==
    ASSUME TypeOK, Contents, Unrecorded, IndicesStay, tail' \in Nat, tail' >= tail,
           \A p \in Producer : /\ pc'[p] = "idle" => pc[p] = "idle"
                               /\ Bringing(p)' => Bringing(p)
                               /\ Leaving(p)' => Leaving(p),
           \A p \in Placing' : \/ p \in Placing /\ ticket'[p] = ticket[p]
                               \/ ticket'[p] = tail /\ tail' > tail
    PROVE  Contents'
<1>1. Carried'
  BY CarriedStays DEF Contents, Unrecorded
<1>2. Placed'
  BY PlacedStays DEF Contents, Unrecorded
<1>3. InOrder'
  BY OrderStays DEF Contents, Unrecorded
<1>4. QED
  BY <1>1, <1>2, <1>3 DEF Contents

\* Line 170: the caller's index is nowhere in the ring.
LEMMA EnqueueContents ==
    ASSUME TypeOK, Contents, NEW p \in Producer, NEW i \in Index,
           Enqueue(p, i), Ticketed(p), array' = array
    PROVE  Contents' /\ HistoryOK'
<1>1. /\ pc[p] = "idle" /\ i \notin stored /\ i \notin Entering
      /\ index' = [index EXCEPT ![p] = i] /\ before' = [before EXCEPT ![i] = stored]
      /\ stored' = stored
  BY DEF Enqueue
<1>2. /\ index \in [Producer -> Index \cup {None}] /\ before \in [Index -> SUBSET Index]
      /\ stored \in SUBSET Index /\ tail \in Nat /\ i # None
  BY RingSize DEF TypeOK, HistoryOK, RingOK
<1>3. /\ index'[p] = i /\ \A q \in Producer \ {p} : index'[q] = index[q]
      /\ before'[i] = stored /\ \A j \in Index \ {i} : before'[j] = before[j]
  BY <1>1, <1>2
<1>4. /\ pc'[p] = "load" /\ ticket'[p] = tail /\ tail' = tail + 1
      /\ \A q \in Producer \ {p} : pc'[q] = pc[q] /\ ticket'[q] = ticket[q]
  BY DEF Ticketed
<1>5. \A q \in Producer : index[q] # i
  BY <1>1, <1>2 DEF Entering
<1>6. \A s \in Position : array[s].index # i
  BY <1>1, <1>2 DEF Contents, Placed
<1>7. Carried'
  <2>1. ASSUME NEW q \in Producer \ {p}
        PROVE  /\ pc'[q] = "idle" => index'[q] = None
               /\ pc'[q] \in {"ticket", "load", "head", "exchange"} =>
                    /\ index'[q] # None
                    /\ \A s \in Position : array'[s].index # index'[q]
               /\ index'[q] # None =>
                    /\ index'[q] \notin stored'
                    /\ \A r \in Producer : index'[r] = index'[q] => r = q
    BY <1>1, <1>3, <1>4, <1>5 DEF Contents, Carried
  <2>2. /\ index'[p] # None /\ index'[p] \notin stored'
        /\ \A s \in Position : array'[s].index # index'[p]
        /\ \A r \in Producer : index'[r] = index'[p] => r = p
    BY <1>1, <1>2, <1>3, <1>5, <1>6
  <2>3. QED
    BY <1>4, <2>1, <2>2 DEF Carried
<1>8. Placed'
  <2>1. Entering \subseteq Entering'
    <3>1. index[p] = None
      BY <1>1 DEF Contents, Carried
    <3>2. QED
      BY <1>3, <3>1 DEF Entering
  <2>2. \A j \in Index : Entered(j)' => Entered(j)
    BY <1>1, <1>3, <1>4 DEF Entered
  <2>3. In' = In /\ SameIndices(In)
    BY DEF In, SameIndices, IndexAt
  <2>4. \A j \in Index : Entered(j)' => \E T \in In' : IndexAt(T)' = j
    BY <2>2, <2>3 DEF Contents, Placed, SameIndices
  <2>5. QED
    BY <1>1, <2>1, <2>4 DEF Contents, Placed
<1>9. InOrder'
  <2>1. In' = In /\ \A T \in In : /\ IndexAt(T)' = IndexAt(T) /\ T \in Nat
                                  /\ IndexAt(T) \in Index \ {i} /\ T < tail
    <3>1. In' = In /\ \A T \in In : IndexAt(T)' = IndexAt(T)
      BY DEF In, IndexAt
    <3>2. \A T \in In : T \in Nat /\ IndexAt(T) \in Index /\ Slot(T) \in Position
                        /\ array[Slot(T)].index = IndexAt(T)
      BY InTyped DEF TypeOK
    <3>3. \A T \in In : T < tail
      BY DEF Contents, InOrder
    <3>4. QED
      BY <1>6, <3>1, <3>2, <3>3
  <2>2. \A j \in Index : before'[j] \subseteq stored'
    BY <1>1, <1>3 DEF Contents, InOrder
  <2>3. \A T, U \in In' : IndexAt(T)' \in before'[IndexAt(U)'] => T < U
    BY <1>3, <2>1 DEF Contents, InOrder
  <2>4. \A T \in In' : T < tail'
    BY <1>2, <1>4, <2>1
  <2>5. ASSUME NEW q \in Placing'
        PROVE  /\ ticket'[q] < tail'
               /\ \A T \in In' : IndexAt(T)' \in before'[index'[q]] => T < ticket'[q]
    <3>1. CASE q = p
      BY <1>2, <1>4, <2>1, <3>1
    <3>2. CASE q # p
      <4>1. q \in Producer /\ q \in Placing
        BY <1>4, <3>2 DEF Placing
      <4>2. index'[q] = index[q] /\ index[q] \in Index \ {i}
        BY <1>2, <1>3, <1>5, <3>2, <4>1 DEF Contents, Carried, Placing
      <4>3. before'[index'[q]] = before[index[q]] /\ ticket'[q] = ticket[q]
        BY <1>3, <1>4, <3>2, <4>1, <4>2
      <4>4. ticket[q] < tail /\ ticket[q] \in Nat
        BY <4>1, Threads DEF Contents, InOrder, TypeOK, LocalsOK
      <4>5. \A T \in In : IndexAt(T) \in before[index[q]] => T < ticket[q]
        BY <4>1 DEF Contents, InOrder
      <4>6. QED
        BY <1>2, <1>4, <2>1, <4>3, <4>4, <4>5
    <3>3. QED
      BY <3>1, <3>2
  <2>6. QED
    BY <2>2, <2>3, <2>4, <2>5 DEF InOrder
<1>10. HistoryOK'
  BY <1>1, <1>2 DEF HistoryOK
<1>11. QED
  BY <1>7, <1>8, <1>9, <1>10 DEF Contents

\* Line 186: the index comes into its slot.
LEMMA StoreContents ==
    ASSUME TypeOK, Contents, NEW p \in Producer, pc[p] = "exchange", Stored(p), Unrecorded,
           NEW T \in Nat, NEW i \in Index, T = ticket[p], i = index[p],
           Put(T, i), OtherSlots(T)
    PROVE  Contents'
<1>1. Slot(T) \in Position /\ Cycle(T) \in Nat /\ tail \in Nat
  BY TicketIsPlace DEF TypeOK, RingOK
<1>2. /\ i \in Index /\ i # None /\ i \notin stored
      /\ \A s \in Position : array[s].index # i
      /\ \A q \in Producer : index[q] = i => q = p
  BY DEF Contents, Carried, TypeOK, HistoryOK
<1>3. /\ In' = In \cup {T} /\ T \notin In /\ IndexAt(T)' = i
      /\ \A U \in In : IndexAt(U)' = IndexAt(U)
  BY <1>1, <1>2, PutComesIn DEF SameIndices
<1>4. /\ array'[Slot(T)].index = i /\ array'[Slot(T)].cycle = Cycle(T)
      /\ \A s \in Position \ {Slot(T)} : array'[s] = array[s]
  BY DEF Put, OtherSlots
<1>5. /\ index' = index /\ stored' = stored /\ before' = before /\ tail' = tail
      /\ pc'[p] = "threshold"
      /\ \A q \in Producer \ {p} : pc'[q] = pc[q] /\ ticket'[q] = ticket[q]
  BY DEF Stored, Unrecorded
<1>6. \A U \in In : U \in Nat /\ IndexAt(U) \in Index
  BY InTyped DEF TypeOK
<1>7. \A j \in Index : before[j] \subseteq stored
  BY DEF Contents, InOrder
<1>8. Carried'
  <2>1. \A q \in Producer \ {p} : index[q] # None => index[q] # i
    BY <1>2
  <2>2. ASSUME NEW q \in Producer \ {p}, pc'[q] \in {"ticket", "load", "head", "exchange"},
               NEW s \in Position
        PROVE  array'[s].index # index'[q]
    <3>1. index[q] # None /\ array[s].index # index[q]
      BY <1>5, <2>2 DEF Contents, Carried
    <3>2. QED
      BY <1>4, <1>5, <2>1, <3>1
  <2>3. QED
    BY <1>5, <2>2 DEF Contents, Carried
<1>9. Placed'
  <2>1. Entering' = Entering /\ i \in Entering
    BY <1>2, <1>5 DEF Entering
  <2>2. \A s \in Position :
          array'[s].index # None => /\ array'[s].cycle \in Nat
                                    /\ array'[s].index \in stored' \cup Entering'
    BY <1>1, <1>4, <1>5, <2>1 DEF Contents, Placed
  <2>3. \A s, t \in Position : array'[s].index # None /\ array'[s].index = array'[t].index
                                 => s = t
    BY <1>2, <1>4 DEF Contents, Placed
  <2>4. \A j \in Index : Entered(j)' => Entered(j) \/ j = i
    BY <1>5 DEF Entered
  <2>5. \A j \in Index : Entered(j)' => \E U \in In' : IndexAt(U)' = j
    BY <1>3, <2>4 DEF Contents, Placed
  <2>6. QED
    BY <2>2, <2>3, <2>5 DEF Placed
<1>10. InOrder'
  <2>1. \A U \in In : IndexAt(U) \in before[i] => U < T
    BY DEF Contents, InOrder, Placing
  <2>2. ASSUME NEW U \in In', NEW V \in In', IndexAt(U)' \in before'[IndexAt(V)']
        PROVE  U < V
    <3>1. IndexAt(V)' \in Index
      BY <1>2, <1>3, <1>6
    <3>2. IndexAt(U)' # i
      BY <1>2, <1>5, <1>7, <2>2, <3>1
    <3>3. U \in In
      BY <1>3, <3>2
    <3>4. CASE V = T
      BY <1>3, <1>5, <2>1, <2>2, <3>3, <3>4
    <3>5. CASE V \in In
      BY <1>3, <1>5, <2>2, <3>3, <3>5 DEF Contents, InOrder
    <3>6. QED
      BY <1>3, <3>4, <3>5
  <2>3. \A U \in In' : U < tail'
    <3>1. T < tail
      BY DEF Contents, InOrder, Placing
    <3>2. QED
      BY <1>3, <1>5, <3>1 DEF Contents, InOrder
  <2>4. ASSUME NEW q \in Placing'
        PROVE  /\ ticket'[q] < tail'
               /\ \A U \in In' : IndexAt(U)' \in before'[index'[q]] => U < ticket'[q]
    <3>1. q # p /\ q \in Placing
      BY <1>5 DEF Placing
    <3>2. index[q] \in Index
      BY <3>1 DEF Contents, Carried, Placing, TypeOK, HistoryOK
    <3>3. \A U \in In' : IndexAt(U)' \in before[index[q]] => U \in In
      BY <1>2, <1>3, <1>7, <3>2
    <3>4. /\ ticket[q] < tail
          /\ \A U \in In : IndexAt(U) \in before[index[q]] => U < ticket[q]
      BY <3>1 DEF Contents, InOrder
    <3>5. ticket'[q] = ticket[q]
      BY <1>5, <3>1 DEF Placing
    <3>6. QED
      BY <1>3, <1>5, <3>3, <3>4, <3>5
  <2>5. QED
    BY <1>5, <1>7, <2>2, <2>3, <2>4 DEF InOrder
<1>11. QED
  BY <1>8, <1>9, <1>10 DEF Contents

\* Line 192: an index whose enqueue returns is stored.
LEMMA ReturnContents ==
    ASSUME TypeOK, Contents, NEW p \in Producer, Leaving(p), Returned(p),
           array' = array, tail' = tail
    PROVE  Contents'
<1>1. /\ pc'[p] = "idle" /\ before' = before
      /\ \A q \in Producer \ {p} : pc'[q] = pc[q] /\ ticket'[q] = ticket[q]
      /\ stored' = stored \cup ({index[p]} \ {None})
      /\ index' = [index EXCEPT ![p] = None]
  BY DEF Returned
<1>2. index \in [Producer -> Index \cup {None}] /\ tail \in Nat
  BY DEF TypeOK, HistoryOK, RingOK
<1>3. index'[p] = None /\ \A q \in Producer \ {p} : index'[q] = index[q]
  BY <1>1, <1>2
<1>4. IndicesStay
  BY SameArray
<1>5. Carried'
  <2>1. ASSUME NEW q \in Producer \ {p}
        PROVE  /\ pc'[q] = "idle" => index'[q] = None
               /\ pc'[q] \in {"ticket", "load", "head", "exchange"} =>
                    /\ index'[q] # None
                    /\ \A s \in Position : array'[s].index # index'[q]
    BY <1>1, <1>3 DEF Contents, Carried
  <2>2. ASSUME NEW q \in Producer \ {p}, index'[q] # None
        PROVE  /\ index'[q] \notin stored'
               /\ \A r \in Producer : index'[r] = index'[q] => r = q
    <3>1. index[q] # None /\ index[q] \notin stored /\ index[q] # index[p]
          /\ \A r \in Producer : index[r] = index[q] => r = q
      BY <1>3, <2>2 DEF Contents, Carried
    <3>2. QED
      BY <1>1, <1>3, <3>1
  <2>3. QED
    BY <1>1, <1>3, <2>1, <2>2 DEF Carried
<1>6. Placed'
  <2>1. stored \cup Entering \subseteq stored' \cup Entering'
    <3>1. ASSUME NEW q \in Producer, index[q] # None
          PROVE  index[q] \in stored' \cup Entering'
      <4>1. CASE q = p
        BY <1>1, <3>1, <4>1
      <4>2. CASE q # p
        <5>1. index'[q] = index[q]
          BY <1>3, <4>2
        <5>2. index'[q] \in Entering'
          BY <3>1, <5>1 DEF Entering
        <5>3. QED
          BY <5>1, <5>2
      <4>3. QED
        BY <4>1, <4>2
    <3>2. QED
      BY <1>1, <3>1 DEF Entering
  <2>2. ASSUME NEW j \in Index, Entered(j)'
        PROVE  Entered(j)
    <3>1. CASE j \in stored'
      <4>1. j \in stored \/ j = index[p]
        BY <1>1, <3>1
      <4>2. QED
        BY <4>1 DEF Entered, Leaving
    <3>2. CASE j \notin stored'
      <4>1. PICK q \in Producer : pc'[q] \in {"threshold", "reset"} /\ index'[q] = j
        BY <2>2, <3>2 DEF Entered
      <4>2. q # p
        BY <1>1, <4>1
      <4>3. QED
        BY <1>1, <1>3, <4>1, <4>2 DEF Entered
    <3>3. QED
      BY <3>1, <3>2
  <2>3. \A j \in Index : Entered(j)' => \E T \in In' : IndexAt(T)' = j
    BY <1>4, <2>2 DEF Contents, Placed, IndicesStay, SameIndices
  <2>4. QED
    BY <2>1, <2>3 DEF Contents, Placed
<1>7. InOrder'
  <2>1. \A q \in Placing' : /\ q \in Placing /\ ticket'[q] = ticket[q]
                            /\ index'[q] = index[q]
    BY <1>1, <1>3 DEF Placing
  <2>2. QED
    BY <1>1, <1>2, <1>4, <2>1, OrderStays DEF Contents
<1>8. QED
  BY <1>5, <1>6, <1>7 DEF Contents

\* Line 236: an index that is returned is in no place any more.
LEMMA ConsumeContents ==
    ASSUME TypeOK, Contents, NEW c \in Consumer, Consumed(c),
           NEW T \in Nat, NEW i \in Index, T = ticket[c], i = entry[c].index,
           Clear(T), OtherSlots(T), IndexAt(T) = i
    PROVE  Contents'
<1>1. /\ tail' = tail /\ stored' = stored \ {i}
      /\ index' = [p \in Producer |-> IF index[p] = i THEN None ELSE index[p]]
      /\ before' = [j \in Index |-> before[j] \ {i}]
      /\ \A p \in Producer : pc'[p] = pc[p] /\ ticket'[p] = ticket[p]
  BY Threads DEF Consumed, Apart
<1>2. \A p \in Producer : /\ index'[p] = IF index[p] = i THEN None ELSE index[p]
                          /\ index[p] \in Index \cup {None}
  BY <1>1 DEF TypeOK, HistoryOK
<1>3. \A j \in Index : before'[j] = before[j] \ {i}
  BY <1>1
<1>4. Slot(T) \in Position /\ i # None /\ array[Slot(T)].index = i /\ T \in In
  BY TicketIsPlace, RingSize DEF IndexAt, Clear
<1>5. /\ array'[Slot(T)].index = None
      /\ \A s \in Position \ {Slot(T)} : /\ array'[s] = array[s]
                                         /\ array[s].index # i
  BY <1>4 DEF Clear, OtherSlots, Contents, Placed
<1>6. /\ In' = In \ {T}
      /\ \A U \in In' : /\ IndexAt(U)' = IndexAt(U) /\ U \in In
                        /\ IndexAt(U) \in Index
  <2>1. In' = In \ {T} /\ \A U \in In' : IndexAt(U)' = IndexAt(U)
    BY ClearGoesOut DEF SameIndices
  <2>2. \A U \in In : IndexAt(U) \in Index
    BY InTyped DEF TypeOK
  <2>3. QED
    BY <2>1, <2>2
<1>7. \A p \in Producer : Bringing(p) => index[p] # i /\ index'[p] = index[p]
  BY <1>2, <1>4 DEF Contents, Carried, Bringing
<1>8. Carried'
  <2>1. ASSUME NEW p \in Producer
        PROVE  /\ pc'[p] = "idle" => index'[p] = None
               /\ pc'[p] \in {"ticket", "load", "head", "exchange"} =>
                    /\ index'[p] # None
                    /\ \A s \in Position : array'[s].index # index'[p]
    <3>1. pc'[p] = "idle" => index'[p] = None
      BY <1>1, <1>2 DEF Contents, Carried
    <3>2. ASSUME pc'[p] \in {"ticket", "load", "head", "exchange"}
          PROVE  /\ index'[p] # None
                 /\ \A s \in Position : array'[s].index # index'[p]
      <4>1. index'[p] = index[p]
        BY <1>1, <1>7, <3>2 DEF Bringing
      <4>2. index[p] # None /\ \A s \in Position : array[s].index # index[p]
        BY <1>1, <3>2 DEF Contents, Carried
      <4>3. QED
        BY <1>5, <4>1, <4>2
    <3>3. QED
      BY <3>1, <3>2
  <2>2. ASSUME NEW p \in Producer, index'[p] # None
        PROVE  /\ index'[p] \notin stored'
               /\ \A q \in Producer : index'[q] = index'[p] => q = p
    <3>1. index'[p] = index[p] /\ index[p] # None
      BY <1>2, <2>2
    <3>2. /\ index[p] \notin stored
          /\ \A q \in Producer : index[q] = index[p] => q = p
      BY <3>1 DEF Contents, Carried
    <3>3. \A q \in Producer : index'[q] = index'[p] => index[q] = index[p]
      BY <1>2, <2>2, <3>1
    <3>4. QED
      BY <1>1, <3>1, <3>2, <3>3
  <2>3. QED
    BY <2>1, <2>2 DEF Carried
<1>9. Placed'
  <2>1. ASSUME NEW s \in Position, array'[s].index # None
        PROVE  /\ s # Slot(T) /\ array'[s] = array[s]
               /\ array'[s].cycle \in Nat
               /\ array'[s].index \in stored' \cup Entering'
    <3>1. s # Slot(T) /\ array'[s] = array[s] /\ array[s].index # i
      BY <1>5, <2>1
    <3>2. array[s].cycle \in Nat /\ array[s].index \in stored \cup Entering
      BY <2>1, <3>1 DEF Contents, Placed
    <3>3. CASE array[s].index \in stored
      BY <1>1, <3>1, <3>2, <3>3
    <3>4. CASE array[s].index \in Entering
      <4>1. PICK p \in Producer : index[p] = array[s].index
        BY <3>4 DEF Entering
      <4>2. index'[p] = array[s].index /\ array[s].index # None
        BY <1>2, <2>1, <3>1, <4>1
      <4>3. array[s].index \in Entering'
        BY <4>2 DEF Entering
      <4>4. QED
        BY <3>1, <3>2, <4>3
    <3>5. QED
      BY <3>2, <3>3, <3>4
  <2>2. ASSUME NEW s \in Position, NEW t \in Position,
               array'[s].index # None, array'[s].index = array'[t].index
        PROVE  s = t
    <3>1. array'[s] = array[s] /\ array'[t] = array[t]
      BY <2>1, <2>2
    <3>2. QED
      BY <2>2, <3>1 DEF Contents, Placed
  <2>3. ASSUME NEW j \in Index, Entered(j)'
        PROVE  \E U \in In' : IndexAt(U)' = j
    <3>1. j # None
      BY RingSize
    <3>2. Entered(j) /\ j # i
      <4>1. CASE j \in stored'
        BY <1>1, <4>1 DEF Entered
      <4>2. CASE \E p \in Producer : pc'[p] \in {"threshold", "reset"} /\ index'[p] = j
        <5>1. PICK p \in Producer : pc'[p] \in {"threshold", "reset"} /\ index'[p] = j
          BY <4>2
        <5>2. index[p] = j /\ j # i /\ pc[p] \in {"threshold", "reset"}
          BY <1>1, <1>2, <3>1, <5>1
        <5>3. QED
          BY <5>2 DEF Entered
      <4>3. QED
        BY <2>3, <4>1, <4>2 DEF Entered
    <3>3. PICK U \in In : IndexAt(U) = j
      BY <3>2 DEF Contents, Placed
    <3>4. U \in In'
      BY <1>6, <3>2, <3>3
    <3>5. QED
      BY <1>6, <3>3, <3>4
  <2>4. QED
    BY <2>1, <2>2, <2>3 DEF Placed
<1>10. InOrder'
  <2>1. \A j \in Index : before'[j] \subseteq stored' /\ before'[j] \subseteq before[j]
    BY <1>1, <1>3 DEF Contents, InOrder
  <2>2. ASSUME NEW U \in In', NEW V \in In', IndexAt(U)' \in before'[IndexAt(V)']
        PROVE  U < V
    <3>1. IndexAt(U) \in before[IndexAt(V)] /\ U \in In /\ V \in In
      BY <1>6, <2>1, <2>2
    <3>2. QED
      BY <3>1 DEF Contents, InOrder
  <2>3. \A U \in In' : U < tail'
    BY <1>1, <1>6 DEF Contents, InOrder
  <2>4. ASSUME NEW p \in Placing'
        PROVE  /\ ticket'[p] < tail'
               /\ \A U \in In' : IndexAt(U)' \in before'[index'[p]] => U < ticket'[p]
    <3>1. p \in Producer /\ p \in Placing /\ Bringing(p) /\ ticket'[p] = ticket[p]
      BY <1>1 DEF Placing, Bringing
    <3>2. index'[p] = index[p] /\ index[p] \in Index
      BY <1>2, <1>7, <3>1 DEF Contents, Carried, Bringing
    <3>3. /\ ticket[p] < tail
          /\ \A U \in In : IndexAt(U) \in before[index[p]] => U < ticket[p]
      BY <3>1 DEF Contents, InOrder
    <3>4. \A U \in In' : IndexAt(U)' \in before'[index'[p]]
                           => U \in In /\ IndexAt(U) \in before[index[p]]
      BY <1>6, <2>1, <3>2
    <3>5. QED
      BY <1>1, <3>1, <3>3, <3>4
  <2>5. QED
    BY <2>1, <2>2, <2>3, <2>4 DEF InOrder
<1>11. QED
  BY <1>8, <1>9, <1>10 DEF Contents

-----------------------------------------------------------------------------
(* Every step of an enqueuer keeps the invariant.                          *)

LEMMA UnseenHolders ==
    ASSUME LimitsOK, Unseen
    PROVE  SameHolders /\ LimitsOK'
BY DEF Unseen, SameHolders, Holds, LimitsOK

LEMMA UnseenTickets ==
    ASSUME Tickets, Unseen
    PROVE  Tickets'
BY TicketsKeep DEF Unseen, Holds

\* The dequeuers' part, when the slots do not change, either.
LEMMA UnseenDequeuers ==
    ASSUME RingInv, Unseen, array' = array
    PROVE  /\ Dequeuers' /\ LimitsOK' /\ Later /\ HeldWhileEmpty /\ IndicesStay
           /\ \A T \in Nat : Pending(T)' <=> Pending(T)
<1>1. Tickets /\ Spent /\ Seen /\ Awaited /\ SafeSlots /\ LimitsOK
  BY DEF RingInv, Dequeuers
<1>2. SameHolders /\ LimitsOK' /\ Tickets'
  BY <1>1, UnseenHolders, UnseenTickets
<1>3. \A T \in Nat : Pending(T)' <=> Pending(T)
  BY <1>2, SamePending
<1>4. Spent' /\ Awaited' /\ SafeSlots' /\ In' = In /\ SameIndices(In)
  BY <1>1, <1>3, SlotsStay
<1>5. Seen'
  <2>1. SameIndices(In \cap In')
    BY <1>4 DEF SameIndices
  <2>2. ASSUME NEW d \in Consumer
        PROVE  SeenBy(d)'
    <3>1. pc'[d] = pc[d] /\ ticket'[d] = ticket[d] /\ entry'[d] = entry[d]
      BY DEF Unseen
    <3>2. QED
      BY <1>1, <1>4, <2>1, <3>1, SeenStays DEF Seen
  <2>3. QED
    BY <2>2 DEF Seen
<1>6. Later /\ HeldWhileEmpty
  BY <1>3 DEF Later, HeldWhileEmpty
<1>7. IndicesStay
  BY SameArray
<1>8. QED
  BY <1>2, <1>3, <1>4, <1>5, <1>6, <1>7 DEF Dequeuers

\* The enqueuers' part, when one of them moves.
LEMMA OthersUsable ==
    ASSUME RingInv, RingOK', Later, HeldWhileEmpty, NEW p \in Producer,
           VacantFor(p)', GrantedTo(p)',
           \A q \in Producer \ {p} :
             pc'[q] = pc[q] /\ ticket'[q] = ticket[q] /\ entry'[q] = entry[q]
    PROVE  Enqueuers'
<1>1. ASSUME NEW q \in Producer \ {p}
      PROVE  VacantFor(q)' /\ GrantedTo(q)'
  <2>1. pc'[q] = pc[q] /\ ticket'[q] = ticket[q] /\ entry'[q] = entry[q]
    OBVIOUS
  <2>2. TypeOK /\ VacantFor(q) /\ GrantedTo(q)
    BY DEF RingInv, Enqueuers, Vacant, Granted
  <2>3. QED
    BY <2>1, <2>2, UsableStays
<1>2. QED
  BY <1>1 DEF Enqueuers, Vacant, Granted

\* The two steps that take a ticket.
LEMMA TicketedInv ==
    ASSUME RingInv, NEW p \in Producer, TakeTail(p),
           HistoryOK' /\ Contents'
    PROVE  RingInv'
<1>1. PcOK' /\ RingOK' /\ LocalsOK' /\ Ticketed(p) /\ Unseen /\ array' = array
  BY TakeTailStep DEF RingInv
<1>2. Dequeuers' /\ LimitsOK' /\ Later /\ HeldWhileEmpty
  BY <1>1, UnseenDequeuers
<1>3. VacantFor(p)' /\ GrantedTo(p)'
  <2>1. pc'[p] \notin {"head", "exchange"}
    BY <1>1 DEF Ticketed
  <2>2. QED
    BY <2>1, NotUsing
<1>4. Enqueuers'
  <2>1. \A q \in Producer \ {p} :
          pc'[q] = pc[q] /\ ticket'[q] = ticket[q] /\ entry'[q] = entry[q]
    BY <1>1 DEF Ticketed
  <2>2. QED
    BY <1>1, <1>2, <1>3, <2>1, OthersUsable
<1>5. QED
  BY <1>1, <1>2, <1>4 DEF RingInv, TypeOK

LEMMA EnqueueInv ==
    ASSUME RingInv, NEW p \in Producer, NEW i \in Index, Enqueue(p, i)
    PROVE  RingInv'
<1>1. TakeTail(p) /\ TypeOK /\ Contents
  BY DEF Enqueue, RingInv
<1>2. Ticketed(p) /\ array' = array
  BY <1>1, TakeTailStep
<1>3. Contents' /\ HistoryOK'
  BY <1>1, <1>2, EnqueueContents
<1>4. QED
  BY <1>1, <1>3, TicketedInv

\* Nothing is recorded in a quiet step.
LEMMA QuietHistory ==
    ASSUME HistoryOK, Quiet
    PROVE  Unrecorded /\ HistoryOK'
BY DEF Quiet, Unrecorded, HistoryOK

LEMMA NextTailInv ==
    ASSUME RingInv, NEW p \in Producer, NextTail(p)
    PROVE  RingInv'
<1>1. TakeTail(p) /\ pc[p] = "ticket" /\ Unrecorded /\ HistoryOK' /\ TypeOK /\ Contents
  BY QuietHistory DEF NextTail, RingInv, TypeOK
<1>2. Ticketed(p) /\ array' = array /\ RingOK'
  BY <1>1, TakeTailStep
<1>3. tail \in Nat /\ tail' = tail + 1
  BY <1>1, <1>2 DEF Ticketed, TypeOK, RingOK
<1>4. \A q \in Producer : q # p => pc'[q] = pc[q] /\ ticket'[q] = ticket[q]
  BY <1>2 DEF Ticketed
<1>5. pc'[p] = "load" /\ ticket'[p] = tail
  BY <1>2 DEF Ticketed
<1>6. \A q \in Producer : /\ pc'[q] = "idle" => pc[q] = "idle"
                          /\ Bringing(q)' => Bringing(q)
                          /\ Leaving(q)' => Leaving(q)
  BY <1>1, <1>4, <1>5 DEF Bringing, Leaving
<1>7. \A q \in Placing' : \/ q \in Placing /\ ticket'[q] = ticket[q]
                          \/ ticket'[q] = tail /\ tail' > tail
  BY <1>3, <1>4, <1>5 DEF Placing
<1>8. IndicesStay
  BY <1>2, SameArray
<1>9. tail' \in Nat /\ tail' >= tail
  BY <1>3
<1>10. Contents'
  BY <1>1, <1>6, <1>7, <1>8, <1>9, ContentsStay
<1>11. QED
  BY <1>1, <1>10, TicketedInv

\* A step that changes an enqueuer's place, and at most its entry.
LEMMA LocalInv ==
    ASSUME RingInv, NEW p \in Producer, Unseen, ring' = ring, Unrecorded,
           PcOK', RingOK', LocalsOK', ticket' = ticket,
           \A q \in Producer \ {p} : pc'[q] = pc[q] /\ entry'[q] = entry[q],
           \/ /\ pc[p] \in {"load", "head", "exchange"}
              /\ pc'[p] \in {"ticket", "head", "exchange"}
           \/ /\ pc[p] = "threshold" /\ pc'[p] = "reset",
           VacantFor(p)', GrantedTo(p)'
    PROVE  RingInv'
<1>1. array' = array /\ tail' = tail /\ tail \in Nat
  BY DEF ring, RingInv, TypeOK, RingOK
<1>2. Dequeuers' /\ LimitsOK' /\ Later /\ HeldWhileEmpty /\ IndicesStay
  BY <1>1, UnseenDequeuers
<1>3. Enqueuers'
  BY <1>2, OthersUsable
<1>4. \A q \in Producer : /\ pc'[q] = "idle" => pc[q] = "idle"
                          /\ Bringing(q)' => Bringing(q)
                          /\ Leaving(q)' => Leaving(q)
  BY DEF Bringing, Leaving
<1>5. \A q \in Placing' : q \in Placing /\ ticket'[q] = ticket[q]
  BY DEF Placing
<1>6. TypeOK /\ Contents /\ HistoryOK'
  BY DEF RingInv, TypeOK, HistoryOK, Unrecorded
<1>7. tail' \in Nat /\ tail' >= tail
  BY <1>1
<1>8. Contents'
  BY <1>2, <1>4, <1>5, <1>6, <1>7, ContentsStay
<1>9. QED
  BY <1>2, <1>3, <1>6, <1>8 DEF RingInv, TypeOK

\* Line 177, and line 186 when it fails.
LEMMA LoadInv ==
    ASSUME RingInv, NEW p \in Producer, LoadSlot(p), Quiet, pc[p] \in {"load", "exchange"}
    PROVE  RingInv'
<1>1. TypeOK /\ SafeSlots
  BY DEF RingInv, Dequeuers
<1>2. PcOK' /\ RingOK' /\ LocalsOK' /\ Loaded(p) /\ Unseen /\ ring' = ring
  BY <1>1, LoadSlotStep
<1>3. array' = array
  BY <1>2 DEF ring
<1>4. VacantFor(p)' /\ GrantedTo(p)'
  BY <1>1, <1>2, <1>3, UnseenDequeuers, JudgedUsable
<1>5. pc'[p] \in {"ticket", "head", "exchange"} /\ ticket' = ticket
  BY <1>2 DEF Loaded, Judge
<1>6. Unrecorded
  BY <1>1, QuietHistory DEF TypeOK
<1>7. \A q \in Producer \ {p} : pc'[q] = pc[q] /\ entry'[q] = entry[q]
  BY <1>2 DEF Loaded
<1>8. QED
  BY <1>2, <1>4, <1>5, <1>6, <1>7, LocalInv

\* Line 182.
LEMMA LoadHeadInv ==
    ASSUME RingInv, NEW p \in Producer, LoadHead(p)
    PROVE  RingInv'
<1>1. TypeOK /\ VacantFor(p)
  BY DEF RingInv, Enqueuers, Vacant
<1>2. PICK label \in {"exchange", "ticket"} :
         /\ Goto(p, label)
         /\ label = "exchange" => head <= ticket[p]
  BY DEF LoadHead
<1>3. UNCHANGED <<ring, local>> /\ Quiet /\ pc[p] = "head"
  BY DEF LoadHead
<1>4. /\ PcOK' /\ RingOK' /\ LocalsOK'
      /\ Moved(p) /\ pc'[p] = label /\ Unseen
  BY <1>1, <1>2, <1>3, MoveStep
<1>5. array' = array /\ head' = head /\ ring' = ring
  BY <1>3 DEF ring
<1>6. VacantFor(p)' /\ GrantedTo(p)'
  <2>1. CASE label = "exchange"
    BY <1>1, <1>2, <1>3, <1>4, <1>5, <2>1, AheadUsable
  <2>2. CASE label = "ticket"
    BY <1>4, <2>2, NotUsing
  <2>3. QED
    BY <2>1, <2>2
<1>7. Unrecorded
  BY <1>1, <1>3, QuietHistory DEF TypeOK
<1>8. ticket' = ticket /\ \A q \in Producer \ {p} : pc'[q] = pc[q] /\ entry'[q] = entry[q]
  BY <1>4 DEF Moved
<1>9. QED
  BY <1>3, <1>4, <1>5, <1>6, <1>7, <1>8, LocalInv

\* Line 186.
LEMMA StoreInv ==
    ASSUME RingInv, NEW p \in Producer, StoreIndex(p)
    PROVE  RingInv'
<1>1. CASE array[Slot(ticket[p])] # entry[p]
  <2>1. LoadSlot(p) /\ Quiet /\ pc[p] = "exchange"
    BY <1>1 DEF StoreIndex
  <2>2. QED
    BY <2>1, LoadInv
<1>2. CASE array[Slot(ticket[p])] = entry[p]
  <2>1. TypeOK /\ LimitsOK /\ Vacant /\ GrantedTo(p) /\ Contents
        /\ Tickets /\ Spent /\ Seen /\ Awaited /\ SafeSlots
    BY DEF RingInv, Enqueuers, Granted, Dequeuers
  <2>2. PcOK' /\ RingOK' /\ LocalsOK' /\ Stored(p) /\ Unseen
    BY <1>2, <2>1, StoreStep
  <2>3. pc[p] = "exchange" /\ Unrecorded /\ HistoryOK'
    BY <2>1, QuietHistory DEF StoreIndex, TypeOK
  <2>4. PICK T \in Nat : T = ticket[p]
    BY <2>1, SlotIsEntry, Threads
  <2>5. PICK i \in Index : i = index[p]
    BY <2>1, <2>3 DEF Contents, Carried, TypeOK, HistoryOK
  <2>6. Put(T, i) /\ OtherSlots(T)
    BY <2>1, <2>2, <2>3, <2>4, <2>5, StoredPuts
  <2>7. Contents'
    BY <2>1, <2>2, <2>3, <2>4, <2>5, <2>6, StoreContents
  <2>8. \A U \in Nat : Slot(U) = Slot(T) /\ Cycle(U) >= Cycle(T) => Pending(U)
    BY <1>2, <2>1, <2>3, <2>4 DEF GrantedTo
  <2>9. SameHolders /\ LimitsOK' /\ Tickets'
    BY <2>1, <2>2, UnseenHolders, UnseenTickets
  <2>10. Spent' /\ Awaited' /\ SafeSlots'
    BY <2>1, <2>6, <2>8, <2>9, PutKeeps
  <2>11. Seen'
    <3>1. In' = In \cup {T} /\ SameIndices(In)
      BY <2>6, PutComesIn
    <3>2. SameIndices(In \cap In')
      BY <3>1 DEF SameIndices
    <3>3. ASSUME NEW d \in Consumer
          PROVE  SeenBy(d)'
      <4>1. pc'[d] = pc[d] /\ ticket'[d] = ticket[d] /\ entry'[d] = entry[d]
        BY <2>2 DEF Unseen
      <4>2. QED
        BY <2>1, <3>1, <3>2, <4>1, SeenStays DEF Seen
    <3>4. QED
      BY <3>3 DEF Seen
  <2>12. Later
    BY <2>1, <2>6, SlotsGrow DEF TypeOK
  <2>13. HeldWhileEmpty
    BY <2>9, SamePending DEF HeldWhileEmpty
  <2>14. VacantFor(p)' /\ GrantedTo(p)'
    <3>1. pc'[p] \notin {"head", "exchange"}
      BY <2>2 DEF Stored
    <3>2. QED
      BY <3>1, NotUsing
  <2>15. Enqueuers'
    <3>1. \A q \in Producer \ {p} :
            pc'[q] = pc[q] /\ ticket'[q] = ticket[q] /\ entry'[q] = entry[q]
      BY <2>2 DEF Stored
    <3>2. QED
      BY <2>2, <2>12, <2>13, <2>14, <3>1, OthersUsable
  <2>16. QED
    BY <2>2, <2>3, <2>7, <2>9, <2>10, <2>11, <2>15 DEF RingInv, TypeOK, Dequeuers
<1>3. QED
  BY <1>1, <1>2

\* Lines 190-192, when the enqueue returns.
LEMMA ReturnInv ==
    ASSUME RingInv, NEW p \in Producer, ReturnEnqueue(p), Leaving(p),
           head' = head, tail' = tail, array' = array, threshold' \in Int
    PROVE  RingInv'
<1>1. TypeOK /\ Contents
  BY DEF RingInv
<1>2. PcOK' /\ LocalsOK' /\ HistoryOK' /\ Returned(p) /\ Unseen
  BY <1>1, ReturnStep
<1>3. RingOK'
  BY <1>1 DEF TypeOK, RingOK
<1>4. Contents'
  BY <1>1, <1>2, ReturnContents
<1>5. Dequeuers' /\ LimitsOK' /\ Later /\ HeldWhileEmpty
  BY <1>2, UnseenDequeuers
<1>6. VacantFor(p)' /\ GrantedTo(p)'
  <2>1. pc'[p] \notin {"head", "exchange"}
    BY <1>2 DEF Returned
  <2>2. QED
    BY <2>1, NotUsing
<1>7. Enqueuers'
  <2>1. \A q \in Producer \ {p} :
          pc'[q] = pc[q] /\ ticket'[q] = ticket[q] /\ entry'[q] = entry[q]
    BY <1>2 DEF Returned
  <2>2. QED
    BY <1>3, <1>5, <1>6, <2>1, OthersUsable
<1>8. QED
  BY <1>2, <1>3, <1>4, <1>5, <1>7 DEF RingInv, TypeOK

LEMMA ThresholdInv ==
    ASSUME RingInv, NEW p \in Producer, LoadThreshold(p) \/ ResetThreshold(p)
    PROVE  RingInv'
<1>1. threshold \in Int /\ Threshold \in Int /\ TypeOK
  BY RingSize DEF RingInv, TypeOK, RingOK, Threshold
<1>2. CASE ReturnEnqueue(p)
  <2>1. /\ head' = head /\ tail' = tail /\ array' = array
        /\ threshold' = threshold \/ threshold' = Threshold
    BY DEF LoadThreshold, ResetThreshold, ring
  <2>2. Leaving(p)
    BY DEF LoadThreshold, ResetThreshold, Leaving
  <2>3. QED
    BY <1>1, <1>2, <2>1, <2>2, ReturnInv
<1>3. CASE Goto(p, "reset") /\ UNCHANGED local /\ Quiet /\ UNCHANGED ring /\ pc[p] = "threshold"
  <2>1. /\ PcOK' /\ RingOK' /\ LocalsOK'
        /\ Moved(p) /\ pc'[p] = "reset" /\ Unseen
    BY <1>1, <1>3, MoveStep
  <2>2. VacantFor(p)' /\ GrantedTo(p)'
    BY <2>1, NotUsing
  <2>3. Unrecorded
    BY <1>1, <1>3, QuietHistory DEF TypeOK
  <2>4. ticket' = ticket /\ \A q \in Producer \ {p} : pc'[q] = pc[q] /\ entry'[q] = entry[q]
    BY <2>1 DEF Moved
  <2>5. QED
    BY <1>3, <2>1, <2>2, <2>3, <2>4, LocalInv
<1>4. QED
  BY <1>2, <1>3 DEF LoadThreshold, ResetThreshold

LEMMA ProduceInv ==
    ASSUME RingInv, NEW p \in Producer, Produce(p)
    PROVE  RingInv'
<1>1. CASE Load(p)
  BY <1>1, LoadInv DEF Load
<1>2. QED
  BY <1>1, EnqueueInv, NextTailInv, LoadHeadInv, StoreInv, ThresholdInv DEF Produce

-----------------------------------------------------------------------------
(* Every step of a dequeuer keeps the invariant.                           *)

LEMMA ApartEnqueuers ==
    ASSUME RingInv, RingOK', Later, HeldWhileEmpty, NEW c \in Consumer, Apart(c)
    PROVE  Enqueuers'
<1>1. ASSUME NEW p \in Producer
      PROVE  VacantFor(p)' /\ GrantedTo(p)'
  <2>1. pc'[p] = pc[p] /\ ticket'[p] = ticket[p] /\ entry'[p] = entry[p]
    BY Threads DEF Apart
  <2>2. TypeOK /\ VacantFor(p) /\ GrantedTo(p)
    BY DEF RingInv, Enqueuers, Vacant, Granted
  <2>3. QED
    BY <2>1, <2>2, UsableStays
<1>2. QED
  BY <1>1 DEF Enqueuers, Vacant, Granted

LEMMA ApartContents ==
    ASSUME RingInv, RingOK', NEW c \in Consumer, Apart(c), Unrecorded, IndicesStay,
           tail' >= tail
    PROVE  Contents'
<1>1. \A p \in Producer : pc'[p] = pc[p] /\ ticket'[p] = ticket[p]
  BY Threads DEF Apart
<1>2. \A p \in Producer : /\ pc'[p] = "idle" => pc[p] = "idle"
                          /\ Bringing(p)' => Bringing(p)
                          /\ Leaving(p)' => Leaving(p)
  BY <1>1 DEF Bringing, Leaving
<1>3. \A p \in Placing' : p \in Placing /\ ticket'[p] = ticket[p]
  BY <1>1 DEF Placing
<1>4. tail' \in Nat /\ TypeOK /\ Contents
  BY DEF RingOK, RingInv
<1>5. QED
  BY <1>2, <1>3, <1>4, ContentsStay

\* The other dequeuers have seen what they had, and the one that moves, too.
LEMMA ApartSeen ==
    ASSUME Seen, NEW c \in Consumer, Apart(c), SeenBy(c)', SameIndices(In \cap In'),
           \A d \in Consumer \ {c} : pc[d] = "consume" /\ ticket[d] \in In => ticket[d] \in In'
    PROVE  Seen'
<1>1. ASSUME NEW d \in Consumer, d # c
      PROVE  SeenBy(d)'
  <2>1. pc'[d] = pc[d] /\ ticket'[d] = ticket[d] /\ entry'[d] = entry[d]
    BY <1>1, Threads DEF Apart
  <2>2. SeenBy(d)
    BY DEF Seen
  <2>3. pc[d] = "consume" /\ ticket[d] \in In => ticket[d] \in In'
    BY <1>1
  <2>4. QED
    BY <2>1, <2>2, <2>3, SeenStays
<1>2. QED
  BY <1>1 DEF Seen

LEMMA NotHoldingSeen ==
    ASSUME NEW c \in Consumer, ~Holds(c)' \/ pc'[c] = "examine"
    PROVE  SeenBy(c)'
BY DEF SeenBy, Holds

LEMMA ApartHolders ==
    ASSUME NEW c \in Consumer, Apart(c)
    PROVE  \A d \in Consumer \ {c} : (Holds(d)' <=> Holds(d)) /\ ticket'[d] = ticket[d]
BY Threads DEF Apart, Holds

\* A step that leaves the slots, and for which the same tickets are pending.
LEMMA QuietSlotsInv ==
    ASSUME RingInv, TypeOK', LimitsOK', NEW c \in Consumer, Apart(c), Unrecorded,
           array' = array, tail' >= tail, Tickets', SeenBy(c)',
           \A T \in Nat : Pending(T)' <=> Pending(T)
    PROVE  RingInv'
<1>1. Spent /\ Seen /\ Awaited /\ SafeSlots
  BY DEF RingInv, Dequeuers
<1>2. Spent' /\ Awaited' /\ SafeSlots' /\ In' = In /\ SameIndices(In)
  BY <1>1, SlotsStay
<1>3. SameIndices(In \cap In')
  BY <1>2 DEF SameIndices
<1>4. Seen'
  BY <1>1, <1>2, <1>3, ApartSeen
<1>5. Later /\ HeldWhileEmpty
  BY DEF Later, HeldWhileEmpty
<1>6. RingOK'
  BY DEF TypeOK
<1>7. Enqueuers'
  BY <1>5, <1>6, ApartEnqueuers
<1>8. Contents'
  BY <1>6, SameArray, ApartContents
<1>9. QED
  BY <1>2, <1>4, <1>7, <1>8 DEF RingInv, Dequeuers

LEMMA AsideInv ==
    ASSUME RingInv, NEW c \in Consumer,
           \/ Dequeue(c) \/ LoadTail(c) \/ CatchUp(c) \/ CatchUpHead(c) \/ CatchUpTail(c)
           \/ LowerThreshold(c)
    PROVE  RingInv'
<1>1. TypeOK /\ LimitsOK /\ Tickets
  BY DEF RingInv, Dequeuers
<1>2. TypeOK' /\ LimitsOK' /\ Aside(c)
  BY <1>1, AsideStep
<1>3. /\ ~Holds(c) /\ ~Holds(c)' /\ head' = head /\ array' = array /\ tail' >= tail
      /\ Apart(c) /\ Unrecorded
  BY <1>2 DEF Aside
<1>4. SameHolders
  BY <1>3, ApartHolders DEF SameHolders
<1>5. Tickets'
  BY <1>1, <1>3, <1>4, TicketsKeep DEF SameHolders
<1>6. \A T \in Nat : Pending(T)' <=> Pending(T)
  BY <1>4, SamePending
<1>7. SeenBy(c)'
  BY <1>3, NotHoldingSeen
<1>8. QED
  BY <1>2, <1>3, <1>5, <1>6, <1>7, QuietSlotsInv

\* Line 226.
LEMMA TakeHeadInv ==
    ASSUME RingInv, NEW c \in Consumer, TakeHead(c)
    PROVE  RingInv'
<1>1. TypeOK /\ LimitsOK /\ Tickets /\ tail \in Nat
  BY DEF RingInv, Dequeuers, TypeOK, RingOK
<1>2. TypeOK' /\ LimitsOK' /\ Headed(c)
  BY <1>1, TakeHeadStep
<1>3. /\ array' = array /\ tail' = tail /\ Apart(c) /\ Unrecorded /\ pc'[c] = "examine"
  BY <1>2 DEF Headed
<1>4. \A T \in Nat : Pending(T)' <=> Pending(T)
  BY <1>1, <1>2, HeadedPending
<1>5. Tickets'
  BY <1>1, <1>2, TicketsHeaded
<1>6. SeenBy(c)'
  BY <1>3, NotHoldingSeen
<1>7. tail' >= tail
  BY <1>1, <1>3
<1>8. QED
  BY <1>2, <1>3, <1>4, <1>5, <1>6, <1>7, QuietSlotsInv

\* Lines 229-230, and line 248 when it fails.
LEMMA ExamineInv ==
    ASSUME RingInv, NEW c \in Consumer, ExamineSlot(c), Quiet, Holds(c)
    PROVE  RingInv'
<1>1. TypeOK /\ LimitsOK /\ Tickets /\ Spent /\ Seen /\ Awaited /\ SafeSlots /\ tail \in Nat
  BY DEF RingInv, Dequeuers, TypeOK, RingOK
<1>2. TypeOK' /\ LimitsOK' /\ Examined(c)
  BY <1>1, ExamineStep
<1>3. /\ pc'[c] = Appraise(c, array[Slot(ticket[c])]) /\ ticket' = ticket
      /\ head' = head /\ array' = array /\ tail' = tail /\ Apart(c) /\ Unrecorded
  BY <1>2 DEF Examined
<1>4. SeenBy(c)'
  BY <1>1, <1>2, ExaminedSeen
<1>5. \A d \in Consumer : d # c => (Holds(d)' <=> Holds(d)) /\ ticket'[d] = ticket[d]
  BY <1>3, ApartHolders
<1>6. Tickets'
  BY <1>1, <1>3, <1>5, TicketsKeep
<1>7. tail' >= tail
  BY <1>1, <1>3
<1>8. CASE Holds(c)'
  <2>1. SameHolders
    BY <1>3, <1>5, <1>8 DEF SameHolders
  <2>2. \A T \in Nat : Pending(T)' <=> Pending(T)
    BY <2>1, SamePending
  <2>3. QED
    BY <1>2, <1>3, <1>4, <1>6, <1>7, <2>2, QuietSlotsInv
<1>9. CASE ~Holds(c)'
  <2> DEFINE seen == array[Slot(ticket[c])]
  <2>1. LetsGo(c)
    BY <1>3, <1>5, <1>9 DEF LetsGo
  <2>2. pc'[c] \notin {"consume", "mark"}
    BY <1>9 DEF Holds
  <2>3. /\ seen.cycle # Cycle(ticket[c])
        /\ ~(seen.cycle < Cycle(ticket[c]) /\ (seen.index = None \/ seen.safe))
    BY <1>3, <2>2 DEF Appraise
  <2>4. ticket[c] \notin In /\ ~(seen.safe /\ seen.cycle < Cycle(ticket[c]))
    BY <2>3 DEF In
  <2>5. Spent' /\ Awaited' /\ SafeSlots' /\ In' = In /\ SameIndices(In)
    BY <1>1, <1>3, <2>1, <2>4, PassOver
  <2>6. SameIndices(In \cap In')
    BY <2>5 DEF SameIndices
  <2>7. Seen'
    BY <1>1, <1>3, <1>4, <2>5, <2>6, ApartSeen
  <2>8. Later
    BY <1>3 DEF Later
  <2>9. HeldWhileEmpty
    <3>1. ASSUME NEW T \in Nat, Pending(T), ~Pending(T)'
          PROVE  array[Slot(T)].index # None \/ ~(array[Slot(T)].cycle < Cycle(T))
      <4>1. T = ticket[c]
        BY <1>1, <2>1, <3>1, OnePendingLess
      <4>2. QED
        BY <2>3, <4>1
    <3>2. QED
      BY <3>1 DEF HeldWhileEmpty
  <2>10. RingOK'
    BY <1>2 DEF TypeOK
  <2>11. Enqueuers'
    BY <1>3, <2>8, <2>9, <2>10, ApartEnqueuers
  <2>12. Contents'
    BY <1>3, <1>7, <2>10, SameArray, ApartContents
  <2>13. QED
    BY <1>2, <1>6, <2>5, <2>7, <2>11, <2>12 DEF RingInv, Dequeuers
<1>10. QED
  BY <1>8, <1>9

\* Lines 234-236.
LEMMA ConsumeInv ==
    ASSUME RingInv, NEW c \in Consumer, Consume(c)
    PROVE  RingInv'
<1>1. TypeOK /\ LimitsOK /\ Contents
      /\ Tickets /\ Spent /\ Seen /\ Awaited /\ SafeSlots
  BY DEF RingInv, Dequeuers
<1>2. TypeOK' /\ LimitsOK' /\ Consumed(c) /\ pc[c] = "consume"
  BY <1>1, ConsumeStep DEF Consume
<1>3. Clear(ticket[c]) /\ OtherSlots(ticket[c])
      /\ IndexAt(ticket[c]) = entry[c].index /\ entry[c].index \in Index
  BY <1>1, <1>2, ConsumedClears
<1>4. PICK T \in Nat : T = ticket[c]
  BY <1>1, SlotIsEntry, Threads
<1>5. PICK i \in Index : i = entry[c].index
  BY <1>3
<1>6. Clear(T) /\ OtherSlots(T) /\ IndexAt(T) = i
  BY <1>3, <1>4, <1>5
<1>7. Contents'
  BY <1>1, <1>2, <1>4, <1>5, <1>6, ConsumeContents
<1>8. Apart(c) /\ head' = head /\ pc'[c] = "idle"
  BY <1>2 DEF Consumed
<1>9. \A d \in Consumer : d # c => (Holds(d)' <=> Holds(d)) /\ ticket'[d] = ticket[d]
  BY <1>8, ApartHolders
<1>10. Holds(c) /\ ~Holds(c)'
  BY <1>2, <1>8 DEF Holds
<1>11. LetsGo(c)
  BY <1>8, <1>9, <1>10 DEF LetsGo
<1>12. Tickets'
  BY <1>1, <1>8, <1>9, <1>10, TicketsKeep
<1>13. Spent' /\ Awaited' /\ SafeSlots'
  BY <1>1, <1>3, <1>11, ClearKeeps
<1>14. Seen'
  <2>1. In' = In \ {T} /\ SameIndices(In')
    BY <1>6, ClearGoesOut
  <2>2. SameIndices(In \cap In')
    BY <2>1 DEF SameIndices
  <2>3. \A d \in Consumer \ {c} : pc[d] = "consume" => ticket[d] # T
    BY <1>1, <1>4, <1>10 DEF Tickets, Holds
  <2>4. SeenBy(c)'
    BY <1>10, NotHoldingSeen
  <2>5. QED
    BY <1>1, <1>8, <2>1, <2>2, <2>3, <2>4, ApartSeen
<1>15. Later
  BY <1>1, <1>6, SlotsGrow DEF TypeOK
<1>16. HeldWhileEmpty
  <2>1. ASSUME NEW U \in Nat, Pending(U), ~Pending(U)'
        PROVE  array[Slot(U)].index # None
    <3>1. U = T
      BY <1>1, <1>4, <1>11, <2>1, OnePendingLess
    <3>2. QED
      BY <1>6, <3>1 DEF Clear, In
  <2>2. QED
    BY <2>1 DEF HeldWhileEmpty
<1>17. RingOK'
  BY <1>2 DEF TypeOK
<1>18. Enqueuers'
  BY <1>8, <1>15, <1>16, <1>17, ApartEnqueuers
<1>19. QED
  BY <1>2, <1>7, <1>12, <1>13, <1>14, <1>18 DEF RingInv, Dequeuers

\* Lines 247-248.
LEMMA MarkInv ==
    ASSUME RingInv, NEW c \in Consumer, MarkSlot(c)
    PROVE  RingInv'
<1>1. CASE array[Slot(ticket[c])] # entry[c]
  <2>1. ExamineSlot(c) /\ Quiet /\ Holds(c)
    BY <1>1 DEF MarkSlot, Holds
  <2>2. QED
    BY <2>1, ExamineInv
<1>2. CASE array[Slot(ticket[c])] = entry[c]
  <2>1. TypeOK /\ LimitsOK /\ Tickets /\ Spent /\ Seen /\ Awaited /\ SafeSlots
        /\ tail \in Nat
    BY DEF RingInv, Dequeuers, TypeOK, RingOK
  <2>2. TypeOK' /\ LimitsOK' /\ MarkedAt(c)
    BY <1>2, <2>1, MarkStep
  <2>3. PICK T \in Nat : T = ticket[c]
    BY <2>1, SlotIsEntry, Threads
  <2>4. (Spoil(T) \/ Skip(T)) /\ OtherSlots(T)
    BY <2>1, <2>2, <2>3, MarkedSpoilsOrSkips
  <2>5. /\ pc[c] = "mark" /\ pc'[c] = "tail" /\ head' = head /\ tail' = tail
        /\ Apart(c) /\ Unrecorded
    BY <2>2 DEF MarkedAt
  <2>6. \A d \in Consumer : d # c => (Holds(d)' <=> Holds(d)) /\ ticket'[d] = ticket[d]
    BY <2>5, ApartHolders
  <2>7. Holds(c) /\ ~Holds(c)'
    BY <2>5 DEF Holds
  <2>8. LetsGo(c)
    BY <2>5, <2>6, <2>7 DEF LetsGo
  <2>9. Tickets'
    BY <2>1, <2>5, <2>6, <2>7, TicketsKeep
  <2>10. Spent' /\ Awaited' /\ SafeSlots'
    BY <2>1, <2>3, <2>4, <2>8, MarkKeeps
  <2>11. IndicesStay
    BY <2>4, MarkIndicesStay
  <2>12. Seen'
    <3>1. In' = In /\ SameIndices(In \cap In')
      BY <2>11 DEF IndicesStay, SameIndices
    <3>2. SeenBy(c)'
      BY <2>7, NotHoldingSeen
    <3>3. QED
      BY <2>1, <2>5, <3>1, <3>2, ApartSeen
  <2>13. Later
    BY <2>1, <2>4, SlotsGrow DEF TypeOK
  <2>14. HeldWhileEmpty
    <3>1. ASSUME NEW U \in Nat, Pending(U), ~Pending(U)'
          PROVE  array'[Slot(U)] # array[Slot(U)] \/ array[Slot(U)].index # None
      <4>1. U = T
        BY <2>1, <2>3, <2>8, <3>1, OnePendingLess
      <4>2. Cycle(T) \in Nat /\ array[Slot(T)].cycle \in Int
        BY <2>1, TicketIsPlace, SlotTyped DEF TypeOK
      <4>3. array'[Slot(T)].cycle # array[Slot(T)].cycle \/ array[Slot(T)].index # None
        BY <2>4, <4>2 DEF Spoil, Skip
      <4>4. QED
        BY <4>1, <4>3
    <3>2. QED
      BY <3>1 DEF HeldWhileEmpty
  <2>15. RingOK' /\ tail' >= tail
    BY <2>1, <2>2, <2>5 DEF TypeOK
  <2>16. Enqueuers'
    BY <2>5, <2>13, <2>14, <2>15, ApartEnqueuers
  <2>17. Contents'
    BY <2>5, <2>11, <2>15, ApartContents
  <2>18. QED
    BY <2>2, <2>9, <2>10, <2>12, <2>16, <2>17 DEF RingInv, Dequeuers
<1>3. QED
  BY <1>1, <1>2

LEMMA TakeOutInv ==
    ASSUME RingInv, NEW c \in Consumer, TakeOut(c)
    PROVE  RingInv'
<1>1. CASE Examine(c)
  BY <1>1, ExamineInv DEF Examine, Holds
<1>2. QED
  BY <1>1, AsideInv, TakeHeadInv, ConsumeInv, MarkInv DEF TakeOut

-----------------------------------------------------------------------------
(* The ring at first: empty, or with each index in its own slot.           *)

LEMMA InitSlots ==
    ASSUME Init
    PROVE  \E n \in {0, Half} :
             /\ array = [s \in Position |->
                  IF s < n THEN [cycle |-> 0, safe |-> TRUE, index |-> s] ELSE Fresh]
             /\ stored = 0 .. n - 1 /\ tail = n
             /\ \A i \in Index : before[i] \subseteq 0 .. n - 1
                                 /\ \A j \in before[i] : j < i
<1>1. Half \in Nat \ {0} /\ Index = 0 .. Half - 1
  BY RingSize DEF Index
<1>2. CASE InitEmpty
  <2>1. \A s \in Position : ~(s < 0)
    BY RingSize DEF Position
  <2>2. array = [s \in Position |->
          IF s < 0 THEN [cycle |-> 0, safe |-> TRUE, index |-> s] ELSE Fresh]
    BY <1>2, <2>1 DEF InitEmpty, Position
  <2>3. stored = 0 .. 0 - 1 /\ tail = 0 /\ \A i \in Index : before[i] = {}
    BY <1>2 DEF InitEmpty
  <2>4. QED
    BY <2>2, <2>3
<1>3. CASE InitFull
  <2>1. array = [s \in Position |->
          IF s < Half THEN [cycle |-> 0, safe |-> TRUE, index |-> s] ELSE Fresh]
    BY <1>3 DEF InitFull, Position
  <2>2. stored = 0 .. Half - 1 /\ tail = Half /\ \A i \in Index : before[i] = 0 .. i - 1
    BY <1>1, <1>3 DEF InitFull
  <2>3. \A i \in Index : 0 .. i - 1 \subseteq 0 .. Half - 1 /\ \A j \in 0 .. i - 1 : j < i
    BY <1>1
  <2>4. QED
    BY <2>1, <2>2, <2>3
<1>4. QED
  BY <1>2, <1>3 DEF Init

LEMMA InitHolds == Init => RingInv
<1>1. SUFFICES ASSUME Init PROVE RingInv
  OBVIOUS
<1>2. TypeOK
  BY <1>1, InitTyped
<1>3. PICK n \in {0, Half} :
        /\ array = [s \in Position |->
             IF s < n THEN [cycle |-> 0, safe |-> TRUE, index |-> s] ELSE Fresh]
        /\ stored = 0 .. n - 1 /\ tail = n
        /\ \A i \in Index : before[i] \subseteq 0 .. n - 1
                            /\ \A j \in before[i] : j < i
  BY <1>1, InitSlots
<1>4. /\ head = 0
      /\ \A t \in Thread : pc[t] = "idle"
      /\ \A p \in Producer : index[p] = None
  BY <1>1 DEF Init
<1>5. /\ Half \in Nat \ {0} /\ Slots = 2 * Half /\ None = Slots - 1 /\ n \in Nat /\ n <= Half
      /\ Index = 0 .. Half - 1 /\ Position = 0 .. Slots - 1
  BY RingSize DEF Slots, None, Index, Position
<1>6. \A s \in Position :
        /\ s < n => /\ array[s].cycle = 0 /\ array[s].index = s /\ s # None
                    /\ s \in Index /\ s \in stored
        /\ ~(s < n) => array[s].cycle = -1 /\ array[s].index = None
  BY <1>3, <1>5 DEF Fresh
<1>7. \A T \in Nat : Pending(T)
  BY <1>4 DEF Pending
<1>8. \A T \in Nat : Slot(T) \in Position /\ Cycle(T) \in Nat
  BY TicketIsPlace
<1>9. \A T \in In : T \in Position /\ T < n /\ IndexAt(T) = T
  <2>1. ASSUME NEW T \in In
        PROVE  T = Slot(T) /\ T \in Position /\ T < n /\ IndexAt(T) = T
    <3>1. T \in Nat /\ array[Slot(T)].index # None /\ array[Slot(T)].cycle = Cycle(T)
      BY DEF In
    <3>2. Slot(T) \in Position /\ Slot(T) < n
      BY <1>6, <1>8, <3>1
    <3>3. array[Slot(T)].cycle = 0 /\ array[Slot(T)].index = Slot(T)
      BY <1>6, <3>2
    <3>4. Slot(Slot(T)) = Slot(T) /\ Cycle(Slot(T)) = 0 /\ Slot(T) \in Nat
      BY <3>2, FirstTickets
    <3>5. Slot(T) = T
      BY <3>1, <3>3, <3>4, PlaceIsTicket
    <3>6. QED
      BY <3>2, <3>3, <3>5 DEF IndexAt
  <2>2. QED
    BY <2>1
<1>10. \A T \in 0 .. n - 1 : T \in In /\ IndexAt(T) = T
  <2>1. ASSUME NEW T \in 0 .. n - 1
        PROVE  T \in In /\ IndexAt(T) = T
    <3>1. T \in Position /\ T < n /\ T \in Nat
      BY <1>5
    <3>2. Slot(T) = T /\ Cycle(T) = 0
      BY <3>1, FirstTickets
    <3>3. QED
      BY <1>6, <3>1, <3>2 DEF In, IndexAt
  <2>2. QED
    BY <2>1
<1>11. LimitsOK /\ Tickets /\ Seen
  BY <1>4, Threads DEF LimitsOK, Tickets, Seen, SeenBy, Holds
<1>12. Spent
  <2>1. ASSUME NEW T \in Nat, array[Slot(T)].cycle = Cycle(T)
        PROVE  T \in In
    <3>1. Slot(T) < n
      BY <1>6, <1>8, <2>1
    <3>2. array[Slot(T)].index # None
      BY <1>6, <1>8, <3>1
    <3>3. QED
      BY <2>1, <3>2 DEF In
  <2>2. QED
    BY <2>1 DEF Spent
<1>13. Awaited /\ SafeSlots
  BY <1>7 DEF Awaited, SafeSlots, In
<1>14. Enqueuers
  BY <1>4, Threads DEF Enqueuers, Vacant, VacantFor, Granted, GrantedTo
<1>15. Carried
  BY <1>4, Threads DEF Carried
<1>16. Placed
  <2>1. \A i \in Index : Entered(i) => i \in 0 .. n - 1
    BY <1>3, <1>4, Threads DEF Entered
  <2>2. \A i \in Index : Entered(i) => \E T \in In : IndexAt(T) = i
    BY <1>10, <2>1
  <2>3. QED
    BY <1>6, <2>2 DEF Placed
<1>17. InOrder
  <2>1. \A i \in Index : before[i] \subseteq stored
    BY <1>3
  <2>2. ASSUME NEW T \in In, NEW U \in In, IndexAt(T) \in before[IndexAt(U)]
        PROVE  T < U
    <3>1. U \in Index /\ IndexAt(U) = U /\ IndexAt(T) = T
      BY <1>5, <1>9
    <3>2. QED
      BY <1>3, <2>2, <3>1
  <2>3. \A T \in In : T < tail
    BY <1>3, <1>9
  <2>4. Placing = {}
    BY <1>4, Threads DEF Placing
  <2>5. QED
    BY <2>1, <2>2, <2>3, <2>4 DEF InOrder
<1>18. QED
  BY <1>2, <1>11, <1>12, <1>13, <1>14, <1>15, <1>16, <1>17 DEF RingInv, Dequeuers, Contents

LEMMA StutterInv ==
    ASSUME RingInv, UNCHANGED vars
    PROVE  RingInv'
<1>1. /\ ring' = ring /\ local' = local /\ pc' = pc /\ index' = index
      /\ stored' = stored /\ before' = before
  BY DEF vars
<1>2. /\ head' = head /\ tail' = tail /\ threshold' = threshold /\ array' = array
      /\ ticket' = ticket /\ entry' = entry /\ limits' = limits
  BY <1>1 DEF ring, local
<1>3. TypeOK'
  BY <1>1, <1>2 DEF RingInv, TypeOK, PcOK, RingOK, LocalsOK, HistoryOK
<1>4. Unseen
  BY <1>1, <1>2 DEF Unseen
<1>5. Dequeuers' /\ LimitsOK' /\ IndicesStay /\ \A T \in Nat : Pending(T)' <=> Pending(T)
  BY <1>2, <1>4, UnseenDequeuers
<1>6. Enqueuers'
  BY <1>1, <1>2, <1>5
     DEF RingInv, Enqueuers, Vacant, VacantFor, Granted, GrantedTo
<1>7. Contents'
  <2>1. Unrecorded /\ TypeOK /\ Contents /\ tail' \in Nat /\ tail' >= tail
    BY <1>1, <1>2 DEF Unrecorded, RingInv, TypeOK, RingOK
  <2>2. \A p \in Producer : /\ pc'[p] = "idle" => pc[p] = "idle"
                            /\ Bringing(p)' => Bringing(p)
                            /\ Leaving(p)' => Leaving(p)
    BY <1>1 DEF Bringing, Leaving
  <2>3. \A p \in Placing' : p \in Placing /\ ticket'[p] = ticket[p]
    BY <1>1, <1>2 DEF Placing
  <2>4. QED
    BY <1>5, <2>1, <2>2, <2>3, ContentsStay
<1>8. QED
  BY <1>3, <1>5, <1>6, <1>7 DEF RingInv

(***************************************************************************)
(* The invariant, and with it the types of the ring and of every thread's  *)
(* locals, whatever the interleaving.                                      *)
(***************************************************************************)
THEOREM RingIsSound == Spec => []RingInv
<1>1. RingInv /\ [Next]_vars => RingInv'
  BY ProduceInv, TakeOutInv, StutterInv DEF Next
<1>2. QED
  BY <1>1, InitHolds, PTL DEF Spec

-----------------------------------------------------------------------------
(* What a dequeuer returns.                                                *)

LEMMA ReturnedOnce ==
    ASSUME RingInv, NEW c \in Consumer, Consume(c)
    PROVE  entry[c].index \in stored \cup Entering
<1>1. ticket[c] \in In /\ IndexAt(ticket[c]) = entry[c].index
  BY DEF RingInv, Dequeuers, Seen, SeenBy, Consume
<1>2. array[Slot(ticket[c])].index # None /\ Slot(ticket[c]) \in Position
  BY <1>1, TicketIsPlace DEF In
<1>3. array[Slot(ticket[c])].index \in stored \cup Entering
  BY <1>2 DEF RingInv, Contents, Placed
<1>4. QED
  BY <1>1, <1>3 DEF IndexAt

\* An index that was in before has a dequeuer of its own, under way.
LEMMA DequeuerUnderWay ==
    ASSUME RingInv, NEW c \in Consumer, pc[c] = "consume", entry[c].index \in Index,
           NEW j \in before[entry[c].index]
    PROVE  \E d \in Busy \ {c} : IndexAt(ticket[d]) = j
<1> DEFINE i == entry[c].index
<1>1. ticket[c] \in In /\ IndexAt(ticket[c]) = i /\ ticket[c] < head
  BY DEF RingInv, Dequeuers, Seen, SeenBy, Tickets, Holds
<1>2. j \in Index /\ Entered(j)
  BY DEF RingInv, Contents, InOrder, TypeOK, HistoryOK, Entered
<1>3. PICK T \in In : IndexAt(T) = j
  BY <1>2 DEF RingInv, Contents, Placed
<1>4. T < ticket[c]
  BY <1>1, <1>3 DEF RingInv, Contents, InOrder
<1>5. T \in Nat /\ ticket[c] \in Nat /\ head \in Nat /\ Pending(T)
  BY <1>1 DEF In, RingInv, Dequeuers, Awaited, TypeOK, RingOK
<1>6. ~(T >= head)
  BY <1>1, <1>4, <1>5
<1>7. PICK d \in Consumer : Holds(d) /\ ticket[d] = T
  BY <1>5, <1>6 DEF Pending
<1>8. d # c
  BY <1>4, <1>5, <1>7
<1>9. d \in Busy
  BY <1>7 DEF Holds, Busy
<1>10. QED
  BY <1>3, <1>7, <1>8, <1>9

LEMMA OvertakenByFew ==
    ASSUME RingInv, NEW c \in Consumer, Consume(c)
    PROVE  Cardinality(before[entry[c].index]) <= Cardinality(Busy \ {c})
<1> DEFINE earlier == before[entry[c].index]
           others == Busy \ {c}
           server == [j \in earlier |-> CHOOSE d \in others : IndexAt(ticket[d]) = j]
<1>1. pc[c] = "consume" /\ entry[c].index \in Index
  <2>1. pc[c] = "consume" /\ ticket[c] \in In /\ IndexAt(ticket[c]) = entry[c].index
    BY DEF RingInv, Dequeuers, Seen, SeenBy, Consume
  <2>2. QED
    BY <2>1, InTyped DEF RingInv, TypeOK
<1>2. \A j \in earlier : \E d \in others : IndexAt(ticket[d]) = j
  BY <1>1, DequeuerUnderWay
<1>3. \A j \in earlier : server[j] \in others /\ IndexAt(ticket[server[j]]) = j
  <2>1. ASSUME NEW j \in earlier
        PROVE  server[j] \in others /\ IndexAt(ticket[server[j]]) = j
    <3>1. PICK d \in others : IndexAt(ticket[d]) = j
      BY <1>2
    <3>2. QED
      BY <3>1
  <2>2. QED
    BY <2>1
<1>4. server \in [earlier -> others]
  BY <1>3
<1>5. ASSUME NEW j \in earlier, NEW k \in earlier, server[j] = server[k]
      PROVE  j = k
  BY <1>3, <1>5
<1>6. server \in Injection(earlier, others)
  BY <1>4, <1>5 DEF Injection, IsInjective
<1>7. IsFiniteSet(others)
  <2>1. others \subseteq Consumer
    BY DEF Busy
  <2>2. QED
    BY <2>1, RingAssumption, FS_Subset
<1>8. QED
  BY <1>6, <1>7, FS_Injection

(***************************************************************************)
(* However enqueuers and dequeuers overtake each other between taking a    *)
(* ticket and reaching its slot (lines 176-186 and 226-248), an index is   *)
(* returned once for each time it was put in: what fetch_or leaves behind  *)
(* is never found again, and a slot is reused only by a later ticket.      *)
(***************************************************************************)
THEOREM NoIndexTwice == Spec => NothingTwice
<1>1. RingInv /\ [Next]_vars =>
        [\A c \in Consumer : Consume(c) => entry[c].index \in stored \cup Entering]_vars
  BY ReturnedOnce
<1>2. QED
  BY <1>1, RingIsSound, PTL DEF Spec, NothingTwice

(***************************************************************************)
(* The ring is first in, first out: an index whose enqueue had returned    *)
(* before another's began has an earlier ticket, and when the later one is *)
(* returned a dequeuer of its own is on its way to the earlier.            *)
(***************************************************************************)
THEOREM FirstComesOutFirst == Spec => FirstInFirstOut
<1>1. RingInv /\ [Next]_vars =>
        [\A c \in Consumer : Consume(c) =>
             Cardinality(before[entry[c].index]) <= Cardinality(Busy \ {c})]_vars
  BY OvertakenByFew
<1>2. QED
  BY <1>1, RingIsSound, PTL DEF Spec, FirstInFirstOut

-----------------------------------------------------------------------------
(* The queue with the mutex.                                               *)

(***************************************************************************)
(* Steps on a sequence of values.                                          *)
(***************************************************************************)

\* The value a sender pushes next is one of its values.
LEMMA NextValue ==
    ASSUME QueueTypeOK, NEW p \in Sender, pushed[p] < MaxPush
    PROVE  /\ pushed[p] + 1 \in 1 .. MaxPush
           /\ [pushed EXCEPT ![p] = @ + 1] \in [Sender -> 0 .. MaxPush]
           /\ <<p, [pushed EXCEPT ![p] = @ + 1][p]>> \in Value
BY QueueAssumption DEF QueueTypeOK, Value

\* Taking moves the head of the queue to the end of what was taken.
LEMMA TakeEffect ==
    ASSUME QueueTypeOK, NEW c \in Receiver, Take(c)
    PROVE  /\ queue # <<>> /\ queue' \in Seq(Value) /\ taken' \in Seq(Value)
           /\ Len(queue') = Len(queue) - 1 /\ Len(queue) \in Nat \ {0}
           /\ receiver' = [receiver EXCEPT ![c] = "ready"]
           /\ UNCHANGED <<closed, sender, closer, pushed>>
<1>1. queue \in Seq(Value) /\ taken \in Seq(Value) /\ queue # <<>>
  BY DEF QueueTypeOK, Take
<1>2. Head(queue) \in Value /\ Tail(queue) \in Seq(Value)
      /\ Len(Tail(queue)) = Len(queue) - 1
  BY <1>1, HeadTailProperties
<1>3. Append(taken, Head(queue)) \in Seq(Value)
  BY <1>1, <1>2, AppendProperties
<1>4. Len(queue) \in Nat \ {0}
  BY <1>1, EmptySeq
<1>5. QED
  BY <1>1, <1>2, <1>3, <1>4 DEF Take

(***************************************************************************)
(* Type correctness.                                                       *)
(***************************************************************************)

\* Init and every step of the queue keep the types.
LEMMA TypeStep ==
    ASSUME QueueTypeOK, [QueueNext]_queueVars
    PROVE  QueueTypeOK'
<1>1. ASSUME NEW p \in Sender, Push(p)
      PROVE  QueueTypeOK'
  <2>1. pushed[p] < MaxPush
    BY <1>1 DEF Push
  <2>2. pushed' \in [Sender -> 0 .. MaxPush] /\ <<p, pushed'[p]>> \in Value
    BY <1>1, <2>1, NextValue DEF Push
  <2>3. Append(queue, <<p, pushed'[p]>>) \in Seq(Value)
    BY <2>2, AppendProperties DEF QueueTypeOK
  <2>4. QED
    BY <1>1, <2>2, <2>3 DEF QueueTypeOK, Push
<1>2. ASSUME NEW p \in Sender, NotifyOne(p)
      PROVE  QueueTypeOK'
  BY <1>2 DEF QueueTypeOK, NotifyOne, Waiting
<1>3. ASSUME NEW c \in Receiver, Take(c)
      PROVE  QueueTypeOK'
  BY <1>3, TakeEffect DEF QueueTypeOK
<1>4. ASSUME NEW c \in Receiver, End(c) \/ Wait(c) \/ Wake(c)
      PROVE  QueueTypeOK'
  BY <1>4 DEF QueueTypeOK, End, Wait, Wake
<1>5. ASSUME NEW c \in Receiver, WaitPop(c) \/ TryPop(c) \/ Expire(c)
      PROVE  QueueTypeOK'
  BY <1>3, <1>4, <1>5 DEF WaitPop, TryPop, Expire, QueueTypeOK
<1>6. CASE Close
  BY <1>6 DEF QueueTypeOK, Close
<1>7. CASE NotifyAll
  BY <1>7 DEF QueueTypeOK, NotifyAll, Waiting
<1>8. CASE UNCHANGED queueVars
  BY <1>8 DEF QueueTypeOK, queueVars
<1>9. QED
  BY <1>1, <1>2, <1>4, <1>5, <1>6, <1>7, <1>8 DEF QueueNext

\* Every variable of the queue keeps its type, whatever the threads do.
THEOREM TypeCorrect == QueueSpec => []QueueTypeOK
<1>1. <<>> \in Seq(Value) /\ 0 \in 0 .. MaxPush
  BY EmptySeq, QueueAssumption
<1>2. QueueInit => QueueTypeOK
  BY <1>1 DEF QueueInit, QueueTypeOK
<1>3. QueueTypeOK /\ [QueueNext]_queueVars => QueueTypeOK'
  BY TypeStep
<1>4. QED
  BY <1>2, <1>3, PTL DEF QueueSpec

(***************************************************************************)
(* Counting notifications: how one step moves Notifying and Testing.       *)
(***************************************************************************)

\* Both sets are finite, so that their sizes are numbers.
LEMMA CountsAreNumbers ==
    /\ IsFiniteSet(Notifying) /\ Cardinality(Notifying) \in Nat
    /\ IsFiniteSet(Testing) /\ Cardinality(Testing) \in Nat
<1>1. Notifying \in SUBSET Sender /\ Testing \in SUBSET Receiver
  BY DEF Notifying, Testing
<1>2. IsFiniteSet(Notifying) /\ IsFiniteSet(Testing)
  BY <1>1, QueueAssumption, FS_Subset
<1>3. QED
  BY <1>2, FS_CardinalityType

\* A sender that unlocks owes one more notification.
LEMMA OneMoreNotification ==
    ASSUME QueueTypeOK, NEW p \in Sender, sender[p] = "idle",
           sender' = [sender EXCEPT ![p] = "notifying"]
    PROVE  Cardinality(Notifying)' = Cardinality(Notifying) + 1
<1>1. Notifying' = Notifying \cup {p} /\ p \notin Notifying
  BY DEF Notifying, QueueTypeOK
<1>2. Cardinality(Notifying \cup {p}) = Cardinality(Notifying) + 1
  BY <1>1, CountsAreNumbers, FS_AddElement
<1>3. QED
  BY <1>1, <1>2

\* A sender that notified owes one less.
LEMMA OneNotificationLess ==
    ASSUME QueueTypeOK, NEW p \in Sender, sender[p] = "notifying",
           sender' = [sender EXCEPT ![p] = "idle"]
    PROVE  Cardinality(Notifying)' = Cardinality(Notifying) - 1
<1>1. Notifying' = Notifying \ {p} /\ p \in Notifying
  BY DEF Notifying, QueueTypeOK
<1>2. Cardinality(Notifying \ {p}) = Cardinality(Notifying) - 1
  BY <1>1, CountsAreNumbers, FS_RemoveElement
<1>3. QED
  BY <1>1, <1>2

\* A waiter that wakes is one more receiver about to test the queue.
LEMMA OneMoreTest ==
    ASSUME QueueTypeOK, NEW c \in Waiting, NEW state \in {"woken", "expired"},
           receiver' = [receiver EXCEPT ![c] = state]
    PROVE  Cardinality(Testing)' = Cardinality(Testing) + 1
<1>1. Testing' = Testing \cup {c} /\ c \notin Testing
  BY DEF Testing, Waiting, QueueTypeOK
<1>2. Cardinality(Testing \cup {c}) = Cardinality(Testing) + 1
  BY <1>1, CountsAreNumbers, FS_AddElement
<1>3. QED
  BY <1>1, <1>2

\* A receiver that tested is at most one test less.
LEMMA AtMostOneTestLess ==
    ASSUME QueueTypeOK, NEW c \in Receiver, receiver' = [receiver EXCEPT ![c] = "ready"]
    PROVE  Cardinality(Testing)' >= Cardinality(Testing) - 1
<1>1. Testing' = Testing \ {c}
  BY DEF Testing, QueueTypeOK
<1>2. Cardinality(Testing \ {c}) =
          IF c \in Testing THEN Cardinality(Testing) - 1 ELSE Cardinality(Testing)
  BY CountsAreNumbers, FS_RemoveElement
<1>3. QED
  BY <1>1, <1>2, CountsAreNumbers

(***************************************************************************)
(* No wake-up is lost.                                                     *)
(***************************************************************************)

\* One value more is one notification more.
LEMMA PushKeepsWakeups ==
    ASSUME QueueTypeOK, NoLostWakeup, NEW p \in Sender, Push(p)
    PROVE  NoLostWakeup'
<1>1. Waiting' = Waiting /\ Testing' = Testing
      /\ UNCHANGED <<closed, closer>>
  BY DEF Push, Waiting, Testing
<1>2. CASE closed
  BY <1>1, <1>2 DEF Push, NoLostWakeup, Notifying
<1>3. CASE ~closed
  <2>1. pushed[p] < MaxPush /\ sender[p] = "idle"
        /\ sender' = [sender EXCEPT ![p] = "notifying"]
        /\ pushed' = [pushed EXCEPT ![p] = @ + 1]
        /\ queue' = Append(queue, <<p, pushed'[p]>>)
    BY <1>3 DEF Push
  <2>2. <<p, pushed'[p]>> \in Value
    BY <2>1, NextValue
  <2>3. queue \in Seq(Value)
    BY DEF QueueTypeOK
  <2>4. Len(queue') = Len(queue) + 1 /\ Len(queue) \in Nat
    BY <2>1, <2>2, <2>3, AppendProperties, LenProperties
  <2>5. Cardinality(Notifying)' = Cardinality(Notifying) + 1
    BY <2>1, OneMoreNotification
  <2>6. QED
    BY <1>1, <1>3, <2>4, <2>5, CountsAreNumbers DEF NoLostWakeup
<1>4. QED
  BY <1>2, <1>3

\* A notification becomes a test, unless nobody waits for it.
LEMMA NotifyOneKeepsWakeups ==
    ASSUME QueueTypeOK, NoLostWakeup, NEW p \in Sender, NotifyOne(p)
    PROVE  NoLostWakeup'
<1>1. UNCHANGED <<queue, closed, closer>>
  BY DEF NotifyOne
<1>2. CASE Waiting = {}
  BY <1>2 DEF NotifyOne, NoLostWakeup, Waiting
<1>3. CASE Waiting # {}
  <2>1. PICK c \in Waiting : receiver' = [receiver EXCEPT ![c] = "woken"]
    BY <1>3 DEF NotifyOne
  <2>2. Cardinality(Testing)' = Cardinality(Testing) + 1
    BY <2>1, OneMoreTest
  <2>3. Cardinality(Notifying)' = Cardinality(Notifying) - 1
    BY OneNotificationLess DEF NotifyOne
  <2>4. Len(queue) \in Nat
    BY LenProperties DEF QueueTypeOK
  <2>5. QED
    BY <1>1, <1>3, <2>2, <2>3, <2>4, CountsAreNumbers DEF NoLostWakeup
<1>4. QED
  BY <1>2, <1>3

\* A receiver that takes a value leaves one value less and one test less.
LEMMA TakeKeepsWakeups ==
    ASSUME QueueTypeOK, NoLostWakeup, NEW c \in Receiver, Take(c)
    PROVE  NoLostWakeup'
<1>1. Len(queue') = Len(queue) - 1 /\ Len(queue) \in Nat \ {0}
      /\ receiver' = [receiver EXCEPT ![c] = "ready"]
      /\ UNCHANGED <<closed, sender, closer>>
  BY TakeEffect
<1>2. Waiting' \subseteq Waiting /\ Notifying' = Notifying
  BY <1>1 DEF Waiting, Notifying, QueueTypeOK
<1>3. Cardinality(Testing)' >= Cardinality(Testing) - 1
  BY <1>1, AtMostOneTestLess
<1>4. IsFiniteSet(Testing') /\ Cardinality(Testing)' \in Nat
  <2>1. Testing' = Testing \ {c}
    BY <1>1 DEF Testing, QueueTypeOK
  <2>2. QED
    BY <2>1, CountsAreNumbers, FS_RemoveElement, FS_CardinalityType
<1>5. QED
  BY <1>1, <1>2, <1>3, <1>4, CountsAreNumbers DEF NoLostWakeup

\* A receiver goes to sleep, or leaves, only with the queue empty.
LEMMA EmptyKeepsWakeups ==
    ASSUME QueueTypeOK, queue = <<>>, queue' = queue, NoLostWakeup,
           Waiting' # {} => (closed' => closer' = "notifying"),
           IsFiniteSet(Notifying'), IsFiniteSet(Testing')
    PROVE  NoLostWakeup'
<1>1. Len(queue') = 0
  BY EmptySeq
<1>2. Cardinality(Notifying)' \in Nat /\ Cardinality(Testing)' \in Nat
  BY FS_CardinalityType
<1>3. QED
  BY <1>1, <1>2 DEF NoLostWakeup

\* Every step keeps the promise of a wake-up.
LEMMA WakeupStep ==
    ASSUME QueueTypeOK, NoLostWakeup, [QueueNext]_queueVars
    PROVE  NoLostWakeup'
<1>1. \A c \in Receiver : Take(c) => NoLostWakeup'
  BY TakeKeepsWakeups
<1>2. IsFiniteSet(Notifying') /\ IsFiniteSet(Testing')
  <2>1. Notifying' \in SUBSET Sender /\ Testing' \in SUBSET Receiver
    BY DEF Notifying, Testing
  <2>2. QED
    BY <2>1, QueueAssumption, FS_Subset
<1>3. ASSUME NEW c \in Receiver, End(c)
      PROVE  NoLostWakeup'
  <2>1. Waiting' \subseteq Waiting /\ queue = <<>>
        /\ UNCHANGED <<queue, closed, closer>>
    BY <1>3 DEF End, Waiting, QueueTypeOK
  <2>2. QED
    BY <1>2, <2>1, EmptyKeepsWakeups DEF NoLostWakeup
<1>4. ASSUME NEW c \in Receiver, Wait(c)
      PROVE  NoLostWakeup'
  <2>1. queue = <<>> /\ ~closed' /\ UNCHANGED queue
    BY <1>4 DEF Wait
  <2>2. QED
    BY <1>2, <2>1, EmptyKeepsWakeups
<1>5. ASSUME NEW c \in Receiver, Wake(c)
      PROVE  NoLostWakeup'
  <2>1. c \in Waiting /\ UNCHANGED <<queue, closed, sender, closer>>
    BY <1>5 DEF Wake, Waiting
  <2>2. Cardinality(Testing)' = Cardinality(Testing) + 1
    BY <1>5, <2>1, OneMoreTest DEF Wake
  <2>3. Notifying' = Notifying /\ Len(queue) \in Nat
    BY <2>1, LenProperties DEF Notifying, QueueTypeOK
  <2>4. QED
    BY <2>1, <2>2, <2>3, CountsAreNumbers DEF NoLostWakeup
<1>6. ASSUME NEW c \in Receiver, Expire(c)
      PROVE  NoLostWakeup'
  <2>1. CASE Take(c) \/ End(c)
    BY <1>1, <1>3, <2>1
  <2>2. CASE /\ queue = <<>> /\ ~closed
             /\ UNCHANGED <<queue, closed>>
    BY <1>2, <2>2, EmptyKeepsWakeups
  <2>3. QED
    BY <1>6, <2>1, <2>2 DEF Expire
<1>7. CASE Close
  BY <1>7 DEF Close, NoLostWakeup, Waiting, Notifying, Testing
<1>8. CASE NotifyAll
  <2>1. Waiting' = {}
    BY <1>8 DEF NotifyAll, Waiting, QueueTypeOK
  <2>2. QED
    BY <2>1 DEF NoLostWakeup
<1>9. CASE UNCHANGED queueVars
  BY <1>9 DEF queueVars, NoLostWakeup, Waiting, Notifying, Testing
<1>10. QED
  BY <1>1, <1>3, <1>4, <1>5, <1>6, <1>7, <1>8, <1>9,
     PushKeepsWakeups, NotifyOneKeepsWakeups DEF QueueNext, TryPop, WaitPop

(***************************************************************************)
(* push notifies after its unlock and notify_one may find nobody: still,   *)
(* as long as a receiver sleeps, every queued value has a notification on  *)
(* its way or a receiver about to test, and a closed queue has its         *)
(* notify_all still to come.                                               *)
(***************************************************************************)
THEOREM WakeupsAreNotLost == QueueSpec => []NoLostWakeup
<1>1. QueueInit => NoLostWakeup
  BY DEF QueueInit, NoLostWakeup, Waiting
<1>2. QueueTypeOK /\ NoLostWakeup /\ [QueueNext]_queueVars => NoLostWakeup'
  BY WakeupStep
<1>3. QueueSpec => []QueueTypeOK
  BY TypeCorrect
<1>4. QED
  BY <1>1, <1>2, <1>3, PTL DEF QueueSpec

(***************************************************************************)
(* The queue implements a FIFO channel.                                    *)
(***************************************************************************)

\* Each step under the mutex is one step of the channel, or none.
LEMMA StepIsChannelStep ==
    ASSUME QueueTypeOK, [QueueNext]_queueVars
    PROVE  [Channel!Next]_(Channel!vars)
<1> USE DEF Channel!vars
<1>1. ASSUME NEW p \in Sender, Push(p)
      PROVE  [Channel!Next]_(Channel!vars)
  <2>1. CASE closed
    BY <1>1, <2>1 DEF Push
  <2>2. CASE ~closed
    <3>1. <<p, pushed'[p]>> \in Value
      BY <1>1, NextValue DEF Push
    <3>2. Channel!Send(<<p, pushed'[p]>>)
      BY <1>1, <2>2 DEF Push, Channel!Send
    <3>3. QED
      BY <3>1, <3>2 DEF Channel!Next
  <2>3. QED
    BY <2>1, <2>2
<1>2. ASSUME NEW c \in Receiver, Take(c)
      PROVE  [Channel!Next]_(Channel!vars)
  BY <1>2 DEF Take, Channel!Receive, Channel!Next
<1>3. CASE Close
  BY <1>3 DEF Close, Channel!Close, Channel!Next
<1>4. CASE UNCHANGED <<queue, closed, taken>>
  BY <1>4
<1>5. QED
  BY <1>1, <1>2, <1>3, <1>4
     DEF QueueNext, queueVars, NotifyOne, TryPop, WaitPop,
          Wake, Expire, End, Wait, NotifyAll

(***************************************************************************)
(* Senders and receivers see a first-in first-out channel: no value is     *)
(* lost, duplicated or reordered, and none is accepted once it is closed.  *)
(* (That it hands values out, the channel's fairness, stays with TLC.)     *)
(***************************************************************************)
THEOREM QueueIsFifoChannel == QueueSpec => Channel!Init /\ [][Channel!Next]_(Channel!vars)
<1>1. QueueInit => Channel!Init
  BY DEF QueueInit, Channel!Init
<1>2. QueueTypeOK /\ [QueueNext]_queueVars => [Channel!Next]_(Channel!vars)
  BY StepIsChannelStep
<1>3. QueueSpec => []QueueTypeOK
  BY TypeCorrect
<1>4. QED
  BY <1>1, <1>2, <1>3, PTL DEF QueueSpec

(***************************************************************************)
(* A receiver whose loop ended left nothing behind.                        *)
(***************************************************************************)
LoopsEndDrained == (\E c \in Receiver : receiver[c] = "done") => closed /\ queue = <<>>

\* A closed and drained queue stays so: nothing enters it, nobody reopens it.
LEMMA DrainedStep ==
    ASSUME QueueTypeOK, LoopsEndDrained, [QueueNext]_queueVars
    PROVE  LoopsEndDrained'
<1> USE DEF LoopsEndDrained, QueueTypeOK
<1>1. ASSUME NEW p \in Sender, Push(p) \/ NotifyOne(p)
      PROVE  LoopsEndDrained'
  BY <1>1 DEF Push, NotifyOne, Waiting
<1>2. ASSUME NEW c \in Receiver, Take(c) \/ End(c) \/ Wait(c) \/ Wake(c)
      PROVE  LoopsEndDrained'
  BY <1>2 DEF Take, End, Wait, Wake
<1>3. ASSUME NEW c \in Receiver, Expire(c)
      PROVE  LoopsEndDrained'
  BY <1>2, <1>3 DEF Expire
<1>4. CASE Close \/ NotifyAll
  BY <1>4 DEF Close, NotifyAll, Waiting
<1>5. CASE UNCHANGED queueVars
  BY <1>5 DEF queueVars
<1>6. QED
  BY <1>1, <1>2, <1>3, <1>4, <1>5 DEF QueueNext, TryPop, WaitPop

(***************************************************************************)
(* wait_pop returns false, and ends its caller's loop, only on a queue     *)
(* that is closed and drained for good: stop() loses no queued value.      *)
(***************************************************************************)
THEOREM EndedLoopsLeaveNothing == QueueSpec => []LoopsEndDrained
<1>1. QueueInit => LoopsEndDrained
  BY DEF QueueInit, LoopsEndDrained
<1>2. QueueTypeOK /\ LoopsEndDrained /\ [QueueNext]_queueVars => LoopsEndDrained'
  BY DrainedStep
<1>3. QueueSpec => []QueueTypeOK
  BY TypeCorrect
<1>4. QED
  BY <1>1, <1>2, <1>3, PTL DEF QueueSpec

=============================================================================
