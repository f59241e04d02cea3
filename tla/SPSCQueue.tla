------------------------------ MODULE SPSCQueue ------------------------------
(****************************************************************************)
(* SPSCQueue (engine/queues): a ring buffer between one producer and one    *)
(* consumer thread.  enqueue and dequeue are split at their memory          *)
(* accesses, so that the two calls interleave the way two cores do.         *)
(*                                                                          *)
(* An acquire load may return any value of the other index that is no older *)
(* than the one read before (coherence).  Reading a value also makes        *)
(* visible what the other thread did before it released that value, so the  *)
(* slots themselves need no copy per thread: the two threads must never be  *)
(* at the same slot, which SlotsDisjoint states.                            *)
(*                                                                          *)
(* The indices are uint64_t and dequeue compares them with >=, so nothing   *)
(* is said beyond MaxItems calls, which stands for 2^64 - 1.                *)
(****************************************************************************)
EXTENDS Integers, Sequences

CONSTANTS
    Capacity,     \* a power of two; [n % Capacity is n & MASK]
    MaxItems,     \* the last value of an index before it wraps
    Items,
    NoItem        \* what buffer_ and out hold before the first item

ASSUME QueueAssumption ==
    /\ Capacity \in Nat /\ Capacity >= 2
    /\ MaxItems \in Nat
    /\ NoItem \notin Items

VARIABLES
    head, tail,    \* head_, written by the consumer; tail_, by the producer
    buffer,
    prod,          \* producer: "idle", "loaded" (head_ read), "written"
    headSeen,      \* the producer's last acquire load of head_
    item,          \* the item being enqueued
    cons,          \* consumer: "idle", "loaded" (tail_ read), "copied"
    tailSeen,      \* the consumer's last acquire load of tail_
    copy,          \* *out, while dequeue runs
    got            \* the last item that dequeue returned true for

prodVars == <<prod, headSeen, item>>
consVars == <<cons, tailSeen, copy, got>>
vars == <<head, tail, buffer, prodVars, consVars>>

Slot(n) == n % Capacity

Init ==
    /\ head = 0 /\ tail = 0
    /\ buffer = [n \in 0..(Capacity - 1) |-> NoItem]
    /\ prod = "idle" /\ headSeen = 0 /\ item = NoItem
    /\ cons = "idle" /\ tailSeen = 0 /\ copy = NoItem /\ got = NoItem

----------------------------------------------------------------------------
(* enqueue                                                                  *)

\* Mutant: the full queue takes one item more.
RoomBeyond(seen) == tail - seen <= Capacity

Room(seen) == tail - seen < Capacity

\* tail_.load(relaxed) reads the thread's own last store; head_.load(acquire)
\* may lag.  A full queue ends the call, and nothing has changed but the
\* value of head_ the thread has seen.
LoadHead(i) ==
    /\ prod = "idle"
    /\ tail < MaxItems
    /\ headSeen' \in headSeen..head
    /\ IF Room(headSeen')
       THEN prod' = "loaded" /\ item' = i
       ELSE UNCHANGED <<prod, item>>
    /\ UNCHANGED <<head, tail, buffer, consVars>>

WriteSlot ==
    /\ prod = "loaded"
    /\ buffer' = [buffer EXCEPT ![Slot(tail)] = item]
    /\ prod' = "written"
    /\ UNCHANGED <<head, tail, headSeen, item, consVars>>

StoreTail ==
    /\ prod = "written"
    /\ tail' = tail + 1
    /\ prod' = "idle"
    /\ item' = NoItem
    /\ UNCHANGED <<head, buffer, headSeen, consVars>>

----------------------------------------------------------------------------
(* dequeue                                                                  *)

\* Mutant: an empty queue is read.
LoadTailEmpty ==
    /\ cons = "idle"
    /\ tailSeen' \in tailSeen..tail
    /\ cons' = IF head <= tailSeen' THEN "loaded" ELSE "idle"
    /\ UNCHANGED <<head, tail, buffer, prodVars, copy, got>>

LoadTail ==
    /\ cons = "idle"
    /\ tailSeen' \in tailSeen..tail
    /\ cons' = IF head < tailSeen' THEN "loaded" ELSE "idle"
    /\ UNCHANGED <<head, tail, buffer, prodVars, copy, got>>

CopySlot ==
    /\ cons = "loaded"
    /\ copy' = buffer[Slot(head)]
    /\ cons' = "copied"
    /\ UNCHANGED <<head, tail, buffer, prodVars, tailSeen, got>>

StoreHead ==
    /\ cons = "copied"
    /\ head' = head + 1
    /\ got' = copy
    /\ cons' = "idle"
    /\ UNCHANGED <<tail, buffer, prodVars, tailSeen, copy>>

\* size_approx: the caller's own index is exact, the other one may lag.
SizesSeenByProducer == {tail - h : h \in headSeen..head}
SizesSeenByConsumer == {t - head : t \in tailSeen..tail}

Produce == (\E i \in Items : LoadHead(i)) \/ WriteSlot \/ StoreTail
Consume == LoadTail \/ CopySlot \/ StoreHead

Next == Produce \/ Consume

\* A consumer that polls, and a memory system that does not keep a released
\* value back for ever: a consumer that keeps loading tail_ sees it in the end.
SeeNewTail == LoadTail /\ tailSeen' = tail

Fairness ==
    /\ WF_vars(WriteSlot) /\ WF_vars(StoreTail)
    /\ WF_vars(CopySlot) /\ WF_vars(StoreHead)
    /\ WF_vars(SeeNewTail)

Spec == Init /\ [][Next]_vars /\ Fairness

----------------------------------------------------------------------------
(* Properties                                                               *)

\* Indices, slots and the two threads' local state stay within their types,
\* and dequeue never hands out a slot that no item has been written to.
TypeOK ==
    /\ head \in Nat /\ tail \in Nat
    /\ buffer \in [0..(Capacity - 1) -> Items \cup {NoItem}]
    /\ prod \in {"idle", "loaded", "written"}
    /\ headSeen \in Nat
    /\ item \in Items \cup {NoItem}
    /\ prod # "idle" => item \in Items
    /\ cons \in {"idle", "loaded", "copied"}
    /\ tailSeen \in Nat
    /\ copy \in Items \cup {NoItem}
    /\ cons = "copied" => copy \in Items
    /\ got \in Items \cup {NoItem}

\* The producer never has the slot in hand that the consumer is copying: the
\* plain accesses to buffer_ do not race, however stale the indices are that
\* the two threads have read.
SlotsDisjoint ==
    prod \in {"loaded", "written"} /\ cons \in {"loaded", "copied"}
        => Slot(tail) # Slot(head)

\* size_approx, called by either thread, is never negative (it would wrap to
\* a huge size_t) and never above the capacity, however stale its second load.
SizeInRange == SizesSeenByProducer \cup SizesSeenByConsumer \subseteq 0..Capacity

\* Everything published and not yet consumed, the oldest first.
Contents == [k \in 1..(tail - head) |-> buffer[Slot(head + k - 1)]]

\* The ring is a bounded FIFO: nothing is lost, repeated, torn or reordered,
\* and a published item is consumed in the end.
Fifo == INSTANCE BoundedFIFO WITH contents <- Contents, got <- got

ImplementsBoundedFIFO == Fifo!Spec
=============================================================================
