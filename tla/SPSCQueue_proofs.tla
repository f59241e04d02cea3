--------------------------- MODULE SPSCQueue_proofs ---------------------------
(****************************************************************************)
(* Proofs about SPSCQueue.tla, for every capacity and every set of items.   *)
(****************************************************************************)
EXTENDS SPSCQueue, SequenceTheorems, TLAPS

\* Two counters less than one round apart are at different slots.
LEMMA SlotsDiffer ==
    ASSUME NEW m \in Nat, NEW n \in Nat, m < n, n - m < Capacity
    PROVE  Slot(m) # Slot(n)
<1>1. Capacity \in Nat /\ Capacity > 0
  BY QueueAssumption
<1>2. m = Capacity * (m \div Capacity) + (m % Capacity)
  BY <1>1
<1>3. n = Capacity * (n \div Capacity) + (n % Capacity)
  BY <1>1
<1>. DEFINE k == n \div Capacity
            j == m \div Capacity
<1>4. k \in Int /\ j \in Int
  BY <1>1
<1>5. ASSUME m % Capacity = n % Capacity
      PROVE  FALSE
  <2>1. n - m = Capacity * k - Capacity * j
    BY <1>1, <1>2, <1>3, <1>4, <1>5
  <2>2. n - m = Capacity * (k - j)
    BY <1>1, <1>4, <2>1
  <2>3. CASE k - j <= 0
    <3>1. Capacity * (j - k) \in Nat
      BY <1>1, <1>4, <2>3
    <3>. QED
      BY <1>1, <1>4, <2>2, <3>1
  <2>4. CASE k - j >= 1
    <3>1. Capacity * (k - j - 1) \in Nat
      BY <1>1, <1>4, <2>4
    <3>. QED
      BY <1>1, <1>4, <2>2, <3>1
  <2>. QED
    BY <1>4, <2>3, <2>4
<1>. QED
  BY <1>5 DEF Slot

LEMMA SlotInRange ==
    ASSUME NEW n \in Nat
    PROVE  Slot(n) \in 0..(Capacity - 1)
BY QueueAssumption DEF Slot

----------------------------------------------------------------------------
(* The inductive invariant                                                  *)

\* How far each index may be ahead of the other thread's view of it.
Cursors ==
    /\ headSeen <= head /\ head <= tailSeen /\ tailSeen <= tail
    /\ tail - headSeen <= Capacity
    /\ prod # "idle" => tail - headSeen < Capacity
    /\ cons # "idle" => head < tailSeen

\* What the slots between the indices, and the one being written, hold.
SlotContents ==
    /\ prod = "written" => buffer[Slot(tail)] = item
    /\ cons = "copied" => copy = buffer[Slot(head)]
    /\ \A n \in Nat : head <= n /\ n < tail => buffer[Slot(n)] \in Items

Inv == TypeOK /\ Cursors /\ SlotContents

LEMMA InitInv == Init => Inv
BY QueueAssumption DEF Init, Inv, TypeOK, Cursors, SlotContents

\* Every step keeps the invariant.
LEMMA NextInv == Inv /\ [Next]_vars => Inv'
<1>. SUFFICES ASSUME Inv, [Next]_vars
              PROVE  Inv'
  OBVIOUS
<1>0. Capacity \in Nat /\ Capacity >= 2 /\ NoItem \notin Items
  BY QueueAssumption
<1>a. TypeOK /\ Cursors /\ SlotContents
  BY DEF Inv
<1>b. head \in Nat /\ tail \in Nat /\ headSeen \in Nat /\ tailSeen \in Nat
  BY <1>a DEF TypeOK
<1>c. Cursors
  BY <1>a
<1>1. ASSUME NEW i \in Items, LoadHead(i)
      PROVE  Inv'
  <2>1. headSeen' \in Nat /\ headSeen <= headSeen' /\ headSeen' <= head
    BY <1>1, <1>b DEF LoadHead
  <2>2. TypeOK'
    BY <1>1, <1>a, <2>1 DEF LoadHead, consVars, TypeOK
  <2>3. Cursors'
    <3>1. UNCHANGED <<head, tail, cons, tailSeen>>
      BY <1>1 DEF LoadHead, consVars
    <3>2. prod' # "idle" => tail - headSeen' < Capacity
      BY <1>1, <1>c DEF LoadHead, Room, Cursors
    <3>3. \A h \in headSeen..head : tail - h <= Capacity
      BY <1>0, <1>b, <1>c DEF Cursors
    <3>4. tail - headSeen' <= Capacity
      BY <1>1, <3>3, Zenon DEF LoadHead
    <3>. QED
      BY <1>c, <2>1, <3>1, <3>2, <3>4 DEF Cursors
  <2>4. SlotContents'
    BY <1>1, <1>a DEF LoadHead, consVars, SlotContents
  <2>. QED
    BY <2>2, <2>3, <2>4 DEF Inv
<1>2. CASE WriteSlot
  <2>1. \A n \in Nat : head <= n /\ n < tail => Slot(n) # Slot(tail)
    <3>1. SUFFICES ASSUME NEW n \in Nat, head <= n, n < tail
                   PROVE  Slot(n) # Slot(tail)
      OBVIOUS
    <3>2. tail - n < Capacity
      BY <1>0, <1>2, <1>b, <1>c, <3>1 DEF WriteSlot, Cursors
    <3>. QED
      BY <1>b, <3>1, <3>2, SlotsDiffer
  <2>2. \A n \in Nat : Slot(n) \in 0..(Capacity - 1)
    BY SlotInRange
  <2>3. TypeOK'
    BY <1>2, <1>a, <2>2 DEF WriteSlot, consVars, TypeOK
  <2>4. Cursors'
    BY <1>2, <1>c DEF WriteSlot, consVars, Cursors
  <2>5. buffer'[Slot(tail)] = item
    BY <1>2, <1>a, <1>b, <2>2 DEF WriteSlot, TypeOK
  <2>6. \A n \in Nat : head <= n /\ n < tail => buffer'[Slot(n)] = buffer[Slot(n)]
    BY <1>2, <1>a, <2>1, <2>2 DEF WriteSlot, TypeOK
  <2>7. cons # "idle" => buffer'[Slot(head)] = buffer[Slot(head)]
    BY <1>b, <1>c, <2>6 DEF Cursors
  <2>8. SlotContents'
    BY <1>2, <1>a, <2>5, <2>6, <2>7 DEF WriteSlot, consVars, SlotContents
  <2>. QED
    BY <2>3, <2>4, <2>8 DEF Inv
<1>3. CASE StoreTail
  <2>1. TypeOK'
    BY <1>3, <1>a, <1>b DEF StoreTail, consVars, TypeOK
  <2>2. Cursors'
    BY <1>0, <1>3, <1>b, <1>c DEF StoreTail, consVars, Cursors
  <2>3. buffer[Slot(tail)] \in Items
    BY <1>3, <1>a DEF StoreTail, TypeOK, SlotContents
  <2>4. \A n \in Nat : n < tail + 1 => n < tail \/ n = tail
    BY <1>b
  <2>5. SlotContents'
    BY <1>3, <1>a, <2>3, <2>4 DEF StoreTail, consVars, SlotContents
  <2>. QED
    BY <2>1, <2>2, <2>5 DEF Inv
<1>4. CASE LoadTail
  <2>1. tailSeen' \in Nat /\ tailSeen <= tailSeen' /\ tailSeen' <= tail
    BY <1>4, <1>b DEF LoadTail
  <2>2. TypeOK'
    BY <1>4, <1>a, <2>1 DEF LoadTail, prodVars, TypeOK
  <2>3. Cursors'
    BY <1>4, <1>b, <1>c, <2>1 DEF LoadTail, prodVars, Cursors
  <2>4. SlotContents'
    BY <1>4, <1>a DEF LoadTail, prodVars, SlotContents
  <2>. QED
    BY <2>2, <2>3, <2>4 DEF Inv
<1>5. CASE CopySlot
  <2>1. buffer[Slot(head)] \in Items
    BY <1>5, <1>a, <1>b DEF CopySlot, Cursors, SlotContents
  <2>2. TypeOK'
    BY <1>5, <1>a, <2>1 DEF CopySlot, prodVars, TypeOK
  <2>3. Cursors'
    BY <1>5, <1>c DEF CopySlot, prodVars, Cursors
  <2>4. SlotContents'
    BY <1>5, <1>a DEF CopySlot, prodVars, SlotContents
  <2>. QED
    BY <2>2, <2>3, <2>4 DEF Inv
<1>6. CASE StoreHead
  <2>1. TypeOK'
    BY <1>6, <1>a, <1>b DEF StoreHead, prodVars, TypeOK
  <2>2. Cursors'
    BY <1>6, <1>b, <1>c DEF StoreHead, prodVars, Cursors
  <2>3. \A n \in Nat : head + 1 <= n => head <= n
    BY <1>b
  <2>4. SlotContents'
    BY <1>6, <1>a, <2>3 DEF StoreHead, prodVars, SlotContents
  <2>. QED
    BY <2>1, <2>2, <2>4 DEF Inv
<1>7. CASE UNCHANGED vars
  BY <1>7, <1>a DEF vars, prodVars, consVars, Inv, TypeOK, Cursors, SlotContents
<1>. QED
  BY <1>1, <1>2, <1>3, <1>4, <1>5, <1>6, <1>7 DEF Next, Produce, Consume

LEMMA SpecInv == Spec => []Inv
BY InitInv, NextInv, PTL DEF Spec

----------------------------------------------------------------------------
(* What follows from it                                                     *)

\* The variables keep their types, and dequeue never hands out a slot that no
\* item has been written to.
THEOREM TypeCorrect == Spec => []TypeOK
<1>1. Inv => TypeOK
  BY DEF Inv
<1>. QED
  BY <1>1, SpecInv, PTL

\* enqueue and dequeue never have the same slot in hand, for any capacity.
THEOREM NoSlotRace == Spec => []SlotsDisjoint
<1>1. Inv => SlotsDisjoint
  <2>1. SUFFICES ASSUME Inv, prod \in {"loaded", "written"}, cons \in {"loaded", "copied"}
                 PROVE  Slot(tail) # Slot(head)
    BY DEF SlotsDisjoint
  <2>2. head \in Nat /\ tail \in Nat /\ head < tail /\ tail - head < Capacity
    BY <2>1, QueueAssumption DEF Inv, TypeOK, Cursors
  <2>. QED
    BY <2>2, SlotsDiffer
<1>. QED
  BY <1>1, SpecInv, PTL

\* size_approx stays between 0 and the capacity, called by either thread.
THEOREM SizeApproxInRange == Spec => []SizeInRange
<1>1. Inv => SizeInRange
  BY QueueAssumption
  DEF Inv, TypeOK, Cursors, SizeInRange, SizesSeenByProducer, SizesSeenByConsumer
<1>. QED
  BY <1>1, SpecInv, PTL
----------------------------------------------------------------------------
(* The ring refines the bounded FIFO                                        *)

LEMMA ContentsType ==
    ASSUME Inv
    PROVE  /\ Contents \in Seq(Items)
           /\ Len(Contents) = tail - head
           /\ \A k \in 1..(tail - head) : Contents[k] = buffer[Slot(head + k - 1)]
<1>1. head \in Nat /\ tail \in Nat /\ tail - head \in Nat
  BY DEF Inv, TypeOK, Cursors
<1>2. \A k \in 1..(tail - head) : buffer[Slot(head + k - 1)] \in Items
  <2>1. SUFFICES ASSUME NEW k \in 1..(tail - head)
                 PROVE  buffer[Slot(head + k - 1)] \in Items
    OBVIOUS
  <2>2. head + k - 1 \in Nat /\ head <= head + k - 1 /\ head + k - 1 < tail
    BY <1>1
  <2>. QED
    BY <2>2 DEF Inv, SlotContents
<1>3. Contents \in [1..(tail - head) -> Items]
  BY <1>2 DEF Contents
<1>. QED
  BY <1>1, <1>3 DEF Contents

\* Writing the slot at the tail does not show in the contents.
LEMMA WriteUnseen == Inv /\ WriteSlot => Contents' = Contents
<1>. SUFFICES ASSUME Inv, WriteSlot
              PROVE  Contents' = Contents
  OBVIOUS
<1>1. head \in Nat /\ tail \in Nat /\ tail - head < Capacity /\ Capacity \in Nat
  BY QueueAssumption DEF Inv, TypeOK, Cursors, WriteSlot
<1>2. \A k \in 1..(tail - head) : buffer'[Slot(head + k - 1)] = buffer[Slot(head + k - 1)]
  <2>1. SUFFICES ASSUME NEW k \in 1..(tail - head)
                 PROVE  buffer'[Slot(head + k - 1)] = buffer[Slot(head + k - 1)]
    OBVIOUS
  <2>2. PICK n \in Nat : n = head + k - 1
    BY <1>1
  <2>3. n < tail /\ tail - n < Capacity
    BY <1>1, <2>2
  <2>4. Slot(n) # Slot(tail)
    BY <1>1, <2>3, SlotsDiffer
  <2>5. Slot(n) \in 0..(Capacity - 1)
    BY SlotInRange
  <2>6. buffer'[Slot(n)] = buffer[Slot(n)]
    BY <2>4, <2>5 DEF WriteSlot, Inv, TypeOK
  <2>. QED
    BY <2>2, <2>6
<1>3. UNCHANGED <<head, tail>>
  BY DEF WriteSlot
<1>. QED
  BY <1>2, <1>3 DEF Contents

LEMMA StoreTailPuts == Inv /\ StoreTail => Fifo!Put(item)
<1>. SUFFICES ASSUME Inv, StoreTail
              PROVE  Fifo!Put(item)
  OBVIOUS
<1>1. head \in Nat /\ tail \in Nat /\ tail - head \in Nat /\ tail - head < Capacity
  BY QueueAssumption DEF Inv, TypeOK, Cursors, StoreTail
<1>2. buffer[Slot(tail)] = item
  BY DEF StoreTail, Inv, SlotContents
<1>3. Contents' = [k \in 1..((tail + 1) - head) |-> buffer[Slot(head + k - 1)]]
  <2>1. tail' = tail + 1 /\ head' = head /\ buffer' = buffer
    BY DEF StoreTail
  <2>. QED
    BY <2>1 DEF Contents
<1>4. Contents' = Append(Contents, item)
  <2>1. Append(Contents, item) =
           [k \in 1..(tail - head + 1) |->
               IF k = tail - head + 1 THEN item ELSE Contents[k]]
    <3>. DEFINE s == Append(Contents, item)
    <3>1. item \in Items
      BY DEF StoreTail, Inv, TypeOK
    <3>2. /\ s \in Seq(Items) /\ Len(s) = tail - head + 1
          /\ \A k \in 1..(tail - head) : s[k] = Contents[k]
          /\ s[tail - head + 1] = item
      BY <3>1, ContentsType, AppendProperties
    <3>3. s \in [1..(tail - head + 1) -> Items]
      BY <3>2, LenProperties
    <3>4. ASSUME NEW k \in 1..(tail - head + 1)
          PROVE  s[k] = IF k = tail - head + 1 THEN item ELSE Contents[k]
      BY <1>1, <3>2
    <3>. HIDE DEF s
    <3>5. s = [k \in 1..(tail - head + 1) |->
                 IF k = tail - head + 1 THEN item ELSE Contents[k]]
      BY <3>3, <3>4
    <3>. QED
      BY <3>5 DEF s
  <2>2. (tail + 1) - head = tail - head + 1
    BY <1>1
  <2>3. ASSUME NEW k \in 1..(tail - head + 1)
        PROVE  buffer[Slot(head + k - 1)] =
                  IF k = tail - head + 1 THEN item ELSE Contents[k]
    <3>1. CASE k = tail - head + 1
      <4>1. head + k - 1 = tail
        BY <1>1, <3>1
      <4>. QED
        BY <1>2, <3>1, <4>1
    <3>2. CASE k # tail - head + 1
      <4>1. k \in 1..(tail - head)
        BY <1>1, <3>2
      <4>. QED
        BY <3>2, <4>1, ContentsType
    <3>. QED
      BY <3>1, <3>2
  <2>. QED
    BY <1>3, <2>1, <2>2, <2>3
<1>. QED
  BY <1>1, <1>4, ContentsType DEF Fifo!Put, StoreTail, consVars

LEMMA StoreHeadGets == Inv /\ StoreHead => Fifo!Get
<1>. SUFFICES ASSUME Inv, StoreHead
              PROVE  Fifo!Get
  OBVIOUS
<1>1. head \in Nat /\ tail \in Nat /\ tail - head \in Nat /\ tail - head >= 1
  BY DEF Inv, TypeOK, Cursors, StoreHead
<1>2. got' = buffer[Slot(head)]
  BY DEF StoreHead, Inv, SlotContents
<1>3. got' = Head(Contents)
  <2>1. head + 1 - 1 = head
    BY <1>1
  <2>2. Contents[1] = buffer[Slot(head)]
    BY <1>1, <2>1, ContentsType
  <2>. QED
    BY <1>1, <1>2, <2>2, ContentsType
<1>4. Contents' = Tail(Contents)
  <2>1. Contents' = [k \in 1..(tail - (head + 1)) |-> buffer[Slot(head + 1 + k - 1)]]
    BY DEF StoreHead, Contents
  <2>2. Tail(Contents) = [k \in 1..(tail - head - 1) |-> Contents[k + 1]]
    <3>. DEFINE s == Tail(Contents)
    <3>1. /\ s \in Seq(Items) /\ Len(s) = tail - head - 1
          /\ \A k \in 1..(tail - head - 1) : s[k] = Contents[k + 1]
      BY <1>1, ContentsType, HeadTailProperties, EmptySeq
    <3>2. s \in [1..(tail - head - 1) -> Items]
      BY <3>1, LenProperties
    <3>. HIDE DEF s
    <3>3. s = [k \in 1..(tail - head - 1) |-> Contents[k + 1]]
      BY <3>1, <3>2
    <3>. QED
      BY <3>3 DEF s
  <2>3. tail - (head + 1) = tail - head - 1
    BY <1>1
  <2>4. ASSUME NEW k \in 1..(tail - head - 1)
        PROVE  buffer[Slot(head + 1 + k - 1)] = Contents[k + 1]
    <3>1. k + 1 \in 1..(tail - head) /\ head + 1 + k - 1 = head + (k + 1) - 1
      BY <1>1
    <3>. QED
      BY <3>1, ContentsType
  <2>. QED
    BY <2>1, <2>2, <2>3, <2>4
<1>5. Contents # <<>>
  BY <1>1, ContentsType
<1>. QED
  BY <1>3, <1>4, <1>5 DEF Fifo!Get

\* Every step of the two threads puts one item at the end of the FIFO, takes
\* the first one out of it, or does not show.
THEOREM QueueIsFifo ==
    Init /\ [][Next]_vars => Fifo!Init /\ [][Fifo!Next]_(Fifo!vars)
<1>1. Init => Fifo!Init
  BY DEF Init, Fifo!Init, Contents
<1>2. Inv /\ [Next]_vars => [Fifo!Next]_(Fifo!vars)
  <2>. SUFFICES ASSUME Inv, [Next]_vars
                PROVE  [Fifo!Next]_(Fifo!vars)
    OBVIOUS
  <2>1. ASSUME NEW i \in Items, LoadHead(i)
        PROVE  UNCHANGED Fifo!vars
    BY <2>1 DEF LoadHead, consVars, Contents, Fifo!vars
  <2>2. CASE WriteSlot
    BY <2>2, WriteUnseen DEF WriteSlot, consVars, Fifo!vars
  <2>3. CASE StoreTail
    <3>1. item \in Items
      BY <2>3 DEF StoreTail, Inv, TypeOK
    <3>. QED
      BY <2>3, <3>1, StoreTailPuts DEF Fifo!Next
  <2>4. CASE LoadTail \/ CopySlot
    BY <2>4 DEF LoadTail, CopySlot, prodVars, Contents, Fifo!vars
  <2>5. CASE StoreHead
    BY <2>5, StoreHeadGets DEF Fifo!Next
  <2>6. CASE UNCHANGED vars
    BY <2>6 DEF vars, prodVars, consVars, Contents, Fifo!vars
  <2>. QED
    BY <2>1, <2>2, <2>3, <2>4, <2>5, <2>6 DEF Next, Produce, Consume
<1>. QED
  BY <1>1, <1>2, InitInv, NextInv, PTL
=============================================================================
