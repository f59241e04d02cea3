----------------------------- MODULE FlatOrderMap -----------------------------
(****************************************************************************)
(* FlatOrderMap (engine/orderbook): open addressing with linear probing.    *)
(* Key 0 marks an empty slot and the largest key a tombstone.  The calls    *)
(* come from OrderBook, which inserts an id only after find has not found   *)
(* it, and changes orders through the pointer that find returned.           *)
(****************************************************************************)
EXTENDS Integers, FiniteSets

CONSTANTS
    Cap,          \* cap_, a power of two: [n % Cap is n & (cap_ - 1)]
    MaxKey,       \* UINT64_MAX
    Keys,         \* the ids that are used, reserved ones included
    Values, NoValue

EMPTY_KEY == 0
TOMBSTONE_KEY == MaxKey
Reserved == {EMPTY_KEY, TOMBSTONE_KEY}

ASSUME MapAssumption ==
    /\ Cap \in Nat \ {0}
    /\ MaxKey \in Nat \ {0}
    /\ Keys \subseteq 0..MaxKey
    /\ NoValue \notin Values

VARIABLES
    key, value,   \* table_
    count,        \* count_
    ret           \* what the last call returned

vars == <<key, value, count, ret>>

Slots == 0..(Cap - 1)

Init ==
    /\ key = [s \in Slots |-> EMPTY_KEY]
    /\ value \in [Slots -> {NoValue}]
    /\ count = 0
    /\ ret = FALSE

\* The slot of k that the i-th iteration of a probing loop looks at.
Probe(k, i) == (k + i) % Cap

\* s is the first slot on the probe sequence of k whose key is in stop.
FirstSlot(k, stop, s) ==
    \E i \in Slots :
        /\ s = Probe(k, i) /\ key[s] \in stop
        /\ \A j \in 0..(i - 1) : key[Probe(k, j)] \notin stop

\* Mutant: a tombstone ends the search like an empty slot.
FoundBeforeTombstone(k, s) ==
    k \notin Reserved /\ FirstSlot(k, {EMPTY_KEY, TOMBSTONE_KEY, k}, s) /\ key[s] = k

\* find returns a pointer to slot s.
FoundAt(k, s) ==
    k \notin Reserved /\ FirstSlot(k, {EMPTY_KEY, k}, s) /\ key[s] = k

Found(k) == \E s \in Slots : FoundAt(k, s)

\* Where insert puts k: the first slot that is empty or has a tombstone,
\* unless it meets k before that.
FreeSlots(k) ==
    {s \in Slots : FirstSlot(k, Reserved \cup {k}, s) /\ key[s] # k}

\* Called by OrderBook::insert and modify, for an id that is not found.
Insert(k, v) ==
    /\ ~Found(k)
    /\ IF k \in Reserved \/ 2 * count >= Cap \/ FreeSlots(k) = {}
       THEN ret' = FALSE /\ UNCHANGED <<key, value, count>>
       ELSE \E s \in FreeSlots(k) :
               /\ key' = [key EXCEPT ![s] = k]
               /\ value' = [value EXCEPT ![s] = v]
               /\ count' = count + 1
               /\ ret' = TRUE

Find(k) ==
    /\ \/ \E s \in Slots : FoundAt(k, s) /\ ret' = value[s]
       \/ ~Found(k) /\ ret' = NoValue
    /\ UNCHANGED <<key, value, count>>

\* OrderBook::reduce, through the pointer.
Update(k, v) ==
    /\ \E s \in Slots : FoundAt(k, s) /\ value' = [value EXCEPT ![s] = v]
    /\ UNCHANGED <<key, count, ret>>

\* Mutant: the slot is marked as never used.
EraseToEmpty(k) ==
    \/ \E s \in Slots :
          /\ FoundAt(k, s)
          /\ key' = [key EXCEPT ![s] = EMPTY_KEY]
          /\ count' = count - 1
          /\ ret' = TRUE
          /\ UNCHANGED value
    \/ ~Found(k) /\ ret' = FALSE /\ UNCHANGED <<key, value, count>>

\* Mutant: count_ follows the calls, not the keys.
EraseMiscounts(k) ==
    \/ \E s \in Slots :
          /\ FoundAt(k, s)
          /\ key' = [key EXCEPT ![s] = TOMBSTONE_KEY]
          /\ ret' = TRUE
          /\ UNCHANGED <<value, count>>
    \/ ~Found(k) /\ ret' = FALSE /\ count' = count - 1 /\ UNCHANGED <<key, value>>

\* The value stays behind under the tombstone.
Erase(k) ==
    \/ \E s \in Slots :
          /\ FoundAt(k, s)
          /\ key' = [key EXCEPT ![s] = TOMBSTONE_KEY]
          /\ count' = count - 1
          /\ ret' = TRUE
          /\ UNCHANGED value
    \/ ~Found(k) /\ ret' = FALSE /\ UNCHANGED <<key, value, count>>

Next == \E k \in Keys :
    \/ \E v \in Values : Insert(k, v) \/ Update(k, v)
    \/ Find(k)
    \/ Erase(k)

Spec == Init /\ [][Next]_vars

----------------------------------------------------------------------------
(* Properties                                                               *)

Used == {s \in Slots : key[s] \notin Reserved}

\* The table keeps its types and never goes over its load limit.
TypeOK ==
    /\ key \in [Slots -> Keys \cup Reserved]
    /\ value \in [Slots -> Values \cup {NoValue}]
    /\ \A s \in Used : value[s] \in Values
    /\ count \in 0..((Cap + 1) \div 2)
    /\ ret \in BOOLEAN \cup Values \cup {NoValue}

\* Whatever was erased before it on its probe sequence, a stored key is found,
\* and it is stored once: each key in the table is found where it is.
StoredKeysFound == \A s \in Used : FoundAt(key[s], s)

\* count_, which alone decides when insert refuses, is the number of keys.
CountExact == count = Cardinality(Used)

\* The table is the bounded map OrderBook takes it for, with the capacity
\* of its constructor: half the slots.  In particular no insert fails below it.
SlotOf(k) == CHOOSE s \in Slots : key[s] = k
Map == INSTANCE BoundedMap WITH
    map <- [k \in {key[s] : s \in Used} |-> value[SlotOf(k)]],
    Limit <- (Cap + 1) \div 2

ImplementsBoundedMap == Map!Spec
=============================================================================
