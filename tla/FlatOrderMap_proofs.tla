------------------------- MODULE FlatOrderMap_proofs -------------------------
(****************************************************************************)
(* Proofs about FlatOrderMap.tla, for every capacity and every set of keys. *)
(****************************************************************************)
EXTENDS FlatOrderMap, FiniteSetTheorems, WellFoundedInduction, TLAPS

(* The probe sequence                                                       *)

LEMMA SlotsFinite == IsFiniteSet(Slots) /\ Cardinality(Slots) = Cap
<1>1. 0 \in Int /\ Cap - 1 \in Int /\ Cap \in Nat /\ Cap > 0
  BY MapAssumption
<1>2. IsFiniteSet(0..(Cap - 1))
      /\ Cardinality(0..(Cap - 1)) = IF 0 > Cap - 1 THEN 0 ELSE (Cap - 1) - 0 + 1
  BY <1>1, FS_Interval
<1>. QED
  BY <1>1, <1>2 DEF Slots

LEMMA ProbeInSlots ==
    ASSUME NEW k \in Nat, NEW i \in Nat
    PROVE  Probe(k, i) \in Slots
BY MapAssumption DEF Probe, Slots

\* Two slots with the same remainder are the same slot.
LEMMA SameRemainder ==
    ASSUME NEW r \in Slots, NEW s \in Slots, NEW q \in Int, r = Cap * q + s
    PROVE  r = s
<1>1. Cap \in Nat /\ Cap > 0 /\ r >= 0 /\ r < Cap /\ s >= 0 /\ s < Cap
      /\ r \in Int /\ s \in Int
  BY MapAssumption DEF Slots
<1>2. CASE q >= 1
  <2>1. Cap * (q - 1) \in Nat /\ Cap * (q - 1) = Cap * q - Cap
    BY <1>1, <1>2
  <2>. QED
    BY <1>1, <2>1
<1>3. CASE q <= -1
  <2>1. Cap * (-q - 1) \in Nat /\ Cap * (-q - 1) = -(Cap * q) - Cap
    BY <1>1, <1>3
  <2>. QED
    BY <1>1, <2>1
<1>4. CASE q = 0
  BY <1>1, <1>4
<1>. QED
  BY <1>2, <1>3, <1>4

\* Cap iterations of a probing loop see every slot.
LEMMA ProbeCovers ==
    ASSUME NEW k \in Nat, NEW s \in Slots
    PROVE  \E i \in Slots : Probe(k, i) = s
<1>1. Cap \in Nat /\ Cap > 0 /\ s \in Int /\ s >= 0 /\ s < Cap
  BY MapAssumption DEF Slots
<1>. DEFINE d == s - k
            i == d % Cap
            r == (k + i) % Cap
            p == d \div Cap
            q == (k + i) \div Cap
<1>2. d \in Int
  BY <1>1
<1>3. i \in 0..(Cap - 1) /\ p \in Int /\ d = Cap * p + i
  BY <1>1, <1>2
<1>4. k + i \in Nat
  BY <1>3
<1>5. r \in 0..(Cap - 1) /\ q \in Int /\ k + i = Cap * q + r
  BY <1>1, <1>4
<1>6. r = Cap * (-p - q) + s
  <2>1. r = s - Cap * p - Cap * q
    BY <1>1, <1>3, <1>5
  <2>2. Cap * (-p - q) = -(Cap * p) - Cap * q
    BY <1>1, <1>3, <1>5
  <2>. QED
    BY <1>1, <1>3, <1>5, <2>1, <2>2
<1>7. r = s
  <2>1. r \in Slots /\ -p - q \in Int
    BY <1>3, <1>5 DEF Slots
  <2>. HIDE DEF r, p, q
  <2>. QED
    BY <1>6, <2>1, SameRemainder
<1>. QED
  BY <1>3, <1>7 DEF Probe, Slots

LEMMA LeastNat ==
    ASSUME NEW T, T \subseteq Nat, T # {}
    PROVE  \E x \in T : \A y \in T : x <= y
<1>. DEFINE R == {ss \in Nat \X Nat : ss[1] < ss[2]}
<1>1. IsWellFoundedOn(R, Nat)
  BY NatLessThanWellFounded DEF OpToRel
<1>2. \A x, y \in Nat : y < x => <<y, x>> \in R
  OBVIOUS
<1>. HIDE DEF R
<1>3. PICK x \in T : \A y \in T : <<y, x>> \notin R
  <2>1. \E x \in T : \A y \in T : ~(<<y, x>> \in R)
    BY <1>1, WFMin, Zenon
  <2>. QED
    BY <2>1, Zenon
<1>4. \A y \in T : x \in Nat /\ y \in Nat /\ ~(y < x)
  BY <1>2, <1>3, Zenon
<1>. QED
  BY <1>4

\* A probe sequence that meets a key of stop has a first one.
LEMMA FirstSlotExists ==
    ASSUME NEW k \in Nat, NEW stop, NEW s \in Slots, key[s] \in stop
    PROVE  \E t \in Slots : FirstSlot(k, stop, t)
<1>. DEFINE T == {i \in Slots : key[Probe(k, i)] \in stop}
<1>1. T \subseteq Nat /\ T # {}
  <2>1. PICK i \in Slots : Probe(k, i) = s
    BY ProbeCovers
  <2>. QED
    BY <2>1, MapAssumption DEF Slots
<1>2. PICK i \in T : \A j \in T : i <= j
  BY <1>1, LeastNat
<1>3. \A j \in 0..(i - 1) : j \in Slots /\ ~(i <= j)
  BY <1>2, MapAssumption DEF Slots
<1>4. Probe(k, i) \in Slots
  BY <1>1, <1>2, ProbeInSlots
<1>. QED
  BY <1>2, <1>3, <1>4 DEF FirstSlot

\* A probe sequence has only one first slot.
LEMMA FirstSlotUnique ==
    ASSUME NEW k \in Nat, NEW stop, NEW s, NEW t,
           FirstSlot(k, stop, s), FirstSlot(k, stop, t)
    PROVE  s = t
<1>1. PICK i \in Slots : /\ s = Probe(k, i) /\ key[s] \in stop
                         /\ \A j \in 0..(i - 1) : key[Probe(k, j)] \notin stop
  BY DEF FirstSlot
<1>2. PICK j \in Slots : /\ t = Probe(k, j) /\ key[t] \in stop
                         /\ \A m \in 0..(j - 1) : key[Probe(k, m)] \notin stop
  BY DEF FirstSlot
<1>3. i \in Int /\ j \in Int /\ 0 <= i /\ 0 <= j
  BY DEF Slots
<1>4. ~(i < j) /\ ~(j < i)
  BY <1>1, <1>2, <1>3
<1>. QED
  BY <1>1, <1>2, <1>3, <1>4

----------------------------------------------------------------------------
(* The inductive invariant                                                  *)

Inv == TypeOK /\ StoredKeysFound /\ CountExact

LEMMA KeysNat == \A k \in Keys \cup Reserved : k \in Nat
BY MapAssumption DEF Reserved, EMPTY_KEY, TOMBSTONE_KEY

LEMMA UsedFinite == IsFiniteSet(Used) /\ Cardinality(Used) \in Nat
BY SlotsFinite, FS_Subset, FS_CardinalityType DEF Used

LEMMA InitInv == Init => Inv
<1>. SUFFICES ASSUME Init PROVE Inv
  OBVIOUS
<1>1. Used = {}
  BY DEF Init, Used, Reserved
<1>2. TypeOK
  <2>1. 0 \in 0..((Cap + 1) \div 2)
    BY MapAssumption
  <2>. QED
    BY <1>1, <2>1 DEF Init, TypeOK, Reserved
<1>3. StoredKeysFound /\ CountExact
  BY <1>1, FS_EmptySet DEF Init, StoredKeysFound, CountExact
<1>. QED
  BY <1>2, <1>3 DEF Inv

\* A key that is stored is found, and in one slot only.
LEMMA StoredOnce ==
    ASSUME Inv, NEW s \in Used, NEW t \in Slots, FoundAt(key[s], t)
    PROVE  t = s
<1>1. FoundAt(key[s], s)
  BY DEF Inv, StoredKeysFound
<1>2. key[s] \in Nat
  BY KeysNat DEF Inv, TypeOK, Used
<1>. QED
  BY <1>1, <1>2, FirstSlotUnique DEF FoundAt

\* What insert writes into, and what that does to the other keys.
LEMMA PlaceInv ==
    ASSUME Inv, NEW k \in Keys \ Reserved, NEW v \in Values, NEW s \in FreeSlots(k),
           ~Found(k), 2 * count < Cap,
           key' = [key EXCEPT ![s] = k],
           value' = [value EXCEPT ![s] = v],
           count' = count + 1,
           ret' = TRUE
    PROVE  Inv' /\ Used' = Used \cup {s} /\ s \notin Used
<1>0. TypeOK /\ StoredKeysFound /\ CountExact /\ k \in Nat
  BY KeysNat DEF Inv
<1>1. s \in Slots /\ FirstSlot(k, Reserved \cup {k}, s) /\ key[s] \in Reserved
  BY DEF FreeSlots, FirstSlot
<1>2. Used' = Used \cup {s} /\ s \notin Used
  BY <1>0, <1>1 DEF Used, TypeOK
<1>3. CountExact'
  BY <1>0, <1>2, UsedFinite, FS_AddElement DEF CountExact
<1>4. TypeOK'
  <2>1. count' \in 0..((Cap + 1) \div 2)
    <3>1. Cap \in Nat /\ count \in Nat
      BY <1>0, MapAssumption DEF TypeOK
    <3>. QED
      BY <3>1
  <2>2. \A t \in Used' : value'[t] \in Values
    BY <1>0, <1>2 DEF TypeOK, Used
  <2>. QED
    BY <1>0, <2>1, <2>2 DEF TypeOK
<1>5. ASSUME NEW t \in Used'
      PROVE  FoundAt(key[t], t)'
  <2>1. CASE t = s
    <3>1. PICK i \in Slots : /\ s = Probe(k, i)
                             /\ \A j \in 0..(i - 1) : key[Probe(k, j)] \notin Reserved \cup {k}
      BY <1>1 DEF FirstSlot
    <3>2. key'[t] = k
      BY <2>1, <1>0, <1>1 DEF TypeOK
    <3>3. ASSUME NEW j \in 0..(i - 1)
          PROVE  key'[Probe(k, j)] \notin {EMPTY_KEY, k}
      <4>1. Probe(k, j) \in Slots /\ Probe(k, j) # s
        BY <1>0, <1>1, <3>1, <3>3, ProbeInSlots
      <4>2. key'[Probe(k, j)] = key[Probe(k, j)]
        BY <4>1, <1>0 DEF TypeOK
      <4>. QED
        BY <4>2, <3>1, <3>3 DEF Reserved
    <3>. QED
      BY <2>1, <3>1, <3>2, <3>3 DEF FoundAt, FirstSlot
  <2>2. CASE t # s
    <3>. DEFINE h == key[t]
    <3>1. t \in Used /\ key'[t] = h /\ h \in Nat /\ h \notin Reserved /\ h # k
      <4>1. t \in Used /\ key'[t] = h /\ h \in Keys \cup Reserved /\ h \notin Reserved
        BY <2>2, <1>0, <1>2 DEF TypeOK, Used
      <4>2. FoundAt(h, t) /\ t \in Slots
        BY <4>1, <1>0 DEF StoredKeysFound, Used
      <4>. QED
        BY <4>1, <4>2, KeysNat DEF Found
    <3>2. PICK i \in Slots : /\ t = Probe(h, i)
                             /\ \A j \in 0..(i - 1) : key[Probe(h, j)] \notin {EMPTY_KEY, h}
      BY <3>1, <1>0 DEF StoredKeysFound, FoundAt, FirstSlot
    <3>. HIDE DEF h
    <3>3. ASSUME NEW j \in 0..(i - 1)
          PROVE  key'[Probe(h, j)] \notin {EMPTY_KEY, h}
      <4>1. Probe(h, j) \in Slots
        BY <3>1, ProbeInSlots
      <4>2. key'[Probe(h, j)] = IF Probe(h, j) = s THEN k ELSE key[Probe(h, j)]
        BY <4>1, <1>0 DEF TypeOK
      <4>3. k # EMPTY_KEY
        BY DEF Reserved
      <4>. QED
        BY <4>2, <4>3, <3>1, <3>2, <3>3
    <3>. QED
      BY <3>1, <3>2, <3>3 DEF FoundAt, FirstSlot
  <2>. QED
    BY <2>1, <2>2
<1>. QED
  BY <1>2, <1>3, <1>4, <1>5 DEF Inv, StoredKeysFound

\* A tombstone ends no search for another key.
LEMMA BuryInv ==
    ASSUME Inv, NEW s \in Used,
           key' = [key EXCEPT ![s] = TOMBSTONE_KEY],
           value' = value, count' = count - 1, ret' = TRUE
    PROVE  Inv' /\ Used' = Used \ {s}
<1>0. TypeOK /\ StoredKeysFound /\ CountExact /\ s \in Slots
  BY DEF Inv, Used
<1>1. Used' = Used \ {s}
  BY <1>0 DEF Used, TypeOK, Reserved
<1>2. CountExact'
  BY <1>0, <1>1, UsedFinite, FS_RemoveElement DEF CountExact
<1>3. TypeOK'
  <2>1. count # 0
    BY <1>0, UsedFinite, FS_EmptySet DEF CountExact
  <2>2. count' \in 0..((Cap + 1) \div 2)
    BY <1>0, <2>1, MapAssumption DEF TypeOK
  <2>. QED
    BY <1>0, <1>1, <2>2 DEF TypeOK, Reserved
<1>4. ASSUME NEW t \in Used'
      PROVE  FoundAt(key[t], t)'
  <2>. DEFINE h == key[t]
  <2>1. t \in Used /\ t # s /\ key'[t] = h /\ h \in Keys \cup Reserved /\ h \notin Reserved
    BY <1>0, <1>1 DEF TypeOK, Used
  <2>2. h \in Nat /\ TOMBSTONE_KEY \notin {EMPTY_KEY, h}
    BY <2>1, KeysNat, MapAssumption DEF Reserved, EMPTY_KEY, TOMBSTONE_KEY
  <2>3. PICK i \in Slots : /\ t = Probe(h, i)
                           /\ \A j \in 0..(i - 1) : key[Probe(h, j)] \notin {EMPTY_KEY, h}
    BY <2>1, <1>0 DEF StoredKeysFound, FoundAt, FirstSlot
  <2>. HIDE DEF h
  <2>4. ASSUME NEW j \in 0..(i - 1)
        PROVE  key'[Probe(h, j)] \notin {EMPTY_KEY, h}
    <3>1. Probe(h, j) \in Slots
      BY <2>2, ProbeInSlots
    <3>2. key'[Probe(h, j)] = IF Probe(h, j) = s THEN TOMBSTONE_KEY ELSE key[Probe(h, j)]
      BY <3>1, <1>0 DEF TypeOK
    <3>. QED
      BY <3>2, <2>2, <2>3, <2>4
  <2>. QED
    BY <2>1, <2>3, <2>4 DEF FoundAt, FirstSlot
<1>. QED
  BY <1>1, <1>2, <1>3, <1>4 DEF Inv, StoredKeysFound

\* Every step keeps the invariant.
LEMMA NextInv == Inv /\ [Next]_vars => Inv'
<1>. SUFFICES ASSUME Inv, [Next]_vars
              PROVE  Inv'
  OBVIOUS
<1>0. TypeOK /\ StoredKeysFound /\ CountExact
  BY DEF Inv
<1>a. ASSUME UNCHANGED <<key, count>>, value' \in [Slots -> Values \cup {NoValue}],
             \A s \in Used : value'[s] \in Values,
             ret' \in BOOLEAN \cup Values \cup {NoValue}
      PROVE  Inv'
  <2>1. Used' = Used
    BY <1>a DEF Used
  <2>2. \A s \in Used' : value'[s] \in Values
    BY <1>a, <2>1
  <2>3. TypeOK'
    BY <1>a, <1>0, <2>2 DEF TypeOK
  <2>4. StoredKeysFound'
    BY <1>a, <1>0, <2>1 DEF StoredKeysFound, FoundAt, FirstSlot
  <2>. QED
    BY <1>a, <1>0, <2>1, <2>3, <2>4 DEF Inv, CountExact
<1>b. ASSUME UNCHANGED <<key, value, count>>, ret' \in BOOLEAN \cup Values \cup {NoValue}
      PROVE  Inv'
  BY <1>a, <1>b, <1>0 DEF TypeOK
<1>1. ASSUME NEW k \in Keys, NEW v \in Values, Insert(k, v)
      PROVE  Inv'
  <2>1. CASE k \in Reserved \/ 2 * count >= Cap \/ FreeSlots(k) = {}
    BY <1>1, <1>b, <2>1 DEF Insert
  <2>2. CASE ~(k \in Reserved \/ 2 * count >= Cap \/ FreeSlots(k) = {})
    <3>1. PICK s \in FreeSlots(k) : /\ key' = [key EXCEPT ![s] = k]
                                   /\ value' = [value EXCEPT ![s] = v]
                                   /\ count' = count + 1
                                   /\ ret' = TRUE
      BY <1>1, <2>2 DEF Insert
    <3>2. ~Found(k) /\ k \in Keys \ Reserved
      BY <1>1, <2>2 DEF Insert
    <3>3. 2 * count < Cap
      BY <2>2, <1>0, MapAssumption DEF TypeOK
    <3>. QED
      BY <3>1, <3>2, <3>3, PlaceInv
  <2>. QED
    BY <2>1, <2>2
<1>c. ASSUME NEW k \in Keys, NEW s \in Slots, FoundAt(k, s)
      PROVE  s \in Used
  BY <1>c DEF FoundAt, Used
<1>2. ASSUME NEW k \in Keys, NEW v \in Values, Update(k, v)
      PROVE  Inv'
  BY <1>2, <1>a, <1>0 DEF Update, TypeOK
<1>3. ASSUME NEW k \in Keys, Find(k)
      PROVE  Inv'
  BY <1>3, <1>b, <1>c, <1>0 DEF Find, TypeOK
<1>4. ASSUME NEW k \in Keys, Erase(k)
      PROVE  Inv'
  BY <1>4, <1>b, <1>c, BuryInv DEF Erase
<1>5. CASE UNCHANGED vars
  BY <1>5, <1>b, <1>0 DEF vars, TypeOK
<1>. QED
  BY <1>1, <1>2, <1>3, <1>4, <1>5 DEF Next

----------------------------------------------------------------------------
(* The table implements the map                                             *)

StoredKeys == {key[s] : s \in Used}
MapOf == [k \in StoredKeys |-> value[SlotOf(k)]]

LEMMA FoundIsStored ==
    ASSUME Inv, NEW k
    PROVE  Found(k) <=> k \in StoredKeys
<1>1. ASSUME Found(k)
      PROVE  k \in StoredKeys
  BY <1>1 DEF Found, FoundAt, StoredKeys, Used
<1>2. ASSUME k \in StoredKeys
      PROVE  Found(k)
  BY <1>2 DEF Inv, StoredKeysFound, Found, StoredKeys, Used
<1>. QED
  BY <1>1, <1>2

LEMMA SlotOfKey ==
    ASSUME Inv, NEW s \in Used
    PROVE  SlotOf(key[s]) = s
<1>. DEFINE t == SlotOf(key[s])
<1>1. s \in Slots
  BY DEF Used
<1>2. t \in Slots /\ key[t] = key[s]
  BY <1>1 DEF SlotOf
<1>3. t \in Used
  BY <1>2 DEF Used
<1>4. FoundAt(key[t], t)
  BY <1>3 DEF Inv, StoredKeysFound
<1>. HIDE DEF t
<1>5. t = s
  BY <1>2, <1>4, StoredOnce
<1>. QED
  BY <1>5 DEF t

LEMMA KeysCounted ==
    ASSUME Inv
    PROVE  Cardinality(StoredKeys) = count
<1>. DEFINE f == [s \in Used |-> key[s]]
<1>1. \A s, t \in Used : key[s] = key[t] => s = t
  BY SlotOfKey
<1>2. f \in Bijection(Used, StoredKeys)
  BY <1>1 DEF Bijection, Injection, Surjection, IsInjective, StoredKeys
<1>. HIDE DEF f
<1>3. Cardinality(StoredKeys) = Cardinality(Used)
  BY <1>2, UsedFinite, FS_Bijection DEF ExistsBijection
<1>. QED
  BY <1>3 DEF Inv, CountExact

\* Below the load limit insert always finds a slot.
LEMMA RoomBelowLimit ==
    ASSUME Inv, NEW k \in Keys \ Reserved, ~Found(k), 2 * count < Cap
    PROVE  FreeSlots(k) # {}
<1>1. Used # Slots
  BY SlotsFinite, MapAssumption DEF Inv, TypeOK, CountExact
<1>2. PICK s \in Slots : key[s] \in Reserved \cup {k}
  BY <1>1 DEF Used
<1>3. k \in Nat
  BY KeysNat
<1>4. PICK t \in Slots : FirstSlot(k, Reserved \cup {k}, t)
  BY <1>2, <1>3, FirstSlotExists
<1>5. CASE key[t] = k
  BY <1>5, FoundIsStored DEF StoredKeys, Used
<1>6. CASE key[t] # k
  BY <1>4, <1>6 DEF FreeSlots
<1>. QED
  BY <1>5, <1>6

LEMMA MapInit == Init => Map!Init
<1>. SUFFICES ASSUME Init PROVE Map!Init
  OBVIOUS
<1>1. {key[s] : s \in Used} = {}
  BY DEF Init, Used, Reserved
<1>. QED
  BY <1>1 DEF Init, Map!Init

\* The map that the table stands for.
MapIs(K, M) ==
    /\ DOMAIN M = K /\ M = [k \in K |-> M[k]]
    /\ \A s \in Used : key[s] \in K /\ M[key[s]] = value[s]
    /\ \A k \in K : \E s \in Used : key[s] = k

LEMMA MapValues == Inv => MapIs(StoredKeys, MapOf)
BY SlotOfKey DEF MapOf, StoredKeys, MapIs

LEMMA SameCardinality ==
    ASSUME NEW S
    PROVE  Map!Cardinality(S) = Cardinality(S)
BY DEF Map!Cardinality, Cardinality

\* The actions of the map, as actions on MapOf.
LEMMA MapInsert ==
    ASSUME NEW k, NEW v, k \notin StoredKeys,
           IF k \in Reserved \/ Cardinality(StoredKeys) >= (Cap + 1) \div 2
           THEN ret' = FALSE /\ MapOf' = MapOf
           ELSE ret' = TRUE /\ MapOf' = [j \in StoredKeys \cup {k} |->
                                         IF j = k THEN v ELSE MapOf[j]]
    PROVE  Map!Insert(k, v)
<1>1. Map!Stored = StoredKeys /\ Map!Cardinality(StoredKeys) = Cardinality(StoredKeys)
  BY SameCardinality DEF Map!Stored, StoredKeys
<1>2. CASE k \in Reserved \/ Cardinality(StoredKeys) >= (Cap + 1) \div 2
  <2>1. ret' = FALSE /\ MapOf' = MapOf
    BY <1>2
  <2>. QED
    BY <1>1, <1>2, <2>1 DEF Map!Insert, MapOf, StoredKeys
<1>3. CASE ~(k \in Reserved \/ Cardinality(StoredKeys) >= (Cap + 1) \div 2)
  <2>1. ret' = TRUE /\ MapOf' = [j \in StoredKeys \cup {k} |-> IF j = k THEN v ELSE MapOf[j]]
    BY <1>3
  <2>. QED
    BY <1>1, <1>3, <2>1 DEF Map!Insert, MapOf, StoredKeys
<1>. QED
  BY <1>2, <1>3

\* Every step of the table is a step of the map, or leaves it unchanged.
LEMMA MapStep == Inv /\ [Next]_vars => [Map!Next]_<<MapOf, ret>>
<1>. SUFFICES ASSUME Inv, [Next]_vars
              PROVE  [Map!Next]_<<MapOf, ret>>
  OBVIOUS
<1>0. TypeOK /\ MapIs(StoredKeys, MapOf)
  BY MapValues DEF Inv
<1>1. MapIs(StoredKeys, MapOf)'
  <2>1. Inv'
    BY NextInv
  <2>2. (Inv => MapIs(StoredKeys, MapOf))'
    BY MapValues, PTL
  <2>. QED
    BY <2>1, <2>2
<1>2. ASSUME UNCHANGED <<key, value>>
      PROVE  MapOf' = MapOf
  BY <1>2 DEF MapOf, StoredKeys, Used, SlotOf
<1>3. ASSUME NEW k \in Keys, NEW v \in Values, Insert(k, v)
      PROVE  Map!Insert(k, v)
  <2>1. k \notin StoredKeys /\ Cardinality(StoredKeys) = count /\ count \in Nat
    BY <1>0, <1>3, FoundIsStored, KeysCounted DEF Insert, TypeOK
  <2>2. 2 * count >= Cap <=> count >= (Cap + 1) \div 2
    BY <2>1, MapAssumption
  <2>3. CASE k \in Reserved \/ 2 * count >= Cap
    BY <2>1, <2>2, <2>3, <1>2, <1>3, MapInsert DEF Insert
  <2>4. CASE k \notin Reserved /\ ~(2 * count >= Cap)
    <3>1. FreeSlots(k) # {}
      <4>1. 2 * count < Cap /\ ~Found(k) /\ k \in Keys \ Reserved
        BY <2>1, <2>4, <1>3, MapAssumption DEF Insert
      <4>. QED
        BY <4>1, RoomBelowLimit
    <3>2. PICK s \in FreeSlots(k) : /\ key' = [key EXCEPT ![s] = k]
                                   /\ value' = [value EXCEPT ![s] = v]
                                   /\ count' = count + 1
                                   /\ ret' = TRUE
      BY <2>4, <3>1, <1>3 DEF Insert
    <3>3. Used' = Used \cup {s} /\ s \notin Used /\ s \in Slots
      <4>1. ~Found(k) /\ k \in Keys \ Reserved /\ 2 * count < Cap
        BY <2>1, <2>4, <1>3, MapAssumption DEF Insert
      <4>. QED
        BY <3>2, <4>1, PlaceInv DEF FreeSlots
    <3>4. /\ key'[s] = k /\ value'[s] = v
          /\ \A t \in Used : key'[t] = key[t] /\ value'[t] = value[t]
      BY <3>2, <3>3, <1>0 DEF TypeOK, Used
    <3>5. StoredKeys' = StoredKeys \cup {k}
      BY <3>3, <3>4 DEF StoredKeys
    <3>6. ASSUME NEW j \in StoredKeys \cup {k}
          PROVE  MapOf'[j] = IF j = k THEN v ELSE MapOf[j]
      <4>1. CASE j = k
        BY <4>1, <3>3, <3>4, <1>1 DEF MapIs
      <4>2. CASE j # k
        <5>1. PICK t \in Used : key[t] = j
          BY <4>2, <1>0 DEF MapIs
        <5>. QED
          BY <4>2, <5>1, <3>3, <3>4, <1>0, <1>1 DEF MapIs
      <4>. QED
        BY <4>1, <4>2
    <3>7. MapOf' = [j \in StoredKeys \cup {k} |-> IF j = k THEN v ELSE MapOf[j]]
      BY <3>5, <3>6, <1>1 DEF MapIs
    <3>. QED
      BY <2>1, <2>2, <2>4, <3>2, <3>7, MapInsert
  <2>. QED
    BY <2>3, <2>4
<1>4. ASSUME NEW k \in Keys, NEW v \in Values, Update(k, v)
      PROVE  Map!Update(k, v)
  <2>1. PICK s \in Slots : FoundAt(k, s) /\ value' = [value EXCEPT ![s] = v]
    BY <1>4 DEF Update
  <2>2. s \in Used /\ key[s] = k /\ k \in StoredKeys
    BY <2>1 DEF FoundAt, Used, StoredKeys
  <2>3. key' = key /\ ret' = ret /\ Used' = Used /\ StoredKeys' = StoredKeys
    BY <1>4 DEF Update, Used, StoredKeys
  <2>4. \A t \in Used : value'[t] = IF t = s THEN v ELSE value[t]
    BY <2>1, <1>0 DEF TypeOK, Used
  <2>5. ASSUME NEW j \in StoredKeys
        PROVE  MapOf'[j] = IF j = k THEN v ELSE MapOf[j]
    <3>1. PICK t \in Used : key[t] = j
      BY <1>0 DEF MapIs
    <3>2. MapOf'[j] = value'[t] /\ MapOf[j] = value[t]
      BY <3>1, <2>3, <1>0, <1>1 DEF MapIs
    <3>3. t = s <=> j = k
      BY <3>1, <2>2, SlotOfKey
    <3>. QED
      BY <3>2, <3>3, <2>4
  <2>6. MapOf' = [MapOf EXCEPT ![k] = v]
    BY <2>3, <2>5, <1>0, <1>1 DEF MapIs
  <2>. QED
    BY <2>2, <2>3, <2>6 DEF Map!Update, Map!Stored, MapOf, StoredKeys
<1>5. ASSUME NEW k \in Keys, Find(k)
      PROVE  Map!Find(k)
  <2>1. ret' = IF k \in StoredKeys THEN MapOf[k] ELSE NoValue
    <3>1. CASE ~Found(k) /\ ret' = NoValue
      BY <3>1, FoundIsStored
    <3>2. ASSUME NEW s \in Slots, FoundAt(k, s), ret' = value[s]
          PROVE  ret' = IF k \in StoredKeys THEN MapOf[k] ELSE NoValue
      BY <3>2, <1>0 DEF FoundAt, Used, MapIs
    <3>. QED
      BY <3>1, <3>2, <1>5 DEF Find
  <2>2. MapOf' = MapOf
    BY <1>2, <1>5 DEF Find
  <2>. QED
    BY <2>1, <2>2 DEF Map!Find, Map!Stored, MapOf, StoredKeys
<1>6. ASSUME NEW k \in Keys, Erase(k)
      PROVE  Map!Erase(k)
  <2>1. ret' = (k \in StoredKeys) /\ MapOf' = [j \in StoredKeys \ {k} |-> MapOf[j]]
    <3>1. CASE ~Found(k) /\ ret' = FALSE /\ UNCHANGED <<key, value, count>>
      <4>1. k \notin StoredKeys /\ MapOf' = MapOf
        BY <3>1, <1>2, FoundIsStored
      <4>2. StoredKeys \ {k} = StoredKeys
        BY <4>1
      <4>3. MapOf' = [j \in StoredKeys \ {k} |-> MapOf[j]]
        <5>1. MapOf = [j \in StoredKeys |-> MapOf[j]]
          BY <1>0, Zenon DEF MapIs
        <5>. QED
          BY <4>1, <4>2, <5>1, Zenon
      <4>4. ret' = (k \in StoredKeys)
        <5>1. (k \in StoredKeys) = FALSE
          BY <4>1
        <5>. QED
          BY <3>1, <5>1, Zenon
      <4>. QED
        BY <4>3, <4>4, Zenon
    <3>2. ASSUME NEW s \in Slots, FoundAt(k, s), key' = [key EXCEPT ![s] = TOMBSTONE_KEY],
                 count' = count - 1, ret' = TRUE, value' = value
          PROVE  ret' = (k \in StoredKeys) /\ MapOf' = [j \in StoredKeys \ {k} |-> MapOf[j]]
      <4>1. s \in Used /\ key[s] = k /\ k \in StoredKeys
        BY <3>2 DEF FoundAt, Used, StoredKeys
      <4>2. Used' = Used \ {s}
        BY <4>1, <3>2, BuryInv
      <4>3. \A t \in Used' : t \in Used /\ key'[t] = key[t] /\ key[t] # k
        BY <4>1, <4>2, <3>2, <1>0, SlotOfKey DEF TypeOK, Used
      <4>4. StoredKeys' = StoredKeys \ {k}
        BY <4>1, <4>2, <4>3 DEF StoredKeys
      <4>5. ASSUME NEW j \in StoredKeys \ {k}
            PROVE  MapOf'[j] = MapOf[j]
        <5>1. PICK t \in Used' : key'[t] = j
          BY <4>4, <1>1 DEF MapIs
        <5>. QED
          BY <5>1, <4>3, <3>2, <1>0, <1>1 DEF MapIs
      <4>. QED
        BY <3>2, <4>1, <4>4, <4>5, <1>1 DEF MapIs
    <3>. QED
      BY <3>1, <3>2, <1>6 DEF Erase
  <2>. QED
    BY <2>1 DEF Map!Erase, Map!Stored, MapOf, StoredKeys
<1>7. CASE UNCHANGED vars
  BY <1>2, <1>7 DEF vars
<1>. QED
  BY <1>3, <1>4, <1>5, <1>6, <1>7 DEF Next, Map!Next

----------------------------------------------------------------------------
(* Theorems                                                                 *)

\* The inductive invariant of the table.
THEOREM TableSound == Spec => []Inv
<1>1. Init => Inv
  BY InitInv
<1>2. Inv /\ [Next]_vars => Inv'
  BY NextInv
<1>. QED
  BY <1>1, <1>2, PTL DEF Spec

\* For every capacity, keys, values and count_ keep their types, and the load
\* limit holds.
THEOREM TableTypeCorrect == Spec => []TypeOK
<1>1. Inv => TypeOK
  BY DEF Inv
<1>. QED
  BY <1>1, TableSound, PTL

\* However many keys were erased in between, find reaches every stored key,
\* and no key is stored twice.
THEOREM NoKeyLost == Spec => []StoredKeysFound
<1>1. Inv => StoredKeysFound
  BY DEF Inv
<1>. QED
  BY <1>1, TableSound, PTL

\* count_ is the number of stored keys.
THEOREM CountCorrect == Spec => []CountExact
<1>1. Inv => CountExact
  BY DEF Inv
<1>. QED
  BY <1>1, TableSound, PTL

\* The table implements the bounded map: every call returns what the map
\* returns, and insert refuses only reserved keys and a full map.
THEOREM TableIsMap == Spec => ImplementsBoundedMap
<1>1. Init => Map!Init
  BY MapInit
<1>2. Inv /\ [Next]_vars => [Map!Next]_<<MapOf, ret>>
  BY MapStep
<1>3. [Map!Next]_<<MapOf, ret>> =>
        [Map!Next]_<<[k \in {key[s] : s \in Used} |-> value[SlotOf(k)]], ret>>
  BY DEF MapOf, StoredKeys
<1>. QED
  BY <1>1, <1>2, <1>3, TableSound, PTL DEF Spec, ImplementsBoundedMap, Map!Spec
=============================================================================
