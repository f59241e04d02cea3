------------------------- MODULE EngineMemory_proofs -------------------------
(****************************************************************************)
(* Proofs about EngineMemory.tla, for every set of pools, every             *)
(* configuration and every number of threads.                               *)
(****************************************************************************)
EXTENDS EngineMemory, FiniteSetTheorems, TLAPS

(* The inductive invariant: TypeOK in two parts, one of the pools and one   *)
(* of the guard, the partition, and what makes a validation worth having.   *)

PoolTypes ==
    /\ gen \in Nat
    /\ size \in [Pools -> Nat] /\ exhausted \in [Pools -> Nat]
    /\ top \in [Pools -> Nat] /\ \A p \in Pools : top[p] <= size[p]
    /\ list = [p \in Pools |-> list[p]]
    /\ \A p \in Pools : list[p] \in [1 .. size[p] -> Storage(p)]
    /\ held \subseteq Pointers

ShownTypes ==
    /\ valid \in {"none", "passed", "failed"}
    /\ startup \in [capacity : [Pools -> Nat], passed : BOOLEAN]
    /\ figures = << >> \/ DOMAIN figures = Pools

GuardTypes ==
    /\ guard \in {"closed", "opening", "open"} /\ running = (guard = "open")
    /\ stale \subseteq Threads
    /\ count \in Nat /\ due \in Nat /\ strays \in Nat
    /\ adding \in [Threads -> {"no", "current", "earlier"}]

PassedPools == valid = "passed" => \A p \in Pools : size[p] > 0

PoolInv  == PoolTypes /\ SlotsPartitioned
ShownInv == ShownTypes /\ PassedPools /\ PublishedStartupTrue
GuardInv == GuardTypes /\ GuardCountsItsOwn

LEMMA TypesSplit == TypeOK <=> PoolTypes /\ ShownTypes /\ GuardTypes
BY DEF TypeOK, PoolTypes, ShownTypes, GuardTypes

----------------------------------------------------------------------------
(* Counting                                                                 *)

LEMMA StorageCard ==
    ASSUME NEW p, NEW g, NEW n \in Nat
    PROVE  LET S == {p} \X {g} \X (1 .. n)
           IN  IsFiniteSet(S) /\ Cardinality(S) = n
<1>. DEFINE S == {p} \X {g} \X (1 .. n)
            f == [i \in 1 .. n |-> <<p, g, i>>]
<1>1. IsFiniteSet(1 .. n) /\ Cardinality(1 .. n) = n
  <2>1. IsFiniteSet(1 .. n) /\ Cardinality(1 .. n) = IF 1 > n THEN 0 ELSE n - 1 + 1
    BY FS_Interval
  <2>. QED
    BY <2>1
<1>2. f \in Bijection(1 .. n, S)
  <2>1. f \in [1 .. n -> S]
    OBVIOUS
  <2>2. \A i, j \in 1 .. n : f[i] = f[j] => i = j
    OBVIOUS
  <2>3. \A s \in S : \E i \in 1 .. n : f[i] = s
    <3>1. TAKE s \in S
    <3>2. s[3] \in 1 .. n /\ s = <<p, g, s[3]>>
      BY <3>1
    <3>. QED
      BY <3>2
  <2>. HIDE DEF f, S
  <2>. QED
    BY <2>1, <2>2, <2>3 DEF Bijection, Injection, Surjection, IsInjective
<1>. QED
  BY <1>1, <1>2, FS_Bijection DEF ExistsBijection

LEMMA HeldFinite ==
    ASSUME PoolInv, NEW p \in Pools
    PROVE  IsFiniteSet(HeldOf(p))
<1>1. size[p] \in Nat
  BY DEF PoolInv, PoolTypes
<1>2. IsFiniteSet(Storage(p))
  BY <1>1, StorageCard DEF Storage
<1>3. HeldOf(p) \in SUBSET Storage(p)
  BY DEF PoolInv, SlotsPartitioned
<1>. QED
  BY <1>2, <1>3, FS_Subset

----------------------------------------------------------------------------
(* The pools                                                                *)

LEMMA PoolsAtInit == Init => PoolInv
<1>. SUFFICES ASSUME Init PROVE PoolInv
  OBVIOUS
<1>1. PoolTypes
  BY DEF Init, PoolTypes, Filled, Storage, Pointers
<1>2. SlotsPartitioned
  <2>. SUFFICES ASSUME NEW p \in Pools
                PROVE  /\ \A i, j \in 1 .. top[p] : list[p][i] = list[p][j] => i = j
                       /\ FreeOf(p) \cap HeldOf(p) = {}
                       /\ FreeOf(p) \cup HeldOf(p) = Storage(p)
                       /\ Cardinality(HeldOf(p)) = size[p] - top[p]
    BY DEF SlotsPartitioned
  <2>1. top[p] = 0 /\ size[p] = 0 /\ held = {}
    BY DEF Init
  <2>2. FreeOf(p) = {} /\ HeldOf(p) = {} /\ Storage(p) = {}
    BY <2>1 DEF FreeOf, HeldOf, Storage
  <2>. QED
    BY <2>1, <2>2, FS_EmptySet
<1>. QED
  BY <1>1, <1>2 DEF PoolInv

LEMMA PoolsKept == PoolInv /\ UNCHANGED <<gen, size, list, top, exhausted, held>> => PoolInv'
<1>. SUFFICES ASSUME PoolInv, UNCHANGED <<gen, size, list, top, exhausted, held>>
              PROVE  PoolInv'
  OBVIOUS
<1>1. /\ \A p : FreeOf(p)' = FreeOf(p) /\ HeldOf(p)' = HeldOf(p)
      /\ \A p : Storage(p)' = Storage(p)
  BY DEF FreeOf, HeldOf, Storage
<1>2. PoolTypes'
  BY <1>1 DEF PoolInv, PoolTypes
<1>3. SlotsPartitioned'
  BY <1>1 DEF PoolInv, SlotsPartitioned
<1>. QED
  BY <1>2, <1>3 DEF PoolInv

LEMMA StartPools == ASSUME PoolInv, NEW sizes \in Configs, Start(sizes) PROVE PoolInv'
<1>1. sizes \in [Pools -> Nat] /\ gen \in Nat
  BY MemoryAssumption DEF PoolInv, PoolTypes
<1>2. /\ gen' = gen + 1 /\ size' = sizes /\ top' = sizes /\ held' = {}
      /\ list' = [p \in Pools |-> [i \in 1 .. sizes[p] |-> <<p, gen + 1, i>>]]
      /\ exhausted' = [p \in Pools |-> 0]
  BY DEF Start, Filled
<1>3. PoolTypes'
  <2>1. ASSUME NEW p \in Pools
        PROVE  list'[p] \in [1 .. size'[p] -> Storage(p)']
    BY <1>1, <1>2 DEF Storage
  <2>2. \A p \in Pools : top'[p] <= size'[p]
    BY <1>1, <1>2
  <2>. QED
    BY <1>1, <1>2, <2>1, <2>2 DEF PoolTypes
<1>4. SlotsPartitioned'
  <2>. SUFFICES ASSUME NEW p \in Pools
                PROVE  (/\ \A i, j \in 1 .. top[p] : list[p][i] = list[p][j] => i = j
                        /\ FreeOf(p) \cap HeldOf(p) = {}
                        /\ FreeOf(p) \cup HeldOf(p) = Storage(p)
                        /\ Cardinality(HeldOf(p)) = size[p] - top[p])'
    BY DEF SlotsPartitioned
  <2>1. (\A i, j \in 1 .. top[p] : list[p][i] = list[p][j] => i = j)'
    BY <1>1, <1>2
  <2>2. HeldOf(p)' = {}
    BY <1>2 DEF HeldOf
  <2>3. FreeOf(p)' = Storage(p)'
    BY <1>1, <1>2 DEF FreeOf, Storage
  <2>4. Cardinality(HeldOf(p)') = size'[p] - top'[p]
    BY <1>1, <1>2, <2>2, FS_EmptySet
  <2>. QED
    BY <2>1, <2>2, <2>3, <2>4
<1>. QED
  BY <1>3, <1>4 DEF PoolInv

LEMMA AllocatePools == ASSUME PoolInv, NEW p \in Pools, Allocate(p) PROVE PoolInv'
<1>. DEFINE ptr == list[p][top[p]]
<1>1. /\ top[p] \in Nat /\ top[p] >= 1 /\ top[p] <= size[p] /\ size[p] \in Nat
      /\ top' = [top EXCEPT ![p] = top[p] - 1]
      /\ held' = held \cup {ptr}
      /\ UNCHANGED <<gen, size, list, exhausted>>
  BY DEF PoolInv, PoolTypes, Allocate
<1>2. ptr \in Storage(p) /\ ptr \in FreeOf(p) /\ ptr \notin HeldOf(p)
  <2>1. top[p] \in 1 .. size[p] /\ top[p] \in 1 .. top[p]
    BY <1>1
  <2>2. list[p] \in [1 .. size[p] -> Storage(p)]
    BY DEF PoolInv, PoolTypes
  <2>. QED
    BY <2>1, <2>2 DEF PoolInv, SlotsPartitioned, FreeOf
<1>3. ptr \in Pointers /\ ptr[1] = p
  BY <1>1, <1>2 DEF Storage, Pointers, PoolInv, PoolTypes
<1>4. \A q : Storage(q)' = Storage(q)
  BY <1>1 DEF Storage
<1>5. PoolTypes'
  <2>1. top' \in [Pools -> Nat] /\ \A q \in Pools : top'[q] <= size[q]
    BY <1>1 DEF PoolInv, PoolTypes
  <2>. QED
    BY <1>1, <1>3, <1>4, <2>1 DEF PoolInv, PoolTypes
<1>6. ASSUME NEW q \in Pools, q # p
      PROVE  /\ top'[q] = top[q] /\ HeldOf(q)' = HeldOf(q) /\ FreeOf(q)' = FreeOf(q)
  BY <1>1, <1>3, <1>6 DEF HeldOf, FreeOf, PoolInv, PoolTypes
<1>7. top'[p] = top[p] - 1 /\ HeldOf(p)' = HeldOf(p) \cup {ptr}
  BY <1>1, <1>3 DEF HeldOf, PoolInv, PoolTypes
<1>8. FreeOf(p)' = FreeOf(p) \ {ptr}
  <2>1. FreeOf(p)' = {list[p][i] : i \in 1 .. (top[p] - 1)}
    BY <1>1, <1>7 DEF FreeOf
  <2>2. 1 .. top[p] = (1 .. (top[p] - 1)) \cup {top[p]}
    BY <1>1
  <2>3. \A i \in 1 .. (top[p] - 1) : list[p][i] # ptr
    <3>1. \A i \in 1 .. (top[p] - 1) : i \in 1 .. top[p] /\ top[p] \in 1 .. top[p] /\ i # top[p]
      BY <1>1
    <3>. QED
      BY <3>1 DEF PoolInv, SlotsPartitioned
  <2>. QED
    BY <2>1, <2>2, <2>3 DEF FreeOf
<1>9. Cardinality(HeldOf(p) \cup {ptr}) = size[p] - (top[p] - 1)
  <2>1. Cardinality(HeldOf(p)) = size[p] - top[p]
    BY DEF PoolInv, SlotsPartitioned
  <2>2. Cardinality(HeldOf(p) \cup {ptr}) = Cardinality(HeldOf(p)) + 1
    BY <1>2, HeldFinite, FS_AddElement
  <2>. QED
    BY <1>1, <2>1, <2>2
<1>10. SlotsPartitioned'
  <2>. SUFFICES ASSUME NEW q \in Pools
                PROVE  (/\ \A i, j \in 1 .. top[q] : list[q][i] = list[q][j] => i = j
                        /\ FreeOf(q) \cap HeldOf(q) = {}
                        /\ FreeOf(q) \cup HeldOf(q) = Storage(q)
                        /\ Cardinality(HeldOf(q)) = size[q] - top[q])'
    BY DEF SlotsPartitioned
  <2>1. CASE q = p
    <3>1. (\A i, j \in 1 .. top[p] : list[p][i] = list[p][j] => i = j)'
      <4>1. \A i \in 1 .. (top[p] - 1) : i \in 1 .. top[p]
        BY <1>1
      <4>. QED
        BY <1>1, <1>7, <4>1 DEF PoolInv, SlotsPartitioned
    <3>2. /\ (FreeOf(p) \ {ptr}) \cap (HeldOf(p) \cup {ptr}) = {}
          /\ (FreeOf(p) \ {ptr}) \cup (HeldOf(p) \cup {ptr}) = Storage(p)
      BY <1>2 DEF PoolInv, SlotsPartitioned
    <3>. QED
      BY <1>1, <1>4, <1>7, <1>8, <1>9, <2>1, <3>1, <3>2
  <2>2. CASE q # p
    BY <1>1, <1>4, <1>6, <2>2 DEF PoolInv, SlotsPartitioned
  <2>. QED
    BY <2>1, <2>2
<1>. QED
  BY <1>5, <1>10 DEF PoolInv

LEMMA ReleasePools == ASSUME PoolInv, NEW p \in Pools, NEW ptr \in held, Release(p, ptr) PROVE PoolInv'
<1>1. ptr \in HeldOf(p) /\ ptr[1] = p
  BY DEF Release, HeldOf
<1>2. /\ ptr \notin FreeOf(p) /\ ptr \in Storage(p)
      /\ Cardinality(HeldOf(p)) = size[p] - top[p]
  BY <1>1 DEF PoolInv, SlotsPartitioned
<1>3. top[p] \in Nat /\ size[p] \in Nat /\ top[p] < size[p]
  <2>1. top[p] \in Nat /\ size[p] \in Nat /\ top[p] <= size[p]
    BY DEF PoolInv, PoolTypes
  <2>2. Cardinality(HeldOf(p)) # 0
    BY <1>1, HeldFinite, FS_EmptySet
  <2>. QED
    BY <1>2, <2>1, <2>2
<1>4. /\ list' = [list EXCEPT ![p] = [list[p] EXCEPT ![top[p] + 1] = ptr]]
      /\ top' = [top EXCEPT ![p] = top[p] + 1]
      /\ held' = held \ {ptr}
      /\ UNCHANGED <<gen, size, exhausted>>
  BY DEF Release
<1>5. \A q : Storage(q)' = Storage(q)
  BY <1>4 DEF Storage
<1>6. ASSUME NEW q \in Pools, q # p
      PROVE  /\ top'[q] = top[q] /\ list'[q] = list[q]
             /\ HeldOf(q)' = HeldOf(q) /\ FreeOf(q)' = FreeOf(q)
  <2>1. top'[q] = top[q] /\ list'[q] = list[q]
    BY <1>4, <1>6 DEF PoolInv, PoolTypes
  <2>. QED
    BY <1>1, <1>4, <1>6, <2>1 DEF HeldOf, FreeOf
<1>7. /\ top'[p] = top[p] + 1
      /\ list'[p] = [list[p] EXCEPT ![top[p] + 1] = ptr]
      /\ list[p] \in [1 .. size[p] -> Storage(p)]
      /\ top[p] + 1 \in 1 .. size[p]
  <2>1. top[p] + 1 \in 1 .. size[p]
    BY <1>3
  <2>2. top \in [Pools -> Nat] /\ list = [q \in Pools |-> list[q]]
        /\ list[p] \in [1 .. size[p] -> Storage(p)]
    BY DEF PoolInv, PoolTypes
  <2>3. top'[p] = top[p] + 1
    BY <1>4, <2>2
  <2>4. list'[p] = [list[p] EXCEPT ![top[p] + 1] = ptr]
    BY <1>4, <2>2
  <2>. QED
    BY <2>1, <2>2, <2>3, <2>4
<1>8. /\ list'[p][top[p] + 1] = ptr
      /\ \A i \in 1 .. top[p] : list'[p][i] = list[p][i]
      /\ list'[p] \in [1 .. size[p] -> Storage(p)]
  <2>1. \A i \in 1 .. top[p] : i \in 1 .. size[p] /\ i # top[p] + 1
    BY <1>3
  <2>. QED
    BY <1>2, <1>7, <2>1
<1>9. PoolTypes'
  <2>1. top' \in [Pools -> Nat] /\ \A q \in Pools : top'[q] <= size[q]
    BY <1>3, <1>4, <1>6, <1>7 DEF PoolInv, PoolTypes
  <2>2. \A q \in Pools : list'[q] \in [1 .. size[q] -> Storage(q)]
    BY <1>6, <1>8 DEF PoolInv, PoolTypes
  <2>3. list' = [q \in Pools |-> list'[q]]
    BY <1>4 DEF PoolInv, PoolTypes
  <2>. QED
    BY <1>4, <1>5, <2>1, <2>2, <2>3 DEF PoolInv, PoolTypes
<1>10. HeldOf(p)' = HeldOf(p) \ {ptr}
  BY <1>4 DEF HeldOf
<1>11. FreeOf(p)' = FreeOf(p) \cup {ptr}
  <2>1. 1 .. (top[p] + 1) = (1 .. top[p]) \cup {top[p] + 1}
    BY <1>3
  <2>2. FreeOf(p)' = {list'[p][i] : i \in 1 .. (top[p] + 1)}
    BY <1>7 DEF FreeOf
  <2>. QED
    BY <1>8, <2>1, <2>2 DEF FreeOf
<1>12. Cardinality(HeldOf(p) \ {ptr}) = size[p] - (top[p] + 1)
  <2>1. Cardinality(HeldOf(p) \ {ptr}) = Cardinality(HeldOf(p)) - 1
    BY <1>1, HeldFinite, FS_RemoveElement
  <2>. QED
    BY <1>2, <1>3, <2>1
<1>13. SlotsPartitioned'
  <2>. SUFFICES ASSUME NEW q \in Pools
                PROVE  (/\ \A i, j \in 1 .. top[q] : list[q][i] = list[q][j] => i = j
                        /\ FreeOf(q) \cap HeldOf(q) = {}
                        /\ FreeOf(q) \cup HeldOf(q) = Storage(q)
                        /\ Cardinality(HeldOf(q)) = size[q] - top[q])'
    BY DEF SlotsPartitioned
  <2>1. CASE q = p
    <3>1. ASSUME NEW i \in 1 .. (top[p] + 1), NEW j \in 1 .. (top[p] + 1),
                 list'[p][i] = list'[p][j]
          PROVE  i = j
      <4>1. (i \in 1 .. top[p] \/ i = top[p] + 1) /\ (j \in 1 .. top[p] \/ j = top[p] + 1)
        BY <1>3
      <4>2. \A k \in 1 .. top[p] : list'[p][k] \in FreeOf(p)
        BY <1>8 DEF FreeOf
      <4>. QED
        BY <1>2, <1>8, <3>1, <4>1, <4>2 DEF PoolInv, SlotsPartitioned
    <3>2. (\A i, j \in 1 .. top[p] : list[p][i] = list[p][j] => i = j)'
      BY <1>7, <3>1
    <3>3. /\ (FreeOf(p) \cup {ptr}) \cap (HeldOf(p) \ {ptr}) = {}
          /\ (FreeOf(p) \cup {ptr}) \cup (HeldOf(p) \ {ptr}) = Storage(p)
      BY <1>1, <1>2 DEF PoolInv, SlotsPartitioned
    <3>. QED
      BY <1>4, <1>5, <1>7, <1>10, <1>11, <1>12, <2>1, <3>2, <3>3
  <2>2. CASE q # p
    BY <1>4, <1>5, <1>6, <2>2 DEF PoolInv, SlotsPartitioned
  <2>. QED
    BY <2>1, <2>2
<1>. QED
  BY <1>9, <1>13 DEF PoolInv

----------------------------------------------------------------------------
(* What is shown of the pools                                               *)

LEMMA ShownStep == ASSUME PoolInv, ShownInv, Next PROVE ShownInv'
<1>. USE DEF ShownInv
<1>1. \A sizes \in Configs : Start(sizes) => ShownInv'
  BY DEF Start, ShownTypes, PassedPools, PublishedStartupTrue, snapVars
<1>2. Validate => ShownInv'
  <2>. SUFFICES ASSUME Validate PROVE ShownInv'
    OBVIOUS
  <2>1. PassedPools'
    BY DEF Validate, PoolsPass, PassedPools, PoolInv, PoolTypes
  <2>. QED
    BY <2>1 DEF Validate, ShownTypes, PublishedStartupTrue, snapVars
<1>3. UpdateStartup => ShownInv'
  <2>. SUFFICES ASSUME UpdateStartup PROVE ShownInv'
    OBVIOUS
  <2>1. /\ UNCHANGED <<size, valid, figures>> /\ size \in [Pools -> Nat]
        /\ startup' = [capacity |-> size, passed |-> valid = "passed"]
    BY DEF UpdateStartup, poolVars, PoolInv, PoolTypes
  <2>2. startup' \in [capacity : [Pools -> Nat], passed : BOOLEAN]
    BY <2>1
  <2>3. startup'.passed => \A p \in Pools : startup'.capacity[p] > 0
    BY <2>1 DEF PassedPools
  <2>. QED
    BY <2>1, <2>2, <2>3 DEF ShownTypes, PassedPools, PublishedStartupTrue
<1>4. \A growth : UpdatePools(growth) => ShownInv'
  BY DEF UpdatePools, ShownTypes, PassedPools, PublishedStartupTrue, poolVars
<1>5. ASSUME UNCHANGED <<size, valid, snapVars>> PROVE ShownInv'
  BY <1>5 DEF ShownTypes, PassedPools, PublishedStartupTrue, snapVars
<1>6. \A p \in Pools : Allocate(p) \/ Refuse(p) => ShownInv'
  BY <1>5 DEF Allocate, Refuse
<1>7. \A p \in Pools : \A ptr \in held : Release(p, ptr) => ShownInv'
  BY <1>5 DEF Release
<1>8. OpenReset \/ OpenRun \/ Close => ShownInv'
  BY <1>5 DEF OpenReset, OpenRun, Close, poolVars
<1>9. \A t \in Threads : NewLoad(t) \/ NewMiss(t) \/ NewAdd(t) => ShownInv'
  BY <1>5 DEF NewLoad, NewMiss, NewAdd, poolVars
<1>. QED
  BY <1>1, <1>2, <1>3, <1>4, <1>6, <1>7, <1>8, <1>9 DEF Next

----------------------------------------------------------------------------
(* The guard                                                                *)

Adding == {t \in Threads : adding[t] = "current"}

LEMMA AddingFinite == IsFiniteSet(Adding) /\ Cardinality(Adding) \in Nat
<1>1. Adding \in SUBSET Threads /\ IsFiniteSet(Threads)
  BY MemoryAssumption DEF Adding
<1>. QED
  BY <1>1, FS_Subset, FS_CardinalityType

LEMMA GuardKept == ASSUME GuardInv, UNCHANGED guardVars PROVE GuardInv'
BY DEF GuardInv, GuardTypes, GuardCountsItsOwn, guardVars

LEMMA GuardStep == ASSUME GuardInv, Next PROVE GuardInv'
<1>1. GuardTypes /\ count + Cardinality(Adding) = due + strays
  BY DEF GuardInv, GuardCountsItsOwn, Adding
<1>2. count \in Nat /\ due \in Nat /\ strays \in Nat /\ Cardinality(Adding) \in Nat
  BY <1>1, AddingFinite DEF GuardTypes
<1>3. ASSUME NEW growth \in 1 .. Cardinality(Pools), UpdatePools(growth) PROVE GuardInv'
  <2>1. growth \in Nat
    <3>1. Cardinality(Pools) \in Nat
      BY MemoryAssumption, FS_CardinalityType
    <3>. QED
      BY <3>1
  <2>2. UNCHANGED <<guard, running, stale, adding, strays>>
    BY <1>3 DEF UpdatePools
  <2>3. Adding' = Adding
    BY <2>2 DEF Adding
  <2>4. CASE running /\ figures = << >>
    <3>1. due' = due + growth /\ count' = count + growth
      BY <1>3, <2>4 DEF UpdatePools
    <3>2. count' + Cardinality(Adding) = due' + strays
      BY <1>1, <1>2, <2>1, <3>1
    <3>3. count' \in Nat /\ due' \in Nat
      BY <1>2, <2>1, <3>1
    <3>. QED
      BY <1>1, <2>2, <2>3, <3>2, <3>3 DEF GuardInv, GuardTypes, GuardCountsItsOwn, Adding
  <2>5. CASE ~(running /\ figures = << >>)
    <3>1. UNCHANGED guardVars
      BY <1>3, <2>2, <2>5 DEF UpdatePools, guardVars
    <3>. QED
      BY <3>1, GuardKept
  <2>. QED
    BY <2>4, <2>5
<1>4. ASSUME OpenReset PROVE GuardInv'
  <2>1. Adding' = {}
    BY <1>4 DEF OpenReset, Adding
  <2>2. Cardinality(Adding') = 0
    BY <2>1, FS_EmptySet
  <2>. QED
    BY <1>1, <1>4, <2>2 DEF OpenReset, GuardInv, GuardTypes, GuardCountsItsOwn, Adding
<1>5. ASSUME OpenRun \/ Close PROVE GuardInv'
  BY <1>1, <1>5 DEF OpenRun, Close, GuardInv, GuardTypes, GuardCountsItsOwn, Adding
<1>6. ASSUME NEW t \in Threads, NewLoad(t) PROVE GuardInv'
  <2>1. CASE guard = "opening"
    <3>1. Adding' = Adding
      BY <1>1, <1>6, <2>1 DEF NewLoad, Adding, GuardTypes
    <3>2. UNCHANGED <<guard, running, stale, count, due, strays>>
      BY <1>6, <2>1 DEF NewLoad
    <3>3. GuardTypes'
      BY <1>1, <1>6, <3>2 DEF NewLoad, GuardTypes
    <3>. QED
      BY <1>1, <3>1, <3>2, <3>3 DEF GuardInv, GuardCountsItsOwn, Adding
  <2>2. CASE guard # "opening"
    <3>1. Adding' = Adding \cup {t} /\ t \notin Adding
      BY <1>1, <1>6, <2>2 DEF NewLoad, Adding, GuardTypes
    <3>2. Cardinality(Adding') = Cardinality(Adding) + 1
      BY <3>1, AddingFinite, FS_AddElement
    <3>3. count' + Cardinality(Adding') = due' + strays' /\ due' \in Nat
      BY <1>1, <1>2, <1>6, <2>2, <3>2 DEF NewLoad
    <3>4. GuardTypes'
      BY <1>1, <1>6, <3>3 DEF NewLoad, GuardTypes
    <3>. QED
      BY <3>3, <3>4 DEF GuardInv, GuardCountsItsOwn, Adding
  <2>. QED
    BY <2>1, <2>2
<1>7. ASSUME NEW t \in Threads, NewAdd(t) PROVE GuardInv'
  <2>1. Adding' = Adding \ {t} /\ (t \in Adding <=> adding[t] # "earlier")
    BY <1>1, <1>7 DEF NewAdd, Adding, GuardTypes
  <2>2. Cardinality(Adding') = IF adding[t] = "earlier" THEN Cardinality(Adding) ELSE Cardinality(Adding) - 1
    BY <2>1, AddingFinite, FS_RemoveElement
  <2>3. count' + Cardinality(Adding') = due' + strays' /\ count' \in Nat /\ strays' \in Nat
    BY <1>1, <1>2, <1>7, <2>2 DEF NewAdd
  <2>4. GuardTypes'
    BY <1>1, <1>7, <2>3 DEF NewAdd, GuardTypes
  <2>. QED
    BY <2>3, <2>4 DEF GuardInv, GuardCountsItsOwn, Adding
<1>12. \A t \in Threads : NewMiss(t) => GuardInv'
  BY <1>1 DEF NewMiss, GuardInv, GuardTypes, GuardCountsItsOwn
<1>8. \A sizes \in Configs : Start(sizes) => GuardInv'
  BY GuardKept DEF Start
<1>9. Validate \/ UpdateStartup => GuardInv'
  BY GuardKept DEF Validate, UpdateStartup
<1>10. \A p \in Pools : Allocate(p) \/ Refuse(p) => GuardInv'
  BY GuardKept DEF Allocate, Refuse
<1>11. \A p \in Pools : \A ptr \in held : Release(p, ptr) => GuardInv'
  BY GuardKept DEF Release
<1>. QED
  BY <1>3, <1>4, <1>5, <1>6, <1>7, <1>8, <1>9, <1>10, <1>11, <1>12 DEF Next

----------------------------------------------------------------------------
(* Every step keeps the invariant of the pools.                             *)

LEMMA PoolStep == ASSUME PoolInv, Next PROVE PoolInv'
<1>1. \A sizes \in Configs : Start(sizes) => PoolInv'
  BY StartPools
<1>2. \A p \in Pools : Allocate(p) => PoolInv'
  BY AllocatePools
<1>3. \A p \in Pools : \A ptr \in held : Release(p, ptr) => PoolInv'
  BY ReleasePools
<1>4. \A p \in Pools : Refuse(p) => PoolInv'
  <2>. SUFFICES ASSUME NEW p \in Pools, Refuse(p) PROVE PoolInv'
    OBVIOUS
  <2>1. /\ UNCHANGED <<gen, size, list, top, held>>
        /\ exhausted' = [exhausted EXCEPT ![p] = exhausted[p] + 1]
    BY DEF Refuse
  <2>2. exhausted' \in [Pools -> Nat]
    BY <2>1 DEF PoolInv, PoolTypes
  <2>3. /\ \A q : FreeOf(q)' = FreeOf(q) /\ HeldOf(q)' = HeldOf(q)
        /\ \A q : Storage(q)' = Storage(q)
    BY <2>1 DEF FreeOf, HeldOf, Storage
  <2>. QED
    BY <2>1, <2>2, <2>3 DEF PoolInv, PoolTypes, SlotsPartitioned
<1>5. Validate \/ UpdateStartup \/ OpenReset \/ OpenRun \/ Close => PoolInv'
  BY PoolsKept DEF Validate, UpdateStartup, OpenReset, OpenRun, Close, poolVars
<1>6. \A growth : UpdatePools(growth) => PoolInv'
  BY PoolsKept DEF UpdatePools, poolVars
<1>7. \A t \in Threads : NewLoad(t) \/ NewMiss(t) \/ NewAdd(t) => PoolInv'
  BY PoolsKept DEF NewLoad, NewMiss, NewAdd, poolVars
<1>. QED
  BY <1>1, <1>2, <1>3, <1>4, <1>5, <1>6, <1>7 DEF Next

----------------------------------------------------------------------------
IInv == PoolInv /\ ShownInv /\ GuardInv

LEMMA Initially == Init => IInv
<1>. SUFFICES ASSUME Init PROVE IInv
  OBVIOUS
<1>1. ShownInv
  BY DEF Init, ShownInv, ShownTypes, PassedPools, PublishedStartupTrue
<1>2. {t \in Threads : adding[t] = "current"} = {}
  BY DEF Init
<1>3. GuardInv
  BY <1>2, FS_EmptySet DEF Init, GuardInv, GuardTypes, GuardCountsItsOwn
<1>. QED
  BY <1>1, <1>3, PoolsAtInit DEF IInv

LEMMA Inductive == IInv /\ [Next]_vars => IInv'
<1>1. ASSUME IInv, Next PROVE IInv'
  BY <1>1, PoolStep, ShownStep, GuardStep DEF IInv
<1>2. ASSUME IInv, UNCHANGED vars PROVE IInv'
  <2>1. UNCHANGED <<gen, size, list, top, exhausted, held, valid, snapVars, guardVars>>
    BY <1>2 DEF vars, poolVars
  <2>2. ShownInv'
    BY <1>2, <2>1 DEF IInv, ShownInv, ShownTypes, PassedPools, PublishedStartupTrue, snapVars
  <2>. QED
    BY <1>2, <2>1, <2>2, PoolsKept, GuardKept DEF IInv
<1>. QED
  BY <1>1, <1>2

\* The invariant the theorems below are read off from holds in every state.
THEOREM MemorySound == Spec => []IInv
BY Initially, Inductive, PTL DEF Spec

\* The state has its types; release() never finds its stack full.
THEOREM MemoryTypeCorrect == Spec => []TypeOK
<1>1. IInv => TypeOK
  BY TypesSplit DEF IInv, PoolInv, ShownInv, GuardInv
<1>. QED
  BY <1>1, MemorySound, PTL

\* No pool hands out a slot that is out already, and none is lost.
THEOREM NoSlotTwice == Spec => []SlotsPartitioned
<1>1. IInv => SlotsPartitioned
  BY DEF IInv, PoolInv
<1>. QED
  BY <1>1, MemorySound, PTL

\* A validated pool refuses only while its slots are in use.
THEOREM ValidationHolds == Spec => []ValidatedPoolsServe
<1>1. IInv => ValidatedPoolsServe
  <2>. SUFFICES ASSUME IInv, valid = "passed", NEW p \in Pools, top[p] = 0
                PROVE  HeldOf(p) # {}
    BY DEF ValidatedPoolsServe
  <2>1. size[p] > 0 /\ size[p] \in Nat
    BY DEF IInv, ShownInv, PassedPools, PoolInv, PoolTypes
  <2>2. Cardinality(HeldOf(p)) = size[p] - 0
    BY DEF IInv, PoolInv, SlotsPartitioned
  <2>. QED
    BY <2>1, <2>2, FS_EmptySet
<1>. QED
  BY <1>1, MemorySound, PTL

\* A startup section that shows a passed validation shows no empty pool.
THEOREM StartupShownTrue == Spec => []PublishedStartupTrue
<1>1. IInv => PublishedStartupTrue
  BY DEF IInv, ShownInv
<1>. QED
  BY <1>1, MemorySound, PTL

\* A guard counts the allocations that found it running, and no other but
\* those that found an earlier one and were late to count.
THEOREM GuardCountsExact == Spec => []GuardCountsItsOwn
<1>1. IInv => GuardCountsItsOwn
  BY DEF IInv, GuardInv
<1>. QED
  BY <1>1, MemorySound, PTL
=============================================================================
