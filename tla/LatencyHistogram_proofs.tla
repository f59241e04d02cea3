----------------------- MODULE LatencyHistogram_proofs -----------------------
(****************************************************************************)
(* Proofs about the maximum and the percentiles of LatencyHistogram.tla,    *)
(* for every set of threads and samples, and any number of buckets.         *)
(****************************************************************************)
EXTENDS LatencyHistogram, FiniteSetTheorems, TLAPS

(* The inductive invariant.  What a thread knows of max_ is a value it had, *)
(* and a call that has not returned has been counted in the history.        *)

RecordTypes ==
    /\ at \in [Threads -> {"idle", "total", "load", "swap"}]
    /\ ns \in [Threads -> Nat] /\ cur \in [Threads -> Nat]
    /\ \A t \in Threads : at[t] # "idle" => ns[t] \in Samples
    /\ recorded \in [Samples -> Nat]

MaxTypes ==
    /\ maxes \subseteq Nat
    /\ MaxNs \in maxes /\ \A m \in maxes : m <= MaxNs
    /\ \A t \in Threads : cur[t] \in maxes

PendingRecorded == \A s \in Samples : Cardinality(Pending(s)) <= recorded[s]

IInv == RecordTypes /\ MaxTypes /\ PendingRecorded /\ MaxExact

JoinedIdle == joined => \A t \in Threads : at[t] = "idle"

-----------------------------------------------------------------------------
(* Samples are natural numbers. *)
LEMMA SamplesNat == Samples \subseteq Nat
  BY HistogramAssumption

(* A set's maximum is what Max says. *)
LEMMA MaxIs ==
  ASSUME NEW S \in SUBSET Nat, NEW x \in S, \A y \in S : y <= x
  PROVE  Max(S) = x
<1>1. \A y \in S : x >= y
  OBVIOUS
<1>2. Max(S) \in S /\ \A y \in S : Max(S) >= y
  BY <1>1 DEF Max
<1>3. Max(S) <= x /\ x <= Max(S) /\ Max(S) \in Nat /\ x \in Nat
  BY <1>2
<1>. QED
  BY <1>3

(* The calls in progress are finite in number. *)
LEMMA PendingFinite ==
  ASSUME NEW s
  PROVE  IsFiniteSet(Pending(s)) /\ Cardinality(Pending(s)) \in Nat
<1>1. Pending(s) \subseteq Threads
  BY DEF Pending
<1>. QED
  BY <1>1, HistogramAssumption, FS_Subset, FS_CardinalityType

(* Steps that leave alone what the invariant is about. *)
LEMMA RecordFrame ==
  ASSUME IInv, UNCHANGED <<maxes, at, ns, cur, recorded>>
  PROVE  IInv'
  BY DEF IInv, RecordTypes, MaxTypes, PendingRecorded, MaxExact, MaxNs, Pending, Returned

-----------------------------------------------------------------------------
LEMMA InitInv == Init => IInv
<1>. SUFFICES ASSUME Init PROVE IInv
  OBVIOUS
<1>1. RecordTypes
  BY DEF Init, RecordTypes, NoSamples
<1>2. MaxNs = 0
  BY MaxIs DEF Init, MaxNs
<1>3. MaxTypes
  BY <1>2 DEF Init, MaxTypes
<1>4. ASSUME NEW s \in Samples
      PROVE  Cardinality(Pending(s)) = 0 /\ recorded[s] = 0
  <2>1. Pending(s) = {}
    BY DEF Init, Pending
  <2>. QED
    BY <2>1, FS_EmptySet DEF Init, NoSamples
<1>5. PendingRecorded /\ MaxExact
  BY <1>2, <1>4 DEF PendingRecorded, MaxExact, Returned
<1>. QED
  BY <1>1, <1>3, <1>5 DEF IInv

(* A call begins. *)
LEMMA CountBucketInv ==
  ASSUME IInv, NEW t \in Threads, CountBucket(t)
  PROVE  IInv'
<1>1. PICK n \in Samples :
        /\ ns' = [ns EXCEPT ![t] = n]
        /\ recorded' = [recorded EXCEPT ![n] = @ + 1]
  BY DEF CountBucket
<1>2. at[t] = "idle" /\ at' = [at EXCEPT ![t] = "total"] /\ UNCHANGED <<maxes, cur>>
  BY DEF CountBucket, Go
<1>. USE SamplesNat DEF IInv
<1>3. RecordTypes'
  BY <1>1, <1>2 DEF RecordTypes
<1>4. MaxTypes' /\ MaxNs' = MaxNs
  BY <1>2 DEF MaxTypes, MaxNs
<1>5. Pending(n)' = Pending(n) \cup {t} /\ t \notin Pending(n)
  BY <1>1, <1>2 DEF Pending, RecordTypes
<1>6. Cardinality(Pending(n)') = Cardinality(Pending(n)) + 1
  BY <1>5, PendingFinite, FS_AddElement
<1>7. \A s \in Samples \ {n} : Pending(s)' = Pending(s) /\ recorded'[s] = recorded[s]
  BY <1>1, <1>2 DEF Pending, RecordTypes
<1>8. recorded'[n] = recorded[n] + 1 /\ recorded[n] \in Nat
  BY <1>1 DEF RecordTypes
<1>9. PendingRecorded'
  <2>. SUFFICES ASSUME NEW s \in Samples PROVE Cardinality(Pending(s)') <= recorded'[s]
    BY DEF PendingRecorded
  <2>1. CASE s = n
    BY <2>1, <1>6, <1>8, PendingFinite DEF PendingRecorded
  <2>2. CASE s # n
    BY <2>2, <1>7 DEF PendingRecorded
  <2>. QED
    BY <2>1, <2>2
<1>10. ASSUME NEW s \in Samples, Returned(s)' PROVE s <= MaxNs'
  <2>1. Returned(s)
    <3>1. CASE s = n
      BY <3>1, <1>6, <1>8, <1>10, PendingFinite DEF Returned
    <3>2. CASE s # n
      BY <3>2, <1>7, <1>10 DEF Returned
    <3>. QED
      BY <3>1, <3>2
  <2>. QED
    BY <2>1, <1>4 DEF MaxExact
<1>11. MaxNs' # 0 => recorded'[MaxNs'] > 0
  BY <1>1, <1>4 DEF MaxExact, RecordTypes, MaxTypes
<1>. QED
  BY <1>3, <1>4, <1>9, <1>10, <1>11 DEF MaxExact

(* A call goes on without a change of max_: only where it is and what it    *)
(* has seen may differ.                                                     *)
LEMMA GoOnInv ==
  ASSUME IInv, NEW t \in Threads, NEW place \in {"load", "swap"}, at[t] # "idle",
         at' = [at EXCEPT ![t] = place], UNCHANGED <<maxes, ns, recorded>>,
         NEW m \in maxes, cur' = [cur EXCEPT ![t] = m]
  PROVE  IInv'
<1>. USE DEF IInv
<1>1. RecordTypes'
  BY DEF RecordTypes, MaxTypes
<1>2. MaxTypes' /\ MaxNs' = MaxNs
  BY DEF MaxTypes, MaxNs, RecordTypes
<1>3. \A s : Pending(s)' = Pending(s)
  BY DEF Pending, RecordTypes
<1>4. PendingRecorded'
  BY <1>3 DEF PendingRecorded
<1>5. MaxExact'
  BY <1>2, <1>3 DEF MaxExact, Returned
<1>. QED
  BY <1>1, <1>2, <1>4, <1>5

(* A call returns: max_ is at least its sample by now. *)
LEMMA ReturnInv ==
  ASSUME IInv, NEW t \in Threads, at[t] # "idle", at' = [at EXCEPT ![t] = "idle"],
         UNCHANGED <<ns, recorded>>, MaxTypes', cur' \in [Threads -> Nat],
         MaxNs <= MaxNs', ns[t] <= MaxNs', MaxNs' \in {MaxNs, ns[t]}
  PROVE  IInv'
<1>. USE SamplesNat DEF IInv
<1>. DEFINE n == ns[t]
<1>1. n \in Samples /\ n \in Nat
  BY DEF RecordTypes
<1>2. RecordTypes'
  BY DEF RecordTypes
<1>3. Pending(n)' = Pending(n) \ {t} /\ t \in Pending(n)
  BY DEF Pending, RecordTypes
<1>4. Cardinality(Pending(n)') = Cardinality(Pending(n)) - 1
  BY <1>3, PendingFinite, FS_RemoveElement
<1>5. \A s \in Samples \ {n} : Pending(s)' = Pending(s)
  BY DEF Pending, RecordTypes
<1>6. recorded[n] \in Nat /\ Cardinality(Pending(n)) \in Nat
      /\ Cardinality(Pending(n)) >= 1 /\ recorded[n] >= Cardinality(Pending(n))
  <2>1. Pending(n) # {}
    BY <1>3
  <2>. QED
    BY <1>1, <2>1, PendingFinite, FS_EmptySet DEF RecordTypes, PendingRecorded
<1>7. PendingRecorded'
  <2>. SUFFICES ASSUME NEW s \in Samples PROVE Cardinality(Pending(s)') <= recorded[s]
    BY DEF PendingRecorded
  <2>1. CASE s = n
    BY <2>1, <1>4, <1>6
  <2>2. CASE s # n
    BY <2>2, <1>5 DEF PendingRecorded
  <2>. QED
    BY <2>1, <2>2
<1>8. MaxNs \in Nat /\ MaxNs' \in Nat
  BY DEF MaxTypes
<1>9. ASSUME NEW s \in Samples, Returned(s)' PROVE s <= MaxNs'
  <2>1. CASE s = n
    BY <2>1
  <2>2. CASE s # n
    <3>1. Returned(s)
      BY <2>2, <1>5, <1>9 DEF Returned
    <3>. QED
      BY <3>1, <1>8 DEF MaxExact
  <2>. QED
    BY <2>1, <2>2
<1>10. MaxNs' # 0 => recorded'[MaxNs'] > 0
  BY <1>6 DEF MaxExact
<1>. QED
  BY <1>2, <1>7, <1>9, <1>10 DEF MaxExact

LEMMA SwapMaxInv ==
  ASSUME IInv, NEW t \in Threads, SwapMax(t)
  PROVE  IInv'
<1>1. /\ at[t] = "swap" /\ ns[t] > MaxNs /\ at' = [at EXCEPT ![t] = "idle"]
      /\ maxes' = maxes \cup {ns[t]} /\ cur' = [cur EXCEPT ![t] = ns[t]]
      /\ UNCHANGED <<ns, recorded>>
  BY DEF SwapMax, Go
<1>2. ns[t] \in Nat /\ MaxNs \in Nat /\ maxes \in SUBSET Nat /\ \A m \in maxes : m <= MaxNs
  BY DEF IInv, RecordTypes, MaxTypes
<1>3. \A m \in maxes' : m <= ns[t]
  BY <1>1, <1>2
<1>4. maxes' \in SUBSET Nat /\ ns[t] \in maxes'
  BY <1>1, <1>2
<1>5. MaxNs' = ns[t]
  <2>1. Max(maxes') = ns[t]
    BY <1>3, <1>4, MaxIs
  <2>. QED
    BY <2>1 DEF MaxNs
<1>6. MaxTypes'
  <2>1. MaxNs' \in maxes' /\ \A m \in maxes' : m <= MaxNs'
    BY <1>3, <1>4, <1>5
  <2>2. \A u \in Threads : cur'[u] \in maxes'
    BY <1>1 DEF IInv, MaxTypes, RecordTypes
  <2>. QED
    BY <1>4, <2>1, <2>2 DEF MaxTypes
<1>7. cur' \in [Threads -> Nat]
  BY <1>1, <1>2 DEF IInv, RecordTypes
<1>8. at[t] # "idle" /\ MaxNs <= MaxNs' /\ ns[t] <= MaxNs' /\ MaxNs' \in {MaxNs, ns[t]}
  BY <1>1, <1>2, <1>5
<1>. QED
  BY <1>1, <1>6, <1>7, <1>8, ReturnInv

LEMMA NoLargerMaxInv ==
  ASSUME IInv, NEW t \in Threads, NoLargerMax(t)
  PROVE  IInv'
<1>1. /\ at[t] = "swap" /\ ns[t] <= cur[t] /\ at' = [at EXCEPT ![t] = "idle"]
      /\ UNCHANGED <<maxes, ns, cur, recorded>>
  BY DEF NoLargerMax, Go
<1>2. ns[t] \in Nat /\ cur[t] \in Nat /\ MaxNs \in Nat /\ cur[t] <= MaxNs
  BY DEF IInv, RecordTypes, MaxTypes
<1>3. MaxTypes' /\ MaxNs' = MaxNs /\ cur' \in [Threads -> Nat]
  BY <1>1 DEF IInv, MaxTypes, MaxNs, RecordTypes
<1>4. at[t] # "idle" /\ MaxNs <= MaxNs' /\ ns[t] <= MaxNs' /\ MaxNs' \in {MaxNs, ns[t]}
  BY <1>1, <1>2, <1>3
<1>. QED
  BY <1>1, <1>3, <1>4, ReturnInv

LEMMA ResetInv ==
  ASSUME IInv, \A t \in Threads : at[t] = "idle", Reset
  PROVE  IInv'
<1>1. RecordTypes'
  BY DEF IInv, RecordTypes, Reset, NoSamples
<1>2. MaxNs' = 0
  BY MaxIs DEF Reset, MaxNs
<1>3. MaxTypes'
  BY <1>2 DEF Reset, MaxTypes
<1>4. ASSUME NEW s \in Samples
      PROVE  Cardinality(Pending(s)') = 0 /\ recorded'[s] = 0
  <2>1. Pending(s)' = {}
    BY DEF Reset, Pending
  <2>. QED
    BY <2>1, FS_EmptySet DEF Reset, NoSamples
<1>5. PendingRecorded' /\ MaxExact'
  BY <1>2, <1>4 DEF PendingRecorded, MaxExact, Returned
<1>. QED
  BY <1>1, <1>3, <1>5 DEF IInv
-----------------------------------------------------------------------------
(* A step of a recording thread. *)
LEMMA RecordInv ==
  ASSUME IInv, NEW t \in Threads, Record(t)
  PROVE  IInv'
<1>1. CASE CountBucket(t)
  BY <1>1, CountBucketInv
<1>2. CASE CountTotal(t)
  <2>1. at[t] # "idle" /\ at' = [at EXCEPT ![t] = "load"] /\ UNCHANGED <<maxes, ns, recorded>>
    BY <1>2 DEF CountTotal, Go
  <2>2. cur[t] \in maxes /\ cur' = [cur EXCEPT ![t] = cur[t]]
    BY <1>2 DEF CountTotal, IInv, RecordTypes, MaxTypes
  <2>. QED
    BY <2>1, <2>2, GoOnInv
<1>3. CASE LoadMax(t)
  <2>1. at[t] # "idle" /\ at' = [at EXCEPT ![t] = "swap"] /\ UNCHANGED <<maxes, ns, recorded>>
    BY <1>3 DEF LoadMax, Go
  <2>2. PICK m \in maxes : cur' = [cur EXCEPT ![t] = m]
    BY <1>3 DEF LoadMax, SeenOfMax
  <2>. QED
    BY <2>1, <2>2, GoOnInv
<1>4. CASE SwapFails(t)
  <2>1. at[t] # "idle" /\ at' = [at EXCEPT ![t] = "swap"] /\ UNCHANGED <<maxes, ns, recorded>>
    BY <1>4 DEF SwapFails, IInv, RecordTypes
  <2>2. PICK m \in maxes : cur' = [cur EXCEPT ![t] = m]
    BY <1>4 DEF SwapFails, SeenOfMax
  <2>. QED
    BY <2>1, <2>2, GoOnInv
<1>. QED
  BY <1>1, <1>2, <1>3, <1>4, SwapMaxInv, NoLargerMaxInv DEF Record

(* The reader is allowed to reset only what nobody records into. *)
LEMMA JoinedIdleInv ==
  ASSUME IInv, JoinedIdle, [Next]_vars
  PROVE  JoinedIdle'
<1>1. ASSUME NEW t \in Threads, Record(t) PROVE JoinedIdle'
  <2>1. CASE CountBucket(t)
    BY <2>1 DEF CountBucket, JoinedIdle
  <2>2. CASE ~CountBucket(t)
    <3>1. at[t] # "idle" /\ joined' = joined
      BY <1>1, <2>2 DEF Record, CountTotal, LoadMax, NoLargerMax, SwapMax, SwapFails, recordFrame
    <3>. QED
      BY <3>1 DEF JoinedIdle
  <2>. QED
    BY <2>1, <2>2
<1>2. CASE UNCHANGED vars
  BY <1>2 DEF vars, recordVars, JoinedIdle
<1>3. ASSUME NEW p \in Permilles, LoadTotal(p) PROVE JoinedIdle'
  BY <1>3 DEF LoadTotal, recordVars, JoinedIdle
<1>4. CASE LoadBucket
  BY <1>4 DEF LoadBucket, recordVars, JoinedIdle
<1>5. CASE Join
  BY <1>5 DEF Join, recordVars, JoinedIdle
<1>6. CASE Reset
  BY <1>6 DEF Reset, JoinedIdle
<1>. QED
  BY <1>1, <1>2, <1>3, <1>4, <1>5, <1>6 DEF Next, Read

(* The invariant holds in every reachable state. *)
THEOREM HistogramSound == Spec => [](IInv /\ JoinedIdle)
<1>1. Init => IInv /\ JoinedIdle
  BY InitInv DEF Init, JoinedIdle
<1>2. IInv /\ JoinedIdle /\ [Next]_vars => IInv' /\ JoinedIdle'
  <2>. SUFFICES ASSUME IInv, JoinedIdle, [Next]_vars PROVE IInv'
    BY JoinedIdleInv
  <2>1. ASSUME NEW t \in Threads, Record(t) PROVE IInv'
    BY <2>1, RecordInv
  <2>2. CASE UNCHANGED vars
    BY <2>2, RecordFrame DEF vars, recordVars
  <2>3. ASSUME NEW p \in Permilles, LoadTotal(p) PROVE IInv'
    BY <2>3, RecordFrame DEF LoadTotal, recordVars
  <2>4. CASE LoadBucket
    BY <2>4, RecordFrame DEF LoadBucket, recordVars
  <2>5. CASE Join
    BY <2>5, RecordFrame DEF Join, recordVars
  <2>6. CASE Reset
    <3>1. \A t \in Threads : at[t] = "idle"
      BY <2>6 DEF Reset, JoinedIdle
    <3>. QED
      BY <2>6, <3>1, ResetInv
  <2>. QED
    BY <2>1, <2>2, <2>3, <2>4, <2>5, <2>6 DEF Next, Read
<1>. QED
  BY <1>1, <1>2, PTL DEF Spec

\* max_ns() is the largest of the samples whose record() has returned, or a
\* larger one whose record() is still at work.
THEOREM MaximumExact == Spec => []MaxExact
<1>1. IInv => MaxExact
  BY DEF IInv
<1>. QED
  BY <1>1, HistogramSound, PTL

-----------------------------------------------------------------------------
(* Powers of two and the buckets between them *)

LEMMA MinOfNats ==
  ASSUME NEW S, S \subseteq Nat, S # {}
  PROVE  Min(S) \in S /\ \A y \in S : Min(S) <= y
<1>1. PICK x \in S : \A y \in S : ~(<<y, x>> \in OpToRel(<, Nat))
  BY WFMin, NatLessThanWellFounded
<1>2. \A y \in S : ~(y < x)
  <2>1. OpToRel(<, Nat) = {ss \in Nat \X Nat : ss[1] < ss[2]}
    BY Zenon DEF OpToRel
  <2>2. ASSUME NEW y \in S, y < x
        PROVE  <<y, x>> \in {ss \in Nat \X Nat : ss[1] < ss[2]}
    BY <2>2
  <2>. QED
    BY <1>1, <2>1, <2>2, Zenon
<1>3. \A y \in S : x <= y
  BY <1>2
<1>. QED
  BY <1>3 DEF Min

(* g has the powers of two up to that of n. *)
Powers(g, n) ==
  g = [i \in 0 .. n |-> IF i = 0 THEN 1 ELSE 2 * g[i - 1]]

(* The recursion of Shift has a solution: of the exponents up to which it   *)
(* had none, there would be a smallest one.                                 *)
LEMMA PowersExist ==
  \A n \in Nat : \E g \in [0 .. n -> Nat \ {0}] : Powers(g, n)
<1>. DEFINE Has(n) == \E g \in [0 .. n -> Nat \ {0}] : Powers(g, n)
            S == {n \in Nat : ~Has(n)}
<1>1. ASSUME S # {}
      PROVE  FALSE
  <2>1. Min(S) \in S /\ \A y \in S : Min(S) <= y
    <3>1. S \subseteq Nat
      OBVIOUS
    <3>. HIDE DEF S
    <3>. QED
      BY <1>1, <3>1, MinOfNats
  <2>. DEFINE n == Min(S)
  <2>. HIDE DEF n
  <2>2. n \in Nat /\ ~Has(n) /\ \A m \in Nat : m < n => Has(m)
    <3>1. n \in S /\ n \in Nat /\ \A y \in S : n <= y
      BY <2>1 DEF n
    <3>2. \A m \in Nat : m < n => m \notin S
      <4>. HIDE DEF S
      <4>. QED
        BY <3>1
    <3>. HIDE DEF Has
    <3>. QED
      BY <3>1, <3>2
  <2>3. n # 0
    <3>. DEFINE g == [i \in 0 .. 0 |-> 1]
    <3>1. g \in [0 .. 0 -> Nat \ {0}] /\ Powers(g, 0)
      BY DEF Powers
    <3>2. Has(0)
      BY <3>1, Zenon
    <3>. QED
      BY <2>2, <3>2, Zenon
  <2>4. PICK g \in [0 .. (n - 1) -> Nat \ {0}] : Powers(g, n - 1)
    <3>1. n - 1 \in Nat /\ n - 1 < n
      BY <2>2, <2>3
    <3>2. Has(n - 1)
      BY <2>2, <3>1, Zenon
    <3>. QED
      BY <3>2, Zenon
  <2>. DEFINE h == [i \in 0 .. n |-> IF i = n THEN 2 * g[n - 1] ELSE g[i]]
  <2>5. h \in [0 .. n -> Nat \ {0}]
    BY <2>2, <2>3, <2>4
  <2>6. \A i \in 0 .. n : h[i] = IF i = 0 THEN 1 ELSE 2 * h[i - 1]
    <3>1. \A i \in 0 .. (n - 1) : g[i] = IF i = 0 THEN 1 ELSE 2 * g[i - 1]
      BY <2>4, Zenon DEF Powers
    <3>. QED
      BY <2>2, <2>3, <3>1
  <2>7. Powers(h, n)
    <3>. HIDE DEF h
    <3>1. h = [i \in 0 .. n |-> h[i]]
      BY <2>5
    <3>2. h = [i \in 0 .. n |-> IF i = 0 THEN 1 ELSE 2 * h[i - 1]]
      BY <2>6, <3>1, Zenon
    <3>. QED
      BY <3>2, Zenon DEF Powers
  <2>8. Has(n)
    BY <2>5, <2>7, Zenon
  <2>. QED
    BY <2>2, <2>8, Zenon
<1>. QED
  BY <1>1, Zenon

(* Each power of two, in the number of a bucket, is twice the one before. *)
LEMMA ShiftDoubles ==
  /\ Shift[0] = 1
  /\ \A i \in 1 .. Buckets : Shift[i] = 2 * Shift[i - 1]
  /\ \A i \in 0 .. Buckets : Shift[i] \in Nat \ {0}
<1>. DEFINE n == Buckets
<1>1. n \in Nat \ {0}
  BY HistogramAssumption
<1>. HIDE DEF n
<1>2. Powers(Shift, n)
  <2>1. \E g : Powers(g, n)
    BY <1>1, PowersExist
  <2>2. Shift = CHOOSE g : Powers(g, n)
    BY Zenon DEF Shift, Powers, n
  <2>. QED
    BY <2>1, <2>2, Zenon
<1>3. \A i \in 0 .. n : Shift[i] = IF i = 0 THEN 1 ELSE 2 * Shift[i - 1]
  BY <1>2, Zenon DEF Powers
<1>4. Shift[0] = 1 /\ \A i \in 1 .. n : Shift[i] = 2 * Shift[i - 1]
  BY <1>1, <1>3
<1>5. \A i \in 0 .. n : Shift[i] \in Nat \ {0}
  <2>. DEFINE S == {i \in 0 .. n : Shift[i] \notin Nat \ {0}}
  <2>1. ASSUME S # {}
        PROVE  FALSE
    <3>1. Min(S) \in S /\ \A y \in S : Min(S) <= y
      <4>1. S \subseteq Nat
        OBVIOUS
      <4>. HIDE DEF S
      <4>. QED
        BY <2>1, <4>1, MinOfNats
    <3>2. PICK m \in S : \A y \in S : m <= y
      BY <3>1
    <3>3. m # 0
      BY <1>4, <3>2
    <3>4. m - 1 \in 0 .. n /\ m \in 1 .. n
      BY <1>1, <3>2, <3>3
    <3>5. Shift[m - 1] \in Nat \ {0}
      BY <3>2, <3>4
    <3>6. Shift[m] = 2 * Shift[m - 1]
      BY <1>4, <3>4
    <3>. QED
      BY <3>2, <3>5, <3>6
  <2>. QED
    BY <2>1
<1>. QED
  BY <1>4, <1>5 DEF n

LEMMA ShiftGrows ==
  ASSUME NEW i \in 0 .. Buckets, NEW j \in 0 .. Buckets, i <= j
  PROVE  Shift[i] <= Shift[j]
<1>. DEFINE S == {k \in i .. Buckets : Shift[k] < Shift[i]}
<1>1. Buckets \in Nat
  BY HistogramAssumption
<1>2. ASSUME S # {}
      PROVE  FALSE
  <2>1. PICK m \in S : \A y \in S : m <= y
    <3>1. S \subseteq Nat
      OBVIOUS
    <3>. HIDE DEF S
    <3>. QED
      BY <1>2, <3>1, MinOfNats
  <2>2. m # i /\ m \in 1 .. Buckets /\ m - 1 \in i .. Buckets /\ m - 1 \in 0 .. Buckets
    BY <1>1, <2>1, ShiftDoubles
  <2>3. ~(Shift[m - 1] < Shift[i])
    BY <2>1, <2>2
  <2>4. Shift[m] = 2 * Shift[m - 1] /\ Shift[m - 1] \in Nat /\ Shift[i] \in Nat
    BY <2>2, ShiftDoubles
  <2>. QED
    BY <2>1, <2>3, <2>4
<1>3. Shift[i] \in Nat /\ Shift[j] \in Nat
  BY ShiftDoubles
<1>4. j \in i .. Buckets
  BY <1>1
<1>. QED
  BY <1>2, <1>3, <1>4

(* A latency below the last power of two has a bucket. *)
LEMMA BucketHolds ==
  ASSUME NEW n \in 0 .. (Shift[Buckets] - 1)
  PROVE  /\ BucketIndex(n) \in Indices /\ n < Shift[BucketIndex(n) + 1]
         /\ IF n = 0 THEN BucketIndex(n) = 0 ELSE Shift[BucketIndex(n)] <= n
<1>1. Buckets \in Nat \ {0} /\ n \in Nat /\ n < Shift[Buckets]
  BY HistogramAssumption, ShiftDoubles
<1>2. CASE n = 0
  <2>1. BucketIndex(n) = 0 /\ 0 \in Indices
    BY <1>1, <1>2 DEF BucketIndex, Indices
  <2>2. 0 + 1 \in 0 .. Buckets
    BY <1>1
  <2>3. 0 < Shift[0 + 1]
    BY <2>2, ShiftDoubles
  <2>. QED
    BY <1>2, <2>1, <2>3
<1>3. CASE n # 0
  <2>. DEFINE S == {k \in 0 .. Buckets : n < Shift[k]}
  <2>1. PICK m \in S : \A y \in S : m <= y
    <3>1. S \subseteq Nat /\ Buckets \in S
      BY <1>1
    <3>. HIDE DEF S
    <3>. QED
      BY <3>1, MinOfNats
  <2>2. m # 0 /\ m \in 0 .. Buckets /\ n < Shift[m]
    BY <1>1, <1>3, <2>1, ShiftDoubles
  <2>3. m - 1 \in Indices /\ m - 1 \in 0 .. Buckets /\ (m - 1) + 1 = m
    BY <1>1, <2>2 DEF Indices
  <2>4. ~(n < Shift[m - 1])
    BY <2>1, <2>2, <2>3
  <2>5. Shift[m - 1] <= n
    BY <1>1, <2>3, <2>4, ShiftDoubles
  <2>6. \E i \in Indices : Shift[i] <= n /\ n < Shift[i + 1]
    BY <2>2, <2>3, <2>5
  <2>. DEFINE b == CHOOSE i \in Indices : Shift[i] <= n /\ n < Shift[i + 1]
  <2>7. b \in Indices /\ Shift[b] <= n /\ n < Shift[b + 1]
    BY <2>6, Zenon
  <2>8. BucketIndex(n) = b
    BY <1>3, Zenon DEF BucketIndex
  <2>. HIDE DEF b
  <2>. QED
    BY <1>3, <2>7, <2>8
<1>. QED
  BY <1>2, <1>3

(* A larger latency is in no lower bucket. *)
LEMMA BucketsOrdered ==
  ASSUME NEW m \in 0 .. (Shift[Buckets] - 1), NEW n \in 0 .. (Shift[Buckets] - 1), m <= n
  PROVE  BucketIndex(m) <= BucketIndex(n)
<1>. DEFINE i == BucketIndex(m)
            j == BucketIndex(n)
<1>1. i \in Indices /\ j \in Indices /\ n < Shift[j + 1]
      /\ IF m = 0 THEN i = 0 ELSE Shift[i] <= m
  BY BucketHolds, Zenon
<1>. HIDE DEF i, j
<1>2. Buckets \in Nat /\ m \in Nat /\ n \in Nat /\ i \in Nat /\ j \in Nat
  BY <1>1, HistogramAssumption, ShiftDoubles DEF Indices
<1>3. ASSUME j < i
      PROVE  FALSE
  <2>1. m # 0 /\ Shift[i] <= m
    BY <1>1, <1>2, <1>3
  <2>2. j + 1 \in 0 .. Buckets /\ i \in 0 .. Buckets /\ j + 1 <= i
    BY <1>1, <1>2, <1>3 DEF Indices
  <2>3. Shift[j + 1] <= Shift[i]
    BY <2>2, ShiftGrows
  <2>4. Shift[j + 1] \in Nat /\ Shift[i] \in Nat
    BY <2>2, ShiftDoubles
  <2>. QED
    BY <1>1, <1>2, <2>1, <2>3, <2>4
<1>. QED
  BY <1>2, <1>3 DEF i, j

-----------------------------------------------------------------------------
(* The samples of a bucket, and those below it *)

InBucket(R, i) == {r \in R : BucketIndex(r[1]) = i}
Below(R, i) == {r \in R : BucketIndex(r[1]) < i}

LEMMA SampleBucket ==
  ASSUME NEW s \in Samples
  PROVE  s \in 0 .. (Shift[Buckets] - 1) /\ s \in Nat /\ BucketIndex(s) \in Indices
<1>1. s \in 0 .. (Shift[Buckets] - 1) /\ s \in Nat
  BY HistogramAssumption, SamplesNat
<1>. QED
  BY <1>1, BucketHolds

LEMMA MeasuredFinite ==
  /\ IsFiniteSet(Samples) /\ IsFiniteSet(Samples \X (1 .. MaxRecords))
  /\ IsFiniteSet(Measured) /\ Cardinality(Measured) \in Nat
<1>1. Buckets \in 0 .. Buckets /\ MaxRecords \in Nat
  BY HistogramAssumption
<1>2. Shift[Buckets] \in Nat
  BY <1>1, ShiftDoubles
<1>3. IsFiniteSet(0 .. (Shift[Buckets] - 1)) /\ IsFiniteSet(1 .. MaxRecords)
  <2>1. Shift[Buckets] - 1 \in Int /\ 0 \in Int /\ 1 \in Int /\ MaxRecords \in Int
    BY <1>1, <1>2
  <2>. QED
    BY <2>1, FS_Interval, Zenon
<1>4. IsFiniteSet(Samples)
  BY <1>3, HistogramAssumption, FS_Subset
<1>5. IsFiniteSet(Samples \X (1 .. MaxRecords))
  BY <1>3, <1>4, FS_Product
<1>6. Measured \subseteq Samples \X (1 .. MaxRecords)
  BY DEF Measured
<1>7. IsFiniteSet(Measured)
  BY <1>5, <1>6, FS_Subset
<1>. QED
  BY <1>4, <1>5, <1>7, FS_CardinalityType

(* Adding up the buckets one after the other counts every sample once. *)
LEMMA BelowNext ==
  ASSUME NEW R \in SUBSET (Samples \X (1 .. MaxRecords)), NEW i \in Indices
  PROVE  /\ Cardinality(Below(R, i + 1)) = Cardinality(Below(R, i)) + Cardinality(InBucket(R, i))
         /\ Cardinality(Below(R, i)) \in Nat /\ Cardinality(InBucket(R, i)) \in Nat
         /\ Below(R, 0) = {} /\ Below(R, Buckets) = R
<1>1. IsFiniteSet(R)
  BY MeasuredFinite, FS_Subset
<1>2. \A r \in R : BucketIndex(r[1]) \in Indices
  BY SampleBucket
<1>3. i \in Nat /\ Indices \subseteq Nat /\ \A j \in Indices : j < Buckets
  BY HistogramAssumption DEF Indices
<1>4. /\ Below(R, i + 1) = Below(R, i) \cup InBucket(R, i)
      /\ Below(R, i) \cap InBucket(R, i) = {}
      /\ Below(R, 0) = {} /\ Below(R, Buckets) = R
  <2>. DEFINE B(r) == BucketIndex(r[1])
  <2>1. \A r \in R : /\ B(r) < i + 1 <=> B(r) < i \/ B(r) = i
                    /\ ~(B(r) < i /\ B(r) = i) /\ ~(B(r) < 0) /\ B(r) < Buckets
    <3>. HIDE DEF B
    <3>1. \A r \in R : B(r) \in Indices
      BY <1>2 DEF B
    <3>2. \A b \in Indices : /\ b < i + 1 <=> b < i \/ b = i
                            /\ ~(b < i /\ b = i) /\ ~(b < 0) /\ b < Buckets
      BY <1>3
    <3>. QED
      BY <3>1, <3>2, Zenon
  <2>2. /\ Below(R, i + 1) = {r \in R : B(r) < i + 1} /\ Below(R, i) = {r \in R : B(r) < i}
        /\ Below(R, 0) = {r \in R : B(r) < 0} /\ Below(R, Buckets) = {r \in R : B(r) < Buckets}
        /\ InBucket(R, i) = {r \in R : B(r) = i}
    BY DEF Below, InBucket
  <2>. HIDE DEF B
  <2>. QED
    BY <2>1, <2>2
<1>5. IsFiniteSet(Below(R, i)) /\ IsFiniteSet(InBucket(R, i))
  BY <1>1, FS_Subset DEF Below, InBucket
<1>6. Cardinality(Below(R, i)) \in Nat /\ Cardinality(InBucket(R, i)) \in Nat
  BY <1>5, FS_CardinalityType
<1>7. Cardinality(Below(R, i) \cup InBucket(R, i)) =
        Cardinality(Below(R, i)) + Cardinality(InBucket(R, i)) - Cardinality({})
  BY <1>4, <1>5, FS_Union
<1>8. Cardinality({}) = 0
  BY FS_EmptySet
<1>9. Cardinality(Below(R, i + 1)) = Cardinality(Below(R, i)) + Cardinality(InBucket(R, i)) - 0
  BY <1>4, <1>7, <1>8, Zenon
<1>. QED
  <2>. DEFINE x == Cardinality(Below(R, i))
              y == Cardinality(InBucket(R, i))
              z == Cardinality(Below(R, i + 1))
  <2>1. x \in Nat /\ y \in Nat /\ z = x + y - 0
    BY <1>6, <1>9
  <2>. HIDE DEF x, y, z
  <2>2. z = x + y
    BY <2>1
  <2>. QED
    BY <1>4, <1>6, <2>2 DEF x, y, z

-----------------------------------------------------------------------------
(* What is counted, and what the reader makes of it *)

AtTotal == {t \in Threads : at[t] = "total"}

Calls == [permille : 0 .. 999, n : Nat, i : Indices, cumulative : Nat, result : Nat]

FigureTypes ==
  /\ counts \in [Indices -> Nat] /\ total \in Nat
  /\ seen \in [counts : [Indices -> Nat], total : Nat]
  /\ reader \in {"idle", "summing", "answered"} /\ call \in Calls

(* Every bucket has its samples, and the total all but those whose record() *)
(* is between the two.                                                      *)
Counted ==
  /\ \A i \in Indices : counts[i] = Cardinality(InBucket(Measured, i))
  /\ total + Cardinality(AtTotal) = Cardinality(Measured)

(* The reader has passed the buckets that do not reach its target. *)
Passed(i) == Cardinality(Below(Measured, i)) <= Target(total, call.permille)
Reached(i) == Cardinality(Below(Measured, i + 1)) > Target(total, call.permille)

ReaderInv ==
  joined =>
    /\ seen = [counts |-> counts, total |-> total]
    /\ reader = "summing" =>
         /\ call.n = total /\ total # 0 /\ Passed(call.i)
         /\ call.cumulative = Cardinality(Below(Measured, call.i))
    /\ reader = "answered" =>
         IF total = 0 THEN call.result = 0
         ELSE \E i \in Indices :
                 call.result = Representative(i) /\ Passed(i) /\ (Reached(i) \/ i = Buckets - 1)

FiguresInv == FigureTypes /\ Counted /\ ReaderInv

LEMMA InitFigures == ASSUME Init PROVE FiguresInv
<1>1. 0 \in Indices /\ Measured = {} /\ AtTotal = {}
  BY HistogramAssumption DEF Init, Indices, Measured, NoSamples, AtTotal
<1>2. Cardinality({}) = 0 /\ \A i : InBucket({}, i) = {}
  BY FS_EmptySet DEF InBucket
<1>3. FigureTypes
  BY <1>1 DEF Init, FigureTypes, EmptyCounts, NoCall, Calls
<1>4. Counted
  BY <1>1, <1>2 DEF Init, Counted, EmptyCounts
<1>5. ReaderInv
  BY DEF Init, ReaderInv
<1>. QED
  BY <1>3, <1>4, <1>5 DEF FiguresInv

(* A sample is recorded: one entry more, in its bucket. *)
LEMMA SampleJoins ==
  ASSUME recorded \in [Samples -> Nat], NEW n \in Samples,
         Cardinality(Measured) < MaxRecords, recorded' = [recorded EXCEPT ![n] = @ + 1]
  PROVE  \E r \in Samples \X (1 .. MaxRecords) :
            r[1] = n /\ r \notin Measured /\ Measured' = Measured \cup {r}
<1>1. MaxRecords \in Nat /\ recorded[n] \in Nat
  BY HistogramAssumption
<1>2. recorded[n] < MaxRecords
  <2>1. ASSUME recorded[n] >= MaxRecords
        PROVE  FALSE
    <3>. DEFINE D == {n} \X (1 .. MaxRecords)
    <3>1. D \subseteq Measured
      BY <1>1, <2>1 DEF Measured
    <3>2. Cardinality(1 .. MaxRecords) = MaxRecords /\ IsFiniteSet(1 .. MaxRecords)
      BY <1>1, FS_Interval
    <3>3. Cardinality({n}) = 1 /\ IsFiniteSet({n})
      BY FS_Singleton
    <3>4. Cardinality(D) = 1 * MaxRecords
      <4>1. Cardinality(D) = Cardinality({n}) * Cardinality(1 .. MaxRecords)
        BY <3>2, <3>3, FS_Product, Zenon
      <4>. QED
        BY <3>2, <3>3, <4>1, Zenon
    <3>. HIDE DEF D
    <3>5. Cardinality(D) <= Cardinality(Measured)
      BY <3>1, MeasuredFinite, FS_Subset
    <3>. QED
      BY <1>1, <3>4, <3>5, MeasuredFinite
  <2>. QED
    BY <1>1, <2>1
<1>. DEFINE r == <<n, recorded[n] + 1>>
<1>3. r \in Samples \X (1 .. MaxRecords) /\ r[1] = n /\ r \notin Measured
  BY <1>1, <1>2 DEF Measured
<1>4. Measured' = Measured \cup {r}
  <2>1. \A e \in Samples \X (1 .. MaxRecords) :
          e[2] <= recorded'[e[1]] <=> e[2] <= recorded[e[1]] \/ e = r
    <3>. SUFFICES ASSUME NEW e \in Samples \X (1 .. MaxRecords)
                  PROVE  e[2] <= recorded'[e[1]] <=> e[2] <= recorded[e[1]] \/ e = r
      OBVIOUS
    <3>1. e[1] \in Samples /\ e[2] \in Nat /\ e = <<e[1], e[2]>>
      OBVIOUS
    <3>2. CASE e[1] = n
      <4>1. recorded'[e[1]] = recorded[n] + 1 /\ recorded[e[1]] = recorded[n]
        BY <3>2
      <4>2. e = r <=> e[2] = recorded[n] + 1
        BY <3>1, <3>2
      <4>. HIDE DEF r
      <4>. QED
        BY <1>1, <3>1, <4>1, <4>2
    <3>3. CASE e[1] # n
      <4>1. recorded'[e[1]] = recorded[e[1]] /\ e # r
        BY <3>1, <3>3
      <4>. QED
        BY <4>1
    <3>. QED
      BY <3>2, <3>3
  <2>. HIDE DEF r
  <2>. QED
    BY <1>3, <2>1 DEF Measured
<1>. QED
  BY <1>3, <1>4, Zenon

LEMMA CountBucketFigures ==
  ASSUME IInv, FiguresInv, NEW t \in Threads, CountBucket(t)
  PROVE  FiguresInv'
<1>1. PICK n \in Samples :
        /\ counts' = [counts EXCEPT ![BucketIndex(n)] = @ + 1]
        /\ recorded' = [recorded EXCEPT ![n] = @ + 1]
  BY DEF CountBucket
<1>2. /\ at[t] = "idle" /\ at' = [at EXCEPT ![t] = "total"] /\ joined' = FALSE
      /\ Cardinality(Measured) < MaxRecords /\ UNCHANGED <<total, reader, call, seen>>
  BY DEF CountBucket, Go, readerVars
<1>. DEFINE b == BucketIndex(n)
<1>3. b \in Indices
  BY SampleBucket
<1>4. PICK r \in Samples \X (1 .. MaxRecords) :
        r[1] = n /\ r \notin Measured /\ Measured' = Measured \cup {r}
  BY <1>1, <1>2, SampleJoins DEF IInv, RecordTypes
<1>5. /\ InBucket(Measured, b)' = InBucket(Measured, b) \cup {r}
      /\ r \notin InBucket(Measured, b)
      /\ \A i \in Indices : i # b => InBucket(Measured, i)' = InBucket(Measured, i)
  BY <1>4 DEF InBucket
<1>. HIDE DEF b
<1>6. IsFiniteSet(InBucket(Measured, b)) /\ IsFiniteSet(AtTotal) /\ IsFiniteSet(Measured)
  BY MeasuredFinite, HistogramAssumption, FS_Subset DEF InBucket, AtTotal
<1>7. Cardinality(InBucket(Measured, b)') = Cardinality(InBucket(Measured, b)) + 1
  BY <1>5, <1>6, FS_AddElement
<1>8. Cardinality(Measured') = Cardinality(Measured) + 1
  BY <1>4, <1>6, FS_AddElement
<1>9. Cardinality(AtTotal') = Cardinality(AtTotal) + 1
  <2>1. AtTotal' = AtTotal \cup {t} /\ t \notin AtTotal
    BY <1>2 DEF AtTotal, IInv, RecordTypes
  <2>. QED
    BY <1>6, <2>1, FS_AddElement
<1>10. Cardinality(AtTotal) \in Nat /\ Cardinality(Measured) \in Nat
  BY <1>6, FS_CardinalityType
<1>11. counts' = [counts EXCEPT ![b] = @ + 1]
  BY <1>1 DEF b
<1>12. FigureTypes'
  BY <1>2, <1>3, <1>11 DEF FiguresInv, FigureTypes
<1>13. \A i \in Indices : counts'[i] = Cardinality(InBucket(Measured, i)')
  <2>. SUFFICES ASSUME NEW i \in Indices
                PROVE  counts'[i] = Cardinality(InBucket(Measured, i)')
    OBVIOUS
  <2>1. counts \in [Indices -> Nat] /\ counts[i] = Cardinality(InBucket(Measured, i))
    BY DEF FiguresInv, FigureTypes, Counted
  <2>2. CASE i = b
    BY <1>7, <1>11, <2>1, <2>2
  <2>3. CASE i # b
    BY <1>5, <1>11, <2>1, <2>3
  <2>. QED
    BY <2>2, <2>3
<1>14. total' + Cardinality(AtTotal') = Cardinality(Measured')
  BY <1>2, <1>8, <1>9, <1>10 DEF FiguresInv, FigureTypes, Counted
<1>. QED
  BY <1>2, <1>12, <1>13, <1>14 DEF FiguresInv, Counted, ReaderInv

(* A record() goes on: nobody has joined its thread, and only the total may *)
(* catch up with what it has counted.                                       *)
LEMMA GoOnFigures ==
  ASSUME IInv, JoinedIdle, FiguresInv, NEW t \in Threads, at[t] # "idle",
         joined' = joined, UNCHANGED <<counts, recorded, readerVars>>,
         total' + Cardinality(AtTotal') = total + Cardinality(AtTotal), total' \in Nat
  PROVE  FiguresInv'
<1>1. ~joined' /\ Measured' = Measured
  BY DEF JoinedIdle, Measured
<1>2. FigureTypes'
  BY DEF FiguresInv, FigureTypes, readerVars
<1>3. Counted'
  BY <1>1 DEF FiguresInv, Counted, InBucket
<1>. QED
  BY <1>1, <1>2, <1>3 DEF FiguresInv, ReaderInv

LEMMA CountTotalFigures ==
  ASSUME IInv, JoinedIdle, FiguresInv, NEW t \in Threads, CountTotal(t)
  PROVE  FiguresInv'
<1>1. /\ at[t] = "total" /\ at' = [at EXCEPT ![t] = "load"] /\ total' = total + 1
      /\ joined' = joined /\ UNCHANGED <<counts, recorded, readerVars>>
  BY DEF CountTotal, Go, recordFrame
<1>2. AtTotal' = AtTotal \ {t} /\ t \in AtTotal
  BY <1>1 DEF AtTotal, IInv, RecordTypes
<1>3. IsFiniteSet(AtTotal)
  BY HistogramAssumption, FS_Subset DEF AtTotal
<1>4. Cardinality(AtTotal') = Cardinality(AtTotal) - 1 /\ Cardinality(AtTotal) \in Nat
  BY <1>2, <1>3, FS_RemoveElement, FS_CardinalityType
<1>5. total \in Nat
  BY DEF FiguresInv, FigureTypes
<1>6. total' + Cardinality(AtTotal') = total + Cardinality(AtTotal) /\ total' \in Nat
  BY <1>1, <1>4, <1>5
<1>. QED
  BY <1>1, <1>6, GoOnFigures

LEMMA RecordFigures ==
  ASSUME IInv, JoinedIdle, FiguresInv, NEW t \in Threads, Record(t)
  PROVE  FiguresInv'
<1>1. CASE CountBucket(t)
  BY <1>1, CountBucketFigures
<1>2. CASE CountTotal(t)
  BY <1>2, CountTotalFigures
<1>3. CASE LoadMax(t) \/ NoLargerMax(t) \/ SwapMax(t) \/ SwapFails(t)
  <2>1. /\ at[t] \in {"load", "swap"} /\ joined' = joined /\ total' = total
        /\ UNCHANGED <<counts, recorded, readerVars>>
        /\ \/ at' = at
           \/ \E place \in {"swap", "idle"} : at' = [at EXCEPT ![t] = place]
    BY <1>3 DEF LoadMax, NoLargerMax, SwapMax, SwapFails, Go, recordFrame
  <2>2. AtTotal' = AtTotal
    BY <2>1 DEF AtTotal, IInv, RecordTypes
  <2>3. total' \in Nat
    BY <2>1 DEF FiguresInv, FigureTypes
  <2>. QED
    BY <2>1, <2>2, <2>3, GoOnFigures
<1>. QED
  BY <1>1, <1>2, <1>3 DEF Record

(* The reader leaves alone what is counted. *)
LEMMA ReaderFrame ==
  ASSUME FiguresInv, UNCHANGED recordVars
  PROVE  /\ Counted' /\ Measured' = Measured
         /\ \A i : /\ Below(Measured, i)' = Below(Measured, i)
                   /\ InBucket(Measured, i)' = InBucket(Measured, i)
BY DEF FiguresInv, Counted, Measured, AtTotal, Below, InBucket, recordVars

(* Targets are natural numbers, and less than the total unless that is 0. *)
LEMMA TargetBelow ==
  ASSUME NEW n \in Nat, NEW p \in 0 .. 999
  PROVE  Target(n, p) \in Nat /\ (n # 0 => Target(n, p) < n)
<1>1. n * p \in Nat /\ n * p <= n * 999
  OBVIOUS
<1>. DEFINE m == n * p
<1>. HIDE DEF m
<1>2. m \in Nat /\ m <= n * 999
  BY <1>1 DEF m
<1>3. m \div 1000 \in Nat /\ (n # 0 => m \div 1000 < n)
  BY <1>2
<1>. QED
  BY <1>3 DEF m, Target

LEMMA TargetOfCall == call \in Calls => Target(call.n, call.permille) \in Nat
<1>. SUFFICES ASSUME call \in Calls PROVE Target(call.n, call.permille) \in Nat
  OBVIOUS
<1>1. call.n \in Nat /\ call.permille \in 0 .. 999
  BY DEF Calls
<1>. QED
  BY <1>1, TargetBelow

LEMMA LoadTotalFigures ==
  ASSUME FiguresInv, NEW p \in Permilles, LoadTotal(p)
  PROVE  FiguresInv'
<1>1. PICK n \in seen.total .. total :
        /\ seen' = [seen EXCEPT !.total = n]
        /\ call' = [NoCall EXCEPT !.permille = p, !.n = n]
        /\ reader' = IF n = 0 THEN "answered" ELSE "summing"
  BY DEF LoadTotal
<1>2. UNCHANGED recordVars /\ joined' = joined
  BY DEF LoadTotal
<1>3. seen.total \in Nat /\ total \in Nat /\ n \in Nat
  BY DEF FiguresInv, FigureTypes
<1>4. p \in 0 .. 999 /\ 0 \in Indices
  BY HistogramAssumption DEF Indices
<1>5. call' = [permille |-> p, n |-> n, i |-> 0, cumulative |-> 0, result |-> 0]
  BY <1>1 DEF NoCall
<1>6. /\ call'.permille = p /\ call'.n = n /\ call'.i = 0 /\ call'.cumulative = 0
      /\ call'.result = 0 /\ call' \in Calls
  BY <1>3, <1>4, <1>5 DEF Calls
<1>7. reader' = IF n = 0 THEN "answered" ELSE "summing"
  BY <1>1
<1>8. FigureTypes'
  BY <1>1, <1>2, <1>3, <1>6, <1>7 DEF FiguresInv, FigureTypes, recordVars
<1>9. ReaderInv'
  <2>. SUFFICES ASSUME joined PROVE ReaderInv'
    BY <1>2 DEF ReaderInv
  <2>1. seen = [counts |-> counts, total |-> total] /\ n = total
    BY <1>3 DEF FiguresInv, ReaderInv
  <2>2. seen' = [counts |-> counts', total |-> total'] /\ total' = total
    BY <1>1, <1>2, <2>1 DEF recordVars
  <2>3. Cardinality(Below(Measured, 0)') = 0
    <3>1. Below(Measured, 0) = {}
      BY <1>4, BelowNext DEF Measured
    <3>. QED
      BY <1>2, <3>1, ReaderFrame, FS_EmptySet
  <2>4. 0 <= Target(n, p)
    <3>1. Target(n, p) \in Nat
      BY <1>3, <1>4, TargetBelow
    <3>. QED
      BY <3>1
  <2>5. CASE n = 0
    <3>1. reader' = "answered" /\ call'.result = 0
      BY <1>6, <1>7, <2>5
    <3>. QED
      BY <2>1, <2>2, <2>5, <3>1 DEF ReaderInv
  <2>6. CASE n # 0
    <3>1. reader' = "summing" /\ call'.n = n /\ call'.i = 0 /\ call'.cumulative = 0
          /\ call'.permille = p
      BY <1>6, <1>7, <2>6
    <3>2. Passed(call.i)'
      BY <2>1, <2>2, <2>3, <2>4, <3>1 DEF Passed, Below
    <3>. QED
      BY <2>1, <2>2, <2>3, <2>6, <3>1, <3>2 DEF ReaderInv, Below
  <2>. QED
    BY <2>5, <2>6
<1>. QED
  BY <1>2, <1>8, <1>9, ReaderFrame DEF FiguresInv

LEMMA LoadBucketFigures ==
  ASSUME FiguresInv, LoadBucket
  PROVE  FiguresInv'
<1>1. PICK i \in Indices : i = call.i
  BY DEF FiguresInv, FigureTypes, Calls
<1>2. PICK k \in Nat : k = Target(call.n, call.permille)
  BY TargetOfCall DEF FiguresInv, FigureTypes
<1>3. /\ reader = "summing" /\ UNCHANGED recordVars /\ joined' = joined
      /\ \E c \in seen.counts[i] .. counts[i] :
            /\ seen' = [seen EXCEPT !.counts[i] = c]
            /\ \/ /\ call.cumulative + c > k \/ i = Buckets - 1
                  /\ reader' = "answered"
                  /\ call' = [call EXCEPT !.result = Representative(i)]
               \/ /\ call.cumulative + c <= k /\ i < Buckets - 1
                  /\ call' = [call EXCEPT !.cumulative = call.cumulative + c, !.i = i + 1]
                  /\ reader' = reader
  BY <1>1, <1>2 DEF LoadBucket
<1>4. PICK c \in seen.counts[i] .. counts[i] :
        /\ seen' = [seen EXCEPT !.counts[i] = c]
        /\ \/ /\ call.cumulative + c > k \/ i = Buckets - 1
              /\ reader' = "answered"
              /\ call' = [call EXCEPT !.result = Representative(i)]
           \/ /\ call.cumulative + c <= k /\ i < Buckets - 1
              /\ call' = [call EXCEPT !.cumulative = call.cumulative + c, !.i = i + 1]
              /\ reader' = reader
  BY <1>3
<1>5. /\ i \in Indices /\ call \in Calls /\ call.cumulative \in Nat
      /\ seen.counts \in [Indices -> Nat] /\ seen.counts[i] \in Nat
      /\ counts \in [Indices -> Nat] /\ counts[i] \in Nat /\ c \in Nat
      /\ seen \in [counts : [Indices -> Nat], total : Nat] /\ Buckets \in Nat
  BY <1>4, HistogramAssumption DEF FiguresInv, FigureTypes, Calls
<1>6. Representative(i) \in Nat
  <2>1. CASE i = 0
    BY <2>1 DEF Representative
  <2>2. CASE i # 0
    <3>1. i \in 0 .. Buckets /\ i - 1 \in 0 .. Buckets
      BY <1>5, <2>2 DEF Indices
    <3>2. Shift[i] \in Nat \ {0} /\ Shift[i - 1] \in Nat \ {0}
      BY <3>1, ShiftDoubles
    <3>. QED
      BY <2>2, <3>2 DEF Representative
  <2>. QED
    BY <2>1, <2>2
<1>7. seen' \in [counts : [Indices -> Nat], total : Nat]
  BY <1>4, <1>5
<1>8. ASSUME joined
      PROVE  /\ c = counts[i] /\ seen' = seen /\ seen = [counts |-> counts, total |-> total]
             /\ call.n = total /\ total # 0 /\ Passed(i)
             /\ call.cumulative + c = Cardinality(Below(Measured, i + 1))
  <2>1. /\ seen = [counts |-> counts, total |-> total]
        /\ call.n = total /\ total # 0 /\ Passed(i)
        /\ call.cumulative = Cardinality(Below(Measured, i))
    BY <1>1, <1>3, <1>8 DEF FiguresInv, ReaderInv
  <2>2. c = counts[i] /\ seen.counts[i] = counts[i]
    BY <1>5, <2>1
  <2>3. seen' = seen
    <3>1. [seen.counts EXCEPT ![i] = c] = seen.counts
      BY <1>5, <2>2
    <3>2. seen' = [seen EXCEPT !.counts = [seen.counts EXCEPT ![i] = c]]
      BY <1>4
    <3>. QED
      BY <1>5, <3>1, <3>2
  <2>4. counts[i] = Cardinality(InBucket(Measured, i))
    BY <1>5 DEF FiguresInv, Counted
  <2>5. Cardinality(Below(Measured, i + 1)) =
          Cardinality(Below(Measured, i)) + Cardinality(InBucket(Measured, i))
    BY <1>5, BelowNext DEF Measured
  <2>. QED
    BY <2>1, <2>2, <2>3, <2>4, <2>5
<1>9. UNCHANGED <<counts, total>>
  BY <1>3 DEF recordVars
<1>10. CASE /\ call.cumulative + c > k \/ i = Buckets - 1
           /\ reader' = "answered"
           /\ call' = [call EXCEPT !.result = Representative(i)]
  <2>1. call' \in Calls /\ call'.result = Representative(i) /\ call'.permille = call.permille
    BY <1>5, <1>6, <1>10 DEF Calls
  <2>2. FigureTypes'
    BY <1>3, <1>7, <1>9, <1>10, <2>1 DEF FiguresInv, FigureTypes
  <2>3. ReaderInv'
    <3>. SUFFICES ASSUME joined PROVE ReaderInv'
      BY <1>3 DEF ReaderInv
    <3>1. Passed(i) /\ (Reached(i) \/ i = Buckets - 1)
      BY <1>8, <1>10, <1>2 DEF Reached
    <3>2. Passed(i)' /\ (Reached(i)' \/ i = Buckets - 1)
      <4>1. Passed(i)' = Passed(i) /\ Reached(i)' = Reached(i)
        BY <1>3, <1>9, <2>1, ReaderFrame DEF Passed, Reached
      <4>. QED
        BY <3>1, <4>1
    <3>. QED
      BY <1>5, <1>8, <1>9, <1>10, <2>1, <3>2 DEF ReaderInv, Passed, Reached
  <2>. QED
    BY <1>3, <2>2, <2>3, ReaderFrame DEF FiguresInv
<1>11. CASE /\ call.cumulative + c <= k /\ i < Buckets - 1
           /\ call' = [call EXCEPT !.cumulative = call.cumulative + c, !.i = i + 1]
           /\ reader' = reader
  <2>1. i + 1 \in Indices /\ call.cumulative + c \in Nat
    BY <1>5, <1>11 DEF Indices
  <2>2. /\ call' \in Calls /\ call'.cumulative = call.cumulative + c /\ call'.i = i + 1
        /\ call'.permille = call.permille /\ call'.n = call.n
    <3>1. call' = [permille |-> call.permille, n |-> call.n, i |-> i + 1,
                   cumulative |-> call.cumulative + c, result |-> call.result]
      BY <1>5, <1>11 DEF Calls
    <3>2. call.permille \in 0 .. 999 /\ call.n \in Nat /\ call.result \in Nat
      BY <1>5 DEF Calls
    <3>. QED
      BY <2>1, <3>1, <3>2 DEF Calls
  <2>3. FigureTypes'
    BY <1>3, <1>7, <1>9, <1>11, <2>2 DEF FiguresInv, FigureTypes
  <2>4. ReaderInv'
    <3>. SUFFICES ASSUME joined PROVE ReaderInv'
      BY <1>3 DEF ReaderInv
    <3>1. Cardinality(Below(Measured, i + 1)) <= Target(total, call.permille)
      BY <1>8, <1>11, <1>2
    <3>2. Cardinality(Below(Measured, call.i)') = Cardinality(Below(Measured, i + 1))
      BY <1>3, <2>2, ReaderFrame DEF Below
    <3>3. Passed(call.i)'
      BY <1>9, <2>2, <3>1, <3>2 DEF Passed
    <3>. QED
      BY <1>3, <1>8, <1>9, <1>11, <2>2, <3>2, <3>3 DEF ReaderInv
  <2>. QED
    BY <1>3, <2>3, <2>4, ReaderFrame DEF FiguresInv
<1>. QED
  BY <1>4, <1>10, <1>11

LEMMA JoinFigures ==
  ASSUME FiguresInv, Join
  PROVE  FiguresInv'
<1>1. /\ UNCHANGED recordVars /\ reader' = "idle" /\ call' = NoCall
      /\ seen' = [counts |-> counts, total |-> total]
  BY DEF Join
<1>2. NoCall \in Calls
  BY HistogramAssumption DEF NoCall, Calls, Indices
<1>3. FigureTypes'
  BY <1>1, <1>2 DEF FiguresInv, FigureTypes, recordVars
<1>4. ReaderInv'
  BY <1>1 DEF ReaderInv, recordVars
<1>. QED
  BY <1>1, <1>3, <1>4, ReaderFrame DEF FiguresInv

LEMMA ResetFigures ==
  ASSUME FiguresInv, JoinedIdle, Reset
  PROVE  FiguresInv'
<1>1. /\ counts' = EmptyCounts /\ total' = 0 /\ recorded' = NoSamples /\ at' = at
      /\ seen' = [counts |-> EmptyCounts, total |-> 0] /\ reader' = "idle" /\ call' = NoCall
      /\ \A t \in Threads : at[t] = "idle"
  BY DEF Reset, JoinedIdle
<1>2. Measured' = {} /\ AtTotal' = {}
  BY <1>1 DEF Measured, AtTotal, NoSamples
<1>3. NoCall \in Calls
  BY HistogramAssumption DEF NoCall, Calls, Indices
<1>4. FigureTypes'
  BY <1>1, <1>3 DEF FigureTypes, EmptyCounts
<1>5. \A i : InBucket(Measured, i)' = {}
  BY <1>2 DEF InBucket
<1>6. Counted'
  BY <1>1, <1>2, <1>5, FS_EmptySet DEF Counted, EmptyCounts
<1>7. ReaderInv'
  BY <1>1 DEF ReaderInv
<1>. QED
  BY <1>4, <1>6, <1>7 DEF FiguresInv

(* What is counted, and what the reader has of it, is right in every        *)
(* reachable state.                                                         *)
THEOREM FiguresSound == Spec => []FiguresInv
<1>1. Init => FiguresInv
  BY InitFigures
<1>2. IInv /\ JoinedIdle /\ FiguresInv /\ [Next]_vars => FiguresInv'
  <2>. SUFFICES ASSUME IInv, JoinedIdle, FiguresInv, [Next]_vars PROVE FiguresInv'
    OBVIOUS
  <2>1. ASSUME NEW t \in Threads, Record(t) PROVE FiguresInv'
    BY <2>1, RecordFigures
  <2>2. CASE UNCHANGED vars
    <3>1. UNCHANGED recordVars /\ UNCHANGED readerVars /\ joined' = joined
      BY <2>2 DEF vars
    <3>2. FigureTypes' /\ Counted' /\ ReaderInv'
      BY <3>1, ReaderFrame
         DEF FiguresInv, FigureTypes, ReaderInv, Passed, Reached, recordVars, readerVars
    <3>. QED
      BY <3>2 DEF FiguresInv
  <2>3. ASSUME NEW p \in Permilles, LoadTotal(p) PROVE FiguresInv'
    BY <2>3, LoadTotalFigures
  <2>. QED
    BY <2>1, <2>2, <2>3, LoadBucketFigures, JoinFigures, ResetFigures DEF Next, Read
<1>. QED
  BY <1>1, <1>2, HistogramSound, PTL DEF Spec

LEMMA LargestOf ==
  ASSUME NEW N \in Nat, NEW S, S \subseteq 0 .. N, S # {}
  PROVE  \E x \in S : \A y \in S : y <= x
<1>. DEFINE T == {n \in 0 .. N : N - n \in S}
<1>1. T \subseteq Nat /\ T # {}
  <2>1. PICK x \in S : TRUE
    OBVIOUS
  <2>2. N - x \in 0 .. N /\ N - (N - x) = x
    BY <2>1
  <2>3. N - x \in T
    BY <2>1, <2>2
  <2>4. T \subseteq Nat
    OBVIOUS
  <2>. QED
    BY <2>3, <2>4
<1>2. PICK m \in T : \A n \in T : m <= n
  <2>. HIDE DEF T
  <2>. QED
    BY <1>1, MinOfNats
<1>3. ASSUME NEW y \in S
      PROVE  y <= N - m
  <2>1. y \in Nat /\ N - y \in 0 .. N /\ N - (N - y) = y
    BY <1>3
  <2>2. m <= N - y
    BY <1>2, <2>1
  <2>. QED
    BY <1>2, <2>1, <2>2
<1>. QED
  BY <1>2, <1>3

(* The bucket in which the running sum passes k holds the sample of rank k. *)
LEMMA RankedBucket ==
  ASSUME NEW k \in Nat, k < Cardinality(Measured), NEW i \in Indices,
         Cardinality(Below(Measured, i)) <= k, Cardinality(Below(Measured, i + 1)) > k
  PROVE  Ranked(k) \in Samples /\ BucketIndex(Ranked(k)) = i
<1>. DEFINE UpTo(s) == {r \in Measured : r[1] <= s}
            S == {s \in Samples : Cardinality(UpTo(s)) > k}
<1>1. Measured \in SUBSET (Samples \X (1 .. MaxRecords)) /\ IsFiniteSet(Measured)
      /\ Samples \subseteq Nat
  BY MeasuredFinite, SamplesNat DEF Measured
<1>2. \A T : T \subseteq Measured =>
         IsFiniteSet(T) /\ Cardinality(T) \in Nat
         /\ \A U \in SUBSET T : Cardinality(U) <= Cardinality(T) /\ Cardinality(U) \in Nat
  BY <1>1, FS_Subset, FS_CardinalityType
<1>3. Ranked(k) = Min(S)
  BY Zenon DEF Ranked
<1>4. PICK top \in Samples :
        BucketIndex(top) <= i /\ Below(Measured, i + 1) \subseteq UpTo(top)
  <2>. DEFINE D == {r[1] : r \in Below(Measured, i + 1)}
  <2>1. Below(Measured, i + 1) # {}
    <3>1. Cardinality({}) = 0
      BY FS_EmptySet
    <3>. QED
      BY <3>1
  <2>2. D \subseteq Samples /\ D # {} /\ \A r \in Below(Measured, i + 1) : r[1] \in D
    BY <1>1, <2>1 DEF Below
  <2>3. D \subseteq 0 .. (Shift[Buckets] - 1) /\ Shift[Buckets] - 1 \in Nat
    <3>1. D \subseteq 0 .. (Shift[Buckets] - 1)
      <4>1. Samples \subseteq 0 .. (Shift[Buckets] - 1)
        BY HistogramAssumption, Zenon
      <4>2. D \subseteq Samples
        BY <2>2
      <4>. HIDE DEF D
      <4>. QED
        BY <4>1, <4>2, Zenon
    <3>2. Buckets \in 0 .. Buckets
      BY HistogramAssumption
    <3>3. Shift[Buckets] \in Nat \ {0}
      BY <3>2, ShiftDoubles
    <3>. HIDE DEF D
    <3>. QED
      BY <3>1, <3>3
  <2>4. PICK d \in D : \A e \in D : e <= d
    <3>. HIDE DEF D
    <3>. QED
      BY <2>2, <2>3, LargestOf
  <2>5. d \in Samples /\ BucketIndex(d) < i + 1 /\ BucketIndex(d) \in Indices
    BY <2>2, <2>4, SampleBucket DEF Below
  <2>6. BucketIndex(d) <= i
    BY <2>5 DEF Indices
  <2>7. Below(Measured, i + 1) \subseteq UpTo(d)
    BY <2>2, <2>4 DEF Below
  <2>. QED
    BY <2>5, <2>6, <2>7
<1>5. top \in S
  <2>1. UpTo(top) \subseteq Measured
    OBVIOUS
  <2>2. Cardinality(Below(Measured, i + 1)) <= Cardinality(UpTo(top))
        /\ Cardinality(Below(Measured, i + 1)) \in Nat /\ Cardinality(UpTo(top)) \in Nat
    BY <1>2, <1>4, <2>1
  <2>3. Cardinality(UpTo(top)) > k
    BY <2>2
  <2>. QED
    BY <2>3
<1>6. PICK s \in S : s = Ranked(k) /\ \A y \in S : s <= y
  <2>1. S \subseteq Nat /\ S # {}
    BY <1>1, <1>5
  <2>. HIDE DEF S
  <2>. QED
    BY <1>3, <2>1, MinOfNats
<1>7. s \in Samples /\ Cardinality(UpTo(s)) > k /\ s <= top
  BY <1>5, <1>6
<1>8. BucketIndex(s) <= BucketIndex(top) /\ BucketIndex(s) \in Indices /\ BucketIndex(top) \in Indices
  BY <1>7, SampleBucket, BucketsOrdered
<1>9. ~(BucketIndex(s) < i)
  <2>. SUFFICES ASSUME BucketIndex(s) < i
                PROVE  FALSE
    OBVIOUS
  <2>1. UpTo(s) \subseteq Below(Measured, i)
    <3>. SUFFICES ASSUME NEW r \in UpTo(s)
                  PROVE  r \in Below(Measured, i)
      OBVIOUS
    <3>1. r \in Measured /\ r[1] \in Samples /\ r[1] <= s
      BY <1>1
    <3>2. BucketIndex(r[1]) <= BucketIndex(s) /\ BucketIndex(r[1]) \in Indices
      BY <1>7, <3>1, SampleBucket, BucketsOrdered
    <3>3. BucketIndex(r[1]) < i
      BY <1>8, <3>2 DEF Indices
    <3>. QED
      BY <3>1, <3>3 DEF Below
  <2>2. Below(Measured, i) \subseteq Measured
    BY DEF Below
  <2>3. Cardinality(UpTo(s)) <= Cardinality(Below(Measured, i))
        /\ Cardinality(UpTo(s)) \in Nat /\ Cardinality(Below(Measured, i)) \in Nat
    BY <1>2, <2>1, <2>2
  <2>. QED
    BY <1>7, <2>3
<1>10. BucketIndex(s) = i
  <2>. DEFINE b == BucketIndex(s)
              t == BucketIndex(top)
  <2>1. b \in Nat /\ t \in Nat /\ i \in Nat /\ b <= t /\ t <= i /\ ~(b < i)
    BY <1>4, <1>8, <1>9 DEF Indices
  <2>. HIDE DEF b, t
  <2>2. b = i
    BY <2>1
  <2>. QED
    BY <2>2 DEF b
<1>. QED
  BY <1>6, <1>7, <1>10

\* Once the recording threads are joined, percentile() answers with the value
\* that stands for the bucket of the sample of the rank it was asked for.
THEOREM PercentileCorrect == Spec => []PercentileRanked
<1>1. JoinedIdle /\ FiguresInv => PercentileRanked
  <2>. SUFFICES ASSUME JoinedIdle, FiguresInv, joined, reader = "answered"
                PROVE  PercentileRanked
    BY DEF PercentileRanked
  <2>. DEFINE n == Cardinality(Measured)
              k == (n * call.permille) \div 1000
              s == Ranked(k)
  <2>1. total = n /\ n \in Nat
    <3>1. AtTotal = {}
      BY DEF JoinedIdle, AtTotal
    <3>2. Cardinality(AtTotal) = 0
      BY <3>1, FS_EmptySet
    <3>. QED
      BY <3>2, MeasuredFinite DEF FiguresInv, FigureTypes, Counted
  <2>2. call.permille \in 0 .. 999
    BY DEF FiguresInv, FigureTypes, Calls
  <2>3. CASE n = 0
    <3>1. call.result = 0
      BY <2>1, <2>3 DEF FiguresInv, ReaderInv
    <3>. QED
      BY <2>3, <3>1 DEF PercentileRanked
  <2>4. CASE n # 0
    <3>1. PICK i \in Indices :
            call.result = Representative(i) /\ Passed(i) /\ (Reached(i) \/ i = Buckets - 1)
      BY <2>1, <2>4 DEF FiguresInv, ReaderInv
    <3>2. k = Target(total, call.permille) /\ k \in Nat /\ k < n
      <4>1. k = Target(total, call.permille)
        BY <2>1 DEF Target
      <4>2. total \in Nat
        BY <2>1
      <4>3. Target(total, call.permille) \in Nat
            /\ (total # 0 => Target(total, call.permille) < total)
        BY <2>2, <4>2, TargetBelow
      <4>4. total # 0
        BY <2>1, <2>4
      <4>. HIDE DEF k, n
      <4>. QED
        BY <2>1, <4>1, <4>3, <4>4
    <3>3. Cardinality(Below(Measured, i)) <= k
      BY <3>1, <3>2 DEF Passed
    <3>4. Cardinality(Below(Measured, i + 1)) > k
      <4>1. CASE Reached(i)
        BY <3>2, <4>1 DEF Reached
      <4>2. CASE i = Buckets - 1
        <5>1. i + 1 = Buckets
          BY <4>2, HistogramAssumption
        <5>2. Below(Measured, i + 1) = Measured
          BY <5>1, BelowNext DEF Measured
        <5>. QED
          BY <3>2, <5>2
      <4>. QED
        BY <3>1, <4>1, <4>2
    <3>. HIDE DEF k
    <3>5. s \in Samples /\ BucketIndex(s) = i
      BY <3>2, <3>3, <3>4, RankedBucket
    <3>. QED
      BY <2>4, <3>1, <3>5 DEF PercentileRanked, s, k
  <2>. QED
    BY <2>3, <2>4
<1>. QED
  BY <1>1, HistogramSound, FiguresSound, PTL

-----------------------------------------------------------------------------
(* Percentiles asked for while the threads record.  What the reader loads   *)
(* may be old, but never more than there is, and samples are only added     *)
(* until the reset: its sum is at most what the buckets it has passed hold. *)

SumInv ==
  /\ reader = "summing" =>
       call.n # 0 /\ call.cumulative <= Cardinality(Below(Measured, call.i))
  /\ reader = "answered" /\ call.n # 0 =>
       /\ call.result = Representative(call.i)
       /\ \/ call.i = Buckets - 1
          \/ Cardinality(Below(Measured, call.i + 1)) > Target(call.n, call.permille)

LEMMA SumGrows ==
  ASSUME SumInv, FigureTypes, UNCHANGED readerVars, Measured \subseteq Measured',
         IsFiniteSet(Measured')
  PROVE  SumInv'
<1>1. \A i : /\ Cardinality(Below(Measured, i)) <= Cardinality(Below(Measured', i))
            /\ Cardinality(Below(Measured, i)) \in Nat
            /\ Cardinality(Below(Measured', i)) \in Nat
  <2>. SUFFICES ASSUME NEW i
                PROVE  /\ Cardinality(Below(Measured, i)) <= Cardinality(Below(Measured', i))
                       /\ Cardinality(Below(Measured, i)) \in Nat
                       /\ Cardinality(Below(Measured', i)) \in Nat
    OBVIOUS
  <2>1. Below(Measured', i) \subseteq Measured' /\ Below(Measured, i) \subseteq Below(Measured', i)
    BY DEF Below
  <2>2. IsFiniteSet(Below(Measured', i))
    BY <2>1, FS_Subset
  <2>. QED
    BY <2>1, <2>2, FS_Subset, FS_CardinalityType
<1>2. /\ call' = call /\ reader' = reader /\ call.cumulative \in Nat /\ call.n \in Nat
      /\ Target(call.n, call.permille) \in Nat
  BY TargetOfCall DEF readerVars, FigureTypes, Calls
<1>3. \A i : Below(Measured, i)' = Below(Measured', i')
  OBVIOUS
<1>. QED
  BY <1>1, <1>2 DEF SumInv

LEMMA RecordSum ==
  ASSUME IInv, SumInv, FigureTypes, NEW t \in Threads, Record(t)
  PROVE  SumInv'
<1>1. CASE CountBucket(t)
  <2>1. PICK n \in Samples : recorded' = [recorded EXCEPT ![n] = @ + 1]
    BY <1>1 DEF CountBucket
  <2>2. PICK r \in Samples \X (1 .. MaxRecords) : Measured' = Measured \cup {r}
    BY <1>1, <2>1, SampleJoins DEF CountBucket, IInv, RecordTypes
  <2>3. IsFiniteSet(Measured')
    BY <2>2, MeasuredFinite, FS_AddElement
  <2>. QED
    BY <1>1, <2>2, <2>3, SumGrows DEF CountBucket
<1>2. CASE ~CountBucket(t)
  <2>1. UNCHANGED recorded /\ UNCHANGED readerVars
    BY <1>2 DEF Record, CountTotal, LoadMax, NoLargerMax, SwapMax, SwapFails, recordFrame
  <2>2. Measured' = Measured
    BY <2>1 DEF Measured
  <2>. QED
    BY <2>1, <2>2, MeasuredFinite, SumGrows
<1>. QED
  BY <1>1, <1>2

LEMMA LoadTotalSum ==
  ASSUME FiguresInv, NEW p \in Permilles, LoadTotal(p)
  PROVE  SumInv'
<1>1. PICK n \in seen.total .. total :
        /\ call' = [NoCall EXCEPT !.permille = p, !.n = n]
        /\ reader' = IF n = 0 THEN "answered" ELSE "summing"
  BY DEF LoadTotal
<1>2. call'.n = n /\ call'.cumulative = 0 /\ call'.i = 0
  BY <1>1 DEF NoCall
<1>3. Cardinality(Below(Measured', 0)) = 0
  <2>1. Measured' = Measured /\ 0 \in Indices
    BY HistogramAssumption DEF LoadTotal, recordVars, Measured, Indices
  <2>2. Below(Measured, 0) = {}
    BY <2>1, BelowNext DEF Measured
  <2>. QED
    BY <2>1, <2>2, FS_EmptySet
<1>4. CASE n = 0
  BY <1>1, <1>2, <1>4 DEF SumInv
<1>5. CASE n # 0
  BY <1>1, <1>2, <1>3, <1>5 DEF SumInv
<1>. QED
  BY <1>4, <1>5

LEMMA LoadBucketSum ==
  ASSUME FiguresInv, SumInv, LoadBucket
  PROVE  SumInv'
<1>1. PICK i \in Indices : i = call.i
  BY DEF FiguresInv, FigureTypes, Calls
<1>2. PICK k \in Nat : k = Target(call.n, call.permille)
  BY TargetOfCall DEF FiguresInv, FigureTypes
<1>3. reader = "summing" /\ UNCHANGED recordVars
  BY DEF LoadBucket
<1>4. PICK c \in seen.counts[i] .. counts[i] :
        \/ /\ call.cumulative + c > k \/ i = Buckets - 1
           /\ reader' = "answered"
           /\ call' = [call EXCEPT !.result = Representative(i)]
        \/ /\ call.cumulative + c <= k /\ i < Buckets - 1
           /\ call' = [call EXCEPT !.cumulative = call.cumulative + c, !.i = i + 1]
           /\ reader' = reader
  BY <1>1, <1>2 DEF LoadBucket
<1>5. /\ call \in Calls /\ call.cumulative \in Nat /\ counts[i] \in Nat /\ seen.counts[i] \in Nat
      /\ c \in Nat /\ c <= counts[i] /\ counts[i] = Cardinality(InBucket(Measured, i))
  BY <1>4 DEF FiguresInv, FigureTypes, Counted, Calls
<1>6. /\ Cardinality(Below(Measured, i + 1)) =
            Cardinality(Below(Measured, i)) + Cardinality(InBucket(Measured, i))
      /\ Cardinality(Below(Measured, i)) \in Nat
  BY BelowNext DEF Measured
<1>7. call.n # 0 /\ call.cumulative <= Cardinality(Below(Measured, i))
  BY <1>1, <1>3 DEF SumInv
<1>8. call.cumulative + c <= Cardinality(Below(Measured, i + 1))
  BY <1>5, <1>6, <1>7
<1>9. \A j : Cardinality(Below(Measured', j)) = Cardinality(Below(Measured, j))
  BY <1>3 DEF Below, Measured, recordVars
<1>10. CASE /\ call.cumulative + c > k \/ i = Buckets - 1
           /\ reader' = "answered"
           /\ call' = [call EXCEPT !.result = Representative(i)]
  <2>1. /\ call'.result = Representative(i) /\ call'.i = i /\ call'.n = call.n
        /\ call'.permille = call.permille
    BY <1>1, <1>5, <1>10 DEF Calls
  <2>2. i = Buckets - 1 \/ Cardinality(Below(Measured, i + 1)) > k
    BY <1>5, <1>6, <1>8, <1>10
  <2>. QED
    BY <1>2, <1>9, <1>10, <2>1, <2>2 DEF SumInv
<1>11. CASE /\ call.cumulative + c <= k /\ i < Buckets - 1
           /\ call' = [call EXCEPT !.cumulative = call.cumulative + c, !.i = i + 1]
           /\ reader' = reader
  <2>1. call'.cumulative = call.cumulative + c /\ call'.i = i + 1 /\ call'.n = call.n
    <3>1. call' = [permille |-> call.permille, n |-> call.n, i |-> i + 1,
                   cumulative |-> call.cumulative + c, result |-> call.result]
      BY <1>5, <1>11 DEF Calls
    <3>. QED
      BY <3>1
  <2>. QED
    BY <1>3, <1>7, <1>8, <1>9, <1>11, <2>1 DEF SumInv
<1>. QED
  BY <1>4, <1>10, <1>11

\* What the reader has summed is there, whatever the recording threads do.
THEOREM SumSound == Spec => []SumInv
<1>1. Init => SumInv
  BY DEF Init, SumInv
<1>2. IInv /\ FiguresInv /\ SumInv /\ [Next]_vars => SumInv'
  <2>. SUFFICES ASSUME IInv, FiguresInv, SumInv, [Next]_vars PROVE SumInv'
    OBVIOUS
  <2>1. ASSUME NEW t \in Threads, Record(t) PROVE SumInv'
    BY <2>1, RecordSum DEF FiguresInv
  <2>2. ASSUME NEW p \in Permilles, LoadTotal(p) PROVE SumInv'
    BY <2>2, LoadTotalSum
  <2>3. CASE Join \/ Reset
    BY <2>3 DEF Join, Reset, SumInv
  <2>4. CASE UNCHANGED vars
    <3>1. Measured' = Measured /\ UNCHANGED readerVars
      BY <2>4 DEF vars, recordVars, Measured
    <3>. QED
      BY <3>1, MeasuredFinite, SumGrows DEF FiguresInv
  <2>. QED
    BY <2>1, <2>2, <2>3, <2>4, LoadBucketSum DEF Next, Read
<1>. QED
  BY <1>1, <1>2, HistogramSound, FiguresSound, PTL DEF Spec

\* A percentile asked for while the threads record is not too low: more samples
\* than its target have been recorded in the bucket it answers for and in those
\* below it, unless it is the last.
THEOREM ConcurrentAnswerNotTooLow == Spec => []AnswerNotTooLow
<1>1. FigureTypes /\ SumInv => AnswerNotTooLow
  <2>. SUFFICES ASSUME FigureTypes, SumInv, reader = "answered", call.n # 0,
                       call.i # Buckets - 1
                PROVE  Cardinality({r \in Measured : BucketIndex(r[1]) <= call.i})
                         > Target(call.n, call.permille)
    BY DEF AnswerNotTooLow, SumInv
  <2>1. {r \in Measured : BucketIndex(r[1]) <= call.i} = Below(Measured, call.i + 1)
    <3>1. \A r \in Measured : BucketIndex(r[1]) \in Int
      BY SampleBucket DEF Measured, Indices
    <3>2. call.i \in Int
      BY DEF FigureTypes, Calls, Indices
    <3>3. \A b \in Int : b <= call.i <=> b < call.i + 1
      BY <3>2
    <3>. QED
      BY <3>1, <3>3 DEF Below
  <2>. QED
    BY <2>1 DEF SumInv
<1>. QED
  BY <1>1, FiguresSound, SumSound, PTL DEF FiguresInv
=============================================================================
