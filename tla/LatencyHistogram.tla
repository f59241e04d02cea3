--------------------------- MODULE LatencyHistogram ---------------------------
(***************************************************************************)
(* The histogram of benchmarks/LatencyHistogram.hpp: threads that record   *)
(* samples without a lock, and one that joins them now and then and asks   *)
(* for percentiles or resets the histogram, as BenchmarkRunner and the     *)
(* unit tests do, or asks while they record, as a dashboard would through  *)
(* PerformanceMetrics::snapshot.                                           *)
(*                                                                         *)
(* Every access is relaxed: a read-modify-write sees the current value, a  *)
(* load any value from the one its thread saw last to the current one,     *)
(* each location on its own.                                               *)
(***************************************************************************)
EXTENDS Integers, FiniteSets, FiniteSetsExt

CONSTANTS
    Threads,    \* those that record
    Samples,    \* the latencies they measure, in nanoseconds
    Buckets,    \* BUCKETS
    Permilles,  \* the percentiles asked for, times ten
    MaxRecords  \* bound: samples recorded

\* 1ull << i
Shift[i \in 0 .. Buckets] == IF i = 0 THEN 1 ELSE 2 * Shift[i - 1]

ASSUME HistogramAssumption ==
    /\ Buckets \in Nat \ {0} /\ MaxRecords \in Nat
    /\ IsFiniteSet(Threads)
    /\ Samples \subseteq 0 .. Shift[Buckets] - 1
    /\ Permilles \subseteq 0 .. 999

VARIABLES
    counts,    \* counts_
    total,     \* total_
    maxes,     \* the values max_ has held since the last reset
    at,        \* where each record() is
    ns,        \* its argument
    cur,       \* what the thread has seen of max_ last
    reader,    \* where percentile() is
    call,      \* its argument, its locals and its result
    seen,      \* what the reader has seen of counts_ and total_ last
    joined,    \* nothing was recorded since the reader joined the threads
    recorded   \* history: how often each sample was recorded since the reset

recordVars == <<counts, total, maxes, at, ns, cur, recorded>>
readerVars == <<reader, call, seen>>
vars == <<recordVars, readerVars, joined>>
-----------------------------------------------------------------------------
Indices == 0 .. Buckets - 1
MaxNs == Max(maxes)

\* floor(log2(ns)), by counting leading zeros
BucketIndex(n) ==
    IF n = 0 THEN 0 ELSE CHOOSE i \in Indices : Shift[i] <= n /\ n < Shift[i + 1]

Representative(i) == IF i = 0 THEN 1 ELSE (Shift[i - 1] + Shift[i] - 1) \div 2

EmptyCounts == [i \in Indices |-> 0]
NoSamples == [s \in Samples |-> 0]
NoCall == [permille |-> 0, n |-> 0, i |-> 0, cumulative |-> 0, result |-> 0]

\* The samples recorded, each as often as it was.
Measured == {r \in Samples \X (1 .. MaxRecords) : r[2] <= recorded[r[1]]}

Init ==
    /\ counts = EmptyCounts /\ total = 0 /\ maxes = {0}
    /\ at = [t \in Threads |-> "idle"]
    /\ ns \in [Threads -> {0}] /\ cur = [t \in Threads |-> 0]
    /\ reader = "idle" /\ call = NoCall
    /\ seen = [counts |-> EmptyCounts, total |-> 0]
    /\ joined = TRUE /\ recorded = NoSamples
-----------------------------------------------------------------------------
\* record(), one access after the other.

recordFrame == <<readerVars, joined>>
Go(t, place) == at' = [at EXCEPT ![t] = place]

CountBucket(t) ==
    /\ at[t] = "idle" /\ Cardinality(Measured) < MaxRecords
    /\ \E n \in Samples :
        /\ ns' = [ns EXCEPT ![t] = n]
        /\ counts' = [counts EXCEPT ![BucketIndex(n)] = @ + 1]
        /\ recorded' = [recorded EXCEPT ![n] = @ + 1]
    /\ Go(t, "total")
    /\ joined' = FALSE
    /\ UNCHANGED <<total, maxes, cur, readerVars>>

CountTotal(t) ==
    /\ at[t] = "total"
    /\ total' = total + 1
    /\ Go(t, "load")
    /\ UNCHANGED <<counts, maxes, ns, cur, recorded, recordFrame>>

\* What a relaxed load of max_ may return: max_ only grows.
SeenOfMax(t) == {m \in maxes : m >= cur[t]}

LoadMax(t) ==
    /\ at[t] = "load"
    /\ \E m \in SeenOfMax(t) : cur' = [cur EXCEPT ![t] = m]
    /\ Go(t, "swap")
    /\ UNCHANGED <<counts, total, maxes, ns, recorded, recordFrame>>

NoLargerMax(t) ==
    /\ at[t] = "swap" /\ ns[t] <= cur[t]
    /\ Go(t, "idle")
    /\ UNCHANGED <<counts, total, maxes, ns, cur, recorded, recordFrame>>

\* Mutant: a store in place of the compare-and-swap.
SwapMaxBlindly(t) ==
    /\ at[t] = "swap" /\ ns[t] > cur[t]
    /\ maxes' = {m \in maxes : m <= cur[t]} \cup {ns[t]}
    /\ cur' = [cur EXCEPT ![t] = ns[t]]
    /\ Go(t, "idle")
    /\ UNCHANGED <<counts, total, ns, recorded, recordFrame>>

SwapMax(t) ==
    /\ at[t] = "swap" /\ ns[t] > cur[t] /\ cur[t] = MaxNs
    /\ maxes' = maxes \cup {ns[t]}
    /\ cur' = [cur EXCEPT ![t] = ns[t]]
    /\ Go(t, "idle")
    /\ UNCHANGED <<counts, total, ns, recorded, recordFrame>>

\* compare_exchange_weak fails, perhaps for no reason, and loads max_ again.
SwapFails(t) ==
    /\ at[t] = "swap" /\ ns[t] > cur[t]
    /\ \E m \in SeenOfMax(t) : cur' = [cur EXCEPT ![t] = m]
    /\ UNCHANGED <<counts, total, maxes, at, ns, recorded, recordFrame>>

Record(t) ==
    \/ CountBucket(t) \/ CountTotal(t) \/ LoadMax(t)
    \/ NoLargerMax(t) \/ SwapMax(t) \/ SwapFails(t)
-----------------------------------------------------------------------------
\* The reader.

\* Mutant: the target is rounded up.
TargetAbove(n, permille) == (n * permille) \div 1000 + 1

\* static_cast<uint64_t>(n * p / 100.0)
Target(n, permille) == (n * permille) \div 1000

\* percentile(): the total first.
LoadTotal(permille) ==
    /\ reader # "summing"
    /\ \E n \in seen.total .. total :
        /\ seen' = [seen EXCEPT !.total = n]
        /\ call' = [NoCall EXCEPT !.permille = permille, !.n = n]
        /\ reader' = IF n = 0 THEN "answered" ELSE "summing"
    /\ UNCHANGED <<recordVars, joined>>

\* Mutant: the sum need only reach the target.
LoadBucketEarly ==
    /\ reader = "summing"
    /\ \E c \in seen.counts[call.i] .. counts[call.i] :
        LET sum == call.cumulative + c
        IN  /\ seen' = [seen EXCEPT !.counts[call.i] = c]
            /\ \/ /\ sum >= Target(call.n, call.permille) \/ call.i = Buckets - 1
                  /\ reader' = "answered"
                  /\ call' = [call EXCEPT !.result = Representative(call.i)]
               \/ /\ sum < Target(call.n, call.permille) /\ call.i < Buckets - 1
                  /\ call' = [call EXCEPT !.cumulative = sum, !.i = @ + 1]
                  /\ UNCHANGED reader
    /\ UNCHANGED <<recordVars, joined>>

\* Then the buckets in turn, until the sum passes the target or they are used up.
LoadBucket ==
    /\ reader = "summing"
    /\ \E c \in seen.counts[call.i] .. counts[call.i] :
        LET sum == call.cumulative + c
        IN  /\ seen' = [seen EXCEPT !.counts[call.i] = c]
            /\ \/ /\ sum > Target(call.n, call.permille) \/ call.i = Buckets - 1
                  /\ reader' = "answered"
                  /\ call' = [call EXCEPT !.result = Representative(call.i)]
               \/ /\ sum <= Target(call.n, call.permille) /\ call.i < Buckets - 1
                  /\ call' = [call EXCEPT !.cumulative = sum, !.i = @ + 1]
                  /\ UNCHANGED reader
    /\ UNCHANGED <<recordVars, joined>>

\* The threads are joined: the reader sees all they did.
Join ==
    /\ ~joined /\ reader # "summing" /\ \A t \in Threads : at[t] = "idle"
    /\ joined' = TRUE
    /\ seen' = [counts |-> counts, total |-> total]
    /\ reader' = "idle" /\ call' = NoCall
    /\ UNCHANGED recordVars

\* reset(); the threads that record afterwards start after it.
Reset ==
    /\ joined /\ reader # "summing"
    /\ counts' = EmptyCounts /\ total' = 0 /\ maxes' = {0}
    /\ recorded' = NoSamples
    /\ ns' = [t \in Threads |-> 0] /\ cur' = [t \in Threads |-> 0]
    /\ seen' = [counts |-> EmptyCounts, total |-> 0]
    /\ reader' = "idle" /\ call' = NoCall
    /\ UNCHANGED <<at, joined>>

Read == (\E p \in Permilles : LoadTotal(p)) \/ LoadBucket \/ Join \/ Reset
-----------------------------------------------------------------------------
Next == (\E t \in Threads : Record(t)) \/ Read

Spec == Init /\ [][Next]_vars
-----------------------------------------------------------------------------
\* The calls of record(s) that have not returned, and those that have.
Pending(s) == {t \in Threads : at[t] # "idle" /\ ns[t] = s}
Returned(s) == recorded[s] > Cardinality(Pending(s))

\* max_ns() loses no sample whose record() has returned, however the threads
\* race for max_, and is never a value nobody recorded.
MaxExact ==
    /\ \A s \in Samples : Returned(s) => s <= MaxNs
    /\ MaxNs # 0 => recorded[MaxNs] > 0

\* The sample with k others below it or equal, in the order of their size.
Ranked(k) ==
    Min({s \in Samples : Cardinality({r \in Measured : r[1] <= s}) > k})

\* percentile() sums the buckets with loads of their own, while the threads go
\* on recording.  However old what it loads: more samples than its target are in
\* the bucket it answers for or below it, or it has come to the last bucket.
AnswerNotTooLow ==
    reader = "answered" /\ call.n # 0 =>
        /\ call.result = Representative(call.i)
        /\ \/ call.i = Buckets - 1
           \/ Cardinality({r \in Measured : BucketIndex(r[1]) <= call.i})
                > Target(call.n, call.permille)

\* Once the recording threads are joined, percentile() answers with the value
\* that stands for the bucket of the sample of that rank.
PercentileRanked ==
    joined /\ reader = "answered" =>
        LET n == Cardinality(Measured)
            s == Ranked((n * call.permille) \div 1000)
        IN  call.result = IF n = 0 THEN 0 ELSE Representative(BucketIndex(s))

-----------------------------------------------------------------------------
\* What the header says of this, and the code does not keep.

\* Bucket i covers [2^(i-1), 2^i) (LatencyHistogram.hpp:10), and its mid-point
\* stands for it (LatencyHistogram.hpp:86): the sample asked for and the answer
\* are in one such range.
AnswerInBucketRange ==
    joined /\ reader = "answered" =>
        LET n == Cardinality(Measured)
            s == Ranked((n * call.permille) \div 1000)
        IN  n # 0 /\ s > 0 =>
                \E i \in 1 .. Buckets : {s, call.result} \subseteq Shift[i - 1] .. Shift[i] - 1
=============================================================================
