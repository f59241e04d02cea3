----------------------------- MODULE EngineMemory -----------------------------
(***************************************************************************)
(* The engine's memory: the object pools of engine/memory/ObjectPool.hpp,  *)
(* built by StartupAllocator::start and checked by StartupValidator, the   *)
(* figures SnapshotPublisher publishes of them, and the AllocationGuard    *)
(* that counts the operator new calls of every thread.                     *)
(*                                                                         *)
(* The engine thread starts, validates, allocates, releases and publishes. *)
(* It keeps the obligations the headers state: a pointer is released once, *)
(* to the pool it came from, start() runs while no pointer is out and no   *)
(* guard is open, guards do not nest.  Threads are the other threads,      *)
(* which call operator new at any time, in two steps: the load of          *)
(* g_engine_running and the increment of the counter.  The load is         *)
(* relaxed: after a guard has closed, a thread may still read the value    *)
(* TRUE, until it has read FALSE once; a load that reads FALSE late        *)
(* counts nothing and is no step.  The increment depends on the load's     *)
(* branch: no processor stores it before the load, so it comes after the   *)
(* reset that precedes the flag.                                           *)
(***************************************************************************)
EXTENDS Integers, FiniteSets

CONSTANTS
    Pools,         \* the pools start() builds
    Configs,       \* the configurations: a capacity for each pool
    Threads,       \* the threads that allocate beside the engine
    MaxStarts,     \* bound: calls of start()
    MaxExhausted,  \* bound: refused allocations of one pool
    MaxNews        \* bound: allocations counted under one guard

ASSUME MemoryAssumption ==
    /\ IsFiniteSet(Pools) /\ IsFiniteSet(Threads)
    /\ Configs \subseteq [Pools -> Nat]
    /\ {MaxStarts, MaxExhausted, MaxNews} \subseteq Nat

VARIABLES
    gen,      \* how often start() has run; its pools are generation gen
    size,     \* of each ObjectPool: its capacity,
    list,     \*   free_list_,
    top,      \*   top_: how many entries of free_list_ are free slots,
    exhausted,\*   and exhaustion_count_
    held,     \* the pointers handed out and not released
    valid,    \* the outcome of validate() on the pools of this generation
    startup,  \* the startup section of the published snapshot
    figures,  \* its pools section; empty until update_pools has run
    guard,    \* where the engine thread is in an AllocationGuard
    running,  \* g_engine_running
    stale,    \* the threads that may still read TRUE after it was cleared
    count,    \* g_unexpected_alloc_count
    adding,   \* the threads between load and increment, and under which guard
    due,      \* history: calls that found this guard running, late ones too
    strays    \* history: increments of calls that found an earlier one running

poolVars  == <<gen, size, list, top, exhausted, held, valid>>
snapVars  == <<startup, figures>>
guardVars == <<guard, running, stale, count, adding, due, strays>>
vars == <<poolVars, snapVars, guardVars>>
-----------------------------------------------------------------------------
\* A pointer names its pool, the generation of the pool and the slot.
Pointers == Pools \X Nat \X Nat

\* The constructor: every slot is on the stack.
Filled(g, sizes) == [p \in Pools |-> [i \in 1 .. sizes[p] |-> <<p, g, i>>]]

Started == gen > 0

HeldOf(p)  == {ptr \in held : ptr[1] = p}
FreeOf(p)  == {list[p][i] : i \in 1 .. top[p]}
Storage(p) == {p} \X {gen} \X (1 .. size[p])

\* The default-constructed allocator, snapshot and guard.
Init ==
    /\ gen = 0 /\ held = {} /\ valid = "none"
    /\ size = [p \in Pools |-> 0] /\ list = Filled(0, size)
    /\ top = size /\ exhausted = size
    /\ startup = [capacity |-> [p \in Pools |-> 0], passed |-> FALSE]
    /\ figures = << >>
    /\ guard = "closed" /\ running = FALSE /\ stale = {} /\ count = 0
    /\ adding = [t \in Threads |-> "no"] /\ due = 0 /\ strays = 0

\* start(): every pool is built anew; mlockall may fail, which changes nothing
\* here.
Start(sizes) ==
    /\ guard = "closed" /\ held = {} /\ gen < MaxStarts
    /\ gen' = gen + 1
    /\ size' = sizes /\ top' = sizes /\ list' = Filled(gen + 1, sizes)
    /\ exhausted' = [p \in Pools |-> 0]
    /\ valid' = "none"
    /\ UNCHANGED <<held, snapVars, guardVars>>

\* Mutant: one pool with slots is enough.
PoolsPassAny == Started /\ \E p \in Pools : size[p] # 0

\* check_pools; check_timing and check_numa pass on a steady clock.
PoolsPass == Started /\ \A p \in Pools : size[p] # 0

Validate ==
    /\ guard = "closed"
    /\ valid' = IF PoolsPass THEN "passed" ELSE "failed"
    /\ UNCHANGED <<gen, size, list, top, exhausted, held, snapVars, guardVars>>

\* Mutant: the pointer taken is not the one on top.
AllocateBottom(p) ==
    /\ Started /\ top[p] # 0
    /\ top' = [top EXCEPT ![p] = @ - 1]
    /\ held' = held \cup {list[p][1]}
    /\ UNCHANGED <<gen, size, list, exhausted, valid, snapVars, guardVars>>

Allocate(p) ==
    /\ Started /\ top[p] # 0
    /\ top' = [top EXCEPT ![p] = @ - 1]
    /\ held' = held \cup {list[p][top[p]]}
    /\ UNCHANGED <<gen, size, list, exhausted, valid, snapVars, guardVars>>

\* allocate() on an exhausted pool returns nullptr.
Refuse(p) ==
    /\ Started /\ top[p] = 0 /\ exhausted[p] < MaxExhausted
    /\ exhausted' = [exhausted EXCEPT ![p] = @ + 1]
    /\ UNCHANGED <<gen, size, list, top, held, valid, snapVars, guardVars>>

\* Mutant: the index moves twice.
ReleaseSkips(p, ptr) ==
    /\ ptr \in HeldOf(p)
    /\ list' = [list EXCEPT ![p][top[p] + 1] = ptr]
    /\ top' = [top EXCEPT ![p] = @ + 2]
    /\ held' = held \ {ptr}
    /\ UNCHANGED <<gen, size, exhausted, valid, snapVars, guardVars>>

Release(p, ptr) ==
    /\ ptr \in HeldOf(p)
    /\ list' = [list EXCEPT ![p][top[p] + 1] = ptr]
    /\ top' = [top EXCEPT ![p] = @ + 1]
    /\ held' = held \ {ptr}
    /\ UNCHANGED <<gen, size, exhausted, valid, snapVars, guardVars>>
-----------------------------------------------------------------------------
\* update_startup(), called with the outcome of a validation.
UpdateStartup ==
    /\ guard = "closed" /\ valid # "none"
    /\ startup' = [capacity |-> size,
                   passed |-> valid = "passed"]
    /\ UNCHANGED <<poolVars, figures, guardVars>>

Figures(p) ==
    [capacity |-> size[p], used |-> size[p] - top[p],
     available |-> top[p], exhausted |-> exhausted[p]]

\* update_pools(): the vector it fills grows, in one to |Pools| allocations,
\* the first time only: clear() keeps its room.
UpdatePools(growth) ==
    /\ Started
    /\ figures' = [p \in Pools |-> Figures(p)]
    /\ IF running /\ figures = << >>
       THEN due + growth <= MaxNews /\ due' = due + growth /\ count' = count + growth
       ELSE UNCHANGED <<due, count>>
    /\ UNCHANGED <<poolVars, startup, guard, running, stale, adding, strays>>
-----------------------------------------------------------------------------
\* The constructor of AllocationGuard resets the counter, then starts counting.
OpenReset ==
    /\ guard = "closed" /\ guard' = "opening"
    /\ count' = 0 /\ due' = 0 /\ strays' = 0
    /\ adding' = [t \in Threads |-> IF adding[t] = "no" THEN "no" ELSE "earlier"]
    /\ UNCHANGED <<poolVars, snapVars, running, stale>>

\* Mutant: the counter is reset after the flag is set.
OpenRunResets ==
    /\ guard = "opening" /\ guard' = "open"
    /\ running' = TRUE /\ count' = 0
    /\ UNCHANGED <<poolVars, snapVars, stale, adding, due, strays>>

OpenRun ==
    /\ guard = "opening" /\ guard' = "open"
    /\ running' = TRUE
    /\ UNCHANGED <<poolVars, snapVars, stale, count, adding, due, strays>>

Close ==
    /\ guard = "open" /\ guard' = "closed"
    /\ running' = FALSE /\ stale' = Threads
    /\ UNCHANGED <<poolVars, snapVars, count, adding, due, strays>>

\* guarded_alloc finds the flag set, in a value that may be stale.  While a
\* guard opens, its counter is reset already and the value is of an earlier one.
NewLoad(t) ==
    /\ adding[t] = "no" /\ (running \/ t \in stale)
    /\ due < MaxNews /\ strays < MaxNews
    /\ adding' = [adding EXCEPT ![t] = IF guard = "opening" THEN "earlier" ELSE "current"]
    /\ due' = IF guard = "opening" THEN due ELSE due + 1
    /\ UNCHANGED <<poolVars, snapVars, guard, running, stale, count, strays>>

\* It finds the flag clear, calls malloc only, and reads no older value again.
NewMiss(t) ==
    /\ adding[t] = "no" /\ ~running /\ t \in stale
    /\ stale' = stale \ {t}
    /\ UNCHANGED <<poolVars, snapVars, guard, running, count, adding, due, strays>>

\* ... and counts.
NewAdd(t) ==
    /\ adding[t] # "no"
    /\ count' = count + 1
    /\ strays' = IF adding[t] = "earlier" THEN strays + 1 ELSE strays
    /\ adding' = [adding EXCEPT ![t] = "no"]
    /\ UNCHANGED <<poolVars, snapVars, guard, running, stale, due>>
-----------------------------------------------------------------------------
Next ==
    \/ \E sizes \in Configs : Start(sizes)
    \/ Validate
    \/ \E p \in Pools : Allocate(p) \/ Refuse(p) \/ \E ptr \in held : Release(p, ptr)
    \/ UpdateStartup
    \/ \E growth \in 1 .. Cardinality(Pools) : UpdatePools(growth)
    \/ OpenReset \/ OpenRun \/ Close
    \/ \E t \in Threads : NewLoad(t) \/ NewMiss(t) \/ NewAdd(t)

Spec == Init /\ [][Next]_vars
-----------------------------------------------------------------------------
\* The state has its types; a stack of free slots never outgrows its pool,
\* which is what the assertion in release() says.
TypeOK ==
    /\ gen \in Nat
    /\ size \in [Pools -> Nat] /\ exhausted \in [Pools -> Nat]
    /\ top \in [Pools -> Nat] /\ \A p \in Pools : top[p] <= size[p]
    /\ list = [p \in Pools |-> list[p]]
    /\ \A p \in Pools : list[p] \in [1 .. size[p] -> Storage(p)]
    /\ held \subseteq Pointers
    /\ valid \in {"none", "passed", "failed"}
    /\ startup \in [capacity : [Pools -> Nat], passed : BOOLEAN]
    /\ figures = << >> \/ DOMAIN figures = Pools
    /\ guard \in {"closed", "opening", "open"} /\ running = (guard = "open")
    /\ stale \subseteq Threads
    /\ {count, due, strays} \subseteq Nat
    /\ adding \in [Threads -> {"no", "current", "earlier"}]

\* The free slots of a pool and the pointers its users hold are the storage of
\* the pool, each slot once: no slot is handed out twice, none is lost, and
\* used() is the number of pointers that are out.
SlotsPartitioned ==
    \A p \in Pools :
        /\ \A i, j \in 1 .. top[p] : list[p][i] = list[p][j] => i = j
        /\ FreeOf(p) \cap HeldOf(p) = {}
        /\ FreeOf(p) \cup HeldOf(p) = Storage(p)
        /\ Cardinality(HeldOf(p)) = size[p] - top[p]

\* allocate() on a pool that validate() passed fails only while its slots are
\* in use, whatever was allocated, released and refused since.
ValidatedPoolsServe ==
    valid = "passed" => \A p \in Pools : top[p] = 0 => HeldOf(p) # {}

\* A startup section that shows a passed validation shows no empty pool.
PublishedStartupTrue ==
    startup.passed => \A p \in Pools : startup.capacity[p] > 0

\* The counter of a guard is the number of operator new calls that found it
\* running and have counted, plus those that found an earlier guard running
\* and count only now: opening a guard forgets no call of its own.
GuardCountsItsOwn ==
    count + Cardinality({t \in Threads : adding[t] = "current"}) = due + strays
=============================================================================
