-------------------------- MODULE Dashboard_proofs --------------------------
(****************************************************************************)
(* Proofs about Dashboard.tla, for every source, every strategy and every   *)
(* bound: when run() returns, which trades the clients are shown, and how   *)
(* far a snapshot can be from the source of the replay.                     *)
(****************************************************************************)
EXTENDS Dashboard, FiniteSetTheorems, NaturalsInduction, TLAPS

(* Shutting down: the broadcast thread ends only after a stop(), a stop()   *)
(* is always a signal's, and run() waits for the broadcast thread.          *)

ServerInv ==
    /\ handler # "idle" => gstop
    /\ main # "called" /\ ~running => gstop
    /\ bcast # "none" => main # "called"
    /\ bcast \in {"closing", "ended"} => ~running
    /\ main \in {"called", "entered", "listening", "starting"} => bcast = "none"
    /\ main \in {"joining", "returned", "exited"} => listen # "open"
    /\ main \in {"returned", "exited"} => bcast = "ended"

(* The replay thread and the clients touch nothing of this. *)
LEMMA ServerFrame ==
  ASSUME ServerInv, UNCHANGED <<handler, gstop, main, running, bcast>>,
         listen' = listen \/ (listen' # "open" /\ listen = "open")
  PROVE  ServerInv'
  BY DEF ServerInv

LEMMA ServerReplay == ASSUME ServerInv, ReplayStep PROVE ServerInv'
<1>1. UNCHANGED <<handler, gstop, main, running, bcast, listen>>
  BY DEF ReplayStep, Fetch, EndLoop, UpdateReplay, UpdateTimestamp, Process, PushTrade,
         UpdateOrderbook, UpdateMetrics, othersThanReplay, serverVars, queueVars, bcastVars, signalVars
<1>. QED
  BY <1>1, ServerFrame

LEMMA ServerMain == ASSUME ServerInv, MainStep PROVE ServerInv'
<1>. USE DEF othersThanMain, bcastVars, signalVars, queueVars
<1>1. CASE EnterRun
  BY <1>1 DEF EnterRun, ServerInv
<1>2. CASE GetLoop
  BY <1>2 DEF GetLoop, ServerInv
<1>3. CASE Listen
  BY <1>3 DEF Listen, ServerInv
<1>4. CASE StartBroadcast
  BY <1>4 DEF StartBroadcast, ServerInv
<1>5. CASE RunDeferred
  <2>1. UNCHANGED <<handler, gstop, main, running, bcast>>
        /\ (listen' = listen \/ (listen' # "open" /\ listen = "open"))
    BY <1>5 DEF RunDeferred
  <2>. QED
    BY <2>1, ServerFrame
<1>6. CASE LoopReturns
  BY <1>6 DEF LoopReturns, ServerInv
<1>7. CASE JoinBroadcast
  BY <1>7 DEF JoinBroadcast, ServerInv
<1>8. CASE JoinReplay
  BY <1>8 DEF JoinReplay, ServerInv
<1>9. CASE LockQueue
  BY <1>9, ServerFrame DEF LockQueue
<1>. QED
  BY <1>1, <1>2, <1>3, <1>4, <1>5, <1>6, <1>7, <1>8, <1>9 DEF MainStep

LEMMA ServerClients == ASSUME ServerInv, Connect \/ Disconnect PROVE ServerInv'
<1>1. UNCHANGED <<handler, gstop, main, running, bcast, listen>>
  BY DEF Connect, Disconnect, othersThanMain, bcastVars, signalVars
<1>. QED
  BY <1>1, ServerFrame

LEMMA ServerBroadcast == ASSUME ServerInv, BroadcastStep PROVE ServerInv'
<1>. USE DEF othersThanBroadcast, serverVars, signalVars, bcastVars, ServerInv
<1>1. CASE CheckRunning
  BY <1>1 DEF CheckRunning
<1>2. CASE Copy
  BY <1>2 DEF Copy
<1>3. CASE DeferPublish
  BY <1>3 DEF DeferPublish
<1>4. CASE DeferClose
  BY <1>4 DEF DeferClose
<1>5. CASE LockLoop
  BY <1>5 DEF LockLoop
<1>. QED
  BY <1>1, <1>2, <1>3, <1>4, <1>5 DEF BroadcastStep

LEMMA ServerSignal == ASSUME ServerInv, Signal \/ SignalStep PROVE ServerInv'
<1>. USE DEF othersThanSignal, serverVars, queueVars, bcastVars, ServerInv
<1>1. CASE Signal
  BY <1>1 DEF Signal
<1>2. CASE Stop
  BY <1>2 DEF Stop
<1>3. CASE StopDefers
  BY <1>3 DEF StopDefers
<1>. QED
  BY <1>1, <1>2, <1>3 DEF SignalStep

\* The server part of the invariant holds in every reachable state.
THEOREM ServerSound == Spec => []ServerInv
<1>1. Init => ServerInv
  BY DEF Init, ServerInv
<1>2. ServerInv /\ [Next]_vars => ServerInv'
  <2>. SUFFICES ASSUME ServerInv, [Next]_vars PROVE ServerInv'
    OBVIOUS
  <2>1. CASE UNCHANGED vars
    BY <2>1, ServerFrame DEF vars, serverVars, queueVars, bcastVars, signalVars
  <2>. QED
    BY <2>1, ServerReplay, ServerMain, ServerClients, ServerBroadcast, ServerSignal DEF Next
<1>. QED
  BY <1>1, <1>2, PTL DEF Spec

\* run() returns only when a signal has stopped the server, whether or not the
\* port could be bound.
THEOREM RunReturnsStopped == Spec => []RunBlocksUntilStop
<1>1. ServerInv => RunBlocksUntilStop
  BY DEF ServerInv, RunBlocksUntilStop
<1>. QED
  BY <1>1, ServerSound, PTL

-----------------------------------------------------------------------------
(* The mutex of the loop's queue: who holds it is at the step it is held    *)
(* for, and nobody else touches the queue.  The handler runs on a thread as *)
(* long as it runs.                                                         *)

MutexInv ==
    /\ mutex \in {"free", "main", "broadcast"}
    /\ mutex = "main" => main = "looping" /\ deferred # << >>
    /\ mutex = "broadcast" => bcast \in {"copied", "closing"}
    /\ interrupted \in {"none", "main", "replay", "broadcast"}
    /\ interrupted = "none" <=> handler = "idle"

LEMMA MutexMain ==
  ASSUME MutexInv, ServerInv, MainStep \/ Connect \/ Disconnect
  PROVE  MutexInv'
<1>. USE DEF othersThanMain, bcastVars, signalVars, queueVars, MutexInv
<1>1. CASE EnterRun \/ GetLoop \/ Listen
  BY <1>1 DEF EnterRun, GetLoop, Listen
<1>2. CASE JoinBroadcast \/ JoinReplay
  BY <1>2 DEF JoinBroadcast, JoinReplay
<1>3. CASE Connect
  BY <1>3 DEF Connect
<1>4. CASE Disconnect
  BY <1>4 DEF Disconnect
<1>5. CASE StartBroadcast
  BY <1>5 DEF StartBroadcast, ServerInv
<1>6. CASE LockQueue
  BY <1>6 DEF LockQueue
<1>7. CASE RunDeferred
  BY <1>7 DEF RunDeferred
<1>8. CASE LoopReturns
  BY <1>8 DEF LoopReturns
<1>. QED
  BY <1>1, <1>2, <1>3, <1>4, <1>5, <1>6, <1>7, <1>8 DEF MainStep

LEMMA MutexBroadcast == ASSUME MutexInv, BroadcastStep PROVE MutexInv'
<1>. USE DEF othersThanBroadcast, serverVars, signalVars, queueVars, bcastVars, MutexInv
<1>1. CASE CheckRunning
  BY <1>1 DEF CheckRunning
<1>2. CASE Copy
  BY <1>2 DEF Copy
<1>3. CASE LockLoop
  BY <1>3 DEF LockLoop
<1>4. CASE DeferPublish
  BY <1>4 DEF DeferPublish
<1>5. CASE DeferClose
  BY <1>5 DEF DeferClose
<1>. QED
  BY <1>1, <1>2, <1>3, <1>4, <1>5 DEF BroadcastStep

LEMMA MutexSignal ==
  ASSUME MutexInv, Signal \/ SignalStep
  PROVE  MutexInv'
<1>. USE DEF othersThanSignal, serverVars, queueVars, bcastVars, MutexInv
<1>1. CASE Signal
  BY <1>1 DEF Signal, Threads
<1>2. CASE Stop
  BY <1>2 DEF Stop
<1>3. CASE StopDefers
  BY <1>3 DEF StopDefers
<1>. QED
  BY <1>1, <1>2, <1>3 DEF SignalStep

\* Whoever holds the mutex of the queue is about to use the queue.
THEOREM MutexSound == Spec => []MutexInv
<1>1. Init => MutexInv
  BY DEF Init, MutexInv
<1>2. MutexInv /\ ServerInv /\ [Next]_vars => MutexInv'
  <2>. SUFFICES ASSUME MutexInv, ServerInv, [Next]_vars PROVE MutexInv'
    OBVIOUS
  <2>1. CASE UNCHANGED vars
    BY <2>1 DEF vars, serverVars, queueVars, bcastVars, signalVars, MutexInv
  <2>2. CASE ReplayStep
    BY <2>2 DEF ReplayStep, Fetch, EndLoop, UpdateReplay, UpdateTimestamp, Process, PushTrade,
       UpdateOrderbook, UpdateMetrics, othersThanReplay, serverVars, queueVars, bcastVars,
       signalVars, MutexInv
  <2>. QED
    BY <2>1, <2>2, MutexMain, MutexBroadcast, MutexSignal DEF Next
<1>. QED
  BY <1>1, <1>2, ServerSound, PTL DEF Spec

-----------------------------------------------------------------------------
(* The trades: the last of the first n, as many as there is room for, in    *)
(* the publisher's snapshot and in every copy of it on its way.             *)

Window(T, n) ==
    /\ T \in Seq(Nat) /\ n \in Nat
    /\ Len(T) = IF n < MaxTrades THEN n ELSE MaxTrades
    /\ \A k \in 1 .. Len(T) : T[k] = n - Len(T) + k

Windowed(s) == \E n \in Nat : Window(s.trades, n)

Waiting(work) == work.do = "publish" => Windowed(work.what)

TradesInv ==
    /\ "trades" \in DOMAIN snap /\ Window(snap.trades, traded)
    /\ Windowed(json) /\ Windowed(shown)
    /\ \E S : deferred \in Seq(S) /\ \A work \in S : Waiting(work)

(* push_trade slides the window by one. *)
LEMMA WindowSlides ==
  ASSUME NEW T, NEW n, Window(T, n)
  PROVE  Window(WithTrade(T, n + 1), n + 1)
<1>. DEFINE A == Append(T, n + 1)
<1>1. /\ T \in Seq(Nat) /\ n \in Nat /\ n + 1 \in Nat /\ Len(T) \in Nat
      /\ Len(T) = IF n < MaxTrades THEN n ELSE MaxTrades
      /\ \A k \in 1 .. Len(T) : T[k] = n - Len(T) + k
  BY DEF Window
<1>2. MaxTrades \in Nat /\ MaxTrades > 0
  BY DashboardAssumption
<1>3. /\ A \in Seq(Nat) /\ Len(A) = Len(T) + 1
      /\ \A k \in 1 .. Len(A) : A[k] = n - Len(T) + k
  BY <1>1
<1>. HIDE DEF A
<1>4. CASE n < MaxTrades
  <2>1. WithTrade(T, n + 1) = A
    BY <1>1, <1>2, <1>4 DEF WithTrade, A
  <2>. QED
    BY <2>1, <1>1, <1>2, <1>3, <1>4 DEF Window
<1>5. CASE n >= MaxTrades
  <2>1. WithTrade(T, n + 1) = Tail(A)
    BY <1>1, <1>2, <1>5 DEF WithTrade, A
  <2>2. /\ Tail(A) \in Seq(Nat) /\ Len(Tail(A)) = Len(T)
        /\ \A k \in 1 .. Len(Tail(A)) : Tail(A)[k] = A[k + 1]
    BY <1>1, <1>2, <1>3, <1>5
  <2>3. ASSUME NEW k \in 1 .. Len(Tail(A))
        PROVE  Tail(A)[k] = n + 1 - Len(Tail(A)) + k
    <3>1. k \in Int /\ k + 1 \in 1 .. Len(A) /\ Len(Tail(A)) = Len(T)
      BY <2>2, <1>1, <1>3
    <3>2. Tail(A)[k] = n - Len(T) + (k + 1)
      BY <3>1, <2>2, <1>3
    <3>3. n \in Int /\ Len(T) \in Int
      BY <1>1
    <3>4. n - Len(T) + (k + 1) = n + 1 - Len(T) + k
      BY <3>1, <3>3
    <3>. QED
      BY <3>1, <3>2, <3>4
  <2>4. Len(Tail(A)) = MaxTrades /\ ~(n + 1 < MaxTrades)
    BY <2>2, <1>1, <1>2, <1>5
  <2>. DEFINE B == Tail(A)
  <2>5. B \in Seq(Nat) /\ Len(B) = MaxTrades /\ ~(n + 1 < MaxTrades)
        /\ \A k \in 1 .. Len(B) : B[k] = n + 1 - Len(B) + k
    BY <2>2, <2>3, <2>4
  <2>. HIDE DEF B
  <2>6. Window(B, n + 1)
    BY <2>5, <1>1 DEF Window
  <2>. QED
    BY <2>1, <2>6 DEF B
<1>. QED
  BY <1>1, <1>2, <1>4, <1>5

(* A window tells how many trades there were. *)
LEMMA WindowLast ==
  ASSUME NEW s, NEW n, Window(s.trades, n)
  PROVE  LastTrade(s) = n
<1>. DEFINE T == s.trades
<1>1. MaxTrades \in Nat /\ MaxTrades > 0
  BY DashboardAssumption
<1>2. /\ T \in Seq(Nat) /\ n \in Nat /\ Len(T) \in Nat
      /\ Len(T) = IF n < MaxTrades THEN n ELSE MaxTrades
      /\ \A k \in 1 .. Len(T) : T[k] = n - Len(T) + k
  BY DEF Window
<1>3. LastTrade(s) = IF T = << >> THEN 0 ELSE T[Len(T)]
  BY DEF LastTrade
<1>. HIDE DEF T
<1>4. CASE T = << >>
  BY <1>1, <1>2, <1>3, <1>4
<1>5. CASE T # << >>
  <2>1. Len(T) \in 1 .. Len(T)
    BY <1>2, <1>5
  <2>2. T[Len(T)] = n
    BY <2>1, <1>2
  <2>. QED
    BY <2>2, <1>3, <1>5
<1>. QED
  BY <1>4, <1>5

(* Deferring work, and running the first of it. *)
LEMMA WaitingAppend ==
  ASSUME NEW D, NEW S, D \in Seq(S), \A w \in S : Waiting(w), NEW work, Waiting(work)
  PROVE  \E R : Append(D, work) \in Seq(R) /\ \A w \in R : Waiting(w)
<1>1. D \in Seq(S \cup {work})
  <2>1. \A i \in 1 .. Len(D) : D[i] \in S
    OBVIOUS
  <2>. QED
    BY <2>1
<1>2. Append(D, work) \in Seq(S \cup {work})
  BY <1>1
<1>. QED
  BY <1>2

(* Steps that leave the trades and their copies alone. *)
LEMMA TradesFrame ==
  ASSUME TradesInv, "trades" \in DOMAIN snap', snap'.trades = snap.trades,
         UNCHANGED <<traded, json, shown, deferred>>
  PROVE  TradesInv'
  BY DEF TradesInv, Windowed, Window

LEMMA TradesReplay == ASSUME TradesInv, ReplayStep PROVE TradesInv'
<1>1. UNCHANGED <<json, shown, deferred>>
  BY DEF ReplayStep, Fetch, EndLoop, UpdateReplay, UpdateTimestamp, Process, PushTrade,
         UpdateOrderbook, UpdateMetrics, othersThanReplay, serverVars, queueVars, bcastVars
<1>2. "trades" \in DOMAIN snap
  BY DEF TradesInv
<1>3. CASE PushTrade /\ traded' # traded
  <2>1. traded' = traded + 1 /\ snap' = [snap EXCEPT !.trades = WithTrade(@, traded + 1)]
    BY <1>3 DEF PushTrade
  <2>2. "trades" \in DOMAIN snap' /\ snap'.trades = WithTrade(snap.trades, traded + 1)
    BY <2>1, <1>2
  <2>3. Window(snap'.trades, traded')
    BY <2>1, <2>2, WindowSlides DEF TradesInv
  <2>. QED
    BY <1>1, <2>2, <2>3 DEF TradesInv, Windowed, Window
<1>4. ASSUME "trades" \in DOMAIN snap', snap'.trades = snap.trades, traded' = traded
      PROVE  TradesInv'
  BY <1>1, <1>4, TradesFrame
<1>5. CASE PushTrade /\ traded' = traded
  <2>1. snap' = snap
    BY <1>5 DEF PushTrade, TradesInv, Window
  <2>. QED
    BY <2>1, <1>2, <1>4, <1>5
<1>6. CASE Fetch \/ EndLoop \/ Process
  BY <1>2, <1>4, <1>6 DEF Fetch, EndLoop, Process
<1>7. CASE UpdateReplay
  BY <1>2, <1>4, <1>7 DEF UpdateReplay, WithReplay
<1>8. CASE UpdateTimestamp
  BY <1>2, <1>4, <1>8 DEF UpdateTimestamp
<1>9. CASE UpdateOrderbook
  BY <1>2, <1>4, <1>9 DEF UpdateOrderbook
<1>10. CASE UpdateMetrics
  BY <1>2, <1>4, <1>10 DEF UpdateMetrics
<1>. QED
  BY <1>3, <1>5, <1>6, <1>7, <1>8, <1>9, <1>10 DEF ReplayStep

LEMMA TradesMain ==
  ASSUME TradesInv, MutexInv, MainStep \/ Connect \/ Disconnect
  PROVE  TradesInv'
<1>1. UNCHANGED <<snap, traded, json>>
  BY DEF MainStep, EnterRun, GetLoop, Listen, StartBroadcast, LockQueue, RunDeferred,
         LoopReturns, JoinBroadcast, JoinReplay, Connect, Disconnect, othersThanMain,
         replayVars, bcastVars
<1>2. CASE UNCHANGED <<shown, deferred>>
  BY <1>1, <1>2, TradesFrame DEF TradesInv
<1>3. CASE RunDeferred
  <2>1. PICK S : deferred \in Seq(S) /\ \A work \in S : Waiting(work)
    BY DEF TradesInv
  <2>2. deferred # << >> /\ deferred' = Tail(deferred)
        /\ shown' = IF Head(deferred).do = "publish" THEN Head(deferred).what ELSE shown
    BY <1>3 DEF RunDeferred, MutexInv
  <2>3. deferred' \in Seq(S) /\ Head(deferred) \in S
    BY <2>1, <2>2
  <2>4. Windowed(shown)'
    BY <2>1, <2>2, <2>3 DEF Waiting, TradesInv, Windowed
  <2>. QED
    BY <1>1, <2>1, <2>3, <2>4 DEF TradesInv, Windowed, Window, Waiting
<1>4. CASE LoopReturns
  <2>1. deferred' \in Seq({}) /\ shown' = shown
    BY <1>4 DEF LoopReturns
  <2>2. \E S : deferred' \in Seq(S) /\ \A work \in S : Waiting(work)
    BY <2>1
  <2>. QED
    BY <1>1, <2>1, <2>2 DEF TradesInv, Windowed, Window
<1>. QED
  BY <1>2, <1>3, <1>4 DEF MainStep, EnterRun, GetLoop, Listen, StartBroadcast, LockQueue,
         JoinBroadcast, JoinReplay, Connect, Disconnect, queueVars

LEMMA TradesBroadcast == ASSUME TradesInv, BroadcastStep PROVE TradesInv'
<1>1. UNCHANGED <<snap, traded, shown>>
  BY DEF BroadcastStep, CheckRunning, Copy, LockLoop, DeferPublish, DeferClose,
         othersThanBroadcast, replayVars, serverVars
<1>2. Window(snap.trades, traded) /\ traded \in Nat /\ Windowed(json) /\ Windowed(shown)
  BY DEF TradesInv, Window
<1>3. CASE CheckRunning
  BY <1>1, <1>3, TradesFrame DEF CheckRunning, queueVars, TradesInv
<1>4. CASE Copy
  <2>1. json' \in {json, snap} /\ deferred' = deferred
    BY <1>4 DEF Copy, queueVars
  <2>2. Windowed(json)'
    BY <2>1, <1>2 DEF Windowed
  <2>. QED
    BY <1>1, <2>1, <2>2 DEF TradesInv, Windowed, Window
<1>5. ASSUME NEW work, Waiting(work), Defer(work), json' = json PROVE TradesInv'
  <2>1. PICK S : deferred \in Seq(S) /\ \A w \in S : Waiting(w)
    BY DEF TradesInv
  <2>2. \E R : deferred' \in Seq(R) /\ \A w \in R : Waiting(w)
    BY <2>1, <1>5, WaitingAppend DEF Defer
  <2>. QED
    BY <1>1, <1>5, <2>2 DEF TradesInv, Windowed, Window
<1>6. CASE DeferPublish
  <2>1. Waiting(PublishWork(json))
    BY <1>2 DEF Waiting, PublishWork
  <2>. QED
    BY <2>1, <1>5, <1>6 DEF DeferPublish
<1>7. CASE DeferClose
  <2>1. Waiting(CloseWork)
    BY DEF Waiting, CloseWork
  <2>. QED
    BY <2>1, <1>5, <1>7 DEF DeferClose
<1>8. CASE LockLoop
  BY <1>1, <1>8, TradesFrame DEF LockLoop, bcastVars, TradesInv
<1>. QED
  BY <1>3, <1>4, <1>6, <1>7, <1>8 DEF BroadcastStep

LEMMA TradesSignal == ASSUME TradesInv, Signal \/ SignalStep PROVE TradesInv'
<1>1. UNCHANGED <<snap, traded, json, shown>>
  BY DEF Signal, SignalStep, Stop, StopDefers, othersThanSignal, replayVars, serverVars, queueVars, bcastVars
<1>2. CASE UNCHANGED deferred
  BY <1>1, <1>2, TradesFrame DEF TradesInv
<1>3. CASE StopDefers /\ Defer(CloseWork)
  <2>1. Waiting(CloseWork)
    BY DEF Waiting, CloseWork
  <2>2. PICK S : deferred \in Seq(S) /\ \A w \in S : Waiting(w)
    BY DEF TradesInv
  <2>3. \E R : deferred' \in Seq(R) /\ \A w \in R : Waiting(w)
    BY <2>1, <2>2, <1>3, WaitingAppend DEF Defer
  <2>. QED
    BY <1>1, <2>3 DEF TradesInv, Windowed, Window
<1>. QED
  BY <1>2, <1>3 DEF Signal, SignalStep, Stop, StopDefers, queueVars

LEMMA TradesInit == Init => TradesInv
<1>. SUFFICES ASSUME Init PROVE TradesInv
  OBVIOUS
<1>1. Window(<< >>, 0)
  BY DashboardAssumption DEF Window
<1>2. /\ snap = EmptySnapshot /\ json = EmptySnapshot /\ shown = EmptySnapshot
      /\ traded = 0 /\ deferred \in Seq({})
  BY DEF Init
<1>3. "trades" \in DOMAIN EmptySnapshot /\ EmptySnapshot.trades = << >>
  BY DEF EmptySnapshot
<1>4. Windowed(json) /\ Windowed(shown) /\ Window(snap.trades, traded)
  BY <1>1, <1>2, <1>3 DEF Windowed
<1>. QED
  BY <1>2, <1>3, <1>4 DEF TradesInv

\* Every copy of the snapshot shows a window of the trades.
THEOREM TradesSound == Spec => []TradesInv
<1>1. TradesInv /\ MutexInv /\ [Next]_vars => TradesInv'
  <2>. SUFFICES ASSUME TradesInv, MutexInv, [Next]_vars PROVE TradesInv'
    OBVIOUS
  <2>1. CASE UNCHANGED vars
    BY <2>1, TradesFrame DEF vars, replayVars, serverVars, queueVars, bcastVars, TradesInv
  <2>. QED
    BY <2>1, TradesReplay, TradesMain, TradesBroadcast, TradesSignal DEF Next
<1>. QED
  BY <1>1, TradesInit, MutexSound, PTL DEF Spec

\* The clients are shown the last trades executed up to some moment, as many
\* as MaxTrades allows, none left out and none twice.
THEOREM ShownTradesLast == Spec => []RecentTradesLast
<1>1. TradesInv => RecentTradesLast
  <2>. SUFFICES ASSUME TradesInv PROVE RecentTradesLast
    OBVIOUS
  <2>1. LastTrade(snap) = traded
    BY WindowLast DEF TradesInv
  <2>2. Windowed(snap) /\ Windowed(shown)
    BY DEF TradesInv, Windowed, Window
  <2>3. ASSUME NEW s \in {snap, shown}
        PROVE  /\ Len(s.trades) = IF LastTrade(s) < MaxTrades THEN LastTrade(s) ELSE MaxTrades
               /\ \A k \in DOMAIN s.trades : s.trades[k] = LastTrade(s) - Len(s.trades) + k
    <3>1. PICK n \in Nat : Window(s.trades, n)
      BY <2>2 DEF Windowed
    <3>2. LastTrade(s) = n
      BY <3>1, WindowLast
    <3>3. DOMAIN s.trades = 1 .. Len(s.trades)
      BY <3>1 DEF Window
    <3>. QED
      BY <3>1, <3>2, <3>3 DEF Window
  <2>. QED
    BY <2>1, <2>3 DEF RecentTradesLast
<1>. QED
  BY <1>1, TradesSound, PTL

-----------------------------------------------------------------------------
(* Lines of a source: those up to a position are the first events, and what *)
(* they come to grows by one line's share at a time.                        *)

UpTo(src, p) == {i \in 1 .. p : IsEvent(src[i])}

LEMMA UpToFinite ==
  ASSUME NEW src, NEW p \in Nat
  PROVE  IsFiniteSet(UpTo(src, p)) /\ Cardinality(UpTo(src, p)) \in Nat
         /\ Cardinality(UpTo(src, p)) <= p
<1>1. IsFiniteSet(1 .. p) /\ Cardinality(1 .. p) = p
  BY FS_Interval
<1>2. UpTo(src, p) \in SUBSET (1 .. p)
  BY DEF UpTo
<1>. QED
  BY <1>1, <1>2, FS_Subset, FS_CardinalityType

LEMMA UpToFirst ==
  ASSUME NEW src \in Seq(Line), NEW p \in 0 .. Len(src)
  PROVE  FirstEvents(src, Cardinality(UpTo(src, p))) = UpTo(src, p)
<1>. DEFINE U == UpTo(src, p)
            All == EventLines(src)
            Before(i) == {j \in All : j <= i}
<1>1. p \in Nat /\ Len(src) \in Nat /\ p <= Len(src)
  OBVIOUS
<1>2. All = UpTo(src, Len(src)) /\ U \subseteq All
  BY <1>1 DEF EventLines, UpTo
<1>3. IsFiniteSet(U) /\ Cardinality(U) \in Nat /\ IsFiniteSet(All)
  BY <1>1, <1>2, UpToFinite
<1>4. ASSUME NEW i \in All
      PROVE  i \in U <=> Cardinality(Before(i)) <= Cardinality(U)
  <2>1. i \in 1 .. Len(src) /\ IsEvent(src[i])
    BY DEF EventLines
  <2>2. Before(i) \in SUBSET All
    OBVIOUS
  <2>3. IsFiniteSet(Before(i)) /\ Cardinality(Before(i)) \in Nat
    BY <1>3, <2>2, FS_Subset, FS_CardinalityType
  <2>4. CASE i <= p
    <3>1. i \in U
      BY <1>1, <2>1, <2>4 DEF UpTo
    <3>2. Before(i) \in SUBSET U
      BY <1>1, <2>1, <2>4 DEF UpTo, EventLines
    <3>. QED
      BY <3>1, <3>2, <1>3, FS_Subset
  <2>5. CASE ~(i <= p)
    <3>1. i \notin U
      BY <1>1, <2>1, <2>5 DEF UpTo
    <3>2. U \cup {i} \in SUBSET Before(i)
      BY <1>1, <2>1, <2>5 DEF UpTo, EventLines
    <3>3. Cardinality(U \cup {i}) = Cardinality(U) + 1
      BY <3>1, <1>3, FS_AddElement
    <3>4. Cardinality(U) + 1 <= Cardinality(Before(i))
      BY <3>2, <3>3, <2>3, FS_Subset
    <3>. QED
      BY <3>1, <3>4, <2>3, <1>3
  <2>. QED
    BY <2>4, <2>5
<1>. HIDE DEF U
<1>5. FirstEvents(src, Cardinality(U)) = {i \in All : Cardinality(Before(i)) <= Cardinality(U)}
  BY DEF FirstEvents
<1>6. FirstEvents(src, Cardinality(U)) = U
  BY <1>2, <1>4, <1>5, Zenon
<1>. QED
  BY <1>6 DEF U

LEMMA UpToNext ==
  ASSUME NEW src, NEW p \in Nat, NEW f \in Nat, f > p, IsEvent(src[f]),
         \A j \in p + 1 .. f - 1 : ~IsEvent(src[j])
  PROVE  /\ UpTo(src, f) = UpTo(src, p) \cup {f} /\ f \notin UpTo(src, p)
         /\ f - 1 \in Nat /\ UpTo(src, f - 1) = UpTo(src, p)
         /\ Cardinality(UpTo(src, f)) = Cardinality(UpTo(src, p)) + 1
<1>1. UpTo(src, f) = UpTo(src, p) \cup {f} /\ f \notin UpTo(src, p)
  BY DEF UpTo
<1>2. f - 1 \in Nat /\ UpTo(src, f - 1) = UpTo(src, p)
  BY DEF UpTo
<1>3. Cardinality(UpTo(src, p) \cup {f}) = Cardinality(UpTo(src, p)) + 1
  BY <1>1, UpToFinite, FS_AddElement
<1>. QED
  BY <1>1, <1>2, <1>3

LEMMA UpToEnd ==
  ASSUME NEW src \in Seq(Line), NEW p \in 0 .. Len(src),
         \A j \in p + 1 .. Len(src) : ~IsEvent(src[j])
  PROVE  UpTo(src, Len(src)) = UpTo(src, p) /\ UpTo(src, Len(src)) = EventLines(src)
BY DEF UpTo, EventLines

\* The places of the trades of a line's answer, the line with each.
Places(src, i) == {i} \X TradesIn(Output(src[i]))

LEMMA AnswerFinite ==
  ASSUME NEW src \in Seq(Line), NEW i \in 1 .. Len(src)
  PROVE  /\ Output(src[i]) \in Seq(Answers)
         /\ IsFiniteSet(TradesIn(Output(src[i])))
         /\ Cardinality(TradesIn(Output(src[i]))) \in Nat
<1>. DEFINE answer == Output(src[i])
<1>1. src[i] \in Line
  OBVIOUS
<1>2. src[i].out \in Seq(Answers)
  BY <1>1 DEF Line
<1>3. answer \in Seq(Answers)
  BY <1>2 DEF Output
<1>. HIDE DEF answer
<1>4. Len(answer) \in Nat /\ TradesIn(answer) \in SUBSET (1 .. Len(answer))
  BY <1>3 DEF TradesIn
<1>5. IsFiniteSet(1 .. Len(answer))
  BY <1>4, FS_Interval
<1>6. IsFiniteSet(TradesIn(answer))
  BY <1>4, <1>5, FS_Subset
<1>7. Cardinality(TradesIn(answer)) \in Nat
  BY <1>6, FS_CardinalityType
<1>. QED
  BY <1>3, <1>6, <1>7 DEF answer

LEMMA PlacesFinite ==
  ASSUME NEW src \in Seq(Line), NEW L \in SUBSET (1 .. Len(src))
  PROVE  IsFiniteSet(UNION {Places(src, i) : i \in L})
<1>. DEFINE S == {Places(src, i) : i \in L}
            g == [i \in L |-> Places(src, i)]
<1>1. IsFiniteSet(L)
  <2>1. IsFiniteSet(1 .. Len(src))
    BY FS_Interval
  <2>. QED
    BY <2>1, FS_Subset
<1>2. g \in Surjection(L, S)
  <2>1. g \in [L -> S]
    BY Zenon
  <2>2. \A t \in S : \E i \in L : g[i] = t
    BY Zenon
  <2>. QED
    BY <2>1, <2>2, Zenon DEF Surjection
<1>3. IsFiniteSet(S)
  BY <1>1, <1>2, FS_Surjection, Zenon
<1>4. ASSUME NEW T \in S
      PROVE  IsFiniteSet(T)
  <2>1. PICK i \in L : T = Places(src, i)
    BY Zenon
  <2>2. IsFiniteSet({i}) /\ IsFiniteSet(TradesIn(Output(src[i])))
    BY AnswerFinite, FS_Singleton
  <2>. QED
    BY <2>1, <2>2, FS_Product DEF Places
<1>. HIDE DEF S
<1>5. IsFiniteSet(UNION S)
  BY <1>3, <1>4, FS_UNION
<1>. QED
  BY <1>5 DEF S

LEMMA TradedPlaces ==
  ASSUME NEW src, NEW str, NEW L
  PROVE  Traded(src, str, L) = Cardinality(UNION {Places(src, i) : i \in Sent(src, str, L)})
BY DEF Traded, Places

\* What lines come to are numbers, and more lines come to no less.
LEMMA CountsType ==
  ASSUME NEW src \in Seq(Line), NEW str, NEW L \in SUBSET (1 .. Len(src))
  PROVE  /\ IsFiniteSet(Sent(src, str, L)) /\ Sent(src, str, L) \in SUBSET (1 .. Len(src))
         /\ Signals(src, str, L) \in Nat /\ Applied(src, str, L) \in Nat
         /\ Traded(src, str, L) \in Nat
         /\ Applied(src, str, L) <= Signals(src, str, L)
<1>. DEFINE S == Sent(src, str, L)
            A == {i \in S : Applies(src[i])}
<1>1. S \in SUBSET (1 .. Len(src))
  BY DEF Sent
<1>2. IsFiniteSet(S)
  BY <1>1, FS_Interval, FS_Subset
<1>3. A \in SUBSET S
  OBVIOUS
<1>. HIDE DEF S
<1>4. /\ Cardinality(S) \in Nat /\ IsFiniteSet(A) /\ Cardinality(A) \in Nat
      /\ Cardinality(A) <= Cardinality(S)
  BY <1>2, <1>3, FS_Subset, FS_CardinalityType
<1>5. Cardinality(UNION {Places(src, i) : i \in S}) \in Nat
  BY <1>1, PlacesFinite, FS_CardinalityType
<1>. QED
  BY <1>1, <1>2, <1>4, <1>5, TradedPlaces DEF S, Signals, Applied

LEMMA TradedGrows ==
  ASSUME NEW src \in Seq(Line), NEW str, NEW L \in SUBSET (1 .. Len(src)),
         NEW K \in SUBSET L
  PROVE  Traded(src, str, K) <= Traded(src, str, L)
<1>. DEFINE P == UNION {Places(src, i) : i \in Sent(src, str, L)}
            Q == UNION {Places(src, i) : i \in Sent(src, str, K)}
<1>1. IsFiniteSet(P)
  BY CountsType, PlacesFinite
<1>2. Q \in SUBSET P
  BY Zenon DEF Sent
<1>. HIDE DEF P, Q
<1>3. Cardinality(Q) <= Cardinality(P)
  BY <1>1, <1>2, FS_Subset
<1>. QED
  BY <1>3, TradedPlaces DEF P, Q

\* One line more adds its own share.
LEMMA ShareDropped ==
  ASSUME NEW src, NEW str, NEW L, NEW x, ~Forwards(str, src[x])
  PROVE  /\ Signals(src, str, L \cup {x}) = Signals(src, str, L)
         /\ Applied(src, str, L \cup {x}) = Applied(src, str, L)
         /\ Traded(src, str, L \cup {x}) = Traded(src, str, L)
<1>1. Sent(src, str, L \cup {x}) = Sent(src, str, L)
  BY Zenon DEF Sent
<1>. QED
  BY <1>1 DEF Signals, Applied, Traded

LEMMA ShareSent ==
  ASSUME NEW src \in Seq(Line), NEW str, NEW L \in SUBSET (1 .. Len(src)),
         NEW x \in 1 .. Len(src), x \notin L, Forwards(str, src[x])
  PROVE  /\ Signals(src, str, L \cup {x}) = Signals(src, str, L) + 1
         /\ Applied(src, str, L \cup {x}) =
              IF Applies(src[x]) THEN Applied(src, str, L) + 1 ELSE Applied(src, str, L)
         /\ Traded(src, str, L \cup {x}) =
              Traded(src, str, L) + Cardinality(TradesIn(Output(src[x])))
<1>. DEFINE S == Sent(src, str, L)
            A == {i \in S : Applies(src[i])}
            P == UNION {Places(src, i) : i \in S}
            new == TradesIn(Output(src[x]))
<1>1. Sent(src, str, L \cup {x}) = S \cup {x} /\ x \notin S
  BY Zenon DEF Sent
<1>2. IsFiniteSet(S) /\ S \in SUBSET (1 .. Len(src)) /\ x \notin A /\ A \in SUBSET S
  BY <1>1, CountsType
<1>3. IsFiniteSet(A)
  BY <1>2, FS_Subset
<1>4. Cardinality(S \cup {x}) = Cardinality(S) + 1
  BY <1>1, <1>2, FS_AddElement
<1>5. {i \in S \cup {x} : Applies(src[i])} = IF Applies(src[x]) THEN A \cup {x} ELSE A
  OBVIOUS
<1>6. Cardinality(A \cup {x}) = Cardinality(A) + 1
  BY <1>2, <1>3, FS_AddElement
<1>7. UNION {Places(src, i) : i \in S \cup {x}} = P \cup Places(src, x)
  BY Zenon
<1>8. P \cap Places(src, x) = {}
  BY <1>1 DEF Places
<1>9. IsFiniteSet(P)
  BY <1>2, PlacesFinite
<1>10. IsFiniteSet(new) /\ Cardinality(new) \in Nat
  BY AnswerFinite
<1>11. IsFiniteSet({x}) /\ Cardinality({x}) = 1
  BY FS_Singleton
<1>12. IsFiniteSet(Places(src, x)) /\ Cardinality(Places(src, x)) = Cardinality(new)
  BY <1>10, <1>11, FS_Product DEF Places
<1>. HIDE DEF P, S, A, new
<1>13. Cardinality(P) \in Nat /\ Cardinality({}) = 0
  BY <1>9, FS_CardinalityType, FS_EmptySet
<1>14. Cardinality(P \cup Places(src, x)) = Cardinality(P) + Cardinality(new)
  <2>1. Cardinality(P \cup Places(src, x)) =
            Cardinality(P) + Cardinality(Places(src, x)) - Cardinality(P \cap Places(src, x))
    BY <1>9, <1>12, FS_Union
  <2>2. Cardinality(P \cap Places(src, x)) = 0
    BY <1>8, <1>13
  <2>. DEFINE p == Cardinality(P)
              n == Cardinality(new)
  <2>3. p \in Nat /\ n \in Nat /\ p + n - 0 = p + n
    BY <1>10, <1>13
  <2>. HIDE DEF p, n
  <2>. QED
    BY <2>1, <2>2, <2>3, <1>12 DEF p, n
<1>15. Signals(src, str, L \cup {x}) = Signals(src, str, L) + 1
  BY <1>1, <1>4 DEF Signals, S
<1>16. Applied(src, str, L \cup {x}) =
              IF Applies(src[x]) THEN Applied(src, str, L) + 1 ELSE Applied(src, str, L)
  BY <1>1, <1>5, <1>6 DEF Applied, S, A
<1>17. Traded(src, str, L \cup {x}) = Traded(src, str, L) + Cardinality(new)
  BY <1>1, <1>7, <1>14, TradedPlaces DEF S, P
<1>. QED
  BY <1>15, <1>16, <1>17 DEF new

-----------------------------------------------------------------------------
(* The replay thread: where the controller is, and what gate, engine and    *)
(* snapshot have of the lines read and of those whose turn is over.         *)

Controllers ==
    [kind : {"csv", "vector"}, src : Seq(Line), pos : Nat, replayed : Nat,
     last : Nat, late : Nat, done : BOOLEAN]
Snapshots ==
    [replayed : Nat, done : BOOLEAN, ts : Nat, book : Nat, trades : Seq(Nat),
     signals : Nat, noops : Nat]

Read == UpTo(rc.src, rc.pos)
Over == UpTo(rc.src, rc.pos - 1)

ControllerOK ==
    /\ rc \in Controllers /\ rc.pos <= Len(rc.src)
    /\ rc.replayed = Cardinality(Read) /\ rc.late <= rc.replayed
    /\ rc.done => step \in {"final", "ended"} /\ rc.kind = "csv" /\ rc.pos = Len(rc.src)

Counted(lines) ==
    /\ gate.signals = Signals(rc.src, strategy, lines)
    /\ gate.signals + gate.noops = Cardinality(lines)
    /\ applied = Applied(rc.src, strategy, lines)

Published(lines) ==
    /\ snap.book = Applied(rc.src, strategy, lines)
    /\ snap.signals = Signals(rc.src, strategy, lines)

\* Between two turns.
Resting ==
    /\ Counted(Read) /\ traded = Traded(rc.src, strategy, Read) /\ output = << >>
    /\ Published(Read) /\ snap.replayed = rc.replayed

\* In a turn.
EventInHand == rc.pos \in 1 .. Len(rc.src) /\ IsEvent(rc.src[rc.pos]) /\ event = rc.src[rc.pos]

\* Before the event has reached the gate.
Untouched ==
    /\ EventInHand
    /\ Counted(Over) /\ traded = Traded(rc.src, strategy, Over) /\ output = << >>
    /\ Published(Over)

\* After the gate, while the answers are published; d of them are.
Answering ==
    LET answer == Output(event)
    IN  /\ EventInHand /\ Forwards(strategy, event)
        /\ Counted(Read) /\ Published(Over) /\ snap.replayed = rc.replayed
        /\ \E d \in 0 .. Len(answer) :
            /\ output \in Seq(Answers) /\ Len(output) = Len(answer) - d
            /\ \A k \in 1 .. Len(output) : output[k] = answer[d + k]
            /\ traded = Traded(rc.src, strategy, Over)
                            + Cardinality({k \in 1 .. d : answer[k] = "trade"})

\* In an engine that does not return: the gate has counted the event, and
\* nothing else of it shows.
Stuck ==
    /\ EventInHand /\ Forwards(strategy, event)
    /\ gate.signals = Signals(rc.src, strategy, Read)
    /\ gate.signals + gate.noops = Cardinality(Read)
    /\ applied = Applied(rc.src, strategy, Over)
    /\ traded = Traded(rc.src, strategy, Over) /\ output = << >>
    /\ Published(Over) /\ snap.replayed = rc.replayed

\* When only the metrics are left.
BookShown ==
    /\ EventInHand
    /\ Counted(Read) /\ traded = Traded(rc.src, strategy, Read) /\ output = << >>
    /\ snap.book = applied /\ snap.signals = Signals(rc.src, strategy, Over)
    /\ snap.replayed = rc.replayed

ReplayInv ==
    /\ ControllerOK /\ snap \in Snapshots /\ gate \in [signals : Nat, noops : Nat]
    /\ \/ step \in {"next", "final", "ended"} /\ Resting
       \/ step = "replay" /\ Untouched /\ snap.replayed = rc.replayed - 1
       \/ step \in {"stamp", "process"} /\ Untouched /\ snap.replayed = rc.replayed
       \/ step = "matching" /\ Stuck
       \/ step = "trades" /\ Answering
       \/ step = "metrics" /\ BookShown
    /\ step \in {"final", "ended"} => gstop \/ (rc.pos = Len(rc.src) /\ Done(rc))
    /\ snap.done /\ rc.kind = "csv" => rc.done
    /\ step = "ended" => snap.done = Done(rc)

(* The lines read when an event is in hand. *)
LEMMA OneMoreRead ==
  ASSUME ControllerOK, EventInHand
  PROVE  /\ rc.src \in Seq(Line) /\ rc.pos \in 1 .. Len(rc.src)
         /\ Over \in SUBSET (1 .. Len(rc.src)) /\ Read \in SUBSET (1 .. Len(rc.src))
         /\ Read = Over \cup {rc.pos} /\ rc.pos \notin Over
         /\ Cardinality(Over) \in Nat /\ Cardinality(Read) = Cardinality(Over) + 1
         /\ rc.replayed = Cardinality(Read)
<1>1. /\ rc.src \in Seq(Line) /\ rc.pos \in 1 .. Len(rc.src) /\ Len(rc.src) \in Nat
      /\ IsEvent(rc.src[rc.pos]) /\ rc.replayed = Cardinality(Read)
  BY DEF ControllerOK, EventInHand, Controllers
<1>2. rc.pos - 1 \in Nat /\ rc.pos \in Nat /\ rc.pos > rc.pos - 1
      /\ \A j \in (rc.pos - 1) + 1 .. rc.pos - 1 : ~IsEvent(rc.src[j])
  BY <1>1
<1>3. Read = Over \cup {rc.pos} /\ rc.pos \notin Over /\ Cardinality(Read) = Cardinality(Over) + 1
  BY <1>1, <1>2, UpToNext DEF Read, Over
<1>4. Cardinality(Over) \in Nat
  BY <1>2, UpToFinite DEF Over
<1>5. Over \in SUBSET (1 .. Len(rc.src)) /\ Read \in SUBSET (1 .. Len(rc.src))
  BY <1>1 DEF Over, Read, UpTo
<1>. QED
  BY <1>1, <1>3, <1>4, <1>5

(* next() finds the first event line behind the last one. *)
LEMMA FollowingIsFirst ==
  ASSUME rc \in Controllers, Coming(rc) # {}
  PROVE  /\ Following(rc) \in rc.pos + 1 .. Len(rc.src) /\ IsEvent(rc.src[Following(rc)])
         /\ \A j \in rc.pos + 1 .. Following(rc) - 1 : ~IsEvent(rc.src[j])
<1>1. rc.pos \in Nat /\ rc.src \in Seq(Line) /\ Len(rc.src) \in Nat
  BY DEF Controllers
<1>2. Coming(rc) \subseteq Nat
  BY <1>1 DEF Coming
<1>3. \E i \in Coming(rc) : \A j \in Coming(rc) : i <= j
  <2>1. \E i \in Coming(rc) : \A j \in Coming(rc) : ~(<<j, i>> \in OpToRel(<, Nat))
    BY <1>2, WFMin, NatLessThanWellFounded
  <2>2. OpToRel(<, Nat) = {ss \in Nat \X Nat : ss[1] < ss[2]}
    BY Zenon DEF OpToRel
  <2>3. \A i, j \in Coming(rc) : j < i => <<j, i>> \in {ss \in Nat \X Nat : ss[1] < ss[2]}
    BY <1>2
  <2>4. \E i \in Coming(rc) : \A j \in Coming(rc) : ~(j < i)
    BY <2>1, <2>2, <2>3, Zenon
  <2>. QED
    BY <2>4, <1>2
<1>4. Following(rc) \in Coming(rc) /\ \A j \in Coming(rc) : Following(rc) <= j
  BY <1>3, Zenon DEF Following
<1>5. Following(rc) \in rc.pos + 1 .. Len(rc.src) /\ IsEvent(rc.src[Following(rc)])
  BY <1>4 DEF Coming
<1>6. ASSUME NEW j \in rc.pos + 1 .. Following(rc) - 1, IsEvent(rc.src[j])
      PROVE  FALSE
  <2>1. j \in Coming(rc) /\ j < Following(rc)
    BY <1>1, <1>5, <1>6 DEF Coming
  <2>. QED
    BY <2>1, <1>4, <1>1, <1>5
<1>. QED
  BY <1>5, <1>6

LEMMA FetchKeeps == ASSUME ReplayInv, Fetch PROVE ReplayInv'
<1>. DEFINE f == Following(rc)
<1>1. /\ step = "next" /\ step' = "replay" /\ rc.done = FALSE /\ Coming(rc) # {}
      /\ event' = rc.src[f] /\ rc' = Taken(rc, f)
      /\ UNCHANGED <<output, strategy, gate, applied, traded, snap>>
  BY DEF Fetch, Yields, Upcoming, Advanced, ReplayInv, ControllerOK, Controllers
<1>2. /\ ControllerOK /\ Resting /\ snap \in Snapshots /\ gate \in [signals : Nat, noops : Nat]
      /\ (snap.done /\ rc.kind = "csv" => rc.done)
  BY <1>1 DEF ReplayInv
<1>3. rc \in Controllers
  BY <1>2 DEF ControllerOK
<1>4. /\ f \in rc.pos + 1 .. Len(rc.src) /\ IsEvent(rc.src[f])
      /\ \A j \in rc.pos + 1 .. f - 1 : ~IsEvent(rc.src[j])
  BY <1>1, <1>3, FollowingIsFirst
<1>. HIDE DEF f
<1>5. /\ rc' \in Controllers /\ rc'.src = rc.src /\ rc'.pos = f /\ rc'.kind = rc.kind
      /\ rc'.replayed = rc.replayed + 1 /\ rc'.late \in {rc.late, rc.late + 1}
      /\ rc'.done = FALSE
  <2>1. rc.src[f] \in Line /\ f \in Nat
    BY <1>3, <1>4 DEF Controllers
  <2>2. rc.src[f].ts \in Nat
    BY <2>1 DEF Line
  <2>. DEFINE new == [rc EXCEPT !.pos = f, !.replayed = @ + 1]
  <2>3. /\ new \in Controllers /\ new.src = rc.src /\ new.pos = f /\ new.kind = rc.kind
        /\ new.replayed = rc.replayed + 1 /\ new.late = rc.late /\ new.done = rc.done
    <3>. DEFINE m == [rc EXCEPT !.pos = f]
    <3>1. m \in Controllers
      BY <1>3, <2>1 DEF Controllers
    <3>2. new = [m EXCEPT !.replayed = rc.replayed + 1] /\ rc.replayed + 1 \in Nat
      BY <1>3, <2>1 DEF Controllers
    <3>3. new \in Controllers
      <4>. HIDE DEF m, new
      <4>. QED
        BY <3>1, <3>2 DEF Controllers
    <3>. QED
      BY <1>3, <2>1, <3>3 DEF Controllers
  <2>4. rc' = IF rc.kind = "csv"
              THEN [new EXCEPT !.last = rc.src[f].ts,
                               !.late = IF rc.src[f].ts < rc.last THEN @ + 1 ELSE @]
              ELSE new
    BY <1>1 DEF Taken
  <2>. HIDE DEF new
  <2>. DEFINE late == IF rc.src[f].ts < rc.last THEN new.late + 1 ELSE new.late
  <2>5. late \in {rc.late, rc.late + 1} /\ late \in Nat
    BY <2>3 DEF Controllers
  <2>6. CASE rc.kind = "csv"
    <3>1. rc' = [new EXCEPT !.last = rc.src[f].ts, !.late = late]
      BY <2>3, <2>4, <2>6 DEF Controllers
    <3>. HIDE DEF late
    <3>. QED
      BY <1>1, <2>2, <2>3, <2>5, <3>1 DEF Controllers
  <2>7. CASE rc.kind # "csv"
    BY <1>1, <2>3, <2>4, <2>7
  <2>. QED
    BY <2>6, <2>7
<1>6. rc.pos \in Nat /\ f \in Nat /\ f > rc.pos /\ Len(rc.src) \in Nat
  BY <1>3, <1>4 DEF Controllers
<1>7. /\ UpTo(rc.src, f - 1) = Read
      /\ Cardinality(UpTo(rc.src, f)) = Cardinality(Read) + 1
  BY <1>4, <1>6, UpToNext DEF Read
<1>8. Cardinality(Read) \in Nat
  BY <1>6, UpToFinite DEF Read
<1>9. ControllerOK'
  BY <1>2, <1>3, <1>4, <1>5, <1>6, <1>7, <1>8 DEF ControllerOK, Read, Controllers
<1>10. EventInHand'
  BY <1>1, <1>4, <1>5, <1>6 DEF EventInHand
<1>11. Over' = Read
  BY <1>5, <1>7 DEF Over
<1>12. Counted(Over)' /\ Published(Over)' /\ traded' = Traded(rc.src, strategy, Over)' /\ output' = << >>
  BY <1>1, <1>2, <1>5, <1>11 DEF Resting, Counted, Published
<1>13. snap'.replayed = rc'.replayed - 1
  BY <1>1, <1>2, <1>3, <1>5 DEF Resting, Controllers
<1>14. snap' \in Snapshots /\ gate' \in [signals : Nat, noops : Nat]
       /\ (snap'.done /\ rc'.kind = "csv" => rc'.done)
  BY <1>1, <1>2, <1>5
<1>. QED
  BY <1>1, <1>9, <1>10, <1>12, <1>13, <1>14 DEF ReplayInv, Untouched

LEMMA EndLoopKeeps == ASSUME ReplayInv, EndLoop PROVE ReplayInv'
<1>1. /\ step = "next" /\ step' = "final" /\ gstop' = gstop
      /\ UNCHANGED <<event, output, strategy, gate, applied, traded, snap>>
      /\ (IF gstop THEN rc' = rc ELSE Coming(rc) = {} /\ rc' = Exhausted(rc))
  BY DEF EndLoop, Yields, Advanced, ReplayInv, ControllerOK, Controllers, othersThanReplay
<1>2. /\ ControllerOK /\ Resting /\ snap \in Snapshots /\ gate \in [signals : Nat, noops : Nat]
      /\ (snap.done /\ rc.kind = "csv" => rc.done)
  BY <1>1 DEF ReplayInv
<1>3. rc \in Controllers /\ rc.pos \in 0 .. Len(rc.src) /\ rc.src \in Seq(Line)
  BY <1>2 DEF ControllerOK, Controllers
<1>4. CASE gstop
  <2>1. ControllerOK' /\ Resting'
    BY <1>1, <1>2, <1>4 DEF ControllerOK, Resting, Counted, Published, Read
  <2>. QED
    BY <1>1, <1>2, <1>4, <2>1 DEF ReplayInv
<1>5. CASE ~gstop
  <2>1. /\ rc' \in Controllers /\ rc'.src = rc.src /\ rc'.pos = Len(rc.src)
        /\ rc'.replayed = rc.replayed /\ rc'.late = rc.late /\ rc'.kind = rc.kind
        /\ (rc'.done <=> rc.kind = "csv")
    <3>. DEFINE csv == rc.kind = "csv"
    <3>1. csv \in BOOLEAN /\ rc' = [rc EXCEPT !.pos = Len(rc.src), !.done = csv]
      BY <1>1, <1>5, Zenon DEF Exhausted
    <3>. HIDE DEF csv
    <3>. DEFINE m == [rc EXCEPT !.pos = Len(rc.src)]
    <3>2. /\ m \in Controllers /\ m.src = rc.src /\ m.pos = Len(rc.src) /\ m.kind = rc.kind
          /\ m.replayed = rc.replayed /\ m.late = rc.late
      BY <1>3 DEF Controllers
    <3>3. rc' = [m EXCEPT !.done = csv]
      BY <1>3, <3>1 DEF Controllers
    <3>. HIDE DEF m
    <3>4. /\ rc' \in Controllers /\ rc'.src = rc.src /\ rc'.pos = Len(rc.src)
          /\ rc'.replayed = rc.replayed /\ rc'.late = rc.late /\ rc'.kind = rc.kind
          /\ rc'.done = csv
      BY <3>1, <3>2, <3>3 DEF Controllers
    <3>. QED
      BY <3>4 DEF csv
  <2>2. \A j \in rc.pos + 1 .. Len(rc.src) : ~IsEvent(rc.src[j])
    BY <1>1, <1>5 DEF Coming
  <2>3. Read' = Read
    BY <1>3, <2>1, <2>2, UpToEnd DEF Read
  <2>4. ControllerOK'
    BY <1>1, <1>2, <1>3, <2>1, <2>3 DEF ControllerOK
  <2>5. Resting'
    BY <1>1, <1>2, <2>1, <2>3 DEF Resting, Counted, Published
  <2>6. rc'.pos = Len(rc'.src) /\ Done(rc)'
    BY <2>1, <1>3 DEF Done
  <2>. QED
    BY <1>1, <1>2, <2>1, <2>4, <2>5, <2>6 DEF ReplayInv
<1>. QED
  BY <1>4, <1>5

LEMMA UpdateReplayKeeps == ASSUME ReplayInv, UpdateReplay PROVE ReplayInv'
<1>1. /\ step \in {"replay", "final"} /\ step' = IF step = "replay" THEN "stamp" ELSE "ended"
      /\ snap' = [snap EXCEPT !.replayed = rc.replayed, !.done = Done(rc)]
      /\ UNCHANGED <<rc, event, output, strategy, gate, applied, traded, gstop>>
  BY DEF UpdateReplay, WithReplay, othersThanReplay
<1>2. ControllerOK /\ snap \in Snapshots /\ gate \in [signals : Nat, noops : Nat]
      /\ rc \in Controllers
  BY DEF ReplayInv, ControllerOK
<1>3. Done(rc) \in BOOLEAN /\ (rc.kind = "csv" => Done(rc) = rc.done)
  <2>1. rc.done \in BOOLEAN /\ (rc.pos >= Len(rc.src)) \in BOOLEAN
    BY <1>2 DEF Controllers
  <2>. QED
    BY <2>1, Zenon DEF Done
<1>4. /\ snap' \in Snapshots /\ snap'.replayed = rc.replayed /\ snap'.done = Done(rc)
      /\ snap'.book = snap.book /\ snap'.signals = snap.signals
  BY <1>1, <1>2, <1>3 DEF Snapshots, Controllers
<1>5. ControllerOK'
  BY <1>1, <1>2 DEF ControllerOK, Read
<1>6. Done(rc)' = Done(rc)
  BY <1>1 DEF Done
<1>7. CASE step = "replay"
  <2>1. Untouched'
    BY <1>1, <1>4, <1>7 DEF ReplayInv, Untouched, EventInHand, Counted, Published, Over
  <2>. QED
    BY <1>1, <1>2, <1>3, <1>4, <1>5, <1>6, <1>7, <2>1 DEF ReplayInv
<1>8. CASE step = "final"
  <2>1. Resting'
    BY <1>1, <1>4, <1>8 DEF ReplayInv, Resting, Counted, Published, Read
  <2>2. gstop \/ (rc.pos = Len(rc.src) /\ Done(rc))
    BY <1>8 DEF ReplayInv
  <2>. QED
    BY <1>1, <1>2, <1>3, <1>4, <1>5, <1>6, <1>8, <2>1, <2>2 DEF ReplayInv
<1>. QED
  BY <1>1, <1>7, <1>8

LEMMA UpdateTimestampKeeps == ASSUME ReplayInv, UpdateTimestamp PROVE ReplayInv'
<1>1. /\ step = "stamp" /\ step' = "process" /\ snap' = [snap EXCEPT !.ts = event.ts]
      /\ UNCHANGED <<rc, event, output, strategy, gate, applied, traded, gstop>>
  BY DEF UpdateTimestamp, othersThanReplay
<1>2. /\ ControllerOK /\ snap \in Snapshots /\ gate \in [signals : Nat, noops : Nat]
      /\ Untouched /\ snap.replayed = rc.replayed
      /\ (snap.done /\ rc.kind = "csv" => rc.done)
  BY <1>1 DEF ReplayInv
<1>3. event.ts \in Nat
  <2>1. event \in Line
    BY <1>2 DEF Untouched, EventInHand, ControllerOK, Controllers
  <2>. QED
    BY <2>1 DEF Line
<1>4. /\ snap' \in Snapshots /\ snap'.replayed = snap.replayed /\ snap'.done = snap.done
      /\ snap'.book = snap.book /\ snap'.signals = snap.signals
  BY <1>1, <1>2, <1>3 DEF Snapshots
<1>5. ControllerOK'
  BY <1>1, <1>2 DEF ControllerOK, Read
<1>6. Untouched'
  BY <1>1, <1>2, <1>4 DEF Untouched, EventInHand, Counted, Published, Over
<1>. QED
  BY <1>1, <1>2, <1>4, <1>5, <1>6 DEF ReplayInv

(* The gate takes the event in hand: what it and the engine had of the      *)
(* lines before, they have of one line more.                                *)
LEMMA ProcessKeeps == ASSUME ReplayInv, Process PROVE ReplayInv'
<1>. DEFINE sent == Forwards(strategy, event)
            done == sent /\ Returns(event)
            src == rc.src
<1>0. PICK x : x = rc.pos
  OBVIOUS
<1>1. /\ step = "process" /\ gate' = Gated(gate, sent)
      /\ applied' = IF done /\ Applies(event) THEN applied + 1 ELSE applied
      /\ output' = IF done THEN Output(event) ELSE << >>
      /\ step' = IF ~sent THEN "next" ELSE IF done THEN "trades" ELSE "matching"
      /\ UNCHANGED <<rc, event, strategy, traded, snap, gstop>>
  BY DEF Process, othersThanReplay
<1>2. /\ ControllerOK /\ snap \in Snapshots /\ gate \in [signals : Nat, noops : Nat]
      /\ Untouched /\ snap.replayed = rc.replayed
      /\ (snap.done /\ rc.kind = "csv" => rc.done)
  BY <1>1 DEF ReplayInv
<1>3. EventInHand /\ Counted(Over) /\ traded = Traded(src, strategy, Over) /\ Published(Over)
  BY <1>2 DEF Untouched
<1>4. /\ src \in Seq(Line) /\ x \in 1 .. Len(src) /\ event = src[x]
      /\ Over \in SUBSET (1 .. Len(src)) /\ Read \in SUBSET (1 .. Len(src))
      /\ Read = Over \cup {x} /\ x \notin Over
      /\ Cardinality(Over) \in Nat /\ Cardinality(Read) = Cardinality(Over) + 1
      /\ rc.replayed = Cardinality(Read)
  BY <1>0, <1>2, <1>3, OneMoreRead DEF EventInHand
<1>5. Read' = Read /\ Over' = Over /\ src' = src /\ EventInHand'
  BY <1>1, <1>3 DEF Read, Over, EventInHand
<1>6. ControllerOK'
  BY <1>1, <1>2, <1>5 DEF ControllerOK
<1>7. CASE ~sent
  <2>1. /\ Signals(src, strategy, Read) = Signals(src, strategy, Over)
        /\ Applied(src, strategy, Read) = Applied(src, strategy, Over)
        /\ Traded(src, strategy, Read) = Traded(src, strategy, Over)
    <3>1. ~Forwards(strategy, src[x])
      BY <1>4, <1>7
    <3>2. /\ Signals(src, strategy, Over \cup {x}) = Signals(src, strategy, Over)
          /\ Applied(src, strategy, Over \cup {x}) = Applied(src, strategy, Over)
          /\ Traded(src, strategy, Over \cup {x}) = Traded(src, strategy, Over)
      BY <3>1, ShareDropped
    <3>3. Read = Over \cup {x}
      BY <1>4
    <3>. QED
      BY <3>2, <3>3, Zenon
  <2>2. gate' = [gate EXCEPT !.noops = @ + 1] /\ applied' = applied /\ output' = << >>
        /\ step' = "next"
    BY <1>1, <1>7 DEF Gated
  <2>3. /\ gate' \in [signals : Nat, noops : Nat] /\ gate'.signals = gate.signals
        /\ gate'.signals + gate'.noops = gate.signals + gate.noops + 1
    BY <1>2, <2>2
  <2>4. Counted(Read)'
    BY <1>1, <1>3, <1>4, <1>5, <2>1, <2>2, <2>3 DEF Counted
  <2>5. Published(Read)'
    BY <1>1, <1>3, <1>5, <2>1 DEF Published
  <2>6. Resting'
    BY <1>1, <1>2, <1>3, <1>5, <2>1, <2>2, <2>4, <2>5 DEF Resting
  <2>. QED
    BY <1>1, <1>2, <1>6, <2>2, <2>3, <2>6 DEF ReplayInv
<1>8. CASE sent /\ Returns(event)
  <2>. DEFINE answer == Output(event)
  <2>1. /\ Signals(src, strategy, Read) = Signals(src, strategy, Over) + 1
        /\ Applied(src, strategy, Read) =
             IF Applies(event) THEN Applied(src, strategy, Over) + 1
             ELSE Applied(src, strategy, Over)
    <3>1. Forwards(strategy, src[x])
      BY <1>4, <1>8
    <3>2. /\ Signals(src, strategy, Over \cup {x}) = Signals(src, strategy, Over) + 1
          /\ Applied(src, strategy, Over \cup {x}) =
               IF Applies(src[x]) THEN Applied(src, strategy, Over) + 1
               ELSE Applied(src, strategy, Over)
      <4>1. /\ src \in Seq(Line) /\ x \in 1 .. Len(src) /\ x \notin Over
            /\ Over \in SUBSET (1 .. Len(src))
        BY <1>4
      <4>. HIDE DEF src
      <4>. QED
        BY <3>1, <4>1, ShareSent
    <3>3. Read = Over \cup {x} /\ event = src[x]
      BY <1>4
    <3>. QED
      BY <3>2, <3>3, Zenon
  <2>2. gate' = [gate EXCEPT !.signals = @ + 1] /\ output' = answer /\ step' = "trades"
        /\ applied' = IF Applies(event) THEN applied + 1 ELSE applied
    BY <1>1, <1>8 DEF Gated
  <2>3. /\ gate' \in [signals : Nat, noops : Nat] /\ gate'.signals = gate.signals + 1
        /\ gate'.signals + gate'.noops = gate.signals + gate.noops + 1
    BY <1>2, <2>2
  <2>4. Counted(Read)'
    <3>1. applied' = Applied(src, strategy, Read)
      BY <1>3, <2>1, <2>2 DEF Counted
    <3>. QED
      BY <1>1, <1>3, <1>4, <1>5, <2>1, <2>3, <3>1 DEF Counted
  <2>5. Published(Over)'
    BY <1>1, <1>3, <1>5 DEF Published
  <2>6. answer \in Seq(Answers) /\ Len(answer) \in Nat
    BY <1>4, AnswerFinite
  <2>7. Cardinality({k \in 1 .. 0 : answer[k] = "trade"}) = 0
    <3>1. {k \in 1 .. 0 : answer[k] = "trade"} = {}
      OBVIOUS
    <3>. QED
      BY <3>1, FS_EmptySet
  <2>8. traded \in Nat
    BY <1>3, <1>4, CountsType
  <2>9. /\ Output(event)' = answer /\ Forwards(strategy, event)'
        /\ Traded(rc.src, strategy, Over)' = Traded(src, strategy, Over)
    BY <1>1, <1>5, <1>8
  <2>. HIDE DEF answer
  <2>10. \E d \in 0 .. Len(answer) :
            /\ output' \in Seq(Answers) /\ Len(output') = Len(answer) - d
            /\ \A k \in 1 .. Len(output') : output'[k] = answer[d + k]
            /\ traded' = Traded(src, strategy, Over)
                            + Cardinality({k \in 1 .. d : answer[k] = "trade"})
    <3>1. 0 \in 0 .. Len(answer) /\ Len(output') = Len(answer) - 0 /\ output' \in Seq(Answers)
      BY <2>2, <2>6
    <3>2. \A k \in 1 .. Len(output') : output'[k] = answer[0 + k]
      BY <2>2, <2>6
    <3>3. traded' = Traded(src, strategy, Over) + Cardinality({k \in 1 .. 0 : answer[k] = "trade"})
      BY <1>1, <1>3, <2>7, <2>8
    <3>. QED
      BY <3>1, <3>2, <3>3
  <2>11. Answering'
    <3>1. snap'.replayed = rc'.replayed
      BY <1>1, <1>2
    <3>. QED
      BY <1>5, <2>4, <2>5, <2>9, <2>10, <3>1 DEF Answering
  <2>. QED
    BY <1>1, <1>2, <1>6, <2>2, <2>3, <2>11 DEF ReplayInv
<1>9. CASE sent /\ ~Returns(event)
  <2>1. Signals(src, strategy, Read) = Signals(src, strategy, Over) + 1
    <3>1. /\ Forwards(strategy, src[x]) /\ src \in Seq(Line) /\ x \in 1 .. Len(src)
          /\ x \notin Over /\ Over \in SUBSET (1 .. Len(src))
      BY <1>4, <1>9
    <3>. HIDE DEF src
    <3>2. Signals(src, strategy, Over \cup {x}) = Signals(src, strategy, Over) + 1
      BY <3>1, ShareSent
    <3>. QED
      BY <1>4, <3>2
  <2>2. gate' = [gate EXCEPT !.signals = @ + 1] /\ output' = << >> /\ step' = "matching"
        /\ applied' = applied
    BY <1>1, <1>9 DEF Gated
  <2>3. /\ gate' \in [signals : Nat, noops : Nat] /\ gate'.signals = gate.signals + 1
        /\ gate'.signals + gate'.noops = gate.signals + gate.noops + 1
    BY <1>2, <2>2
  <2>4. /\ gate'.signals = Signals(rc.src, strategy, Read)'
        /\ gate'.signals + gate'.noops = Cardinality(Read)'
        /\ applied' = Applied(rc.src, strategy, Over)'
    BY <1>1, <1>3, <1>4, <1>5, <2>1, <2>2, <2>3 DEF Counted
  <2>5. Published(Over)' /\ traded' = Traded(rc.src, strategy, Over)'
        /\ Forwards(strategy, event)' /\ snap'.replayed = rc'.replayed
    BY <1>1, <1>2, <1>3, <1>5, <1>9 DEF Published
  <2>6. Stuck'
    BY <1>5, <2>2, <2>4, <2>5 DEF Stuck
  <2>. QED
    BY <1>1, <1>2, <1>6, <2>2, <2>3, <2>6 DEF ReplayInv
<1>. QED
  BY <1>7, <1>8, <1>9

(* One answer more is published. *)
LEMMA PushTradeKeeps == ASSUME ReplayInv, PushTrade, TradesInv, TradesInv' PROVE ReplayInv'
<1>. DEFINE answer == Output(event)
            Pushed(d) == {k \in 1 .. d : answer[k] = "trade"}
            old == Traded(rc.src, strategy, Over)
<1>1. /\ step = "trades" /\ output # << >> /\ output' = Tail(output) /\ step' = step
      /\ UNCHANGED <<rc, event, strategy, gate, applied, gstop>>
      /\ \/ /\ Head(output) = "trade" /\ traded' = traded + 1
            /\ snap' = [snap EXCEPT !.trades = WithTrade(@, traded + 1)]
         \/ Head(output) # "trade" /\ traded' = traded /\ snap' = snap
  BY DEF PushTrade, othersThanReplay
<1>2. /\ ControllerOK /\ snap \in Snapshots /\ gate \in [signals : Nat, noops : Nat]
      /\ Answering /\ (snap.done /\ rc.kind = "csv" => rc.done)
  BY <1>1 DEF ReplayInv
<1>3. /\ snap' \in Snapshots /\ snap'.replayed = snap.replayed /\ snap'.done = snap.done
      /\ snap'.book = snap.book /\ snap'.signals = snap.signals
  <2>1. CASE snap' = snap
    BY <1>2, <2>1
  <2>2. CASE snap' = [snap EXCEPT !.trades = WithTrade(@, traded + 1)]
    <3>. DEFINE T == WithTrade(snap.trades, traded + 1)
    <3>1. snap' = [snap EXCEPT !.trades = T]
      BY <2>2
    <3>2. snap'.trades = T
      BY <1>2, <3>1 DEF Snapshots
    <3>3. T \in Seq(Nat)
      BY <3>2 DEF TradesInv, Window
    <3>. HIDE DEF T
    <3>. QED
      BY <1>2, <3>1, <3>3 DEF Snapshots
  <2>. QED
    BY <1>1, <2>1, <2>2
<1>4. PICK d \in 0 .. Len(answer) :
            /\ output \in Seq(Answers) /\ Len(output) = Len(answer) - d
            /\ \A k \in 1 .. Len(output) : output[k] = answer[d + k]
            /\ traded = old + Cardinality(Pushed(d))
  BY <1>2 DEF Answering
<1>5. EventInHand /\ answer \in Seq(Answers) /\ Len(answer) \in Nat /\ old \in Nat
  <2>1. EventInHand
    BY <1>2 DEF Answering
  <2>2. /\ rc.src \in Seq(Line) /\ rc.pos \in 1 .. Len(rc.src) /\ event = rc.src[rc.pos]
        /\ Over \in SUBSET (1 .. Len(rc.src))
    BY <2>1, <1>2, OneMoreRead DEF EventInHand
  <2>3. answer \in Seq(Answers) /\ Len(answer) \in Nat
    BY <2>2, AnswerFinite
  <2>4. old \in Nat
    BY <2>2, CountsType
  <2>. QED
    BY <2>1, <2>3, <2>4
<1>6. Read' = Read /\ Over' = Over /\ EventInHand' /\ Output(event)' = answer
      /\ Traded(rc.src, strategy, Over)' = old
  BY <1>1, <1>5 DEF Read, Over, EventInHand
<1>7. ControllerOK'
  BY <1>1, <1>2, <1>6 DEF ControllerOK
<1>. HIDE DEF answer, old
<1>8. /\ d + 1 \in 0 .. Len(answer) /\ d \in Nat /\ Head(output) = answer[d + 1]
      /\ output' \in Seq(Answers) /\ Len(output') = Len(answer) - (d + 1)
  BY <1>1, <1>4, <1>5
<1>9. \A k \in 1 .. Len(output') : output'[k] = answer[(d + 1) + k]
  <2>1. ASSUME NEW k \in 1 .. Len(output')
        PROVE  output'[k] = answer[(d + 1) + k]
    <3>1. output'[k] = output[k + 1] /\ k + 1 \in 1 .. Len(output)
      BY <1>1, <1>4, <1>5, <1>8
    <3>2. output[k + 1] = answer[d + (k + 1)] /\ d + (k + 1) = (d + 1) + k
      BY <1>4, <1>8, <3>1
    <3>. QED
      BY <3>1, <3>2
  <2>. QED
    BY <2>1
<1>10. traded' = old + Cardinality(Pushed(d + 1))
  <2>1. IsFiniteSet(Pushed(d)) /\ Cardinality(Pushed(d)) \in Nat /\ d + 1 \notin Pushed(d)
    <3>1. IsFiniteSet(1 .. d) /\ Pushed(d) \in SUBSET (1 .. d) /\ d + 1 \notin Pushed(d)
      BY <1>8, FS_Interval
    <3>. HIDE DEF Pushed
    <3>2. IsFiniteSet(Pushed(d))
      BY <3>1, FS_Subset
    <3>. QED
      BY <3>1, <3>2, FS_CardinalityType
  <2>2. CASE Head(output) = "trade"
    <3>1. Pushed(d + 1) = Pushed(d) \cup {d + 1}
      BY <1>8, <2>2
    <3>. HIDE DEF Pushed
    <3>2. Cardinality(Pushed(d) \cup {d + 1}) = Cardinality(Pushed(d)) + 1
      BY <2>1, FS_AddElement
    <3>. QED
      <4>1. traded' = traded + 1 /\ traded = old + Cardinality(Pushed(d))
        BY <1>1, <1>4, <2>2
      <4>2. Cardinality(Pushed(d + 1)) = Cardinality(Pushed(d)) + 1
        BY <3>1, <3>2
      <4>. QED
        BY <1>5, <2>1, <4>1, <4>2
  <2>3. CASE Head(output) # "trade"
    <3>1. Pushed(d + 1) = Pushed(d)
      BY <1>8, <2>3
    <3>. HIDE DEF Pushed
    <3>. QED
      BY <1>1, <1>4, <2>3, <3>1
  <2>. QED
    BY <2>2, <2>3
<1>11. Counted(Read)' /\ Published(Over)' /\ Forwards(strategy, event)' /\ snap'.replayed = rc'.replayed
  BY <1>1, <1>2, <1>3, <1>6 DEF Answering, Counted, Published
<1>12. Answering'
  BY <1>6, <1>8, <1>9, <1>10, <1>11 DEF Answering
<1>. QED
  BY <1>1, <1>2, <1>3, <1>7, <1>12 DEF ReplayInv

(* The book is published once all answers are: the trades are complete. *)
LEMMA UpdateOrderbookKeeps == ASSUME ReplayInv, UpdateOrderbook PROVE ReplayInv'
<1>. DEFINE answer == Output(event)
            Pushed(d) == {k \in 1 .. d : answer[k] = "trade"}
            old == Traded(rc.src, strategy, Over)
<1>1. /\ step = "trades" /\ output = << >> /\ step' = "metrics"
      /\ snap' = [snap EXCEPT !.book = applied]
      /\ UNCHANGED <<rc, event, output, strategy, gate, applied, traded, gstop>>
  BY DEF UpdateOrderbook, othersThanReplay
<1>2. /\ ControllerOK /\ snap \in Snapshots /\ gate \in [signals : Nat, noops : Nat]
      /\ Answering /\ (snap.done /\ rc.kind = "csv" => rc.done)
  BY <1>1 DEF ReplayInv
<1>3. /\ EventInHand /\ Forwards(strategy, event) /\ Counted(Read) /\ Published(Over)
      /\ snap.replayed = rc.replayed
  BY <1>2 DEF Answering
<1>4. /\ rc.src \in Seq(Line) /\ rc.pos \in 1 .. Len(rc.src) /\ event = rc.src[rc.pos]
      /\ Over \in SUBSET (1 .. Len(rc.src)) /\ Read \in SUBSET (1 .. Len(rc.src))
      /\ Read = Over \cup {rc.pos} /\ rc.pos \notin Over
  BY <1>2, <1>3, OneMoreRead DEF EventInHand
<1>5. answer \in Seq(Answers) /\ Len(answer) \in Nat
  BY <1>4, AnswerFinite
<1>6. Traded(rc.src, strategy, Read) = old + Cardinality(TradesIn(answer))
  BY <1>3, <1>4, ShareSent
<1>7. traded = Traded(rc.src, strategy, Read)
  <2>1. PICK d \in 0 .. Len(answer) :
            Len(output) = Len(answer) - d /\ traded = old + Cardinality(Pushed(d))
    BY <1>2 DEF Answering
  <2>2. d = Len(answer)
    BY <1>1, <1>5, <2>1
  <2>3. Pushed(Len(answer)) = TradesIn(answer)
    BY <1>5 DEF TradesIn
  <2>. QED
    BY <1>6, <2>1, <2>2, <2>3
<1>8. applied = Applied(rc.src, strategy, Read) /\ applied \in Nat
  BY <1>3, <1>4, CountsType DEF Counted
<1>9. /\ snap' \in Snapshots /\ snap'.replayed = snap.replayed /\ snap'.done = snap.done
      /\ snap'.book = applied /\ snap'.signals = snap.signals
  BY <1>1, <1>2, <1>8 DEF Snapshots
<1>10. Read' = Read /\ Over' = Over /\ EventInHand'
  BY <1>1, <1>3 DEF Read, Over, EventInHand
<1>11. ControllerOK'
  BY <1>1, <1>2, <1>10 DEF ControllerOK
<1>12. Counted(Read)'
  BY <1>1, <1>3, <1>10 DEF Counted
<1>13. snap'.signals = Signals(rc.src, strategy, Over)'
  BY <1>1, <1>3, <1>9, <1>10 DEF Published
<1>14. BookShown'
  BY <1>1, <1>3, <1>7, <1>9, <1>10, <1>12, <1>13 DEF BookShown
<1>. QED
  BY <1>1, <1>2, <1>9, <1>11, <1>14 DEF ReplayInv

LEMMA UpdateMetricsKeeps == ASSUME ReplayInv, UpdateMetrics PROVE ReplayInv'
<1>1. /\ step = "metrics" /\ step' = "next"
      /\ snap' = [snap EXCEPT !.signals = gate.signals, !.noops = gate.noops]
      /\ UNCHANGED <<rc, event, output, strategy, gate, applied, traded, gstop>>
  BY DEF UpdateMetrics, othersThanReplay
<1>2. /\ ControllerOK /\ snap \in Snapshots /\ gate \in [signals : Nat, noops : Nat]
      /\ BookShown /\ (snap.done /\ rc.kind = "csv" => rc.done)
  BY <1>1 DEF ReplayInv
<1>3. /\ snap' \in Snapshots /\ snap'.replayed = snap.replayed /\ snap'.done = snap.done
      /\ snap'.book = snap.book /\ snap'.signals = gate.signals
  <2>. DEFINE m == [snap EXCEPT !.signals = gate.signals]
  <2>1. /\ m \in Snapshots /\ m.replayed = snap.replayed /\ m.done = snap.done
        /\ m.book = snap.book /\ m.signals = gate.signals
    BY <1>2 DEF Snapshots
  <2>2. snap' = [m EXCEPT !.noops = gate.noops] /\ gate.noops \in Nat
    BY <1>1, <1>2 DEF Snapshots
  <2>. HIDE DEF m
  <2>. QED
    BY <2>1, <2>2 DEF Snapshots
<1>4. Read' = Read
  BY <1>1 DEF Read
<1>5. ControllerOK'
  BY <1>1, <1>2, <1>4 DEF ControllerOK
<1>6. Counted(Read)' /\ Published(Read)'
  BY <1>1, <1>2, <1>3, <1>4 DEF BookShown, Counted, Published
<1>7. Resting'
  BY <1>1, <1>2, <1>3, <1>4, <1>6 DEF Resting, BookShown
<1>. QED
  BY <1>1, <1>2, <1>3, <1>5, <1>7 DEF ReplayInv

(* The other threads leave the replay alone; a signal only sets g_stop. *)
LEMMA ReplayFrame ==
  ASSUME ReplayInv, UNCHANGED <<replayVars, snap>>, gstop => gstop'
  PROVE  ReplayInv'
<1>1. UNCHANGED <<step, rc, event, output, strategy, gate, applied, traded, snap>>
  BY DEF replayVars
<1>2. Read' = Read /\ Over' = Over
  BY <1>1 DEF Read, Over
<1>3. ControllerOK => ControllerOK'
  BY <1>1, <1>2 DEF ControllerOK
<1>4. /\ Resting => Resting'
      /\ Untouched => Untouched'
      /\ Stuck => Stuck'
      /\ Answering => Answering'
      /\ BookShown => BookShown'
  BY <1>1, <1>2 DEF Resting, Untouched, Stuck, Answering, BookShown, Counted, Published, EventInHand
<1>5. Done(rc)' = Done(rc)
  BY <1>1
<1>. QED
  BY <1>1, <1>3, <1>4, <1>5 DEF ReplayInv

LEMMA ReplayInit == Init => ReplayInv
<1>. SUFFICES ASSUME Init PROVE ReplayInv
  OBVIOUS
<1>1. PICK s \in Sources : rc = Controller(s.kind, s.src)
  BY DEF Init
<1>2. s.kind \in {"csv", "vector"} /\ s.src \in Seq(Line)
  BY DashboardAssumption
<1>3. /\ step = "next" /\ output = << >> /\ gate = [signals |-> 0, noops |-> 0]
      /\ applied = 0 /\ traded = 0 /\ snap = EmptySnapshot
  BY DEF Init
<1>4. /\ rc \in Controllers /\ rc.pos = 0 /\ rc.replayed = 0 /\ rc.late = 0 /\ rc.done = FALSE
      /\ rc.src \in Seq(Line) /\ Len(rc.src) \in Nat
  BY <1>1, <1>2 DEF Controller, Controllers
<1>5. Read = {} /\ Cardinality(Read) = 0
  <2>1. Read = {}
    BY <1>4 DEF Read, UpTo
  <2>. QED
    BY <2>1, FS_EmptySet
<1>6. ControllerOK
  BY <1>4, <1>5 DEF ControllerOK
<1>7. /\ Signals(rc.src, strategy, {}) = 0 /\ Applied(rc.src, strategy, {}) = 0
      /\ Traded(rc.src, strategy, {}) = 0
  <2>1. Sent(rc.src, strategy, {}) = {}
    BY DEF Sent
  <2>2. {i \in {} : Applies(rc.src[i])} = {} /\ UNION {Places(rc.src, i) : i \in {}} = {}
    OBVIOUS
  <2>3. Cardinality({}) = 0
    BY FS_EmptySet
  <2>4. Traded(rc.src, strategy, {}) = 0
    BY <2>1, <2>2, <2>3, TradedPlaces
  <2>5. Applied(rc.src, strategy, {}) = 0 /\ Signals(rc.src, strategy, {}) = 0
    BY <2>1, <2>2, <2>3 DEF Applied, Signals
  <2>. QED
    BY <2>4, <2>5
<1>8. /\ snap \in Snapshots /\ snap.replayed = 0 /\ snap.book = 0 /\ snap.signals = 0
      /\ snap.done = FALSE
  BY <1>3 DEF EmptySnapshot, Snapshots
<1>9. gate \in [signals : Nat, noops : Nat] /\ gate.signals = 0 /\ gate.signals + gate.noops = 0
  BY <1>3
<1>10. Resting
  BY <1>3, <1>4, <1>5, <1>7, <1>8, <1>9 DEF Resting, Counted, Published
<1>. QED
  BY <1>3, <1>6, <1>8, <1>9, <1>10 DEF ReplayInv

LEMMA ReplayKeeps == ASSUME ReplayInv, TradesInv, TradesInv', [Next]_vars PROVE ReplayInv'
<1>1. CASE ReplayStep
  BY <1>1, FetchKeeps, EndLoopKeeps, UpdateReplayKeeps, UpdateTimestampKeeps, ProcessKeeps,
     PushTradeKeeps, UpdateOrderbookKeeps, UpdateMetricsKeeps DEF ReplayStep
<1>2. CASE MainStep \/ Connect \/ Disconnect
  <2>1. UNCHANGED <<replayVars, snap, gstop>>
    BY <1>2 DEF MainStep, EnterRun, GetLoop, Listen, StartBroadcast, LockQueue, RunDeferred,
         LoopReturns, JoinBroadcast, JoinReplay, Connect, Disconnect, othersThanMain
  <2>. QED
    BY <2>1, ReplayFrame
<1>3. CASE BroadcastStep
  <2>1. UNCHANGED <<replayVars, snap, gstop>>
    BY <1>3 DEF BroadcastStep, CheckRunning, Copy, LockLoop, DeferPublish, DeferClose,
         othersThanBroadcast
  <2>. QED
    BY <2>1, ReplayFrame
<1>4. CASE Signal \/ SignalStep
  <2>1. UNCHANGED <<replayVars, snap>> /\ (gstop => gstop')
    BY <1>4 DEF Signal, SignalStep, Stop, StopDefers, othersThanSignal
  <2>. QED
    BY <2>1, ReplayFrame
<1>5. CASE UNCHANGED vars
  <2>1. UNCHANGED <<replayVars, snap, gstop>>
    BY <1>5 DEF vars
  <2>. QED
    BY <2>1, ReplayFrame
<1>. QED
  BY <1>1, <1>2, <1>3, <1>4, <1>5 DEF Next

\* The inductive invariant of the replay thread: what the controller, the gate,
\* the engine and the published snapshot each have of the source, at every
\* statement of the loop.
THEOREM ReplaySound == Spec => []ReplayInv
<1>1. ReplayInv /\ TradesInv /\ TradesInv' /\ [Next]_vars => ReplayInv'
  BY ReplayKeeps
<1>. QED
  BY <1>1, ReplayInit, TradesSound, PTL DEF Spec

-----------------------------------------------------------------------------
(* One snapshot, against the source: its sections are at most one event     *)
(* apart, and when it says done it shows everything.                        *)

Within(src, str, s) ==
    LET r == s.replayed
        b == IF r = 0 THEN 0 ELSE r - 1
        before == FirstEvents(src, b)
        now == FirstEvents(src, r)
    IN  /\ LastTrade(s) \in Traded(src, str, before) .. Traded(src, str, now)
        /\ s.book \in {Applied(src, str, before), Applied(src, str, now)}
        /\ s.signals \in {Signals(src, str, before), Signals(src, str, now)}
        /\ s.book # Applied(src, str, before) => LastTrade(s) = Traded(src, str, now)
        /\ s.signals # Signals(src, str, before) =>
                s.book = Applied(src, str, now) /\ LastTrade(s) = Traded(src, str, now)

Complete(src, kind, str, s) ==
    s.done /\ kind = "csv" =>
        LET n == Cardinality(EventLines(src))
            all == FirstEvents(src, n)
        IN  /\ s.replayed = n /\ LastTrade(s) = Traded(src, str, all)
            /\ s.book = Applied(src, str, all) /\ s.signals = Signals(src, str, all)

Coherent(src, kind, str, s) == Within(src, str, s) /\ Complete(src, kind, str, s)

\* The lines of the first events, in terms of where the controller is.
LEMMA FirstAreRead ==
  ASSUME ControllerOK
  PROVE  /\ rc.src \in Seq(Line) /\ Read \in SUBSET (1 .. Len(rc.src))
         /\ rc.replayed \in Nat /\ FirstEvents(rc.src, rc.replayed) = Read
         /\ rc.replayed = Cardinality(Read)
<1>1. rc.src \in Seq(Line) /\ rc.pos \in 0 .. Len(rc.src) /\ Len(rc.src) \in Nat
      /\ rc.replayed = Cardinality(Read) /\ rc.replayed \in Nat
  BY DEF ControllerOK, Controllers
<1>2. FirstEvents(rc.src, rc.replayed) = Read
  BY <1>1, UpToFirst DEF Read
<1>3. Read \in SUBSET (1 .. Len(rc.src))
  BY <1>1 DEF Read, UpTo
<1>. QED
  BY <1>1, <1>2, <1>3

LEMMA FirstAreOver ==
  ASSUME ControllerOK, EventInHand
  PROVE  /\ rc.replayed - 1 \in Nat /\ FirstEvents(rc.src, rc.replayed - 1) = Over
         /\ Over \in SUBSET Read
<1>1. /\ rc.src \in Seq(Line) /\ rc.pos \in 1 .. Len(rc.src) /\ Len(rc.src) \in Nat
      /\ rc.replayed - 1 = Cardinality(Over) /\ Cardinality(Over) \in Nat
      /\ Read = Over \cup {rc.pos}
  BY OneMoreRead
<1>2. rc.pos - 1 \in 0 .. Len(rc.src)
  BY <1>1
<1>3. FirstEvents(rc.src, rc.replayed - 1) = Over
  BY <1>1, <1>2, UpToFirst DEF Over
<1>. QED
  BY <1>1, <1>3

LEMMA CoherentAtOnce ==
  ASSUME NEW src \in Seq(Line), NEW str, NEW s, NEW r \in Nat, s.replayed = r,
         NEW now, now = FirstEvents(src, r), now \in SUBSET (1 .. Len(src)),
         LastTrade(s) = Traded(src, str, now), s.book = Applied(src, str, now),
         s.signals = Signals(src, str, now)
  PROVE  Within(src, str, s)
<1>. DEFINE b == IF r = 0 THEN 0 ELSE r - 1
            before == FirstEvents(src, b)
<1>1. before \in SUBSET now
  <2>1. IsFiniteSet(1 .. Len(src)) /\ EventLines(src) \in SUBSET (1 .. Len(src))
    BY FS_Interval DEF EventLines
  <2>. DEFINE Upto(i) == {j \in EventLines(src) : j <= i}
  <2>2. ASSUME NEW i
        PROVE  Cardinality(Upto(i)) \in Nat
    <3>1. Upto(i) \in SUBSET (1 .. Len(src))
      BY <2>1
    <3>. HIDE DEF Upto
    <3>. QED
      BY <2>1, <3>1, FS_Subset, FS_CardinalityType
  <2>3. FirstEvents(src, b) = {i \in EventLines(src) : Cardinality(Upto(i)) <= b}
        /\ now = {i \in EventLines(src) : Cardinality(Upto(i)) <= r}
    BY Zenon DEF FirstEvents
  <2>4. b \in Nat /\ b <= r
    OBVIOUS
  <2>. HIDE DEF b, Upto
  <2>. QED
    BY <2>2, <2>3, <2>4
<1>2. before \in SUBSET (1 .. Len(src))
  BY <1>1
<1>. HIDE DEF before
<1>3. /\ Traded(src, str, before) \in Nat /\ Traded(src, str, now) \in Nat
      /\ Traded(src, str, before) <= Traded(src, str, now)
  BY <1>1, <1>2, CountsType, TradedGrows
<1>4. LastTrade(s) \in Traded(src, str, before) .. Traded(src, str, now)
  BY <1>3
<1>. QED
  BY <1>4 DEF Within, before

\* Between two events: trades first, then the book, then the metrics.
LEMMA CoherentBetween ==
  ASSUME NEW src \in Seq(Line), NEW str, NEW s, NEW r \in Nat, r - 1 \in Nat, s.replayed = r,
         NEW now, now = FirstEvents(src, r), now \in SUBSET (1 .. Len(src)),
         NEW before, before = FirstEvents(src, r - 1), before \in SUBSET now,
         LastTrade(s) \in Traded(src, str, before) .. Traded(src, str, now),
         s.signals = Signals(src, str, before),
         \/ s.book = Applied(src, str, before)
         \/ s.book = Applied(src, str, now) /\ LastTrade(s) = Traded(src, str, now)
  PROVE  Within(src, str, s)
<1>1. (IF r = 0 THEN 0 ELSE r - 1) = r - 1
  OBVIOUS
<1>. QED
  BY <1>1 DEF Within

LEMMA AnsweringBetween ==
  ASSUME ControllerOK, Answering
  PROVE  traded \in Traded(rc.src, strategy, Over) .. Traded(rc.src, strategy, Read)
<1>. DEFINE answer == Output(event)
            Pushed(d) == {k \in 1 .. d : answer[k] = "trade"}
            old == Traded(rc.src, strategy, Over)
<1>1. EventInHand /\ Forwards(strategy, event)
  BY DEF Answering
<1>2. /\ rc.src \in Seq(Line) /\ rc.pos \in 1 .. Len(rc.src) /\ event = rc.src[rc.pos]
      /\ Over \in SUBSET (1 .. Len(rc.src))
      /\ Read = Over \cup {rc.pos} /\ rc.pos \notin Over
  BY <1>1, OneMoreRead DEF EventInHand
<1>3. answer \in Seq(Answers) /\ Len(answer) \in Nat /\ IsFiniteSet(TradesIn(answer))
      /\ Cardinality(TradesIn(answer)) \in Nat
  BY <1>2, AnswerFinite
<1>4. Traded(rc.src, strategy, Read) = old + Cardinality(TradesIn(answer)) /\ old \in Nat
  BY <1>1, <1>2, ShareSent, CountsType
<1>5. PICK d \in 0 .. Len(answer) : traded = old + Cardinality(Pushed(d))
  BY DEF Answering
<1>6. Pushed(d) \in SUBSET TradesIn(answer)
  BY <1>3 DEF TradesIn
<1>. HIDE DEF answer, Pushed, old
<1>7. IsFiniteSet(Pushed(d)) /\ Cardinality(Pushed(d)) <= Cardinality(TradesIn(answer))
  BY <1>3, <1>6, FS_Subset
<1>8. Cardinality(Pushed(d)) \in Nat
  BY <1>7, FS_CardinalityType
<1>. QED
  BY <1>3, <1>4, <1>5, <1>7, <1>8 DEF old

LEMMA SnapCoherent ==
  ASSUME ReplayInv, TradesInv
  PROVE  Coherent(rc.src, rc.kind, strategy, snap)
<1>. DEFINE src == rc.src
            str == strategy
            r == rc.replayed
<1>1. ControllerOK /\ snap \in Snapshots /\ (snap.done /\ rc.kind = "csv" => rc.done)
  BY DEF ReplayInv
<1>2. LastTrade(snap) = traded
  BY WindowLast DEF TradesInv
<1>3. /\ src \in Seq(Line) /\ Read \in SUBSET (1 .. Len(src)) /\ r \in Nat
      /\ FirstEvents(src, r) = Read /\ r = Cardinality(Read)
  BY <1>1, FirstAreRead
<1>4. CASE Resting
  <2>1. /\ snap.replayed = r /\ LastTrade(snap) = Traded(src, str, Read)
        /\ snap.book = Applied(src, str, Read) /\ snap.signals = Signals(src, str, Read)
    BY <1>2, <1>4 DEF Resting, Published
  <2>2. Within(src, str, snap)
    BY <1>3, <2>1, CoherentAtOnce
  <2>3. Complete(src, rc.kind, str, snap)
    <3>1. CASE snap.done /\ rc.kind = "csv"
      <4>1. rc.pos = Len(src)
        BY <1>1, <3>1 DEF ControllerOK
      <4>2. Read = EventLines(src)
        BY <1>3, <4>1 DEF Read, UpTo, EventLines
      <4>3. r = Cardinality(EventLines(src)) /\ FirstEvents(src, Cardinality(EventLines(src))) = Read
        BY <1>3, <4>2
      <4>. QED
        BY <2>1, <4>3 DEF Complete
    <3>. QED
      BY <3>1 DEF Complete
  <2>. QED
    BY <2>2, <2>3 DEF Coherent
<1>5. ASSUME EventInHand, ~Resting, step \notin {"final", "ended"}
      PROVE  Complete(src, rc.kind, str, snap)
  BY <1>1, <1>5 DEF Complete, ControllerOK
<1>6. ASSUME EventInHand
      PROVE  /\ r - 1 \in Nat /\ FirstEvents(src, r - 1) = Over /\ Over \in SUBSET Read
             /\ Over \in SUBSET (1 .. Len(src))
             /\ Traded(src, str, Over) \in Nat /\ Traded(src, str, Read) \in Nat
             /\ Traded(src, str, Over) <= Traded(src, str, Read)
  <2>1. r - 1 \in Nat /\ FirstEvents(src, r - 1) = Over /\ Over \in SUBSET Read
    BY <1>1, <1>6, FirstAreOver
  <2>2. Over \in SUBSET (1 .. Len(src))
    BY <1>3, <2>1
  <2>. QED
    BY <1>3, <2>1, <2>2, CountsType, TradedGrows
<1>7. CASE /\ \/ Untouched /\ step \in {"replay", "stamp", "process"}
              \/ Stuck /\ step = "matching"
           /\ snap.replayed \in {r - 1, r} /\ ~Resting
  <2>1. /\ EventInHand /\ LastTrade(snap) = Traded(src, str, Over)
        /\ snap.book = Applied(src, str, Over) /\ snap.signals = Signals(src, str, Over)
    BY <1>2, <1>7 DEF Untouched, Stuck, Published
  <2>2. /\ r - 1 \in Nat /\ FirstEvents(src, r - 1) = Over /\ Over \in SUBSET Read
        /\ Over \in SUBSET (1 .. Len(src))
        /\ Traded(src, str, Over) \in Nat /\ Traded(src, str, Read) \in Nat
        /\ Traded(src, str, Over) <= Traded(src, str, Read)
    BY <2>1, <1>6
  <2>3. ASSUME snap.replayed = r - 1
        PROVE  Within(src, str, snap)
    <3>. DEFINE q == r - 1
    <3>1. /\ q \in Nat /\ snap.replayed = q /\ Over = FirstEvents(src, q)
          /\ Over \in SUBSET (1 .. Len(src))
      BY <2>2, <2>3
    <3>. HIDE DEF q, src
    <3>. QED
      BY <1>3, <2>1, <3>1, CoherentAtOnce
  <2>4. ASSUME snap.replayed = r
        PROVE  Within(src, str, snap)
    <3>1. LastTrade(snap) \in Traded(src, str, Over) .. Traded(src, str, Read)
      BY <2>1, <2>2
    <3>2. /\ r \in Nat /\ r - 1 \in Nat /\ snap.replayed = r /\ Over \in SUBSET Read
          /\ Over = FirstEvents(src, r - 1) /\ Read = FirstEvents(src, r)
      BY <1>3, <2>2, <2>4
    <3>. HIDE DEF r, src
    <3>. QED
      BY <1>3, <2>1, <3>1, <3>2, CoherentBetween
  <2>5. Within(src, str, snap)
    BY <1>7, <2>3, <2>4
  <2>. QED
    BY <1>5, <1>7, <2>1, <2>5 DEF Coherent
<1>8. CASE Answering /\ step = "trades" /\ ~Resting
  <2>1. /\ EventInHand /\ snap.replayed = r
        /\ snap.book = Applied(src, str, Over) /\ snap.signals = Signals(src, str, Over)
    BY <1>8 DEF Answering, Published
  <2>2. traded \in Traded(src, str, Over) .. Traded(src, str, Read)
    BY <1>1, <1>8, AnsweringBetween
  <2>3. Within(src, str, snap)
    BY <1>2, <1>3, <1>6, <2>1, <2>2, CoherentBetween
  <2>. QED
    BY <1>5, <1>8, <2>1, <2>3 DEF Coherent
<1>9. CASE BookShown /\ step = "metrics" /\ ~Resting
  <2>1. /\ EventInHand /\ snap.replayed = r /\ LastTrade(snap) = Traded(src, str, Read)
        /\ snap.book = Applied(src, str, Read) /\ snap.signals = Signals(src, str, Over)
    BY <1>2, <1>9 DEF BookShown, Counted
  <2>2. LastTrade(snap) \in Traded(src, str, Over) .. Traded(src, str, Read)
    BY <1>6, <2>1
  <2>3. Within(src, str, snap)
    BY <1>3, <1>6, <2>1, <2>2, CoherentBetween
  <2>. QED
    BY <1>5, <1>9, <2>1, <2>3 DEF Coherent
<1>10. Stuck => snap.replayed = r
  BY DEF Stuck
<1>11. \/ Resting
       \/ Untouched /\ step = "replay" /\ snap.replayed = r - 1
       \/ Untouched /\ step \in {"stamp", "process"} /\ snap.replayed = r
       \/ Stuck /\ step = "matching"
       \/ Answering /\ step = "trades"
       \/ BookShown /\ step = "metrics"
  BY DEF ReplayInv
<1>. QED
  BY <1>4, <1>7, <1>8, <1>9, <1>10, <1>11

-----------------------------------------------------------------------------
(* The copies: whatever the broadcast thread has, has deferred or the loop  *)
(* has published was the publisher's snapshot at some moment.               *)

Works(Q) == {CloseWork} \cup {PublishWork(s) : s \in Q}

CopiesFrom(Q) == json \in Q /\ shown \in Q /\ deferred \in Seq(Works(Q))

LEMMA WorksGrow ==
  ASSUME NEW Q, NEW R, Q \subseteq R, NEW D \in Seq(Works(Q))
  PROVE  D \in Seq(Works(R))
<1>1. Works(Q) \subseteq Works(R)
  BY DEF Works
<1>. HIDE DEF Works
<1>2. \A i \in 1 .. Len(D) : D[i] \in Works(R)
  BY <1>1
<1>. QED
  BY <1>2

LEMMA CopiesStep ==
  ASSUME NEW Q, CopiesFrom(Q), MutexInv, [Next]_vars
  PROVE  /\ json' \in Q \cup {snap} /\ shown' \in Q \cup {snap}
         /\ deferred' \in Seq(Works(Q \cup {snap}))
<1>. DEFINE R == Q \cup {snap}
<1>1. json \in Q /\ json \in R /\ shown \in Q /\ shown \in R
      /\ deferred \in Seq(Works(Q)) /\ Q \subseteq R /\ snap \in R
  BY DEF CopiesFrom
<1>2. deferred \in Seq(Works(R))
  BY <1>1, WorksGrow
<1>3. CloseWork \in Works(R) /\ PublishWork(json) \in Works(R)
  BY <1>1, Zenon DEF Works
<1>4. ASSUME NEW work \in Works(R), Defer(work)
      PROVE  deferred' \in Seq(Works(R))
  BY <1>2, <1>4 DEF Defer
<1>. HIDE DEF R
<1>5. CASE UNCHANGED <<json, shown, deferred>>
  BY <1>1, <1>2, <1>5 DEF R
<1>6. CASE ReplayStep
  BY <1>5, <1>6 DEF ReplayStep, Fetch, EndLoop, UpdateReplay, UpdateTimestamp, Process, PushTrade,
         UpdateOrderbook, UpdateMetrics, othersThanReplay, serverVars, queueVars, bcastVars
<1>7. CASE RunDeferred
  <2>1. /\ deferred # << >> /\ deferred' = Tail(deferred) /\ json' = json
        /\ shown' = IF Head(deferred).do = "publish" THEN Head(deferred).what ELSE shown
    BY <1>7 DEF RunDeferred, MutexInv, othersThanMain, bcastVars
  <2>2. Head(deferred) \in Works(Q) /\ deferred' \in Seq(Works(R))
    BY <1>1, <1>2, <2>1
  <2>3. Head(deferred).do = "publish" => Head(deferred).what \in Q
    BY <2>2 DEF Works, CloseWork, PublishWork
  <2>. QED
    BY <1>1, <2>1, <2>2, <2>3 DEF R
<1>8. CASE LoopReturns
  <2>1. deferred' = << >> /\ json' = json /\ shown' = shown
    BY <1>8 DEF LoopReturns, othersThanMain, bcastVars
  <2>. QED
    BY <1>1, <2>1 DEF R
<1>9. CASE (MainStep /\ ~RunDeferred /\ ~LoopReturns) \/ Connect \/ Disconnect
  BY <1>5, <1>9 DEF MainStep, EnterRun, GetLoop, Listen, StartBroadcast, LockQueue,
         JoinBroadcast, JoinReplay, Connect, Disconnect, othersThanMain, queueVars, bcastVars
<1>10. CASE BroadcastStep
  <2>1. shown' = shown
    BY <1>10 DEF BroadcastStep, CheckRunning, Copy, LockLoop, DeferPublish, DeferClose,
         othersThanBroadcast, serverVars
  <2>2. CASE CheckRunning \/ Copy \/ LockLoop
    BY <1>1, <1>2, <2>1, <2>2 DEF CheckRunning, Copy, LockLoop, queueVars, bcastVars, R
  <2>3. CASE DeferPublish
    BY <1>1, <1>3, <1>4, <2>1, <2>3 DEF DeferPublish, R
  <2>4. CASE DeferClose
    BY <1>1, <1>3, <1>4, <2>1, <2>4 DEF DeferClose, R
  <2>. QED
    BY <1>10, <2>2, <2>3, <2>4 DEF BroadcastStep
<1>11. CASE Signal \/ SignalStep
  <2>1. shown' = shown /\ json' = json
    BY <1>11 DEF Signal, SignalStep, Stop, StopDefers, othersThanSignal, serverVars, queueVars, bcastVars
  <2>2. deferred' = deferred \/ Defer(CloseWork)
    BY <1>11 DEF Signal, SignalStep, Stop, StopDefers, queueVars
  <2>. QED
    BY <1>1, <1>2, <1>3, <1>4, <2>1, <2>2 DEF R
<1>12. CASE UNCHANGED vars
  BY <1>5, <1>12 DEF vars, serverVars, queueVars, bcastVars
<1>. QED
  BY <1>6, <1>7, <1>8, <1>9, <1>10, <1>11, <1>12 DEF Next

\* Neither the source nor the strategy ever changes.
LEMMA SourceStays ==
  ASSUME ReplayInv, [Next]_vars
  PROVE  rc'.src = rc.src /\ rc'.kind = rc.kind /\ strategy' = strategy
<1>1. rc \in Controllers
  BY DEF ReplayInv, ControllerOK
<1>2. strategy' = strategy /\ (rc' = rc \/ rc' = Advanced(rc))
  BY DEF Next, vars, replayVars, ReplayStep, Fetch, EndLoop, UpdateReplay, UpdateTimestamp,
         Process, PushTrade, UpdateOrderbook, UpdateMetrics, MainStep, EnterRun, GetLoop, Listen,
         StartBroadcast, LockQueue, RunDeferred, LoopReturns, JoinBroadcast, JoinReplay,
         Connect, Disconnect, othersThanMain, BroadcastStep, CheckRunning, Copy, LockLoop,
         DeferPublish, DeferClose, othersThanBroadcast, Signal, SignalStep, Stop, StopDefers,
         othersThanSignal
<1>3. Advanced(rc).src = rc.src /\ Advanced(rc).kind = rc.kind
  BY <1>1 DEF Advanced, Taken, Exhausted, Controllers
<1>. QED
  BY <1>2, <1>3

CopiesInv ==
    \E Q : CopiesFrom(Q) /\ \A s \in Q : Coherent(rc.src, rc.kind, strategy, s)

LEMMA CopiesKeep ==
  ASSUME CopiesInv, ReplayInv, TradesInv, MutexInv, [Next]_vars
  PROVE  CopiesInv'
<1>1. PICK Q : CopiesFrom(Q) /\ \A s \in Q : Coherent(rc.src, rc.kind, strategy, s)
  BY DEF CopiesInv
<1>2. Coherent(rc.src, rc.kind, strategy, snap)
  BY SnapCoherent
<1>3. PICK R : R = Q \cup {snap}
  OBVIOUS
<1>4. json' \in R /\ shown' \in R /\ deferred' \in Seq(Works(R))
  BY <1>1, <1>3, CopiesStep
<1>5. \A s \in R : Coherent(rc.src, rc.kind, strategy, s)
  BY <1>1, <1>2, <1>3
<1>6. \A s \in R : Coherent(rc'.src, rc'.kind, strategy', s)
  BY <1>5, SourceStays
<1>7. CopiesFrom(R)'
  BY <1>4 DEF CopiesFrom
<1>. QED
  BY <1>6, <1>7 DEF CopiesInv

\* Every copy of the snapshot, also one that waits to be broadcast, is as close
\* to the source as the publisher's own.
THEOREM CopiesSound == Spec => []CopiesInv
<1>1. Init => CopiesInv
  <2>. SUFFICES ASSUME Init PROVE CopiesInv
    OBVIOUS
  <2>1. ReplayInv
    BY ReplayInit
  <2>2. TradesInv
    BY TradesInit
  <2>3. Coherent(rc.src, rc.kind, strategy, snap)
    BY <2>1, <2>2, SnapCoherent
  <2>4. CopiesFrom({snap})
    BY DEF Init, CopiesFrom
  <2>. QED
    BY <2>3, <2>4 DEF CopiesInv
<1>2. CopiesInv /\ ReplayInv /\ TradesInv /\ MutexInv /\ [Next]_vars => CopiesInv'
  BY CopiesKeep
<1>. QED
  BY <1>1, <1>2, ReplaySound, TradesSound, MutexSound, PTL DEF Spec

\* The snapshot the clients see mixes at most two events, and only in the order
\* in which the loop publishes the sections.
THEOREM ShownWithinOneEvent == Spec => []SectionsWithinOneEvent
<1>1. ASSUME NEW s, Coherent(rc.src, rc.kind, strategy, s)
      PROVE  LET r == s.replayed
                 b == IF r = 0 THEN 0 ELSE r - 1
             IN  /\ LastTrade(s) \in TradesOf(b) .. TradesOf(r)
                 /\ s.book \in {AppliedOf(b), AppliedOf(r)}
                 /\ s.signals \in {SignalsOf(b), SignalsOf(r)}
                 /\ s.book # AppliedOf(b) => LastTrade(s) = TradesOf(r)
                 /\ s.signals # SignalsOf(b) =>
                       s.book = AppliedOf(r) /\ LastTrade(s) = TradesOf(r)
  BY <1>1, Zenon DEF Coherent, Within, TradesOf, AppliedOf, SignalsOf
<1>2. ReplayInv /\ TradesInv /\ CopiesInv => SectionsWithinOneEvent
  <2>. SUFFICES ASSUME ReplayInv, TradesInv, CopiesInv
                PROVE  SectionsWithinOneEvent
    OBVIOUS
  <2>1. \A s \in {snap, shown} : Coherent(rc.src, rc.kind, strategy, s)
    BY SnapCoherent DEF CopiesInv, CopiesFrom
  <2>. QED
    BY <2>1, <1>1, Zenon DEF SectionsWithinOneEvent
<1>. QED
  BY <1>2, ReplaySound, TradesSound, CopiesSound, PTL

\* When the replay thread ends the snapshot has caught up with the engine, and
\* unless a signal cut it short with the source; no snapshot of a file, the one
\* shown included, says done before it shows everything.
THEOREM FinalSnapshotCorrect == Spec => []FinalSnapshotExact
<1>1. ReplayInv /\ TradesInv /\ CopiesInv => DoneIsComplete
  <2>. SUFFICES ASSUME ReplayInv, TradesInv, CopiesInv
                PROVE  DoneIsComplete
    OBVIOUS
  <2>1. \A s \in {snap, shown} : Complete(rc.src, rc.kind, strategy, s)
    BY SnapCoherent DEF CopiesInv, CopiesFrom, Coherent
  <2>. QED
    BY <2>1, Zenon DEF DoneIsComplete, Complete, TradesOf, AppliedOf, SignalsOf
<1>2. ReplayInv /\ TradesInv => (step = "ended" =>
        /\ snap.replayed = rc.replayed /\ snap.done = Done(rc)
        /\ snap.book = applied /\ LastTrade(snap) = traded
        /\ snap.signals = gate.signals /\ gate.signals + gate.noops = rc.replayed
        /\ gstop \/ (snap.replayed = Cardinality(EventLines(rc.src)) /\ snap.done))
  <2>. SUFFICES ASSUME ReplayInv, TradesInv, step = "ended"
                PROVE  /\ snap.replayed = rc.replayed /\ snap.done = Done(rc)
                       /\ snap.book = applied /\ LastTrade(snap) = traded
                       /\ snap.signals = gate.signals
                       /\ gate.signals + gate.noops = rc.replayed
                       /\ gstop \/ (snap.replayed = Cardinality(EventLines(rc.src)) /\ snap.done)
    BY Zenon
  <2>1. /\ ControllerOK /\ Resting /\ snap.done = Done(rc)
        /\ gstop \/ (rc.pos = Len(rc.src) /\ Done(rc))
    BY DEF ReplayInv
  <2>2. LastTrade(snap) = traded
    BY WindowLast DEF TradesInv
  <2>3. /\ snap.replayed = rc.replayed /\ snap.book = applied /\ snap.signals = gate.signals
        /\ gate.signals + gate.noops = rc.replayed
    BY <2>1 DEF Resting, Counted, Published, ControllerOK
  <2>4. ASSUME rc.pos = Len(rc.src)
        PROVE  rc.replayed = Cardinality(EventLines(rc.src))
    <3>1. Read = EventLines(rc.src)
      BY <2>1, <2>4, FirstAreRead DEF Read, UpTo, EventLines
    <3>. QED
      BY <2>1, <3>1 DEF ControllerOK
  <2>. QED
    BY <2>1, <2>2, <2>3, <2>4
<1>3. ReplayInv /\ TradesInv /\ CopiesInv => FinalSnapshotExact
  BY <1>1, <1>2, Zenon DEF FinalSnapshotExact
<1>. QED
  BY <1>3, ReplaySound, TradesSound, CopiesSound, PTL

-----------------------------------------------------------------------------
(* The types of the server.  The backlog of deferred work is bounded: the   *)
(* snapshots, one close for each signal that has got that far, and one for  *)
(* the broadcast thread when it ends.                                       *)

Publishes(D) == {k \in DOMAIN D : D[k].do = "publish"}

LEMMA PublishesFinite ==
  ASSUME NEW S, NEW D \in Seq(S)
  PROVE  IsFiniteSet(Publishes(D)) /\ Cardinality(Publishes(D)) \in Nat
<1>1. Publishes(D) \in SUBSET (1 .. Len(D)) /\ Len(D) \in Nat
  BY DEF Publishes
<1>2. IsFiniteSet(1 .. Len(D))
  BY <1>1, FS_Interval
<1>. QED
  BY <1>1, <1>2, FS_Subset, FS_CardinalityType

LEMMA PublishesAppend ==
  ASSUME NEW S, NEW D \in Seq(S), NEW work
  PROVE  /\ Len(Append(D, work)) = Len(D) + 1
         /\ Cardinality(Publishes(Append(D, work))) =
              IF work.do = "publish" THEN Cardinality(Publishes(D)) + 1
              ELSE Cardinality(Publishes(D))
<1>. DEFINE A == Append(D, work)
<1>1. D \in Seq(S \cup {work})
  <2>1. \A i \in 1 .. Len(D) : D[i] \in S \cup {work}
    OBVIOUS
  <2>. QED
    BY <2>1
<1>2. /\ Len(A) = Len(D) + 1 /\ DOMAIN A = 1 .. Len(D) + 1 /\ Len(D) \in Nat
      /\ A[Len(D) + 1] = work /\ \A i \in 1 .. Len(D) : A[i] = D[i]
  BY <1>1
<1>. HIDE DEF A
<1>3. Publishes(A) = IF work.do = "publish" THEN Publishes(D) \cup {Len(D) + 1} ELSE Publishes(D)
  BY <1>2 DEF Publishes
<1>4. Len(D) + 1 \notin Publishes(D)
  BY <1>2 DEF Publishes
<1>5. Cardinality(Publishes(D) \cup {Len(D) + 1}) = Cardinality(Publishes(D)) + 1
  BY <1>4, PublishesFinite, FS_AddElement
<1>. QED
  BY <1>2, <1>3, <1>5 DEF A

LEMMA PublishesTail ==
  ASSUME NEW S, NEW D \in Seq(S), D # << >>
  PROVE  /\ Tail(D) \in Seq(S) /\ Len(Tail(D)) = Len(D) - 1
         /\ Cardinality(Publishes(Tail(D))) =
              IF D[1].do = "publish" THEN Cardinality(Publishes(D)) - 1
              ELSE Cardinality(Publishes(D))
<1>. DEFINE T == Tail(D)
            rest == Publishes(D) \ {1}
            shift == [k \in Publishes(T) |-> k + 1]
<1>1. /\ T \in Seq(S) /\ Len(T) = Len(D) - 1 /\ Len(D) \in Nat /\ Len(T) \in Nat
      /\ \A k \in 1 .. Len(T) : T[k] = D[k + 1]
  OBVIOUS
<1>. HIDE DEF T
<1>2. shift \in Bijection(Publishes(T), rest)
  <2>1. \A k \in Publishes(T) : k \in 1 .. Len(T) /\ T[k].do = "publish"
    BY <1>1 DEF Publishes
  <2>2. \A k \in Publishes(T) : k + 1 \in rest
    BY <1>1, <2>1 DEF Publishes
  <2>3. \A n \in rest : n - 1 \in Publishes(T) /\ (n - 1) + 1 = n
    <3>1. \A n \in rest : n \in 2 .. Len(D) /\ D[n].do = "publish"
      BY DEF Publishes
    <3>2. \A n \in 2 .. Len(D) : n - 1 \in 1 .. Len(T) /\ T[n - 1] = D[(n - 1) + 1] /\ (n - 1) + 1 = n
      BY <1>1
    <3>. QED
      BY <1>1, <3>1, <3>2 DEF Publishes
  <2>4. shift \in [Publishes(T) -> rest]
    BY <2>2
  <2>5. \A a, b \in Publishes(T) : shift[a] = shift[b] => a = b
    BY <2>1
  <2>6. \A n \in rest : \E k \in Publishes(T) : shift[k] = n
    BY <2>3
  <2>7. DOMAIN shift = Publishes(T)
    BY <2>4
  <2>. HIDE DEF shift, rest
  <2>8. IsInjective(shift)
    BY <2>5, <2>7, Zenon DEF IsInjective
  <2>. QED
    BY <2>4, <2>6, <2>8, Zenon DEF Bijection, Injection, Surjection
<1>3. Cardinality(Publishes(T)) = Cardinality(rest)
  <2>1. IsFiniteSet(Publishes(T))
    BY <1>1, PublishesFinite
  <2>. HIDE DEF shift, rest
  <2>. QED
    BY <1>2, <2>1, FS_Bijection, Zenon DEF ExistsBijection
<1>4. Cardinality(rest) = IF D[1].do = "publish" THEN Cardinality(Publishes(D)) - 1
                          ELSE Cardinality(Publishes(D))
  <2>1. 1 \in Publishes(D) <=> D[1].do = "publish"
    BY <1>1 DEF Publishes
  <2>2. CASE 1 \in Publishes(D)
    <3>1. Cardinality(Publishes(D) \ {1}) = Cardinality(Publishes(D)) - 1
      BY <2>2, PublishesFinite, FS_RemoveElement
    <3>. QED
      BY <2>1, <2>2, <3>1
  <2>3. CASE 1 \notin Publishes(D)
    <3>1. rest = Publishes(D)
      BY <2>3
    <3>. QED
      BY <2>1, <2>3, <3>1
  <2>. QED
    BY <2>2, <2>3
<1>. QED
  BY <1>1, <1>3, <1>4 DEF T

ServerTypes ==
    /\ gstop \in BOOLEAN /\ running \in BOOLEAN /\ loop \in BOOLEAN
    /\ main \in {"called", "entered", "listening", "starting", "looping",
                 "joining", "returned", "exited"}
    /\ listen \in {"none", "open", "closed"} /\ clients \in 0 .. MaxClients
    /\ bcast \in {"none", "check", "sleep", "copied", "closing", "ended"}
    /\ handler \in {"idle", "stopping", "closing"}
    /\ signals \in 0 .. MaxSignals /\ (handler # "idle" => signals > 0)

Closes ==
    signals - (IF handler = "idle" THEN 0 ELSE 1) + (IF bcast = "ended" THEN 1 ELSE 0)

\* As many snapshots as the bound allows, and the work to close; who has locked
\* the queue for one more snapshot has found room for it.
Backlog ==
    LET snapshots == Cardinality(Publishes(deferred))
    IN  /\ snapshots <= MaxDeferred /\ Len(deferred) <= snapshots + Closes
        /\ mutex = "broadcast" /\ bcast = "copied" => snapshots < MaxDeferred \/ LoopOver

LEMMA TypesInit == Init => ServerTypes /\ Backlog
<1>. SUFFICES ASSUME Init PROVE ServerTypes /\ Backlog
  OBVIOUS
<1>1. MaxDeferred \in Nat /\ MaxClients \in Nat /\ MaxSignals \in Nat
  BY DashboardAssumption
<1>2. /\ gstop = FALSE /\ running = FALSE /\ main = "called" /\ loop = FALSE /\ listen = "none"
      /\ clients = 0 /\ bcast = "none" /\ handler = "idle" /\ signals = 0
      /\ deferred = << >> /\ mutex = "free"
  BY DEF Init
<1>3. ServerTypes
  <2>1. gstop \in BOOLEAN /\ running \in BOOLEAN /\ loop \in BOOLEAN
    BY <1>2, Zenon
  <2>2. clients \in 0 .. MaxClients /\ signals \in 0 .. MaxSignals
    BY <1>1, <1>2
  <2>. QED
    BY <1>2, <2>1, <2>2, Zenon DEF ServerTypes
<1>4. Cardinality(Publishes(deferred)) = 0 /\ Len(deferred) = 0
  <2>1. Publishes(<< >>) = {}
    BY DEF Publishes
  <2>. QED
    BY <1>2, <2>1, FS_EmptySet
<1>. QED
  BY <1>1, <1>2, <1>3, <1>4 DEF Backlog, Closes

\* Steps that leave the queue alone.
LEMMA BacklogFrame ==
  ASSUME Backlog, UNCHANGED <<deferred, mutex, bcast>>, LoopOver => LoopOver',
         Closes \in Nat, Closes' \in {Closes, Closes + 1}, \E S : deferred \in Seq(S)
  PROVE  Backlog'
<1>1. Len(deferred) \in Nat /\ Cardinality(Publishes(deferred)) \in Nat
  BY PublishesFinite
<1>. QED
  BY <1>1 DEF Backlog

LEMMA ClosesType == ServerTypes => Closes \in Nat /\ Closes <= MaxSignals + 1
BY DashboardAssumption DEF ServerTypes, Closes

\* The main thread and the clients.
LEMMA TypesMain ==
  ASSUME ServerTypes, Backlog, ServerInv, TradesInv, MutexInv, MainStep \/ Connect \/ Disconnect
  PROVE  ServerTypes' /\ Backlog'
<1>. USE DEF othersThanMain, bcastVars, signalVars, queueVars
<1>1. PICK S : deferred \in Seq(S)
  BY DEF TradesInv
<1>2. Len(deferred) \in Nat /\ Cardinality(Publishes(deferred)) \in Nat
      /\ Closes \in Nat /\ MaxDeferred \in Nat
  BY <1>1, PublishesFinite, ClosesType, DashboardAssumption
<1>3. CASE EnterRun \/ GetLoop \/ Listen \/ JoinBroadcast \/ JoinReplay \/ Connect \/ Disconnect
  <2>1. UNCHANGED <<deferred, mutex, bcast, handler, signals>> /\ (LoopOver => LoopOver')
    BY <1>3 DEF EnterRun, GetLoop, Listen, JoinBroadcast, JoinReplay, Connect, Disconnect, LoopOver
  <2>2. ServerTypes'
    <3>1. CASE EnterRun \/ GetLoop \/ Listen
      BY <3>1 DEF EnterRun, GetLoop, Listen, ServerTypes
    <3>2. CASE JoinBroadcast \/ JoinReplay
      BY <3>2 DEF JoinBroadcast, JoinReplay, ServerTypes
    <3>3. CASE Connect \/ Disconnect
      BY <3>3, DashboardAssumption DEF Connect, Disconnect, ServerTypes
    <3>. QED
      BY <1>3, <3>1, <3>2, <3>3
  <2>3. Closes' = Closes
    BY <2>1 DEF Closes
  <2>. QED
    BY <1>1, <1>2, <2>1, <2>2, <2>3, BacklogFrame
<1>4. CASE StartBroadcast
  <2>1. bcast = "none" /\ bcast' = "check" /\ UNCHANGED <<deferred, mutex, handler, signals>>
    BY <1>4 DEF StartBroadcast, ServerInv
  <2>2. Closes' = Closes
    BY <2>1 DEF Closes
  <2>3. ServerTypes'
    BY <1>4, <2>1 DEF StartBroadcast, ServerTypes
  <2>. QED
    BY <2>1, <2>2, <2>3 DEF Backlog
<1>5. CASE LockQueue
  <2>1. /\ mutex' = "main"
        /\ UNCHANGED <<gstop, running, loop, main, listen, clients, bcast, handler, signals, deferred>>
    BY <1>5 DEF LockQueue
  <2>2. Closes' = Closes /\ ServerTypes'
    BY <2>1 DEF Closes, ServerTypes
  <2>. QED
    BY <2>1, <2>2 DEF Backlog
<1>6. CASE RunDeferred
  <2>1. /\ deferred # << >> /\ deferred' = Tail(deferred) /\ mutex' = "free"
        /\ listen' \in {listen, "closed"}
        /\ UNCHANGED <<gstop, running, loop, main, clients, bcast, handler, signals>>
    BY <1>6 DEF RunDeferred, MutexInv
  <2>2. /\ Len(deferred') = Len(deferred) - 1
        /\ Cardinality(Publishes(deferred')) \in
             {Cardinality(Publishes(deferred)) - 1, Cardinality(Publishes(deferred))}
    BY <1>1, <2>1, PublishesTail
  <2>3. Closes' = Closes /\ ServerTypes'
    BY <2>1 DEF Closes, ServerTypes
  <2>. QED
    BY <1>2, <2>1, <2>2, <2>3 DEF Backlog
<1>7. CASE LoopReturns
  <2>1. /\ deferred' = << >> /\ main' = "joining"
        /\ UNCHANGED <<gstop, running, loop, listen, clients, bcast, handler, signals>>
    BY <1>7 DEF LoopReturns
  <2>2. Cardinality(Publishes(deferred')) = 0 /\ Len(deferred') = 0
    <3>1. Publishes(<< >>) = {}
      BY DEF Publishes
    <3>. QED
      BY <2>1, <3>1, FS_EmptySet
  <2>3. Closes' = Closes /\ ServerTypes' /\ LoopOver'
    BY <2>1 DEF Closes, ServerTypes, LoopOver
  <2>. QED
    BY <1>2, <2>2, <2>3 DEF Backlog
<1>. QED
  BY <1>3, <1>4, <1>5, <1>6, <1>7 DEF MainStep

\* defer() queues at most one piece of work.
LEMMA DeferAdds ==
  ASSUME NEW S, deferred \in Seq(S), NEW work, Defer(work)
  PROVE  /\ Len(deferred') - Cardinality(Publishes(deferred')) \in
              {Len(deferred) - Cardinality(Publishes(deferred)),
               Len(deferred) - Cardinality(Publishes(deferred))
                 + (IF work.do = "publish" THEN 0 ELSE 1)}
         /\ Cardinality(Publishes(deferred')) =
              IF ~LoopOver /\ work.do = "publish" THEN Cardinality(Publishes(deferred)) + 1
              ELSE Cardinality(Publishes(deferred))
         /\ Len(deferred') \in Nat
<1>1. Len(deferred) \in Nat /\ Cardinality(Publishes(deferred)) \in Nat
  BY PublishesFinite
<1>. QED
  BY <1>1, PublishesAppend DEF Defer

\* The broadcast thread.
LEMMA TypesBroadcast ==
  ASSUME ServerTypes, Backlog, TradesInv, MutexInv, BroadcastStep
  PROVE  ServerTypes' /\ Backlog'
<1>1. PICK S : deferred \in Seq(S)
  BY DEF TradesInv
<1>2. Len(deferred) \in Nat /\ Cardinality(Publishes(deferred)) \in Nat
      /\ Closes \in Nat /\ MaxDeferred \in Nat
  BY <1>1, PublishesFinite, ClosesType, DashboardAssumption
<1>3. UNCHANGED <<gstop, running, loop, main, listen, clients, handler, signals>>
  BY DEF BroadcastStep, CheckRunning, Copy, LockLoop, DeferPublish, DeferClose,
     othersThanBroadcast, serverVars, signalVars
<1>4. LoopOver' = LoopOver
  BY <1>3 DEF LoopOver
<1>5. CASE CheckRunning \/ Copy
  <2>1. /\ UNCHANGED <<deferred, mutex>> /\ bcast \in {"check", "sleep"}
        /\ bcast' \in {"sleep", "copied", "closing"} /\ mutex # "broadcast"
    BY <1>5 DEF CheckRunning, Copy, queueVars, MutexInv
  <2>2. ServerTypes' /\ Closes' = Closes
    BY <1>3, <2>1 DEF ServerTypes, Closes
  <2>. QED
    BY <2>1, <2>2 DEF Backlog
<1>6. CASE LockLoop
  <2>1. /\ deferred' = deferred /\ bcast' = bcast
        /\ bcast = "copied" => Cardinality(Publishes(deferred)) < MaxDeferred \/ LoopOver
    BY <1>6 DEF LockLoop, bcastVars, Unpublished, Publishes
  <2>2. ServerTypes' /\ Closes' = Closes
    BY <1>3, <2>1 DEF ServerTypes, Closes
  <2>. QED
    BY <1>2, <1>4, <2>1, <2>2 DEF Backlog
<1>7. CASE DeferPublish
  <2>1. /\ bcast = "copied" /\ bcast' = "check" /\ mutex = "broadcast" /\ mutex' = "free"
        /\ Defer(PublishWork(json)) /\ PublishWork(json).do = "publish"
    BY <1>7 DEF DeferPublish, PublishWork
  <2>2. ServerTypes' /\ Closes' = Closes
    BY <1>3, <2>1 DEF ServerTypes, Closes
  <2>3. /\ Len(deferred') - Cardinality(Publishes(deferred'))
              = Len(deferred) - Cardinality(Publishes(deferred))
        /\ Cardinality(Publishes(deferred')) =
              IF ~LoopOver THEN Cardinality(Publishes(deferred)) + 1
              ELSE Cardinality(Publishes(deferred))
        /\ Len(deferred') \in Nat
    BY <1>1, <1>2, <2>1, DeferAdds
  <2>4. LoopOver \in BOOLEAN
    BY DEF LoopOver
  <2>. QED
    BY <1>2, <2>1, <2>2, <2>3, <2>4 DEF Backlog
<1>8. CASE DeferClose
  <2>1. /\ bcast = "closing" /\ bcast' = "ended" /\ mutex' = "free"
        /\ Defer(CloseWork) /\ CloseWork.do # "publish"
    BY <1>8 DEF DeferClose, CloseWork
  <2>2. ServerTypes' /\ Closes' = Closes + 1
    BY <1>3, <2>1 DEF ServerTypes, Closes
  <2>3. /\ Len(deferred') - Cardinality(Publishes(deferred'))
              <= Len(deferred) - Cardinality(Publishes(deferred)) + 1
        /\ Cardinality(Publishes(deferred')) = Cardinality(Publishes(deferred))
        /\ Len(deferred') \in Nat
    BY <1>1, <1>2, <2>1, DeferAdds
  <2>. QED
    BY <1>2, <2>1, <2>2, <2>3 DEF Backlog
<1>. QED
  BY <1>5, <1>6, <1>7, <1>8 DEF BroadcastStep

\* The signals and their handler.
LEMMA TypesSignal ==
  ASSUME ServerTypes, Backlog, TradesInv, MutexInv, Signal \/ SignalStep
  PROVE  ServerTypes' /\ Backlog'
<1>1. PICK S : deferred \in Seq(S)
  BY DEF TradesInv
<1>2. Len(deferred) \in Nat /\ Cardinality(Publishes(deferred)) \in Nat
      /\ Closes \in Nat /\ MaxDeferred \in Nat /\ MaxSignals \in Nat
  BY <1>1, PublishesFinite, ClosesType, DashboardAssumption
<1>3. UNCHANGED <<loop, main, listen, clients, bcast>>
  BY DEF Signal, SignalStep, Stop, StopDefers, othersThanSignal, serverVars, bcastVars
<1>4. LoopOver' = LoopOver
  BY <1>3 DEF LoopOver
<1>5. CASE Signal
  <2>1. /\ handler = "idle" /\ handler' = "stopping" /\ signals < MaxSignals
        /\ signals' = signals + 1 /\ gstop' = TRUE /\ UNCHANGED <<running, deferred, mutex>>
    BY <1>5 DEF Signal, queueVars
  <2>2. Closes' = Closes /\ signals' \in 0 .. MaxSignals /\ signals' > 0
    BY <1>2, <1>3, <2>1 DEF Closes, ServerTypes
  <2>3. ServerTypes'
    BY <1>3, <2>1, <2>2 DEF ServerTypes
  <2>. QED
    BY <1>1, <1>2, <1>3, <1>4, <2>1, <2>2, <2>3, BacklogFrame
<1>6. CASE Stop
  <2>1. /\ handler = "stopping" /\ handler' \in {"closing", "idle"} /\ running' = FALSE
        /\ UNCHANGED <<gstop, signals, deferred, mutex>>
    BY <1>6 DEF Stop, queueVars
  <2>2. Closes' \in {Closes, Closes + 1}
    BY <1>2, <1>3, <2>1 DEF Closes, ServerTypes
  <2>3. ServerTypes'
    BY <1>3, <2>1 DEF ServerTypes
  <2>. QED
    BY <1>1, <1>2, <1>3, <1>4, <2>1, <2>2, <2>3, BacklogFrame
<1>7. CASE StopDefers
  <2>1. /\ handler = "closing" /\ handler' = "idle" /\ UNCHANGED <<gstop, running, signals, mutex>>
        /\ (deferred' = deferred \/ (Defer(CloseWork) /\ mutex = "free")) /\ CloseWork.do # "publish"
    BY <1>7 DEF StopDefers, CloseWork
  <2>2. Closes' = Closes + 1 /\ ServerTypes'
    BY <1>2, <1>3, <2>1 DEF Closes, ServerTypes
  <2>3. CASE deferred' = deferred
    BY <1>1, <1>2, <1>3, <1>4, <2>1, <2>2, <2>3, BacklogFrame
  <2>4. CASE Defer(CloseWork) /\ mutex = "free"
    <3>1. /\ Len(deferred') - Cardinality(Publishes(deferred'))
                <= Len(deferred) - Cardinality(Publishes(deferred)) + 1
          /\ Cardinality(Publishes(deferred')) = Cardinality(Publishes(deferred))
          /\ Len(deferred') \in Nat
      BY <1>1, <1>2, <2>1, <2>4, DeferAdds
    <3>. QED
      BY <1>2, <2>1, <2>2, <2>4, <3>1 DEF Backlog
  <2>. QED
    BY <2>1, <2>3, <2>4
<1>. QED
  BY <1>5, <1>6, <1>7 DEF SignalStep

LEMMA TypesKeep ==
  ASSUME ServerTypes, Backlog, ServerInv, TradesInv, MutexInv, [Next]_vars
  PROVE  ServerTypes' /\ Backlog'
<1>1. CASE UNCHANGED <<gstop, running, loop, main, listen, clients, bcast, handler, signals,
                       deferred, mutex>>
  BY <1>1 DEF ServerTypes, Backlog, Closes, LoopOver
<1>2. CASE ReplayStep
  BY <1>1, <1>2 DEF ReplayStep, Fetch, EndLoop, UpdateReplay, UpdateTimestamp, Process, PushTrade,
     UpdateOrderbook, UpdateMetrics, othersThanReplay, serverVars, queueVars, bcastVars, signalVars
<1>3. CASE UNCHANGED vars
  BY <1>1, <1>3 DEF vars, serverVars, queueVars, bcastVars, signalVars
<1>. QED
  BY <1>2, <1>3, TypesMain, TypesBroadcast, TypesSignal DEF Next

\* The controller's and the server's state stay within their types, and what is
\* deferred to the event loop within its bound.
THEOREM DashboardTypeCorrect == Spec => []TypeOK
<1>1. Spec => [](ServerTypes /\ Backlog)
  <2>1. /\ ServerTypes /\ Backlog /\ ServerInv /\ TradesInv /\ MutexInv /\ [Next]_vars
        => (ServerTypes /\ Backlog)'
    BY TypesKeep
  <2>. QED
    BY <2>1, TypesInit, ServerSound, TradesSound, MutexSound, PTL DEF Spec
<1>2. ReplayInv /\ TradesInv /\ ServerTypes /\ Backlog /\ MutexInv => TypeOK
  <2>. SUFFICES ASSUME ReplayInv, TradesInv, ServerTypes, Backlog, MutexInv
                PROVE  TypeOK
    OBVIOUS
  <2>1. /\ step \in {"next", "replay", "stamp", "process", "matching", "trades", "metrics",
                   "final", "ended"}
        /\ ControllerOK /\ snap \in Snapshots /\ gate \in [signals : Nat, noops : Nat]
        /\ Counted(Read) \/ (Counted(Over) /\ EventInHand) \/ Stuck
    BY DEF ReplayInv, Resting, Untouched, Answering, BookShown
  <2>2. /\ rc.pos \in 0 .. Len(rc.src) /\ rc.replayed <= rc.pos /\ rc.late <= rc.replayed
        /\ rc.src \in Seq(Line) /\ Read \in SUBSET (1 .. Len(rc.src))
    <3>1. /\ rc.pos \in 0 .. Len(rc.src) /\ rc.pos \in Nat /\ rc.replayed = Cardinality(Read)
          /\ rc.late <= rc.replayed /\ rc.src \in Seq(Line)
      BY <2>1 DEF ControllerOK, Controllers
    <3>2. Cardinality(Read) <= rc.pos
      BY <3>1, UpToFinite DEF Read
    <3>. QED
      BY <2>1, <3>1, <3>2, FirstAreRead
  <2>3. applied \in Nat /\ applied <= gate.signals
    <3>1. CASE Counted(Read)
      BY <2>2, <3>1, CountsType DEF Counted
    <3>2. CASE Counted(Over) /\ EventInHand
      <4>1. Over \in SUBSET (1 .. Len(rc.src))
        BY <2>1, <3>2, OneMoreRead
      <4>. QED
        BY <2>2, <3>2, <4>1, CountsType DEF Counted
    <3>3. CASE Stuck
      <4>1. /\ EventInHand /\ Forwards(strategy, rc.src[rc.pos])
            /\ gate.signals = Signals(rc.src, strategy, Read)
            /\ applied = Applied(rc.src, strategy, Over)
        BY <3>3 DEF Stuck, EventInHand
      <4>2. /\ rc.pos \in 1 .. Len(rc.src) /\ Over \in SUBSET (1 .. Len(rc.src))
            /\ Read = Over \cup {rc.pos} /\ rc.pos \notin Over
        BY <2>1, <4>1, OneMoreRead
      <4>3. Signals(rc.src, strategy, Read) = Signals(rc.src, strategy, Over) + 1
        BY <2>2, <4>1, <4>2, ShareSent
      <4>4. /\ Applied(rc.src, strategy, Over) \in Nat /\ Signals(rc.src, strategy, Over) \in Nat
            /\ Applied(rc.src, strategy, Over) <= Signals(rc.src, strategy, Over)
        BY <2>2, <4>2, CountsType
      <4>. QED
        BY <4>1, <4>3, <4>4
    <3>. QED
      BY <2>1, <3>1, <3>2, <3>3
  <2>4. {gate.signals, gate.noops, applied, traded, signals} \subseteq Nat
    BY <2>1, <2>3 DEF TradesInv, Window, ServerTypes
  <2>5. snap.done \in BOOLEAN
    BY <2>1 DEF Snapshots
  <2>6. {gstop, running, loop, snap.done} \subseteq BOOLEAN
    BY <2>5, Zenon DEF ServerTypes
  <2>7. Cardinality(Unpublished) <= MaxDeferred /\ Len(deferred) <= MaxDeferred + MaxSignals + 1
    <3>1. MaxDeferred \in Nat /\ MaxSignals \in Nat /\ Len(deferred) \in Nat
          /\ Cardinality(Publishes(deferred)) \in Nat
      BY DashboardAssumption, PublishesFinite DEF TradesInv
    <3>2. Closes \in Nat /\ Closes <= MaxSignals + 1
      BY ClosesType
    <3>3. Unpublished = Publishes(deferred)
      BY DEF Unpublished, Publishes
    <3>. QED
      BY <3>1, <3>2, <3>3 DEF Backlog
  <2>8. (interrupted = "none") = (handler = "idle")
    BY Zenon DEF MutexInv
  <2>. QED
    BY <2>1, <2>2, <2>3, <2>4, <2>6, <2>7, <2>8 DEF TypeOK, ServerTypes, MutexInv
<1>. QED
  BY <1>1, <1>2, ReplaySound, TradesSound, MutexSound, PTL
=============================================================================
