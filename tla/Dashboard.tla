------------------------------ MODULE Dashboard ------------------------------
(***************************************************************************)
(* The dashboard program of dashboard/websocket: the replay thread of      *)
(* main.cpp, which drives a replay source through the strategy gate and    *)
(* the matching engine into the SnapshotPublisher; DashboardServer with    *)
(* its event loop on the main thread and its broadcast thread; and the     *)
(* signals that stop it all.                                               *)
(*                                                                         *)
(* Every update of the snapshot takes the publisher's mutex, so it is one  *)
(* step.  Between two of them the broadcast thread may copy the snapshot.  *)
(* The order book section stands for the number of events the engine has   *)
(* applied, a trade for its number in the order of execution.              *)
(*                                                                         *)
(* Of uWebSockets the module takes that deferred work runs on the loop's   *)
(* thread in the order of the defer() calls, that a mutex guards the queue *)
(* it waits in, and that the loop returns when neither the listen socket   *)
(* nor a client connection is left.                                        *)
(*                                                                         *)
(* A signal handler runs on the stack of the thread it interrupts, which   *)
(* does nothing until the handler has returned.                            *)
(***************************************************************************)
EXTENDS Replay

CONSTANTS
    Sources,     \* what may be replayed: records of kind and src
    Strategies,  \* the sets of event types a strategy may forward
    MaxTrades,   \* EngineSnapshot::MAX_TRADES
    MaxDeferred, \* bound: snapshots deferred and not yet published
    MaxClients,  \* bound: clients connected at once
    MaxSignals   \* bound: signals delivered

ASSUME DashboardAssumption ==
    /\ \A s \in Sources : s.kind \in {"csv", "vector"} /\ s.src \in Seq(Line)
    /\ {MaxTrades, MaxDeferred, MaxClients, MaxSignals} \subseteq Nat /\ MaxTrades > 0

VARIABLES
    \* the replay thread
    step,      \* where its loop is
    rc,        \* the ReplayController
    event,     \* the event in hand
    output,    \* what the engine answered and is not published yet
    strategy,  \* what the StrategyEngine forwards
    gate,      \* its counters
    applied,   \* events the engine has applied
    traded,    \* trades pushed to the publisher
    \* shared by all threads
    snap,      \* the publisher's snapshot
    gstop,     \* g_stop
    running,   \* DashboardServer::running_
    \* the server
    main,      \* where run() is
    loop,      \* whether loop_ is set
    listen,    \* listen_socket_
    deferred,  \* the work deferred to the event loop
    mutex,     \* who holds the mutex of that queue
    clients,   \* the clients connected
    shown,     \* the snapshot published last
    bcast,     \* where the broadcast thread is
    json,      \* the snapshot it has copied
    \* the signals
    handler,   \* where on_signal is
    interrupted, \* the thread on whose stack it runs
    signals    \* how many signals were delivered

replayVars == <<step, rc, event, output, strategy, gate, applied, traded>>
serverVars == <<main, loop, listen, clients, shown>>
queueVars  == <<deferred, mutex>>
bcastVars  == <<bcast, json>>
signalVars == <<handler, interrupted, signals>>
vars == <<replayVars, snap, gstop, running, serverVars, queueVars, bcastVars, signalVars>>
-----------------------------------------------------------------------------
NoEvent == [type |-> 0, ts |-> 0]
EmptySnapshot ==
    [replayed |-> 0, done |-> FALSE, ts |-> 0, book |-> 0, trades |-> << >>,
     signals |-> 0, noops |-> 0]

\* main() has built the controller and the server and has started the thread.
Init ==
    /\ \E s \in Sources : rc = Controller(s.kind, s.src)
    /\ strategy \in Strategies
    /\ step = "next" /\ event = NoEvent /\ output = << >>
    /\ gate = [signals |-> 0, noops |-> 0] /\ applied = 0 /\ traded = 0
    /\ snap = EmptySnapshot /\ gstop = FALSE /\ running = FALSE
    /\ main = "called" /\ loop = FALSE /\ listen = "none"
    /\ deferred = << >> /\ mutex = "free"
    /\ clients = 0 /\ shown = EmptySnapshot /\ json = EmptySnapshot
    /\ bcast = "none" /\ handler = "idle" /\ interrupted = "none" /\ signals = 0

Free(thread) == interrupted # thread

-----------------------------------------------------------------------------
\* The replay thread.

othersThanReplay == <<gstop, running, serverVars, queueVars, bcastVars, signalVars>>

\* while (!g_stop && rc->next(event))
Fetch ==
    /\ step = "next" /\ ~gstop /\ Yields(rc)
    /\ event' = Upcoming(rc) /\ rc' = Advanced(rc)
    /\ step' = "replay"
    /\ UNCHANGED <<output, strategy, gate, applied, traded, snap, othersThanReplay>>

EndLoop ==
    /\ step = "next" /\ (gstop \/ ~Yields(rc))
    /\ rc' = IF gstop THEN rc ELSE Advanced(rc)
    /\ step' = "final"
    /\ UNCHANGED <<event, output, strategy, gate, applied, traded, snap, othersThanReplay>>

\* update_replay, in the loop and after it.
WithReplay(s) == [s EXCEPT !.replayed = rc.replayed, !.done = Done(rc)]

UpdateReplay ==
    /\ step \in {"replay", "final"}
    /\ snap' = WithReplay(snap)
    /\ step' = IF step = "replay" THEN "stamp" ELSE "ended"
    /\ UNCHANGED <<rc, event, output, strategy, gate, applied, traded, othersThanReplay>>

UpdateTimestamp ==
    /\ step = "stamp"
    /\ snap' = [snap EXCEPT !.ts = event.ts]
    /\ step' = "process"
    /\ UNCHANGED <<rc, event, output, strategy, gate, applied, traded, othersThanReplay>>

\* The gate and, behind it, the engine; an event that is dropped ends the turn,
\* and one the engine does not return from is the last.
Process ==
    /\ step = "process"
    /\ LET sent == Forwards(strategy, event)
           done == sent /\ Returns(event)
       IN  /\ gate' = Gated(gate, sent)
           /\ applied' = IF done /\ Applies(event) THEN applied + 1 ELSE applied
           /\ output' = IF done THEN Output(event) ELSE << >>
           /\ step' = IF ~sent THEN "next" ELSE IF done THEN "trades" ELSE "matching"
    /\ UNCHANGED <<rc, event, strategy, traded, snap, othersThanReplay>>

\* Mutant: the deque is cut before the trade goes in.
WithTradeUncut(trades, t) ==
    IF Len(trades) > MaxTrades THEN Append(Tail(trades), t) ELSE Append(trades, t)

\* push_trade
WithTrade(trades, t) ==
    IF Len(trades) + 1 > MaxTrades THEN Tail(Append(trades, t)) ELSE Append(trades, t)

\* The answers in turn: only TradeExecutions are pushed.
PushTrade ==
    /\ step = "trades" /\ output # << >>
    /\ IF Head(output) = "trade"
       THEN /\ traded' = traded + 1
            /\ snap' = [snap EXCEPT !.trades = WithTrade(@, traded + 1)]
       ELSE UNCHANGED <<traded, snap>>
    /\ output' = Tail(output)
    /\ UNCHANGED <<step, rc, event, strategy, gate, applied, othersThanReplay>>

\* Mutant: the book does not wait for the trades.
UpdateOrderbookEarly ==
    /\ step = "trades"
    /\ snap' = [snap EXCEPT !.book = applied]
    /\ step' = "metrics"
    /\ UNCHANGED <<rc, event, output, strategy, gate, applied, traded, othersThanReplay>>

UpdateOrderbook ==
    /\ step = "trades" /\ output = << >>
    /\ snap' = [snap EXCEPT !.book = applied]
    /\ step' = "metrics"
    /\ UNCHANGED <<rc, event, output, strategy, gate, applied, traded, othersThanReplay>>

UpdateMetrics ==
    /\ step = "metrics"
    /\ snap' = [snap EXCEPT !.signals = gate.signals, !.noops = gate.noops]
    /\ step' = "next"
    /\ UNCHANGED <<rc, event, output, strategy, gate, applied, traded, othersThanReplay>>

ReplayStep ==
    /\ Free("replay")
    /\ \/ Fetch \/ EndLoop \/ UpdateReplay \/ UpdateTimestamp \/ Process
       \/ PushTrade \/ UpdateOrderbook \/ UpdateMetrics
-----------------------------------------------------------------------------
\* DashboardServer::run on the main thread.

othersThanMain == <<replayVars, snap, gstop, bcastVars, signalVars>>

\* Work deferred to a loop that has returned is never run.
LoopOver == main \in {"joining", "returned", "exited"}
Defer(work) == deferred' = IF LoopOver THEN deferred ELSE Append(deferred, work)
CloseWork == [do |-> "close"]
PublishWork(s) == [do |-> "publish", what |-> s]
Unpublished == {k \in DOMAIN deferred : deferred[k].do = "publish"}

EnterRun ==
    /\ main = "called" /\ main' = "entered"
    /\ running' = TRUE
    /\ UNCHANGED <<othersThanMain, loop, listen, queueVars, clients, shown>>

GetLoop ==
    /\ main = "entered" /\ main' = "listening"
    /\ loop' = TRUE
    /\ UNCHANGED <<othersThanMain, running, listen, queueVars, clients, shown>>

\* listen() calls back with a socket, or without one when the port is taken.
Listen ==
    /\ main = "listening" /\ main' = "starting"
    /\ listen' \in {"open", "none"}
    /\ UNCHANGED <<othersThanMain, running, loop, queueVars, clients, shown>>

StartBroadcast ==
    /\ main = "starting" /\ main' = "looping"
    /\ bcast' = "check"
    /\ UNCHANGED <<replayVars, snap, gstop, json, signalVars,
                   running, loop, listen, queueVars, clients, shown>>

\* The event loop takes the deferred work out of the queue under the mutex ...
LockQueue ==
    /\ main = "looping" /\ deferred # << >> /\ mutex = "free"
    /\ mutex' = "main"
    /\ UNCHANGED <<othersThanMain, running, deferred, main, loop, listen, clients, shown>>

\* Mutant: the listen socket stays open.
RunDeferredKeepsOpen ==
    /\ main = "looping" /\ mutex = "main"
    /\ deferred' = Tail(deferred) /\ mutex' = "free"
    /\ shown' = IF Head(deferred).do = "publish" THEN Head(deferred).what ELSE shown
    /\ UNCHANGED <<othersThanMain, running, main, loop, listen, clients>>

\* ... and runs what was deferred first; closing is done once.
RunDeferred ==
    /\ main = "looping" /\ mutex = "main"
    /\ deferred' = Tail(deferred) /\ mutex' = "free"
    /\ LET work == Head(deferred)
       IN  IF work.do = "publish"
           THEN shown' = work.what /\ UNCHANGED listen
           ELSE UNCHANGED shown /\ listen' = IF listen = "open" THEN "closed" ELSE listen
    /\ UNCHANGED <<othersThanMain, running, main, loop, clients>>

LoopReturns ==
    /\ main = "looping" /\ listen # "open" /\ clients = 0 /\ mutex # "main"
    /\ main' = "joining" /\ deferred' = << >>
    /\ UNCHANGED <<othersThanMain, running, mutex, loop, listen, clients, shown>>

\* Mutant: run() does not wait for the broadcast thread.
JoinNobody ==
    /\ main = "joining" /\ main' = "returned"
    /\ UNCHANGED <<othersThanMain, running, loop, listen, queueVars, clients, shown>>

JoinBroadcast ==
    /\ main = "joining" /\ bcast = "ended"
    /\ main' = "returned"
    /\ UNCHANGED <<othersThanMain, running, loop, listen, queueVars, clients, shown>>

JoinReplay ==
    /\ main = "returned" /\ step = "ended"
    /\ main' = "exited"
    /\ UNCHANGED <<othersThanMain, running, loop, listen, queueVars, clients, shown>>

MainStep ==
    /\ Free("main")
    /\ \/ EnterRun \/ GetLoop \/ Listen \/ StartBroadcast \/ LockQueue \/ RunDeferred
       \/ LoopReturns \/ JoinBroadcast \/ JoinReplay

\* The clients come and go, as the loop sees it; the open handler subscribes them.
Connect ==
    /\ Free("main") /\ mutex # "main"
    /\ main = "looping" /\ listen = "open" /\ clients < MaxClients
    /\ clients' = clients + 1
    /\ UNCHANGED <<othersThanMain, running, main, loop, listen, queueVars, shown>>

Disconnect ==
    /\ Free("main") /\ mutex # "main"
    /\ clients > 0
    /\ clients' = clients - 1
    /\ UNCHANGED <<othersThanMain, running, main, loop, listen, queueVars, shown>>
-----------------------------------------------------------------------------
\* The broadcast thread.

othersThanBroadcast == <<replayVars, snap, gstop, running, serverVars, signalVars>>

\* Mutant: the broadcasts end with the replay.
CheckUntilDone ==
    /\ bcast = "check"
    /\ bcast' = IF running /\ ~snap.done THEN "sleep" ELSE "closing"
    /\ UNCHANGED <<othersThanBroadcast, json, queueVars>>

\* while (running_)
CheckRunning ==
    /\ bcast = "check"
    /\ bcast' = IF running THEN "sleep" ELSE "closing"
    /\ UNCHANGED <<othersThanBroadcast, json, queueVars>>

\* After the sleep: break, or get_snapshot and to_json.
Copy ==
    /\ bcast = "sleep"
    /\ IF running THEN bcast' = "copied" /\ json' = snap
                  ELSE bcast' = "closing" /\ UNCHANGED json
    /\ UNCHANGED <<othersThanBroadcast, queueVars>>

\* defer() locks the mutex ...
LockLoop ==
    /\ mutex = "free"
    /\ \/ bcast = "copied" /\ (Cardinality(Unpublished) < MaxDeferred \/ LoopOver)
       \/ bcast = "closing"
    /\ mutex' = "broadcast"
    /\ UNCHANGED <<othersThanBroadcast, bcastVars, deferred>>

\* ... queues the work, and unlocks.
DeferPublish ==
    /\ bcast = "copied" /\ mutex = "broadcast"
    /\ Defer(PublishWork(json)) /\ mutex' = "free"
    /\ bcast' = "check"
    /\ UNCHANGED <<othersThanBroadcast, json>>

DeferClose ==
    /\ bcast = "closing" /\ mutex = "broadcast"
    /\ Defer(CloseWork) /\ mutex' = "free"
    /\ bcast' = "ended"
    /\ UNCHANGED <<othersThanBroadcast, json>>

BroadcastStep ==
    /\ Free("broadcast")
    /\ CheckRunning \/ Copy \/ LockLoop \/ DeferPublish \/ DeferClose
-----------------------------------------------------------------------------
\* on_signal and stop().

othersThanSignal == <<replayVars, snap, serverVars, bcastVars>>

\* The threads there are; a signal interrupts any of them.
Threads == {"main"} \cup (IF step = "ended" THEN {} ELSE {"replay"})
                    \cup (IF bcast \in {"none", "ended"} THEN {} ELSE {"broadcast"})

Signal ==
    /\ handler = "idle" /\ signals < MaxSignals /\ main # "exited"
    /\ signals' = signals + 1
    /\ gstop' = TRUE
    /\ handler' = "stopping" /\ interrupted' \in Threads
    /\ UNCHANGED <<othersThanSignal, running, queueVars>>

\* if (!running_.exchange(false)) return;
Stop ==
    /\ handler = "stopping"
    /\ IF running
       THEN handler' = "closing" /\ UNCHANGED interrupted
       ELSE handler' = "idle" /\ interrupted' = "none"
    /\ running' = FALSE
    /\ UNCHANGED <<othersThanSignal, gstop, signals, queueVars>>

\* if (loop_) loop_->defer(close), which waits for the mutex.
StopDefers ==
    /\ handler = "closing"
    /\ IF loop THEN mutex = "free" /\ Defer(CloseWork) ELSE UNCHANGED deferred
    /\ handler' = "idle" /\ interrupted' = "none"
    /\ UNCHANGED <<othersThanSignal, gstop, running, signals, mutex>>

SignalStep == Stop \/ StopDefers
-----------------------------------------------------------------------------
Next == ReplayStep \/ MainStep \/ Connect \/ Disconnect \/ BroadcastStep \/ Signal \/ SignalStep

\* Every thread goes on when it can, and every client leaves sooner or later.
\* The loop gets a mutex that is free again and again: the broadcast thread
\* sleeps between two calls of defer().
Fairness ==
    /\ WF_vars(ReplayStep) /\ WF_vars(MainStep)
    /\ WF_vars(BroadcastStep) /\ WF_vars(SignalStep)
    /\ WF_vars(Disconnect) /\ SF_vars(LockQueue /\ Free("main"))

Spec == Init /\ [][Next]_vars /\ Fairness
-----------------------------------------------------------------------------
\* What the first n events of the source come to.
SignalsOf(n) == Signals(rc.src, strategy, FirstEvents(rc.src, n))
AppliedOf(n) == Applied(rc.src, strategy, FirstEvents(rc.src, n))
TradesOf(n)  == Traded(rc.src, strategy, FirstEvents(rc.src, n))

LastTrade(s) == IF s.trades = << >> THEN 0 ELSE s.trades[Len(s.trades)]

\* The state has its types and the queues their bounds.
TypeOK ==
    /\ step \in {"next", "replay", "stamp", "process", "matching", "trades",
             "metrics", "final", "ended"}
    /\ rc.pos \in 0 .. Len(rc.src) /\ rc.replayed <= rc.pos /\ rc.late <= rc.replayed
    /\ {gate.signals, gate.noops, applied, traded, signals} \subseteq Nat
    /\ applied <= gate.signals
    /\ {gstop, running, loop, snap.done} \subseteq BOOLEAN
    /\ main \in {"called", "entered", "listening", "starting", "looping",
                 "joining", "returned", "exited"}
    /\ listen \in {"none", "open", "closed"} /\ clients \in 0 .. MaxClients
    /\ Cardinality(Unpublished) <= MaxDeferred
    /\ Len(deferred) <= MaxDeferred + MaxSignals + 1
    /\ mutex \in {"free", "main", "broadcast"}
    /\ bcast \in {"none", "check", "sleep", "copied", "closing", "ended"}
    /\ handler \in {"idle", "stopping", "closing"}
    /\ interrupted \in {"none", "main", "replay", "broadcast"}
    /\ (interrupted = "none") = (handler = "idle")

\* The trades a snapshot shows, the one shown to the clients too, are the last
\* ones executed, at most MaxTrades, in the order of execution.
RecentTradesLast ==
    /\ LastTrade(snap) = traded
    /\ \A s \in {snap, shown} :
        /\ Len(s.trades) = IF LastTrade(s) < MaxTrades THEN LastTrade(s) ELSE MaxTrades
        /\ \A k \in DOMAIN s.trades : s.trades[k] = LastTrade(s) - Len(s.trades) + k

\* The sections of a snapshot are written one by one, so they may be of
\* different events, but never more than one event apart, and in the order
\* replay, trades, book, metrics: whoever has seen an event in a later section
\* has seen all of it in the earlier ones.
SectionsWithinOneEvent ==
    \A s \in {snap, shown} :
        LET r == s.replayed
            b == IF r = 0 THEN 0 ELSE r - 1
        IN  /\ LastTrade(s) \in TradesOf(b) .. TradesOf(r)
            /\ s.book \in {AppliedOf(b), AppliedOf(r)}
            /\ s.signals \in {SignalsOf(b), SignalsOf(r)}
            /\ s.book # AppliedOf(b) => LastTrade(s) = TradesOf(r)
            /\ s.signals # SignalsOf(b) =>
                    s.book = AppliedOf(r) /\ LastTrade(s) = TradesOf(r)

\* A snapshot of a file replay that says done shows the whole replay.
DoneIsComplete ==
    \A s \in {snap, shown} : s.done /\ rc.kind = "csv" =>
        LET n == Cardinality(EventLines(rc.src))
        IN  /\ s.replayed = n /\ LastTrade(s) = TradesOf(n)
            /\ s.book = AppliedOf(n) /\ s.signals = SignalsOf(n)

\* When the replay thread ends, the snapshot has caught up with the engine, and
\* unless a signal cut the replay short, with the source; and no snapshot of a
\* file says done before that.
FinalSnapshotExact ==
    /\ DoneIsComplete
    /\ step = "ended" =>
        /\ snap.replayed = rc.replayed /\ snap.done = Done(rc)
        /\ snap.book = applied /\ LastTrade(snap) = traded
        /\ snap.signals = gate.signals /\ gate.signals + gate.noops = rc.replayed
        /\ gstop \/ (snap.replayed = Cardinality(EventLines(rc.src)) /\ snap.done)

\* run() returns only when it was stopped, even if the port was taken and the
\* event loop had nothing to wait for.
RunBlocksUntilStop ==
    main \in {"returned", "exited"} => gstop /\ ~running /\ listen # "open"

\* The engine does not return from an event of the replay.
EngineHangs == step = "matching"

\* The handler waits for a mutex that the thread it has interrupted holds.
SelfLocked == handler = "closing" /\ mutex = interrupted

\* A stop() that found the server running ends the program, provided its
\* clients leave, and two things only can prevent it: that the engine never
\* returns, so that the replay thread cannot be joined, and that the signal
\* has interrupted a thread inside defer() or the loop's own use of its queue.
StopEndsProgram ==
    (main # "called" /\ ~running) ~> (main = "exited" \/ EngineHangs \/ SelfLocked)

\* The final snapshot is broadcast, unless the program is stopped before.
FinalSnapshotShown ==
    (step = "ended" /\ listen = "open") ~> (shown = snap \/ gstop)
=============================================================================
