---------------------------- MODULE MatchingEngine ----------------------------
(****************************************************************************)
(* MatchingEngine (engine/matching): one event at a time is matched against *)
(* the book of OrderBook.tla.                                               *)
(*                                                                          *)
(* process_new_order is a loop over the opposite side's best level with an  *)
(* inner loop over a snapshot of that level's FIFO.  It runs on one thread, *)
(* but whether it ends, and what it has already done when it gives up, is   *)
(* decided iteration by iteration: each iteration is an action here.        *)
(*   "idle"  between two events                                             *)
(*   "scan"  at the head of the while loop                                  *)
(*   "fill"  at the head of the inner for loop                              *)
(****************************************************************************)
EXTENDS OrderBook

CONSTANTS
    MaxEvents,         \* MatchOutput::MAX_EVENTS
    ParticipantOf,     \* participant_of: the upper 16 bits of an id
    Anonymous,         \* participant 0
    EventTypes         \* the event types that reach the engine

ASSUME MatchingAssumption ==
    /\ MaxEvents \in Nat
    /\ DOMAIN ParticipantOf = OrderIds
    /\ EventTypes \subseteq {"NewOrder", "CancelOrder", "ModifyOrder"}

VARIABLES
    pc,
    aggressor,     \* the event being matched: an order and its id
    remaining,     \* remaining_qty
    matchPrice,    \* match_price
    snap,          \* snap[0 .. snap_count - 1]
    pos,           \* i + 1
    out            \* the MatchOutput of the current, or the last, new order

loopVars == <<aggressor, remaining, matchPrice, snap, pos>>
vars == <<book, result, pc, loopVars, out>>

None == [id |-> "None", order |-> Absent]
NoOutput == [result |-> "Ok", events |-> <<>>]

Init ==
    /\ BookInit
    /\ pc = "idle"
    /\ aggressor = None /\ remaining = 0 /\ matchPrice = 0 /\ snap = <<>> /\ pos = 1
    /\ out = NoOutput

Side == aggressor.order.side
Limit == aggressor.order.price

\* make_trade_execution and make_cancel_order.
TradeExecution(price, quantity) ==
    [type |-> "TradeExecution", price |-> price, quantity |-> quantity]
CancelAggressor == [type |-> "CancelOrder", price |-> 0, quantity |-> 0]

\* Mutant: one event short.
EmitShort(events, event) ==
    IF Len(events) + 1 < MaxEvents THEN Append(events, event) ELSE events

\* MatchOutput::push: the event after the last one is dropped.
Emit(events, event) ==
    IF Len(events) < MaxEvents THEN Append(events, event) ELSE events

\* Mutant: participant 0 is a participant like any other.
SelfTradeOfAnybody(id) == ParticipantOf[aggressor.id] = ParticipantOf[id]

SelfTrade(id) ==
    /\ ParticipantOf[aggressor.id] # Anonymous
    /\ ParticipantOf[aggressor.id] = ParticipantOf[id]

\* Mutant: a limit equal to the best price does not trade.
CrossesBeyond ==
    /\ remaining > 0
    /\ HasBest(book, Opposite(Side))
    /\ Better(Side, Limit, book.best[Opposite(Side)])

\* The condition of the while loop and its break.
Crosses ==
    /\ remaining > 0
    /\ HasBest(book, Opposite(Side))
    /\ ~Better(Opposite(Side), Limit, book.best[Opposite(Side)])

----------------------------------------------------------------------------
(* process_new_order                                                        *)

NewOrder(id, price, quantity, side) ==
    /\ pc = "idle"
    /\ "NewOrder" \in EventTypes
    /\ aggressor' = [id |-> id, order |-> [price |-> price, quantity |-> quantity,
                                           side |-> side]]
    /\ remaining' = quantity
    /\ out' = NoOutput
    /\ pc' = "scan"
    /\ UNCHANGED <<bookVars, matchPrice, snap, pos>>

\* The level to match against is fixed, and its ids are copied.
TakeSnapshot ==
    /\ pc = "scan"
    /\ Crosses
    /\ matchPrice' = book.best[Opposite(Side)]
    /\ snap' = book.level[Opposite(Side)][PriceIndex(matchPrice')].ids
    /\ pos' = 1
    /\ pc' = "fill"
    /\ UNCHANGED <<bookVars, aggressor, remaining, out>>

\* The handler returns: the scope of its variables ends.
Leave ==
    /\ pc' = "idle"
    /\ aggressor' = None /\ remaining' = 0 /\ matchPrice' = 0 /\ snap' = <<>> /\ pos' = 1

\* What is left is inserted as a resting order, and the handler returns.
InsertRemainder ==
    /\ pc = "scan"
    /\ ~Crosses
    /\ LET order == [aggressor.order EXCEPT !.quantity = remaining]
           status == InsertResult(book, aggressor.id, order)
       IN  IF remaining > 0
           THEN /\ book' = Insert(book, aggressor.id, order)
                /\ result' = status
                /\ out' = IF status = "Ok" THEN out
                          ELSE [out EXCEPT !.result = "OrderRejected"]
           ELSE UNCHANGED <<book, result, out>>
    /\ Leave

AtOrder == pc = "fill" /\ pos <= Len(snap) /\ remaining > 0

\* Mutant: the resting order is always filled whole.
FillWhole(id) == book.orders[id].quantity

FillQuantity(id) ==
    IF remaining < book.orders[id].quantity THEN remaining ELSE book.orders[id].quantity

\* One iteration of the inner loop.  An order of the snapshot that has left
\* the book meanwhile is skipped.
FillResting ==
    /\ AtOrder
    /\ LET id == snap[pos]
           quantity == FillQuantity(id)
       IN  IF ~Found(book, id)
           THEN UNCHANGED <<bookVars, remaining, out>>
           ELSE /\ ~SelfTrade(id)
                /\ book' = Reduce(book, id, quantity)
                /\ result' = CancelResult(book, id)
                /\ remaining' = remaining - quantity
                /\ out' = [out EXCEPT !.events =
                             Emit(@, TradeExecution(matchPrice, quantity))]
    /\ pos' = pos + 1
    /\ UNCHANGED <<pc, aggressor, matchPrice, snap>>

\* The aggressor meets an order of its own participant: the rest of it is
\* cancelled, and the handler returns.
PreventSelfTrade ==
    /\ AtOrder
    /\ Found(book, snap[pos])
    /\ SelfTrade(snap[pos])
    /\ out' = [result |-> "STPTriggered",
               events |-> Emit(out.events, CancelAggressor)]
    /\ Leave
    /\ UNCHANGED bookVars

\* The inner loop is over: back to the while loop.
LevelDone ==
    /\ pc = "fill"
    /\ ~AtOrder
    /\ pc' = "scan"
    /\ UNCHANGED <<bookVars, loopVars, out>>

Step == TakeSnapshot \/ InsertRemainder \/ FillResting \/ PreventSelfTrade \/ LevelDone

----------------------------------------------------------------------------
(* process_cancel and process_modify                                        *)

ProcessCancel(id) ==
    /\ pc = "idle"
    /\ "CancelOrder" \in EventTypes
    /\ CancelOrder(id)
    /\ UNCHANGED <<pc, loopVars, out>>

\* The book is modified in place: a modified order is never matched.
ProcessModify(id, price, quantity) ==
    /\ pc = "idle"
    /\ "ModifyOrder" \in EventTypes
    /\ ModifyOrder(id, price, quantity)
    /\ UNCHANGED <<pc, loopVars, out>>

Next ==
    \/ Step
    \/ \E id \in OrderIds : ProcessCancel(id)
    \/ \E id \in OrderIds, price \in InputPrices, quantity \in Quantities :
          \/ ProcessModify(id, price, quantity)
          \/ \E side \in Sides : NewOrder(id, price, quantity, side)

\* A handler that has been entered runs on: nothing it does can block.
Spec == Init /\ [][Next]_vars /\ WF_vars(Step)

----------------------------------------------------------------------------
(* Properties                                                               *)

\* What a sequence of events reports as traded.
TradedIn(events) ==
    SumFunctionOnSet([k \in DOMAIN events |-> events[k].quantity],
                     {k \in DOMAIN events : events[k].type = "TradeExecution"})

\* The book, the loop variables and the MatchOutput stay within their types.
TypeOK ==
    /\ BookTypeOK
    /\ pc \in {"idle", "scan", "fill"}
    /\ aggressor \in [id : OrderIds, order : [price : InputPrices, quantity : Quantities,
                                              side : Sides]] \cup {None}
    /\ pc = "idle" <=> aggressor = None
    /\ remaining \in Amounts
    /\ matchPrice \in Prices \cup {0}
    /\ pc = "fill" => matchPrice \in Prices
    /\ snap \in Seq(OrderIds)
    /\ pos \in 1..(Len(snap) + 1)
    /\ out \in [result : {"Ok", "STPTriggered", "OrderRejected"},
               events : Seq([type : {"TradeExecution", "CancelOrder"},
                             price : Prices \cup {0}, quantity : Amounts])]

\* While the inner loop runs, the part of the stack copy it has not visited
\* is exactly the live FIFO of the level: no fill goes to an order that has
\* left, or past one that was queued earlier, although reduce shifts the FIFO
\* under the loop's feet.
SnapshotIsQueue ==
    pc = "fill" /\ remaining > 0 =>
        SubSeq(snap, pos, Len(snap)) =
            book.level[Opposite(Side)][PriceIndex(matchPrice)].ids

\* What has been reported as traded is what has been taken from the aggressor.
FillsAddUp ==
    pc # "idle" => TradedIn(out.events) = aggressor.order.quantity - remaining

\* When self-trade prevention strikes, the caller is told of the cancellation
\* (MatchingEngine.hpp:57), whatever was filled before.
STPCancelReported ==
    out.result = "STPTriggered" =>
        /\ out.events # <<>>
        /\ Last(out.events) = CancelAggressor

\* An order that matching lets rest meets nobody it could have traded with,
\* even in a book that ModifyOrder has crossed: without ModifyOrder the book
\* is therefore never crossed between two events.
RestsUncrossed ==
    [][\A id, other \in OrderIds :
          /\ pc # "idle" /\ ~Found(book, id) /\ Found(book', id)
          /\ Found(book', other)
          /\ book'.orders[other].side = Opposite(book'.orders[id].side)
          => IF book'.orders[id].side = "Bid"
             THEN book'.orders[id].price < book'.orders[other].price
             ELSE book'.orders[id].price > book'.orders[other].price]_vars

\* process_new_order returns: every level it enters is used up, or ends it.
MatchingCompletes == pc # "idle" ~> pc = "idle"

\* The FIFO of a level as a queue of the market: each id with the quantity
\* that the map has for it.
Waiting(b, side, price) ==
    LET ids == b.level[side][PriceIndex(price)].ids
    IN  [k \in 1..Len(ids) |-> [id |-> ids[k], quantity |-> b.orders[ids[k]].quantity]]

WaitingIn(b) == [s \in Sides |-> [p \in Prices |-> Waiting(b, s, p)]]

Incoming(from, quantity) ==
    [id |-> from.id, price |-> from.order.price, quantity |-> quantity,
     side |-> from.order.side]

\* The matching engine is price-time priority: every step is a step of the
\* abstract market or leaves it alone.  (Tick size 1, no level overflows, and
\* no event of quantity 0.)
Market == INSTANCE PriceTimePriority WITH
    queue <- WaitingIn(book),
    incoming <- Incoming(aggressor, remaining),
    report <- out

ImplementsPriceTimePriority == Market!Spec
=============================================================================
