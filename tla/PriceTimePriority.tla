-------------------------- MODULE PriceTimePriority --------------------------
(****************************************************************************)
(* What the matching engine promises (MatchingEngine.hpp:55-57), without    *)
(* any of the structures it keeps: the resting orders of each side stand in *)
(* one queue per price, an incoming order trades with the head of the best  *)
(* queue as long as its limit allows, and what is left of it joins a queue. *)
(* There is no map, no cached total, no cached best price and no snapshot.  *)
(****************************************************************************)
EXTENDS Integers, FiniteSets, SequencesExt

CONSTANTS OrderIds, ReservedIds, Prices, InputPrices, Quantities, MaxOrders,
          ParticipantOf, Anonymous

VARIABLES
    queue,      \* queue[side][price]: the resting orders, the oldest first
    incoming,   \* the order being matched, or Nobody
    report      \* what has been reported of it, or of the last one

vars == <<queue, incoming, report>>

Sides == {"Bid", "Ask"}
Nobody == [id |-> "None", price |-> 0, quantity |-> 0, side |-> "None"]

Init ==
    /\ queue = [s \in Sides |-> [p \in Prices |-> <<>>]]
    /\ incoming = Nobody
    /\ report = [result |-> "Ok", events |-> <<>>]

Across == IF incoming.side = "Bid" THEN "Ask" ELSE "Bid"

QueuesOf(id) ==
    {q \in Sides \X Prices : \E e \in ToSet(queue[q[1]][q[2]]) : e.id = id}
Resting == {id \in OrderIds : QueuesOf(id) # {}}

\* The price nearest to the incoming order at which somebody waits.
BestPrice(side) ==
    LET waiting == {p \in Prices : queue[side][p] # <<>>}
    IN  IF side = "Bid" THEN Max(waiting) ELSE Min(waiting)

Marketable ==
    /\ incoming.quantity > 0
    /\ \E p \in Prices :
          /\ queue[Across][p] # <<>>
          /\ IF incoming.side = "Bid" THEN p <= incoming.price ELSE p >= incoming.price

Counterparty == Head(queue[Across][BestPrice(Across)])

Related ==
    /\ ParticipantOf[incoming.id] # Anonymous
    /\ ParticipantOf[incoming.id] = ParticipantOf[Counterparty.id]

Arrive(id, price, quantity, side) ==
    /\ incoming = Nobody
    /\ incoming' = [id |-> id, price |-> price, quantity |-> quantity, side |-> side]
    /\ report' = [result |-> "Ok", events |-> <<>>]
    /\ UNCHANGED queue

\* A trade is at the price of the resting order, and takes as much as both want.
Trade ==
    /\ Marketable
    /\ ~Related
    /\ LET p == BestPrice(Across)
           other == Counterparty
           quantity == Min({incoming.quantity, other.quantity})
           rest == Tail(queue[Across][p])
       IN  /\ queue' = [queue EXCEPT ![Across][p] =
                 IF quantity = other.quantity THEN rest
                 ELSE <<[other EXCEPT !.quantity = @ - quantity]>> \o rest]
           /\ incoming' = [incoming EXCEPT !.quantity = @ - quantity]
           /\ report' = [report EXCEPT !.events =
                 Append(@, [type |-> "TradeExecution", price |-> p, quantity |-> quantity])]

StopSelfTrade ==
    /\ Marketable
    /\ Related
    /\ report' = [result |-> "STPTriggered",
                  events |-> Append(report.events,
                               [type |-> "CancelOrder", price |-> 0, quantity |-> 0])]
    /\ incoming' = Nobody
    /\ UNCHANGED queue

Acceptable ==
    /\ incoming.price \in Prices
    /\ incoming.id \notin Resting \cup ReservedIds
    /\ Cardinality(Resting) < MaxOrders

Settle ==
    /\ incoming # Nobody
    /\ ~Marketable
    /\ IF incoming.quantity > 0 /\ Acceptable
       THEN queue' = [queue EXCEPT ![incoming.side][incoming.price] =
                        Append(@, [id |-> incoming.id, quantity |-> incoming.quantity])]
       ELSE queue' = queue
    /\ report' = IF incoming.quantity > 0 /\ ~Acceptable
                 THEN [report EXCEPT !.result = "OrderRejected"] ELSE report
    /\ incoming' = Nobody

\* A queue once an order has left it.
Left(q, id) ==
    LET at == {k \in DOMAIN q : q[k].id = id}
    IN  IF at = {} THEN q ELSE RemoveAt(q, Min(at))

Without(id) == [s \in Sides |-> [p \in Prices |-> Left(queue[s][p], id)]]

Cancel(id) ==
    /\ incoming = Nobody
    /\ UNCHANGED <<incoming, report>>
    /\ id \in Resting
    /\ queue' = Without(id)

\* A modified order keeps its side and loses its place.
Modify(id, price, quantity) ==
    /\ incoming = Nobody
    /\ UNCHANGED <<incoming, report>>
    /\ price \in Prices
    /\ id \in Resting
    /\ LET side == (CHOOSE q \in QueuesOf(id) : TRUE)[1]
       IN  queue' = [Without(id) EXCEPT ![side][price] =
                        Append(@, [id |-> id, quantity |-> quantity])]

Next ==
    \/ Trade \/ StopSelfTrade \/ Settle
    \/ \E id \in OrderIds : Cancel(id)
    \/ \E id \in OrderIds, price \in InputPrices, quantity \in Quantities :
          \/ Modify(id, price, quantity)
          \/ \E side \in Sides : Arrive(id, price, quantity, side)

Spec == Init /\ [][Next]_vars
=============================================================================
