------------------------------ MODULE OrderBook ------------------------------
(****************************************************************************)
(* The limit order book of one symbol (engine/orderbook).                   *)
(*                                                                          *)
(* A book keeps the same orders three times over: in the map orders_ by id, *)
(* in the fixed-size FIFO of the price level they rest at, and summed up in *)
(* that level's total_quantity; best_bid_ and best_ask_ cache the result of *)
(* a scan over the totals.  The operations below are pure functions from a  *)
(* book to a book, so that MatchingEngine.tla can chain them inside one     *)
(* handler; the actions at the end are the public interface of OrderBook.   *)
(****************************************************************************)
EXTENDS Integers, FiniteSets, SequencesExt

CONSTANTS
    OrderIds,      \* the ids events may carry
    ReservedIds,   \* 0 and UINT64_MAX: FlatOrderMap's empty and tombstone keys
    MinPrice, MaxPrice,
    TickSize,      \* 2^tick_shift
    MaxPerLevel,   \* PriceLevel::MAX_ORDERS
    MaxOrders,     \* half the slots of FlatOrderMap: its load limit
    Word,          \* 2^64: total_quantity is a uint64_t
    InputPrices,   \* prices events may carry, out of range ones included
    Quantities     \* quantities events may carry

Sides  == {"Bid", "Ask"}
Prices == MinPrice..MaxPrice            \* price_in_range
Amounts == 0..(Word - 1)
Results == {"Ok", "PriceOutOfRange", "OrderNotFound", "OrderAlreadyExists"}

PriceIndex(price) == (price - MinPrice) \div TickSize
LevelIndex == 0..((MaxPrice - MinPrice + 1) \div TickSize - 1)

\* The last conjunct is what the constructor has to guarantee for level() to
\* stay inside bid_levels_: with NUM_LEVELS = 200000 it holds for
\* tick_shift <= 6 and fails beyond.
ASSUME BookAssumption ==
    /\ IsFiniteSet(OrderIds) /\ ReservedIds \subseteq OrderIds
    /\ MinPrice \in Nat \ {0} /\ MaxPrice \in Nat /\ MinPrice <= MaxPrice
    /\ TickSize \in Nat \ {0}
    /\ MaxPerLevel \in Nat \ {0} /\ MaxOrders \in Nat /\ Word \in Nat \ {0}
    /\ InputPrices \subseteq Nat
    /\ Quantities \subseteq Amounts
    /\ \A p \in Prices : PriceIndex(p) \in LevelIndex

Order  == [price : Prices, quantity : Amounts, side : Sides]
Absent == [price |-> 0, quantity |-> 0, side |-> "None"]

Nobody == [s \in Sides |-> IF s = "Bid" THEN 0 ELSE MaxPrice + 1]

EmptyBook ==
    [orders |-> [id \in OrderIds |-> Absent],
     level  |-> [s \in Sides |-> [i \in LevelIndex |-> [total |-> 0, ids |-> <<>>]]],
     best   |-> Nobody]

Books ==
    [orders : [OrderIds -> Order \cup {Absent}],
     level  : [Sides -> [LevelIndex -> [total : Amounts, ids : Seq(OrderIds)]]],
     best   : [Sides -> 0..(MaxPrice + 1)]]

Opposite(side) == IF side = "Bid" THEN "Ask" ELSE "Bid"

\* p is a strictly better price than q for the orders of this side.
Better(side, p, q) == IF side = "Bid" THEN p > q ELSE p < q

HasBest(b, side) == b.best[side] \in Prices       \* has_bid, has_ask

Found(b, id) == b.orders[id] # Absent             \* find_order
LevelOf(b, order) == b.level[order.side][PriceIndex(order.price)]

----------------------------------------------------------------------------
(* insert                                                                   *)

MapRefuses(b, id) ==
    \/ id \in ReservedIds
    \/ Cardinality({o \in OrderIds : Found(b, o)}) >= MaxOrders

InsertResult(b, id, order) ==
    IF order.price \notin Prices THEN "PriceOutOfRange"
    ELSE IF Found(b, id) \/ MapRefuses(b, id) THEN "OrderAlreadyExists"
    ELSE "Ok"

\* Mutant: the last slot of a level is never used.
PushShort(ids, id) == IF Len(ids) + 1 >= MaxPerLevel THEN ids ELSE Append(ids, id)

\* Mutant: the level is a stack.
PushFront(ids, id) == IF Len(ids) >= MaxPerLevel THEN ids ELSE <<id>> \o ids

\* PriceLevel::push refuses a full level; OrderBook::insert ignores that.
Push(ids, id) == IF Len(ids) >= MaxPerLevel THEN ids ELSE Append(ids, id)

\* Everything insert does once the map has accepted the order.
Place(b, id, order) ==
    LET s == order.side
        i == PriceIndex(order.price)
        l == b.level[s][i]
    IN  [orders |-> [b.orders EXCEPT ![id] = order],
         level  |-> [b.level EXCEPT ![s][i] =
                       [total |-> (l.total + order.quantity) % Word,
                        ids   |-> Push(l.ids, id)]],
         best   |-> [b.best EXCEPT ![s] =
                       IF Better(s, order.price, @) THEN order.price ELSE @]]

Insert(b, id, order) ==
    IF InsertResult(b, id, order) = "Ok" THEN Place(b, id, order) ELSE b

----------------------------------------------------------------------------
(* cancel, modify, reduce                                                   *)

\* Mutant: the "no ask" value is one past MAX_PRICE + 1.
NextBestPastEnd(side, levels, price) ==
    LET filled == {p \in Prices : levels[PriceIndex(p)].total > 0}
    IN  IF side = "Bid" THEN Max({0} \cup {p \in filled : p <= price})
                        ELSE Min({MaxPrice + 2} \cup {p \in filled : p > price})

\* Mutant: the scan for the next ask skips a level.
NextBestSkips(side, levels, price) ==
    LET filled == {p \in Prices : levels[PriceIndex(p)].total > 0}
    IN  IF side = "Bid" THEN Max({0} \cup {p \in filled : p <= price})
                        ELSE Min({MaxPrice + 1} \cup {p \in filled : p > price + 1})

\* update_best_bid_from scans down from the price, itself included, and
\* update_best_ask_from up from the price above it.
NextBest(side, levels, price) ==
    LET filled == {p \in Prices : levels[PriceIndex(p)].total > 0}
    IN  IF side = "Bid" THEN Max({0} \cup {p \in filled : p <= price})
                        ELSE Min({MaxPrice + 1} \cup {p \in filled : p > price})

\* Mutant: the id stays in the FIFO of the level.
TakeOutKeepsId(b, id) ==
    LET o == b.orders[id]
        s == o.side
        i == PriceIndex(o.price)
        total  == (b.level[s][i].total - o.quantity) % Word
        levels == [b.level EXCEPT ![s][i].total = total]
    IN  [orders |-> [b.orders EXCEPT ![id] = Absent],
         level  |-> levels,
         best   |-> [b.best EXCEPT ![s] =
                       IF total = 0 /\ o.price = @
                       THEN NextBest(s, levels[s], o.price) ELSE @]]

\* Mutant: the last order of the FIFO moves into the hole.
TakeOutSwaps(b, id) ==
    LET o == b.orders[id]
        s == o.side
        i == PriceIndex(o.price)
        total  == (b.level[s][i].total - o.quantity) % Word
        ids    == b.level[s][i].ids
        moved  == [k \in 1..Len(ids) |-> IF ids[k] = id THEN Last(ids) ELSE ids[k]]
        levels == [b.level EXCEPT ![s][i] =
                     [total |-> total,
                      ids |-> IF Contains(ids, id) THEN SubSeq(moved, 1, Len(ids) - 1)
                              ELSE ids]]
    IN  [orders |-> [b.orders EXCEPT ![id] = Absent],
         level  |-> levels,
         best   |-> [b.best EXCEPT ![s] =
                       IF total = 0 /\ o.price = @
                       THEN NextBest(s, levels[s], o.price) ELSE @]]

\* Mutant: no new best price is looked for.
TakeOutNoRescan(b, id) ==
    LET o == b.orders[id]
        total == (LevelOf(b, o).total - o.quantity) % Word
    IN  [orders |-> [b.orders EXCEPT ![id] = Absent],
         level  |-> [b.level EXCEPT ![o.side][PriceIndex(o.price)] =
                       [total |-> total, ids |-> RemoveFirst(@.ids, id)]],
         best   |-> b.best]

\* Takes a resting order out of its level and of the map, and looks for a new
\* best price when the level it was best at has no quantity left.
TakeOut(b, id) ==
    LET o == b.orders[id]
        s == o.side
        i == PriceIndex(o.price)
        total  == (b.level[s][i].total - o.quantity) % Word
        levels == [b.level EXCEPT ![s][i] =
                     [total |-> total, ids |-> RemoveFirst(@.ids, id)]]
    IN  [orders |-> [b.orders EXCEPT ![id] = Absent],
         level  |-> levels,
         best   |-> [b.best EXCEPT ![s] =
                       IF total = 0 /\ o.price = @
                       THEN NextBest(s, levels[s], o.price) ELSE @]]

CancelResult(b, id) == IF Found(b, id) THEN "Ok" ELSE "OrderNotFound"
Cancel(b, id)       == IF Found(b, id) THEN TakeOut(b, id) ELSE b

Updated(b, id, price, quantity) ==
    [b.orders[id] EXCEPT !.price = price, !.quantity = quantity]

\* modify is a cancel followed by an insert: it never looks at the other side.
ModifyResult(b, id, price, quantity) ==
    IF price \notin Prices THEN "PriceOutOfRange"
    ELSE IF ~Found(b, id) THEN "OrderNotFound"
    ELSE InsertResult(TakeOut(b, id), id, Updated(b, id, price, quantity))

\* Mutant: the range of the new price is left to insert.
ModifyUnranged(b, id, price, quantity) ==
    IF Found(b, id)
    THEN Insert(TakeOut(b, id), id, Updated(b, id, price, quantity))
    ELSE b

Modify(b, id, price, quantity) ==
    IF price \in Prices /\ Found(b, id)
    THEN Insert(TakeOut(b, id), id, Updated(b, id, price, quantity))
    ELSE b

\* Mutant: a partial fill leaves the total of the level alone.
LessenOrderOnly(b, id, quantity) ==
    [b EXCEPT !.orders[id].quantity = @ - quantity]

Lessen(b, id, quantity) ==
    LET o == b.orders[id]
        i == PriceIndex(o.price)
    IN  [b EXCEPT !.orders[id].quantity = @ - quantity,
                  !.level[o.side][i].total = (@ - quantity) % Word]

Reduce(b, id, quantity) ==
    IF ~Found(b, id) THEN b
    ELSE IF quantity >= b.orders[id].quantity THEN TakeOut(b, id)
    ELSE Lessen(b, id, quantity)

----------------------------------------------------------------------------
(* The public interface of a book                                           *)

VARIABLES
    book,      \* the OrderBook object
    result     \* the OrderBookResult of the last call on it

bookVars == <<book, result>>

BookInit == book = EmptyBook /\ result = "Ok"

InsertOrder(id, price, quantity, side) ==
    LET order == [price |-> price, quantity |-> quantity, side |-> side]
    IN  /\ result' = InsertResult(book, id, order)
        /\ book' = Insert(book, id, order)

CancelOrder(id) ==
    /\ result' = CancelResult(book, id)
    /\ book' = Cancel(book, id)

ModifyOrder(id, price, quantity) ==
    /\ result' = ModifyResult(book, id, price, quantity)
    /\ book' = Modify(book, id, price, quantity)

ReduceOrder(id, quantity) ==
    /\ result' = CancelResult(book, id)
    /\ book' = Reduce(book, id, quantity)

BookNext ==
    \E id \in OrderIds :
        \/ CancelOrder(id)
        \/ \E quantity \in Quantities :
              \/ ReduceOrder(id, quantity)
              \/ \E price \in InputPrices :
                    \/ ModifyOrder(id, price, quantity)
                    \/ \E side \in Sides : InsertOrder(id, price, quantity, side)

BookSpec == BookInit /\ [][BookNext]_bookVars

----------------------------------------------------------------------------
(* Properties                                                               *)

\* The book and the result code stay within the C++ types.
BookTypeOK == book \in Books /\ result \in Results

RestsAt(b, id, side, i) ==
    Found(b, id) /\ b.orders[id].side = side /\ PriceIndex(b.orders[id].price) = i

\* The FIFO of a level names only orders that the map still holds, at exactly
\* that side and level, and no order twice: cancel, reduce and modify find the
\* level from the map entry and must clear what insert pushed there.
QueuesSound(b) ==
    \A s \in Sides, i \in LevelIndex :
        LET ids == b.level[s][i].ids
        IN  /\ \A k \in 1..Len(ids) : RestsAt(b, ids[k], s, i)
            /\ \A j, k \in 1..Len(ids) : ids[j] = ids[k] => j = k

QueuedOrdersRest == QueuesSound(book)

\* The converse: every order of the map waits in the FIFO of its level, so
\* that matching can reach it.  Only true while no level has been full.
RestingOrdersQueued ==
    \A id \in OrderIds :
        Found(book, id) => Contains(LevelOf(book, book.orders[id]).ids, id)

\* The orders the map holds at a level, and what their quantities add up to.
RestingAt(b, s, i) == {id \in OrderIds : RestsAt(b, id, s, i)}
QuantityAt(b, s, i) ==
    SumFunctionOnSet([id \in OrderIds |-> b.orders[id].quantity], RestingAt(b, s, i))

\* The cached total of a level is the sum over the orders the map holds at it
\* (and not over its FIFO: an order that found the level full counts too).
TotalsAgree ==
    \A s \in Sides, i \in LevelIndex :
        book.level[s][i].total = QuantityAt(book, s, i) % Word

\* The cached best price is the price of an order that rests on that side, and
\* no order with quantity rests at a better one: after any sequence of inserts
\* and removals the rescan has stopped at the right level.  (Tick size 1.)
BestPriceExact ==
    \A s \in Sides :
        LET resting == {id \in OrderIds : Found(book, id) /\ book.orders[id].side = s}
        IN  /\ HasBest(book, s) =>
                 \E id \in resting : book.orders[id].price = book.best[s]
            /\ \A id \in resting :
                 book.orders[id].quantity > 0 =>
                     ~Better(s, book.orders[id].price, book.best[s])

\* A call that reports anything but Ok has left the book as it was.  modify
\* takes the order out before it inserts it again: were that insert refused,
\* the order would be lost.
RefusalLeavesBook == [][result' # "Ok" => book' = book]_bookVars

\* One call moves at most one order within a FIFO, and only to its end: every
\* other order keeps its place in time priority.
QueueOrderKept ==
    [][\A s \in Sides, i \in LevelIndex :
          LET old == book.level[s][i].ids
              new == book'.level[s][i].ids
          IN  \/ new = old
              \/ \E id \in OrderIds :
                    /\ RemoveFirst(new, id) = RemoveFirst(old, id)
                    /\ Contains(new, id) => Last(new) = id]_bookVars
=============================================================================
