------------------------ MODULE MatchingEngine_proofs ------------------------
(****************************************************************************)
(* Proofs about MatchingEngine.tla, for every price range, level and map    *)
(* capacity, and every size of the MatchOutput.                             *)
(****************************************************************************)
EXTENDS MatchingEngine, OrderBook_proofs

Aggressors == [id : OrderIds,
               order : [price : InputPrices, quantity : Quantities, side : Sides]]
Events == [type : {"TradeExecution", "CancelOrder"},
           price : Prices \cup {0}, quantity : Amounts]
Outputs == [result : {"Ok", "STPTriggered", "OrderRejected"}, events : Seq(Events)]

LEMMA EmitType ==
    ASSUME NEW events \in Seq(Events), NEW e \in Events
    PROVE  Emit(events, e) \in Seq(Events)
BY AppendProperties DEF Emit

LEMMA NoneIsNobody == None \notin Aggressors
BY DEF None, Aggressors, Absent, Sides

LEMMA OppositeSide ==
    ASSUME NEW s \in Sides
    PROVE  Opposite(s) \in Sides
BY DEF Sides, Opposite

\* The inductive invariant.
EngineInv == TypeOK /\ Sound(book) /\ SnapshotIsQueue

\* TypeOK with its sets named, as the steps below use it.
LEMMA Types ==
    TypeOK <=>
      /\ BookTypeOK
      /\ pc \in {"idle", "scan", "fill"}
      /\ aggressor \in Aggressors \cup {None}
      /\ pc = "idle" <=> aggressor = None
      /\ remaining \in Amounts
      /\ matchPrice \in Prices \cup {0}
      /\ pc = "fill" => matchPrice \in Prices
      /\ snap \in Seq(OrderIds)
      /\ pos \in 1..(Len(snap) + 1)
      /\ out \in Outputs
BY Zenon DEF TypeOK, Aggressors, Events, Outputs

LEMMA Running ==
    ASSUME TypeOK, pc # "idle"
    PROVE  /\ aggressor \in Aggressors /\ aggressor.id \in OrderIds
           /\ Limit \in InputPrices /\ aggressor.order.quantity \in Quantities
           /\ Side \in Sides /\ Opposite(Side) \in Sides
<1>1. aggressor \in Aggressors
  BY Types
<1>2. Side \in Sides
  BY <1>1 DEF Aggressors, Side
<1>. QED
  BY <1>1, <1>2, OppositeSide DEF Aggressors, Limit

LEMMA EngineInitInv == Init => EngineInv
<1>. SUFFICES ASSUME Init
              PROVE  EngineInv
  OBVIOUS
<1>1. Sound(book) /\ result \in Results
  BY InitSound DEF Init
<1>2. BookTypeOK
  BY <1>1 DEF BookTypeOK, Sound
<1>3. TypeOK
  BY <1>2, Types, Constants DEF Init, NoOutput, Amounts, Outputs
<1>. QED
  BY <1>1, <1>3 DEF EngineInv, SnapshotIsQueue, Init

LEMMA NewOrderInv ==
    ASSUME EngineInv, NEW id \in OrderIds, NEW price \in InputPrices,
           NEW quantity \in Quantities, NEW side \in Sides,
           NewOrder(id, price, quantity, side)
    PROVE  EngineInv'
<1>1. TypeOK /\ Sound(book)
  BY DEF EngineInv
<1>2. aggressor' \in Aggressors /\ aggressor' # None
  <2>1. aggressor' \in Aggressors
    BY DEF NewOrder, Aggressors
  <2>. QED
    BY <2>1, NoneIsNobody
<1>3. /\ book' = book /\ result' = result /\ matchPrice' = matchPrice
      /\ snap' = snap /\ pos' = pos /\ pc' = "scan" /\ remaining' = quantity
      /\ out' = NoOutput
  BY DEF NewOrder, bookVars
<1>4. quantity \in Amounts
  BY BookAssumption
<1>5. out' \in Outputs
  BY <1>3 DEF NoOutput, Outputs
<1>6. TypeOK'
  BY <1>1, <1>2, <1>3, <1>4, <1>5 DEF TypeOK, BookTypeOK, Aggressors, Events, Outputs
<1>. QED
  BY <1>1, <1>3, <1>6 DEF EngineInv, Sound, SnapshotIsQueue

\* The scope of the handler's variables ends.
LEMMA LeaveTypes ==
    ASSUME Leave, Sound(book)', (result \in Results)', out' \in Outputs
    PROVE  EngineInv'
<1>1. BookTypeOK'
  BY DEF BookTypeOK, Sound
<1>2. /\ pc' = "idle" /\ aggressor' = None /\ remaining' = 0 /\ matchPrice' = 0
      /\ snap' = <<>> /\ pos' = 1
  BY DEF Leave
<1>3. 0 \in Amounts /\ pos' \in 1..(Len(snap') + 1) /\ snap' \in Seq(OrderIds)
  BY <1>2, Constants DEF Amounts
<1>4. TypeOK'
  BY <1>1, <1>2, <1>3 DEF TypeOK, Events, Outputs
<1>. QED
  BY <1>2, <1>4 DEF EngineInv, SnapshotIsQueue

LEMMA TakeSnapshotInv ==
    ASSUME EngineInv, TakeSnapshot
    PROVE  EngineInv'
<1>1. TypeOK /\ Sound(book) /\ pc = "scan"
  BY DEF EngineInv, TakeSnapshot
<1>2. /\ book' = book /\ result' = result /\ aggressor' = aggressor
      /\ remaining' = remaining /\ out' = out /\ pos' = 1 /\ pc' = "fill"
      /\ matchPrice' = book.best[Opposite(Side)]
      /\ snap' = book.level[Opposite(Side)][PriceIndex(matchPrice')].ids
  BY DEF TakeSnapshot, bookVars
<1>3. Opposite(Side) \in Sides
  BY <1>1, Running
<1>4. matchPrice' \in Prices
  BY <1>2 DEF TakeSnapshot, Crosses, HasBest
<1>5. snap' \in Seq(OrderIds)
  <2>1. PriceIndex(matchPrice') \in LevelIndex
    BY <1>4, Constants
  <2>. QED
    BY <1>1, <1>2, <1>3, <2>1 DEF Sound, Books
<1>6. pos' \in 1..(Len(snap') + 1) /\ Len(snap') \in Nat
  BY <1>2, <1>5
<1>7. TypeOK'
  BY <1>1, <1>2, <1>4, <1>5, <1>6 DEF TypeOK, BookTypeOK
<1>8. SubSeq(snap', pos', Len(snap')) = snap'
  BY <1>2, <1>5, SubSeqFull
<1>9. SnapshotIsQueue'
  BY <1>2, <1>8 DEF SnapshotIsQueue, Side
<1>. QED
  BY <1>1, <1>2, <1>7, <1>9 DEF EngineInv, Sound

LEMMA LevelDoneInv ==
    ASSUME EngineInv, LevelDone
    PROVE  EngineInv'
<1>1. TypeOK /\ Sound(book) /\ pc = "fill"
  BY DEF EngineInv, LevelDone
<1>2. /\ pc' = "scan" /\ book' = book /\ result' = result /\ out' = out
      /\ aggressor' = aggressor /\ remaining' = remaining /\ matchPrice' = matchPrice
      /\ snap' = snap /\ pos' = pos
  BY DEF LevelDone, bookVars, loopVars
<1>3. TypeOK'
  BY <1>1, <1>2 DEF TypeOK, BookTypeOK
<1>. QED
  BY <1>1, <1>2, <1>3 DEF EngineInv, SnapshotIsQueue, Sound

LEMMA InsertRemainderInv ==
    ASSUME EngineInv, InsertRemainder
    PROVE  EngineInv'
<1>. DEFINE order == [aggressor.order EXCEPT !.quantity = remaining]
            status == InsertResult(book, aggressor.id, order)
<1>1. /\ TypeOK /\ Sound(book) /\ result \in Results /\ pc = "scan"
      /\ out \in Outputs /\ remaining \in Amounts
  BY Types DEF EngineInv, InsertRemainder, BookTypeOK
<1>2. /\ aggressor.id \in OrderIds /\ Limit \in Nat /\ Side \in Sides
      /\ aggressor \in Aggressors
  BY <1>1, Running, BookAssumption
<1>3. order = [price |-> Limit, quantity |-> remaining, side |-> Side]
  BY <1>2 DEF Aggressors, Limit, Side
<1>4. Sound(Insert(book, aggressor.id, order)) /\ status \in Results
  BY <1>1, <1>2, <1>3, InsertSound
<1>5. Leave
  BY DEF InsertRemainder
<1>6. CASE remaining > 0
  <2>1. /\ book' = Insert(book, aggressor.id, order) /\ result' = status
        /\ out' = IF status = "Ok" THEN out ELSE [out EXCEPT !.result = "OrderRejected"]
    BY <1>6 DEF InsertRemainder
  <2>2. Sound(book)' /\ (result \in Results)'
    BY <1>4, <2>1 DEF Sound
  <2>3. out' \in Outputs
    BY <1>1, <2>1 DEF Outputs
  <2>. QED
    BY <1>5, <2>2, <2>3, LeaveTypes
<1>7. CASE ~(remaining > 0)
  <2>1. book' = book /\ result' = result /\ out' = out
    BY <1>7 DEF InsertRemainder
  <2>2. Sound(book)' /\ (result \in Results)'
    BY <1>1, <2>1 DEF Sound
  <2>. QED
    BY <1>1, <1>5, <2>1, <2>2, LeaveTypes
<1>. QED
  BY <1>6, <1>7

\* The unvisited part of the copy, read by its positions.
LEMMA Unvisited ==
    ASSUME NEW s \in Seq(OrderIds), NEW k \in 1..(Len(s) + 1)
    PROVE  /\ SubSeq(s, k, Len(s)) \in Seq(OrderIds)
           /\ Len(SubSeq(s, k, Len(s))) = Len(s) - k + 1
           /\ \A j \in 1..(Len(s) - k + 1) : SubSeq(s, k, Len(s))[j] = s[k + j - 1]
<1>1. Len(s) \in Nat /\ k \in Int /\ \A j \in k..Len(s) : s[j] \in OrderIds
  OBVIOUS
<1>. DEFINE r == SubSeq(s, k, Len(s))
<1>2. /\ r \in Seq(OrderIds)
      /\ Len(r) = IF k <= Len(s) THEN Len(s) - k + 1 ELSE 0
      /\ \A j \in 1..(Len(s) - k + 1) : r[j] = s[k + j - 1]
  BY <1>1, SubSeqProperties
<1>. HIDE DEF r
<1>3. Len(r) = Len(s) - k + 1
  BY <1>1, <1>2
<1>. QED
  BY <1>2, <1>3 DEF r

LEMMA RemoveHead ==
    ASSUME NEW ids \in Seq(OrderIds), NEW id, 1 \in 1..Len(ids), ids[1] = id
    PROVE  /\ RemoveFirst(ids, id) \in Seq(OrderIds)
           /\ Len(RemoveFirst(ids, id)) = Len(ids) - 1
           /\ \A j \in 1..(Len(ids) - 1) : RemoveFirst(ids, id)[j] = ids[j + 1]
<1>. DEFINE new == RemoveFirst(ids, id)
<1>1. CASE (\A k \in 1..Len(ids) : ids[k] # id) /\ new = ids
  BY <1>1
<1>2. CASE \E m \in 1..Len(ids) :
              /\ ids[m] = id
              /\ \A k \in 1..(m - 1) : ids[k] # id
              /\ new \in Seq(OrderIds)
              /\ Len(new) = Len(ids) - 1
              /\ \A k \in 1..(Len(ids) - 1) : new[k] = IF k < m THEN ids[k] ELSE ids[k + 1]
  <2>1. PICK m \in 1..Len(ids) :
              /\ ids[m] = id
              /\ \A k \in 1..(m - 1) : ids[k] # id
              /\ new \in Seq(OrderIds)
              /\ Len(new) = Len(ids) - 1
              /\ \A k \in 1..(Len(ids) - 1) : new[k] = IF k < m THEN ids[k] ELSE ids[k + 1]
    BY <1>2
  <2>. HIDE DEF new
  <2>2. m = 1
    <3>1. ~(1 \in 1..(m - 1))
      BY <2>1
    <3>. QED
      BY <2>1, <3>1
  <2>. QED
    BY <2>1, <2>2 DEF new
<1>. QED
  BY <1>1, <1>2, RemoveFirstCases

\* reduce takes the head of the FIFO away: the copy is one position behind.
LEMMA DropHead ==
    ASSUME NEW s \in Seq(OrderIds), NEW k \in 1..Len(s)
    PROVE  RemoveFirst(SubSeq(s, k, Len(s)), s[k]) = SubSeq(s, k + 1, Len(s))
<1>. DEFINE r == SubSeq(s, k, Len(s))
            t == SubSeq(s, k + 1, Len(s))
            q == RemoveFirst(r, s[k])
            n == Len(s) - k
<1>1. Len(s) \in Nat /\ k \in Nat /\ n \in Nat /\ Len(s) - k + 1 = n + 1
      /\ Len(s) - (k + 1) + 1 = n /\ k \in 1..(Len(s) + 1) /\ k + 1 \in 1..(Len(s) + 1)
  OBVIOUS
<1>2. r \in Seq(OrderIds) /\ Len(r) = n + 1 /\ \A j \in 1..(n + 1) : r[j] = s[k + j - 1]
  BY <1>1, Unvisited
<1>3. t \in Seq(OrderIds) /\ Len(t) = n /\ \A j \in 1..n : t[j] = s[(k + 1) + j - 1]
  BY <1>1, Unvisited
<1>. HIDE DEF r, t, n
<1>4. r[1] = s[k] /\ 1 \in 1..Len(r)
  BY <1>1, <1>2
<1>5. /\ q \in Seq(OrderIds) /\ Len(q) = Len(r) - 1
      /\ \A j \in 1..(Len(r) - 1) : q[j] = r[j + 1]
  BY <1>2, <1>4, RemoveHead
<1>. HIDE DEF q
<1>7. Len(q) = n /\ Len(r) - 1 = n
  BY <1>1, <1>2, <1>5
<1>8. ASSUME NEW j \in 1..n
      PROVE  q[j] = t[j]
  <2>1. j + 1 \in 1..(n + 1) /\ ~(j < 1) /\ k + (j + 1) - 1 = (k + 1) + j - 1
    BY <1>1
  <2>2. q[j] = r[j + 1]
    BY <1>5, <1>7
  <2>3. r[j + 1] = s[k + (j + 1) - 1]
    BY <1>2, <2>1
  <2>. QED
    BY <1>3, <2>1, <2>2, <2>3
<1>. QED
  BY <1>3, <1>5, <1>7, <1>8, SeqEqual DEF q, r, t

\* The order the loop is about to fill is the head of the live FIFO; the test
\* for an order that has left meanwhile never takes effect.
LEMMA AtHead ==
    ASSUME EngineInv, AtOrder
    PROVE  /\ snap[pos] \in OrderIds /\ pos \in 1..Len(snap)
           /\ Opposite(Side) \in Sides /\ PriceIndex(matchPrice) \in LevelIndex
           /\ RestsAt(book, snap[pos], Opposite(Side), PriceIndex(matchPrice))
           /\ LET ids == book.level[Opposite(Side)][PriceIndex(matchPrice)].ids
              IN  1 \in 1..Len(ids) /\ ids[1] = snap[pos]
<1>. DEFINE s == Opposite(Side)
            i == PriceIndex(matchPrice)
            ids == book.level[s][i].ids
<1>1. TypeOK /\ Sound(book) /\ pc = "fill" /\ pos <= Len(snap) /\ remaining > 0
  BY DEF EngineInv, AtOrder
<1>2. snap \in Seq(OrderIds) /\ pos \in 1..(Len(snap) + 1) /\ matchPrice \in Prices
  BY <1>1 DEF TypeOK
<1>3. pos \in 1..Len(snap) /\ Len(snap) \in Nat
  BY <1>1, <1>2
<1>4. s \in Sides /\ i \in LevelIndex
  BY <1>1, <1>2, Running, Constants
<1>5. ids = SubSeq(snap, pos, Len(snap))
  BY <1>1 DEF EngineInv, SnapshotIsQueue
<1>6. /\ Len(SubSeq(snap, pos, Len(snap))) = Len(snap) - pos + 1
      /\ \A j \in 1..(Len(snap) - pos + 1) :
            SubSeq(snap, pos, Len(snap))[j] = snap[pos + j - 1]
  BY <1>2, Unvisited
<1>7. \A k \in 1..Len(ids) : RestsAt(book, ids[k], s, i)
  BY <1>1, <1>4, Zenon DEF Sound, QueuesSound
<1>. HIDE DEF ids, s, i
<1>8. 1 \in 1..Len(ids) /\ ids[1] = snap[pos]
  BY <1>3, <1>5, <1>6
<1>. QED
  BY <1>2, <1>3, <1>4, <1>7, <1>8 DEF s, i, ids

LEMMA RemainingAmount ==
    ASSUME NEW m \in Amounts, NEW n \in Amounts, NEW q, q = IF m < n THEN m ELSE n
    PROVE  m - q \in Amounts
BY Constants DEF Amounts

\* One fill: either the order at the head is used up, and leaves copy and FIFO
\* together, or the aggressor is, and the loop is over.
LEMMA FillRestingInv ==
    ASSUME EngineInv, FillResting
    PROVE  EngineInv'
<1>. DEFINE id == snap[pos]
            s == Opposite(Side)
            i == PriceIndex(matchPrice)
            quantity == FillQuantity(id)
            e == TradeExecution(matchPrice, quantity)
<1>1. /\ TypeOK /\ Sound(book) /\ SnapshotIsQueue /\ AtOrder
      /\ pc = "fill" /\ pos <= Len(snap) /\ remaining > 0
  BY DEF EngineInv, FillResting, AtOrder
<1>2. /\ id \in OrderIds /\ pos \in 1..Len(snap) /\ s \in Sides /\ i \in LevelIndex
      /\ RestsAt(book, id, s, i)
  BY <1>1, AtHead
<1>3. /\ Found(book, id) /\ book.orders[id].side = s
      /\ PriceIndex(book.orders[id].price) = i
  BY <1>2 DEF RestsAt
<1>4. /\ book' = Reduce(book, id, quantity)
      /\ result' = CancelResult(book, id)
      /\ remaining' = remaining - quantity
      /\ out' = [out EXCEPT !.events = Emit(@, e)]
      /\ pos' = pos + 1
      /\ pc' = pc /\ aggressor' = aggressor /\ matchPrice' = matchPrice /\ snap' = snap
  BY <1>3 DEF FillResting
<1>5. /\ pc = "fill" /\ aggressor \in Aggressors \cup {None} /\ aggressor # None
      /\ remaining \in Amounts /\ matchPrice \in Prices /\ snap \in Seq(OrderIds)
      /\ out \in Outputs /\ out.events \in Seq(Events)
  BY <1>1, Types DEF Outputs
<1>6. book \in Books /\ book.orders[id].quantity \in Amounts
  BY <1>1, <1>2, <1>3, FoundOrder DEF Sound
<1>7. /\ quantity = IF remaining < book.orders[id].quantity
                    THEN remaining ELSE book.orders[id].quantity
      /\ quantity \in Amounts
  BY <1>5, <1>6 DEF FillQuantity
<1>. HIDE DEF id, quantity
<1>8. e \in Events
  BY <1>5, <1>7 DEF TradeExecution, Events
<1>. HIDE DEF e
<1>9. Sound(book)' /\ (result \in Results)'
  <2>1. Sound(Reduce(book, id, quantity))
    BY <1>1, <1>2, <1>7, ReduceSound
  <2>2. CancelResult(book, id) \in Results
    BY DEF CancelResult, Results
  <2>. QED
    BY <1>4, <2>1, <2>2 DEF Sound
<1>10. out' \in Outputs
  <2>1. Emit(out.events, e) \in Seq(Events)
    BY <1>5, <1>8, EmitType
  <2>. QED
    BY <1>4, <1>5, <2>1 DEF Outputs
<1>11. remaining - quantity \in Amounts
  BY <1>5, <1>6, <1>7, RemainingAmount
<1>12. pos + 1 \in 1..(Len(snap) + 1)
  BY <1>2, <1>5
<1>13. TypeOK'
  <2>1. BookTypeOK'
    BY <1>9 DEF Sound, BookTypeOK
  <2>2. /\ pc' = "fill" /\ aggressor' \in Aggressors \cup {None} /\ aggressor' # None
        /\ remaining' \in Amounts /\ matchPrice' \in Prices /\ snap' \in Seq(OrderIds)
        /\ pos' \in 1..(Len(snap') + 1)
    BY <1>4, <1>5, <1>11, <1>12
  <2>. QED
    BY <1>10, <2>1, <2>2, Zenon DEF TypeOK, Aggressors, Events, Outputs
<1>14. SnapshotIsQueue'
  <2>1. CASE remaining < book.orders[id].quantity
    <3>1. remaining' = 0
      BY <1>4, <1>5, <1>7, <2>1, Constants DEF Amounts
    <3>. QED
      BY <3>1 DEF SnapshotIsQueue
  <2>2. CASE ~(remaining < book.orders[id].quantity)
    <3>1. quantity = book.orders[id].quantity /\ quantity >= quantity
      BY <1>6, <1>7, <2>2, Constants DEF Amounts
    <3>2. book' = TakeOut(book, id)
      BY <1>3, <1>4, <3>1 DEF Reduce
    <3>3. TakeOut(book, id).level[s][i].ids = RemoveFirst(book.level[s][i].ids, id)
      BY <1>2, <1>3, <1>6, TakeOutEffect DEF LevelOf
    <3>4. book.level[s][i].ids = SubSeq(snap, pos, Len(snap))
      BY <1>1 DEF SnapshotIsQueue
    <3>5. RemoveFirst(SubSeq(snap, pos, Len(snap)), id) = SubSeq(snap, pos + 1, Len(snap))
      BY <1>2, <1>5, DropHead DEF id
    <3>6. Opposite(Side)' = s /\ PriceIndex(matchPrice)' = i
      BY <1>4 DEF Side, Opposite, PriceIndex
    <3>7. book'.level[s][i].ids = SubSeq(snap', pos', Len(snap'))
      BY <1>4, <3>2, <3>3, <3>4, <3>5
    <3>. QED
      BY <3>6, <3>7 DEF SnapshotIsQueue
  <2>. QED
    BY <2>1, <2>2
<1>. QED
  BY <1>9, <1>13, <1>14 DEF EngineInv

LEMMA PreventSelfTradeInv ==
    ASSUME EngineInv, PreventSelfTrade
    PROVE  EngineInv'
<1>1. /\ TypeOK /\ Sound(book) /\ result \in Results /\ out.events \in Seq(Events)
  BY Types DEF EngineInv, BookTypeOK, Outputs
<1>2. /\ book' = book /\ result' = result /\ Leave
      /\ out' = [result |-> "STPTriggered", events |-> Emit(out.events, CancelAggressor)]
  BY DEF PreventSelfTrade, bookVars
<1>3. CancelAggressor \in Events
  BY Constants DEF CancelAggressor, Events, Amounts
<1>4. Emit(out.events, CancelAggressor) \in Seq(Events)
  BY <1>1, <1>3, EmitType
<1>5. Sound(book)' /\ (result \in Results)'
  BY <1>1, <1>2 DEF Sound
<1>6. out' \in Outputs
  BY <1>2, <1>4 DEF Outputs
<1>. QED
  BY <1>2, <1>5, <1>6, LeaveTypes

\* Between two events nothing but the book changes hands.
LEMMA IdleInv ==
    ASSUME EngineInv, pc = "idle", UNCHANGED <<pc, loopVars, out>>,
           Sound(book)', (result \in Results)'
    PROVE  EngineInv'
<1>1. TypeOK /\ BookTypeOK'
  BY DEF EngineInv, Sound, BookTypeOK
<1>2. /\ pc' = pc /\ aggressor' = aggressor /\ remaining' = remaining
      /\ matchPrice' = matchPrice /\ snap' = snap /\ pos' = pos /\ out' = out
  BY DEF loopVars
<1>3. TypeOK'
  BY <1>1, <1>2 DEF TypeOK
<1>. QED
  BY <1>2, <1>3 DEF EngineInv, SnapshotIsQueue

LEMMA ProcessCancelInv ==
    ASSUME EngineInv, NEW id \in OrderIds, ProcessCancel(id)
    PROVE  EngineInv'
<1>1. /\ Sound(book) /\ pc = "idle" /\ UNCHANGED <<pc, loopVars, out>>
      /\ result' = CancelResult(book, id) /\ book' = Cancel(book, id)
  BY DEF EngineInv, ProcessCancel, CancelOrder
<1>2. Sound(Cancel(book, id)) /\ CancelResult(book, id) \in Results
  BY <1>1, CancelSound
<1>3. Sound(book)' /\ (result \in Results)'
  BY <1>1, <1>2 DEF Sound
<1>. QED
  BY <1>1, <1>3, IdleInv

LEMMA ProcessModifyInv ==
    ASSUME EngineInv, NEW id \in OrderIds, NEW price \in InputPrices,
           NEW quantity \in Quantities, ProcessModify(id, price, quantity)
    PROVE  EngineInv'
<1>1. /\ Sound(book) /\ pc = "idle" /\ UNCHANGED <<pc, loopVars, out>>
      /\ result' = ModifyResult(book, id, price, quantity)
      /\ book' = Modify(book, id, price, quantity)
  BY DEF EngineInv, ProcessModify, ModifyOrder
<1>2. /\ Sound(Modify(book, id, price, quantity))
      /\ ModifyResult(book, id, price, quantity) \in Results
  BY <1>1, ModifySound, BookAssumption
<1>3. Sound(book)' /\ (result \in Results)'
  BY <1>1, <1>2 DEF Sound
<1>. QED
  BY <1>1, <1>3, IdleInv

LEMMA EngineNextInv ==
    ASSUME EngineInv, Next
    PROVE  EngineInv'
<1>1. CASE Step
  BY <1>1, TakeSnapshotInv, InsertRemainderInv, FillRestingInv, PreventSelfTradeInv,
     LevelDoneInv, Zenon DEF Step
<1>2. ASSUME NEW id \in OrderIds, ProcessCancel(id)
      PROVE  EngineInv'
  BY <1>2, ProcessCancelInv
<1>3. ASSUME NEW id \in OrderIds, NEW price \in InputPrices, NEW quantity \in Quantities,
             ProcessModify(id, price, quantity)
      PROVE  EngineInv'
  BY <1>3, ProcessModifyInv
<1>4. ASSUME NEW id \in OrderIds, NEW price \in InputPrices, NEW quantity \in Quantities,
             NEW side \in Sides, NewOrder(id, price, quantity, side)
      PROVE  EngineInv'
  BY <1>4, NewOrderInv
<1>. QED
  BY <1>1, <1>2, <1>3, <1>4, Zenon DEF Next

\* The inductive invariant of matching: the types, the soundness of the book
\* between any two iterations of the loops, and the agreement of copy and FIFO.
THEOREM EngineSound == Spec => []EngineInv
<1>1. Init => EngineInv
  BY EngineInitInv
<1>2. EngineInv /\ [Next]_vars => EngineInv'
  <2>1. CASE Next
    BY <2>1, EngineNextInv
  <2>2. ASSUME EngineInv, UNCHANGED vars
        PROVE  EngineInv'
    <3>1. /\ book' = book /\ result' = result /\ pc' = pc /\ out' = out
          /\ aggressor' = aggressor /\ remaining' = remaining
          /\ matchPrice' = matchPrice /\ snap' = snap /\ pos' = pos
      BY <2>2 DEF vars, loopVars
    <3>2. TypeOK'
      BY <2>2, <3>1 DEF EngineInv, TypeOK, BookTypeOK
    <3>3. SnapshotIsQueue'
      BY <2>2, <3>1 DEF EngineInv, SnapshotIsQueue, Side
    <3>. QED
      BY <2>2, <3>1, <3>2, <3>3 DEF EngineInv, Sound
  <2>. QED
    BY <2>1, <2>2
<1>. QED
  BY <1>1, <1>2, PTL DEF Spec

\* No event, however it is interleaved with the iterations of matching, takes a
\* quantity, a price or an index of the loops out of its C++ type.
THEOREM EngineTypeCorrect == Spec => []TypeOK
<1>1. EngineInv => TypeOK
  BY DEF EngineInv
<1>. QED
  BY <1>1, EngineSound, PTL

\* The unvisited part of the stack copy of a level is its live FIFO while the
\* loop has anything left to fill, although reduce edits the FIFO under it.
THEOREM SnapshotInStep == Spec => []SnapshotIsQueue
<1>1. EngineInv => SnapshotIsQueue
  BY DEF EngineInv
<1>. QED
  BY <1>1, EngineSound, PTL

\* Between any two iterations of matching the FIFOs name only orders the map
\* holds, at their side and level, and none twice.
THEOREM QueuesSoundWhileMatching == Spec => []QueuedOrdersRest
<1>1. EngineInv => QueuedOrdersRest
  BY DEF EngineInv, Sound, QueuedOrdersRest
<1>. QED
  BY <1>1, EngineSound, PTL

\* Also between two iterations the total of every level is the sum over the
\* orders the map holds at it, modulo the word size.
THEOREM TotalsExactWhileMatching == Spec => []TotalsAgree
<1>1. EngineInv => TotalsAgree
  BY Zenon DEF EngineInv, Sound, TotalsSound, TotalsAgree
<1>. QED
  BY <1>1, EngineSound, PTL

----------------------------------------------------------------------------
(* What the MatchOutput reports                                             *)

TradesIn(events) == {k \in DOMAIN events : events[k].type = "TradeExecution"}

LEMMA EventQuantity ==
    ASSUME NEW e \in Events
    PROVE  e.quantity \in Nat
<1>1. e.quantity \in Amounts
  BY DEF Events
<1>. QED
  BY <1>1, Constants DEF Amounts

LEMMA TradedType ==
    ASSUME NEW events \in Seq(Events)
    PROVE  /\ TradedIn(events) \in Nat /\ TradedIn(<<>>) = 0
           /\ IsFiniteSet(TradesIn(events)) /\ TradesIn(events) \subseteq 1..Len(events)
<1>. DEFINE f == [k \in DOMAIN events |-> events[k].quantity]
<1>1. DOMAIN events = 1..Len(events) /\ Len(events) \in Nat
  OBVIOUS
<1>2. IsFiniteSet(TradesIn(events)) /\ TradesIn(events) \subseteq 1..Len(events)
  <2>1. TradesIn(events) \subseteq 1..Len(events)
    BY <1>1 DEF TradesIn
  <2>2. IsFiniteSet(1..Len(events))
    BY <1>1, FS_Interval
  <2>. QED
    BY <2>1, <2>2, FS_Subset
<1>3. \A k \in TradesIn(events) : f[k] \in Nat
  <2>1. \A k \in 1..Len(events) : events[k] \in Events
    OBVIOUS
  <2>2. \A k \in 1..Len(events) : events[k].quantity \in Nat
    BY <2>1, EventQuantity
  <2>. QED
    BY <1>1, <1>2, <2>2
<1>4. TradedIn(events) = SumFunctionOnSet(f, TradesIn(events))
  BY Zenon DEF TradedIn, TradesIn
<1>5. TradedIn(events) \in Nat
  BY <1>2, <1>3, <1>4, SumIsNat, Zenon
<1>6. TradedIn(<<>>) = 0
  <2>. DEFINE g == [k \in DOMAIN <<>> |-> <<>>[k].quantity]
              R == {k \in DOMAIN <<>> : <<>>[k].type = "TradeExecution"}
  <2>1. R = {}
    OBVIOUS
  <2>2. TradedIn(<<>>) = SumFunctionOnSet(g, R)
    BY Zenon DEF TradedIn
  <2>. HIDE DEF g, R
  <2>. QED
    BY <2>1, <2>2, SumOfNone
<1>. QED
  BY <1>2, <1>5, <1>6

\* A trade that is pushed adds its quantity to what is reported, any other
\* event nothing.
LEMMA TradedAppend ==
    ASSUME NEW events \in Seq(Events), NEW e \in Events
    PROVE  TradedIn(Append(events, e)) =
              TradedIn(events) + (IF e.type = "TradeExecution" THEN e.quantity ELSE 0)
<1>. DEFINE more == Append(events, e)
            n == Len(events)
            f == [k \in DOMAIN events |-> events[k].quantity]
            g == [k \in DOMAIN more |-> more[k].quantity]
            R == TradesIn(events)
<1>1. /\ more \in Seq(Events) /\ DOMAIN events = 1..n /\ n \in Nat
      /\ DOMAIN more = 1..(n + 1) /\ Len(more) = n + 1
      /\ \A k \in 1..n : more[k] = events[k]
      /\ more[n + 1] = e
  BY AppendProperties
<1>2. TradedIn(events) = SumFunctionOnSet(f, R)
      /\ TradedIn(more) = SumFunctionOnSet(g, TradesIn(more))
  BY Zenon DEF TradedIn, TradesIn
<1>. HIDE DEF more
<1>3. IsFiniteSet(R) /\ R \subseteq 1..n /\ TradedIn(events) \in Nat
      /\ IsFiniteSet(TradesIn(more))
  BY <1>1, TradedType
<1>. HIDE DEF n
<1>4. \A k \in R : g[k] = f[k] /\ f[k] \in Nat
  <2>1. ASSUME NEW k \in 1..n
        PROVE  g[k] = f[k] /\ f[k] \in Nat
    <3>1. k \in DOMAIN more /\ events[k] \in Events /\ more[k] = events[k]
      BY <1>1
    <3>2. events[k].quantity \in Nat
      BY <3>1, EventQuantity
    <3>. QED
      BY <1>1, <3>1, <3>2
  <2>. QED
    BY <1>3, <2>1
<1>5. g[n + 1] = e.quantity /\ e.quantity \in Nat /\ n + 1 \notin R
  <2>1. e.quantity \in Nat
    BY EventQuantity
  <2>2. n + 1 \in DOMAIN more /\ n + 1 \notin R
    BY <1>1, <1>3
  <2>. QED
    BY <1>1, <2>1, <2>2
<1>6. TradesIn(more) = IF e.type = "TradeExecution" THEN R \cup {n + 1} ELSE R
  <2>1. \A k \in 1..(n + 1) : k \in 1..n \/ k = n + 1
    BY <1>1
  <2>2. 1..n \subseteq 1..(n + 1) /\ n + 1 \in 1..(n + 1)
    BY <1>1
  <2>. QED
    BY <1>1, <1>3, <2>1, <2>2 DEF TradesIn
<1>7. SumFunctionOnSet(g, R) = SumFunctionOnSet(f, R)
  <2>. HIDE DEF f, g, R
  <2>. QED
    BY <1>3, <1>4, SumSame
<1>8. CASE e.type = "TradeExecution"
  <2>1. SumFunctionOnSet(g, R \cup {n + 1}) = g[n + 1] + SumFunctionOnSet(g, R)
    <3>1. \A k \in R \cup {n + 1} : g[k] \in Nat
      BY <1>4, <1>5
    <3>. HIDE DEF g, R
    <3>2. IsFiniteSet(R) /\ n + 1 \notin R
      BY <1>3, <1>5
    <3>. QED
      BY <3>1, <3>2, SumAdd
  <2>. HIDE DEF f, g, R
  <2>2. TradedIn(more) = TradedIn(events) + e.quantity
    BY <1>2, <1>3, <1>5, <1>6, <1>7, <1>8, <2>1
  <2>. QED
    BY <1>8, <2>2 DEF more
<1>9. CASE e.type # "TradeExecution"
  <2>. HIDE DEF f, g, R
  <2>. QED
    BY <1>2, <1>3, <1>6, <1>7, <1>9 DEF more
<1>. QED
  BY <1>8, <1>9

OutputHasRoom == Len(out.events) < MaxEvents

FillsNeverExceed ==
    pc # "idle" => TradedIn(out.events) <= aggressor.order.quantity - remaining

OutputInv ==
    /\ Len(out.events) <= MaxEvents
    /\ pc # "idle" => out.result = "Ok"
    /\ FillsNeverExceed
    /\ OutputHasRoom => FillsAddUp
    /\ OutputHasRoom => STPCancelReported

LEMMA EmitRoom ==
    ASSUME NEW events \in Seq(Events), NEW e \in Events, Len(events) <= MaxEvents
    PROVE  /\ Len(Emit(events, e)) <= MaxEvents /\ Emit(events, e) \in Seq(Events)
           /\ \/ Emit(events, e) = events /\ Len(events) = MaxEvents
              \/ /\ Emit(events, e) = Append(events, e) /\ Len(events) < MaxEvents
                 /\ Emit(events, e) # <<>> /\ Last(Emit(events, e)) = e
<1>1. MaxEvents \in Nat /\ Len(events) \in Nat
  BY MatchingAssumption
<1>2. /\ Append(events, e) \in Seq(Events) /\ Len(Append(events, e)) = Len(events) + 1
      /\ Append(events, e)[Len(events) + 1] = e
  BY AppendProperties
<1>. QED
  BY <1>1, <1>2 DEF Emit, Last

\* Whoever keeps the output, and what is counted against it, keeps the invariant.
LEMMA OutputKept ==
    ASSUME OutputInv, out' = out,
           pc' # "idle" => /\ pc # "idle" /\ remaining' = remaining
                           /\ aggressor'.order.quantity = aggressor.order.quantity
    PROVE  OutputInv'
BY DEF OutputInv, OutputHasRoom, FillsNeverExceed, FillsAddUp, STPCancelReported

LEMMA NewOrderOutput ==
    ASSUME EngineInv, NEW id \in OrderIds, NEW price \in InputPrices,
           NEW quantity \in Quantities, NEW side \in Sides,
           NewOrder(id, price, quantity, side)
    PROVE  OutputInv'
<1>1. /\ out' = NoOutput /\ pc' = "scan" /\ remaining' = quantity
      /\ aggressor'.order.quantity = quantity
  BY DEF NewOrder
<1>2. out'.events = <<>> /\ out'.result = "Ok" /\ Len(out'.events) = 0
  BY <1>1 DEF NoOutput
<1>3. quantity \in Nat /\ MaxEvents \in Nat
  BY BookAssumption, MatchingAssumption, Constants DEF Amounts
<1>4. TradedIn(out'.events) = 0
  <2>1. <<>> \in Seq(Events)
    OBVIOUS
  <2>. QED
    BY <1>2, <2>1, TradedType
<1>. QED
  BY <1>1, <1>2, <1>3, <1>4
     DEF OutputInv, OutputHasRoom, FillsNeverExceed, FillsAddUp, STPCancelReported

LEMMA InsertRemainderOutput ==
    ASSUME EngineInv, OutputInv, InsertRemainder
    PROVE  OutputInv'
<1>1. pc # "idle" /\ pc' = "idle" /\ (out' = out \/ out' = [out EXCEPT !.result = "OrderRejected"])
  BY Zenon DEF InsertRemainder, Leave
<1>2. CASE out' = out
  BY <1>1, <1>2, OutputKept
<1>3. CASE out' = [out EXCEPT !.result = "OrderRejected"]
  <2>1. out'.events = out.events /\ out'.result # "STPTriggered"
    BY <1>3, Types DEF EngineInv, Outputs
  <2>. QED
    BY <1>1, <2>1
       DEF OutputInv, OutputHasRoom, FillsNeverExceed, FillsAddUp, STPCancelReported
<1>. QED
  BY <1>1, <1>2, <1>3

LEMMA FillRestingOutput ==
    ASSUME EngineInv, OutputInv, FillResting
    PROVE  OutputInv'
<1>. DEFINE id == snap[pos]
            quantity == FillQuantity(id)
            e == TradeExecution(matchPrice, quantity)
<1>1. TypeOK /\ Sound(book) /\ AtOrder /\ pc # "idle" /\ pc' = pc /\ aggressor' = aggressor
  BY DEF EngineInv, FillResting, AtOrder
<1>2. CASE ~Found(book, id)
  BY <1>1, <1>2, OutputKept DEF FillResting
<1>3. CASE Found(book, id)
  <2>1. remaining' = remaining - quantity /\ out' = [out EXCEPT !.events = Emit(@, e)]
    BY <1>3 DEF FillResting
  <2>2. /\ out \in Outputs /\ out.events \in Seq(Events) /\ remaining \in Amounts
        /\ matchPrice \in Prices \cup {0}
    BY <1>1, Types DEF Outputs
  <2>3. id \in OrderIds
    BY <1>1, AtHead
  <2>4. quantity \in Amounts
    BY <1>1, <1>3, <2>2, <2>3, FoundOrder DEF Sound, FillQuantity
  <2>5. aggressor.order.quantity \in Nat /\ quantity \in Nat /\ remaining \in Nat
    <3>1. aggressor.order.quantity \in Amounts
      BY <1>1, Running, BookAssumption
    <3>. QED
      BY <2>2, <2>4, <3>1, Constants DEF Amounts
  <2>. HIDE DEF quantity, id
  <2>6. e \in Events /\ e.type = "TradeExecution" /\ e.quantity = quantity
    BY <2>2, <2>4 DEF TradeExecution, Events
  <2>. HIDE DEF e
  <2>7. out'.events = Emit(out.events, e) /\ out'.result = "Ok" /\ out.result = "Ok"
    BY <1>1, <2>1, <2>2 DEF OutputInv, Outputs
  <2>8. /\ Len(out'.events) <= MaxEvents
        /\ \/ out'.events = out.events /\ Len(out.events) = MaxEvents
           \/ out'.events = Append(out.events, e) /\ Len(out.events) < MaxEvents
    BY <2>2, <2>6, <2>7, EmitRoom DEF OutputInv
  <2>9. TradedIn(Append(out.events, e)) = TradedIn(out.events) + quantity
        /\ TradedIn(out.events) \in Nat
    BY <2>2, <2>6, TradedAppend, TradedType
  <2>10. ASSUME out'.events = out.events, Len(out.events) = MaxEvents
         PROVE  OutputInv'
    <3>1. TradedIn(out'.events) <= aggressor.order.quantity - remaining'
      BY <1>1, <2>1, <2>5, <2>9, <2>10 DEF OutputInv, FillsNeverExceed
    <3>2. ~(Len(out'.events) < MaxEvents)
      BY <2>10, MatchingAssumption
    <3>. QED
      BY <1>1, <2>7, <2>8, <3>1, <3>2 DEF OutputInv, OutputHasRoom, FillsNeverExceed
  <2>11. ASSUME out'.events = Append(out.events, e), Len(out.events) < MaxEvents
         PROVE  OutputInv'
    <3>1. TradedIn(out.events) = aggressor.order.quantity - remaining
      BY <1>1, <2>11 DEF OutputInv, OutputHasRoom, FillsAddUp
    <3>2. TradedIn(out'.events) = aggressor.order.quantity - remaining'
      <4>1. aggressor.order.quantity - (remaining - quantity)
              = (aggressor.order.quantity - remaining) + quantity
        BY <2>5
      <4>2. TradedIn(out'.events) = (aggressor.order.quantity - remaining) + quantity
        BY <2>9, <2>11, <3>1
      <4>. QED
        BY <2>1, <4>1, <4>2
    <3>3. TradedIn(out'.events) <= aggressor.order.quantity - remaining'
      BY <2>1, <2>5, <3>2
    <3>. QED
      BY <1>1, <2>7, <2>8, <3>2, <3>3
         DEF OutputInv, FillsNeverExceed, FillsAddUp, STPCancelReported
  <2>. QED
    BY <2>8, <2>10, <2>11
<1>. QED
  BY <1>2, <1>3

LEMMA PreventSelfTradeOutput ==
    ASSUME EngineInv, OutputInv, PreventSelfTrade
    PROVE  OutputInv'
<1>1. /\ pc' = "idle"
      /\ out' = [result |-> "STPTriggered", events |-> Emit(out.events, CancelAggressor)]
  BY DEF PreventSelfTrade, Leave
<1>2. out.events \in Seq(Events) /\ CancelAggressor \in Events
  <2>1. CancelAggressor \in Events
    BY Constants DEF CancelAggressor, Events, Amounts
  <2>. QED
    BY <2>1, Types DEF EngineInv, Outputs
<1>3. /\ Len(out'.events) <= MaxEvents
      /\ \/ out'.events = out.events /\ Len(out.events) = MaxEvents
         \/ out'.events # <<>> /\ Last(out'.events) = CancelAggressor
  BY <1>1, <1>2, EmitRoom DEF OutputInv
<1>4. ~(MaxEvents < MaxEvents)
  BY MatchingAssumption
<1>5. (Len(out.events) < MaxEvents => STPCancelReported)'
  BY <1>3, <1>4 DEF STPCancelReported, CancelAggressor
<1>. QED
  BY <1>1, <1>3, <1>5 DEF OutputInv, OutputHasRoom, FillsNeverExceed, FillsAddUp

LEMMA OutputNext ==
    ASSUME EngineInv, OutputInv, [Next]_vars
    PROVE  OutputInv'
<1>1. CASE UNCHANGED vars
  BY <1>1, OutputKept DEF vars, loopVars
<1>2. CASE TakeSnapshot \/ LevelDone
  BY <1>2, OutputKept DEF TakeSnapshot, LevelDone, loopVars
<1>3. CASE InsertRemainder \/ FillResting \/ PreventSelfTrade
  BY <1>3, InsertRemainderOutput, FillRestingOutput, PreventSelfTradeOutput
<1>4. ASSUME NEW id \in OrderIds, ProcessCancel(id)
      PROVE  OutputInv'
  BY <1>4, OutputKept DEF ProcessCancel, loopVars
<1>5. ASSUME NEW id \in OrderIds, NEW price \in InputPrices, NEW quantity \in Quantities,
             ProcessModify(id, price, quantity)
      PROVE  OutputInv'
  BY <1>5, OutputKept DEF ProcessModify, loopVars
<1>6. ASSUME NEW id \in OrderIds, NEW price \in InputPrices, NEW quantity \in Quantities,
             NEW side \in Sides, NewOrder(id, price, quantity, side)
      PROVE  OutputInv'
  BY <1>6, NewOrderOutput
<1>. QED
  BY <1>1, <1>2, <1>3, <1>4, <1>5, <1>6, Zenon DEF Next, Step

\* What the MatchOutput says of the trades and of self-trade prevention.
THEOREM OutputSound == Spec => []OutputInv
<1>1. Init => OutputInv
  <2>1. ASSUME Init
        PROVE  Len(out.events) = 0 /\ out.result = "Ok" /\ pc = "idle" /\ MaxEvents \in Nat
    BY <2>1, MatchingAssumption DEF Init, NoOutput
  <2>. QED
    BY <2>1 DEF OutputInv, FillsNeverExceed, FillsAddUp, STPCancelReported
<1>2. EngineInv /\ OutputInv /\ [Next]_vars => OutputInv'
  BY OutputNext
<1>. QED
  BY <1>1, <1>2, EngineSound, PTL DEF Spec

\* As long as the MatchOutput has room the trades it reports add up to what has
\* been taken from the aggressor.
THEOREM FillsReported == Spec => [](OutputHasRoom => FillsAddUp)
<1>1. OutputInv => (OutputHasRoom => FillsAddUp)
  BY DEF OutputInv
<1>. QED
  BY <1>1, OutputSound, PTL

\* When it is full they never report more.
THEOREM FillsNotInvented == Spec => []FillsNeverExceed
<1>1. OutputInv => FillsNeverExceed
  BY DEF OutputInv
<1>. QED
  BY <1>1, OutputSound, PTL

\* Self-trade prevention is always reported, unless the MatchOutput is full.
THEOREM PreventionReported == Spec => [](OutputHasRoom => STPCancelReported)
<1>1. OutputInv => (OutputHasRoom => STPCancelReported)
  BY DEF OutputInv
<1>. QED
  BY <1>1, OutputSound, PTL

----------------------------------------------------------------------------
(* What one iteration does to the book                                      *)

\* What the loop has left is part of the aggressor's quantity.
RemainderInv == pc # "idle" => remaining <= aggressor.order.quantity

LEMMA RemainderNext ==
    ASSUME EngineInv, RemainderInv, [Next]_vars
    PROVE  RemainderInv'
<1>1. CASE UNCHANGED vars
  BY <1>1 DEF vars, loopVars, RemainderInv
<1>2. CASE TakeSnapshot \/ LevelDone
  BY <1>2 DEF TakeSnapshot, LevelDone, loopVars, RemainderInv
<1>3. CASE InsertRemainder \/ PreventSelfTrade
  BY <1>3 DEF InsertRemainder, PreventSelfTrade, Leave, RemainderInv
<1>4. CASE FillResting
  <2>1. /\ TypeOK /\ Sound(book) /\ AtOrder /\ pc # "idle" /\ pc' = pc
        /\ aggressor' = aggressor /\ remaining \in Amounts
    BY <1>4 DEF EngineInv, FillResting, AtOrder, TypeOK
  <2>2. snap[pos] \in OrderIds /\ Found(book, snap[pos])
    BY <2>1, AtHead DEF RestsAt
  <2>3. remaining' = remaining - FillQuantity(snap[pos])
    BY <1>4, <2>2 DEF FillResting
  <2>4. FillQuantity(snap[pos]) \in Nat
    <3>1. book.orders[snap[pos]].quantity \in Amounts
      BY <2>1, <2>2, FoundOrder DEF Sound
    <3>. QED
      BY <2>1, <3>1, Constants DEF FillQuantity, Amounts
  <2>5. aggressor.order.quantity \in Nat /\ remaining \in Nat
    <3>1. aggressor.order.quantity \in Amounts
      BY <2>1, Running, BookAssumption
    <3>. QED
      BY <2>1, <3>1, Constants DEF Amounts
  <2>. QED
    BY <2>1, <2>3, <2>4, <2>5 DEF RemainderInv
<1>5. ASSUME NEW id \in OrderIds, ProcessCancel(id)
      PROVE  RemainderInv'
  BY <1>5 DEF ProcessCancel, RemainderInv
<1>6. ASSUME NEW id \in OrderIds, NEW price \in InputPrices, NEW quantity \in Quantities,
             ProcessModify(id, price, quantity)
      PROVE  RemainderInv'
  BY <1>6 DEF ProcessModify, RemainderInv
<1>7. ASSUME NEW id \in OrderIds, NEW price \in InputPrices, NEW quantity \in Quantities,
             NEW side \in Sides, NewOrder(id, price, quantity, side)
      PROVE  RemainderInv'
  BY <1>7, BookAssumption, Constants DEF NewOrder, RemainderInv, Amounts
<1>. QED
  BY <1>1, <1>2, <1>3, <1>4, <1>5, <1>6, <1>7, Zenon DEF Next, Step

\* Whatever matching does to the book, one iteration is one call on it.
LEMMA EngineCall ==
    ASSUME EngineInv, [Next]_vars, NEW Q,
           "ModifyOrder" \in EventTypes => Quantities \subseteq Q,
           pc # "idle" /\ remaining > 0 => remaining \in Q
    PROVE  OneCall(book, book', Q)
<1>1. TypeOK /\ Sound(book)
  BY DEF EngineInv
<1>2. CASE UNCHANGED vars
  BY <1>2, Zenon DEF vars, bookVars, OneCall
<1>3. CASE TakeSnapshot \/ LevelDone \/ PreventSelfTrade
  BY <1>3, Zenon DEF TakeSnapshot, LevelDone, PreventSelfTrade, bookVars, OneCall
<1>4. CASE InsertRemainder
  <2>. DEFINE order == [aggressor.order EXCEPT !.quantity = remaining]
  <2>1. CASE remaining > 0
    <3>1. pc # "idle" /\ book' = Insert(book, aggressor.id, order)
      BY <1>4, <2>1 DEF InsertRemainder
    <3>2. /\ aggressor.id \in OrderIds /\ Limit \in Nat /\ remaining \in Amounts
          /\ Side \in Sides /\ aggressor \in Aggressors
      BY <1>1, <3>1, Running, BookAssumption DEF TypeOK
    <3>3. order = [price |-> Limit, quantity |-> remaining, side |-> Side]
      BY <3>2 DEF Aggressors, Limit, Side
    <3>. HIDE DEF order
    <3>4. remaining \in Q
      BY <2>1, <3>1
    <3>. QED
      BY <3>1, <3>2, <3>3, <3>4, InsertCall
  <2>2. CASE ~(remaining > 0)
    <3>1. book' = book
      BY <1>4, <2>2 DEF InsertRemainder
    <3>. QED
      BY <3>1, Zenon DEF OneCall
  <2>. QED
    BY <2>1, <2>2
<1>5. CASE FillResting
  <2>1. AtOrder /\ remaining \in Amounts
    BY <1>1, <1>5 DEF FillResting, TypeOK
  <2>2. snap[pos] \in OrderIds /\ Found(book, snap[pos])
    BY <2>1, AtHead DEF RestsAt
  <2>3. book' = Reduce(book, snap[pos], FillQuantity(snap[pos]))
    BY <1>5, <2>2 DEF FillResting
  <2>4. FillQuantity(snap[pos]) \in Amounts
    BY <1>1, <2>1, <2>2, FoundOrder DEF Sound, FillQuantity
  <2>. QED
    BY <1>1, <2>2, <2>3, <2>4, ReduceCall
<1>6. ASSUME NEW id \in OrderIds, ProcessCancel(id)
      PROVE  OneCall(book, book', Q)
  BY <1>6, CancelCall DEF ProcessCancel, CancelOrder
<1>7. ASSUME NEW id \in OrderIds, NEW price \in InputPrices, NEW quantity \in Quantities,
             ProcessModify(id, price, quantity)
      PROVE  OneCall(book, book', Q)
  <2>1. book' = Modify(book, id, price, quantity) /\ "ModifyOrder" \in EventTypes
    BY <1>7 DEF ProcessModify, ModifyOrder
  <2>2. price \in Nat /\ quantity \in Amounts /\ quantity \in Q
    BY <2>1, BookAssumption
  <2>. QED
    BY <1>1, <2>1, <2>2, ModifyCall
<1>8. ASSUME NEW id \in OrderIds, NEW price \in InputPrices, NEW quantity \in Quantities,
             NEW side \in Sides, NewOrder(id, price, quantity, side)
      PROVE  OneCall(book, book', Q)
  BY <1>8, Zenon DEF NewOrder, bookVars, OneCall
<1>. QED
  BY <1>2, <1>3, <1>4, <1>5, <1>6, <1>7, <1>8, Zenon DEF Next, Step

LEMMA EngineInitFigures ==
    ASSUME Init, NEW Q
    PROVE  BestSound(book) /\ QuantitiesIn(book, Q) /\ AllQueued(book) /\ RemainderInv
BY InitFigures DEF Init, RemainderInv

NoEmptyOrders == QuantitiesIn(book, Nat \ {0})

\* No order without quantity rests in the book: matching inserts none, and
\* modify only when an event asks for it.
THEOREM NoEmptyOrderRests ==
    ASSUME "ModifyOrder" \in EventTypes => 0 \notin Quantities
    PROVE  Spec => []NoEmptyOrders
<1>. DEFINE Q == Nat \ {0}
<1>1. Init => NoEmptyOrders
  BY EngineInitFigures DEF NoEmptyOrders
<1>2. EngineInv /\ NoEmptyOrders /\ [Next]_vars => NoEmptyOrders'
  <2>. SUFFICES ASSUME EngineInv, NoEmptyOrders, [Next]_vars
                PROVE  NoEmptyOrders'
    OBVIOUS
  <2>1. /\ "ModifyOrder" \in EventTypes => Quantities \subseteq Q
        /\ pc # "idle" /\ remaining > 0 => remaining \in Q
        /\ \A q \in Q \cap Nat : 1..q \subseteq Q
    <3>1. Quantities \subseteq Nat /\ remaining \in Nat
      BY BookAssumption, Constants DEF Amounts, EngineInv, TypeOK
    <3>. QED
      BY <3>1
  <2>2. Sound(book) /\ QuantitiesIn(book, Q)
    BY DEF EngineInv, NoEmptyOrders
  <2>. HIDE DEF Q
  <2>3. OneCall(book, book', Q)
    BY <2>1, EngineCall
  <2>4. QuantitiesIn(book', Q)
    BY <2>1, <2>2, <2>3, CallKeepsQuantitiesIn
  <2>. QED
    BY <2>4 DEF NoEmptyOrders, QuantitiesIn, Found, Q
<1>. QED
  BY <1>1, <1>2, EngineSound, PTL DEF Spec

\* Matching never makes a total wrap around when the map's limit and the
\* largest quantity of an event leave it no way to.
THEOREM TotalsNeverWrapWhileMatching ==
    ASSUME NEW most \in Nat, Quantities \subseteq 0..most, MaxOrders * most < Word
    PROVE  Spec => []TotalsFit
<1>. DEFINE Q == 0..most
            Inv == RemainderInv /\ QuantitiesIn(book, Q)
<1>1. Init => Inv
  BY EngineInitFigures, Zenon
<1>2. EngineInv /\ Inv /\ [Next]_vars => Inv'
  <2>. SUFFICES ASSUME EngineInv, Inv, [Next]_vars
                PROVE  Inv'
    OBVIOUS
  <2>1. /\ "ModifyOrder" \in EventTypes => Quantities \subseteq Q
        /\ pc # "idle" /\ remaining > 0 => remaining \in Q
        /\ \A q \in Q \cap Nat : 1..q \subseteq Q
    <3>1. ASSUME pc # "idle"
          PROVE  remaining \in Q
      <4>1. remaining \in Nat /\ remaining <= aggressor.order.quantity
        BY <3>1, Constants DEF Amounts, EngineInv, TypeOK, RemainderInv
      <4>2. aggressor.order.quantity \in 0..most
        BY <3>1, Running DEF EngineInv
      <4>. QED
        BY <4>1, <4>2
    <3>2. \A q \in Q \cap Nat : 1..q \subseteq Q
      OBVIOUS
    <3>. QED
      BY <3>1, <3>2
  <2>2. Sound(book) /\ QuantitiesIn(book, Q) /\ RemainderInv
    BY DEF EngineInv
  <2>. HIDE DEF Q
  <2>3. OneCall(book, book', Q)
    BY <2>1, EngineCall
  <2>4. QuantitiesIn(book', Q)
    BY <2>1, <2>2, <2>3, CallKeepsQuantitiesIn
  <2>5. QuantitiesIn(book, Q)'
    BY <2>4 DEF QuantitiesIn, Found, Q
  <2>6. RemainderInv'
    BY <2>2, RemainderNext
  <2>. QED
    BY <2>5, <2>6
<1>3. EngineInv /\ Inv => TotalsFit
  BY BoundedLevelsFit DEF EngineInv, TotalsFit
<1>. QED
  BY <1>1, <1>2, <1>3, EngineSound, PTL DEF Spec

BestKnown == BestSound(book)

LEMMA BestKnownAlways ==
    ASSUME TickSize = 1
    PROVE  Spec /\ []TotalsFit => []BestKnown
<1>1. Init => BestKnown
  BY EngineInitFigures DEF BestKnown
<1>2. EngineInv /\ BestKnown /\ TotalsFit /\ [Next]_vars => BestKnown'
  <2>. SUFFICES ASSUME EngineInv, BestKnown, TotalsFit, [Next]_vars
                PROVE  BestKnown'
    OBVIOUS
  <2>1. Sound(book) /\ BestSound(book) /\ LevelsFit(book)
    BY DEF EngineInv, BestKnown, TotalsFit
  <2>2. OneCall(book, book', Nat)
    <3>1. Quantities \subseteq Nat /\ remaining \in Nat
      BY BookAssumption, Constants DEF Amounts, EngineInv, TypeOK
    <3>. QED
      BY <3>1, EngineCall
  <2>3. BestSound(book')
    BY <2>1, <2>2, CallKeepsBest
  <2>. QED
    BY <2>3 DEF BestKnown, BestSound, HasBest, Found
<1>. QED
  BY <1>1, <1>2, EngineSound, PTL DEF Spec

\* Between any two iterations the cached best price is the best price, as long
\* as no total has wrapped around.
THEOREM BestPriceExactWhileMatching ==
    ASSUME TickSize = 1
    PROVE  Spec /\ []TotalsFit => []BestPriceExact
<1>1. BestKnown => BestPriceExact
  BY BestByDefinition DEF BestKnown
<1>. QED
  BY <1>1, BestKnownAlways, PTL

Queued == AllQueued(book)

LEMMA QueuedAlways ==
    Spec /\ []RoomForAll => []Queued
<1>1. Init => Queued
  BY EngineInitFigures DEF Queued
<1>2. EngineInv /\ Queued /\ RoomForAll' /\ [Next]_vars => Queued'
  <2>. SUFFICES ASSUME EngineInv, Queued, RoomForAll', [Next]_vars
                PROVE  Queued'
    OBVIOUS
  <2>1. Sound(book) /\ AllQueued(book)
    BY DEF EngineInv, Queued
  <2>2. LevelsHaveRoom(book')
    BY DEF RoomForAll, LevelsHaveRoom, RestingAt, RestsAt, Found
  <2>3. OneCall(book, book', Nat)
    <3>1. Quantities \subseteq Nat /\ remaining \in Nat
      BY BookAssumption, Constants DEF Amounts, EngineInv, TypeOK
    <3>. QED
      BY <3>1, EngineCall
  <2>4. AllQueued(book')
    BY <2>1, <2>2, <2>3, CallKeepsQueued
  <2>. QED
    BY <2>4 DEF Queued, AllQueued, RestsAt, Found
<1>. QED
  BY <1>1, <1>2, EngineSound, PTL DEF Spec

\* Every order of the map can be reached by matching, between any two
\* iterations, while no level has been asked to hold more than its FIFO takes.
THEOREM OrdersReachableWhileMatching ==
    Spec /\ []RoomForAll => []RestingOrdersQueued
<1>1. EngineInv /\ Queued => RestingOrdersQueued
  BY QueuedByElems DEF RestingOrdersQueued, EngineInv, Sound, Queued
<1>. QED
  BY <1>1, QueuedAlways, EngineSound, PTL

\* An order can only join the book while matching as the remainder of the
\* aggressor.
LEMMA OnlyRemainderJoins ==
    ASSUME EngineInv, [Next]_vars, pc # "idle",
           NEW id \in OrderIds, ~Found(book, id), Found(book', id)
    PROVE  /\ InsertRemainder /\ remaining > 0 /\ id = aggressor.id
           /\ LET order == [aggressor.order EXCEPT !.quantity = remaining]
              IN  order \in Order /\ book' = Place(book, id, order)
<1>1. TypeOK /\ Sound(book) /\ book \in Books
  BY DEF EngineInv, Sound
<1>2. book' # book
  OBVIOUS
<1>3. ASSUME FillResting
      PROVE  FALSE
  <2>1. AtOrder
    BY <1>3 DEF FillResting
  <2>. DEFINE other == snap[pos]
              quantity == FillQuantity(other)
  <2>2. other \in OrderIds /\ Found(book, other) /\ remaining \in Amounts
    BY <1>1, <2>1, AtHead DEF RestsAt, TypeOK
  <2>3. book' = Reduce(book, other, quantity)
    BY <1>3, <2>2 DEF FillResting
  <2>4. book.orders[other].quantity \in Amounts
    BY <1>1, <2>2, FoundOrder
  <2>5. quantity \in Amounts
    BY <2>2, <2>4 DEF FillQuantity
  <2>. HIDE DEF quantity, other
  <2>6. CASE quantity >= book.orders[other].quantity
    <3>1. book' = TakeOut(book, other)
      BY <2>2, <2>3, <2>6 DEF Reduce
    <3>2. book'.orders = [book.orders EXCEPT ![other] = Absent]
      BY <1>1, <2>2, <3>1, TakeOutEffect
    <3>. QED
      BY <1>1, <2>2, <3>2 DEF Books, Found
  <2>7. CASE ~(quantity >= book.orders[other].quantity)
    <3>1. book' = Lessen(book, other, quantity)
      BY <2>2, <2>3, <2>7 DEF Reduce
    <3>2. quantity < book.orders[other].quantity
      BY <2>4, <2>5, <2>7, Constants DEF Amounts
    <3>3. book'.orders = [book.orders EXCEPT ![other].quantity = @ - quantity]
      BY <1>1, <2>2, <2>5, <3>1, <3>2, LessenFigures
    <3>4. id # other
      BY <2>2
    <3>. QED
      BY <1>1, <2>2, <3>3, <3>4 DEF Books, Found
  <2>. QED
    BY <2>6, <2>7
<1>4. InsertRemainder
  <2>1. ~UNCHANGED vars
    BY <1>2 DEF vars, bookVars
  <2>2. ~TakeSnapshot /\ ~LevelDone /\ ~PreventSelfTrade
    BY <1>2 DEF TakeSnapshot, LevelDone, PreventSelfTrade, bookVars
  <2>3. \A x \in OrderIds : ~ProcessCancel(x)
    BY DEF ProcessCancel
  <2>4. \A x \in OrderIds, price \in InputPrices, quantity \in Quantities :
           ~ProcessModify(x, price, quantity)
    BY DEF ProcessModify
  <2>5. \A x \in OrderIds, price \in InputPrices, quantity \in Quantities, side \in Sides :
           ~NewOrder(x, price, quantity, side)
    BY DEF NewOrder
  <2>. QED
    BY <1>3, <2>1, <2>2, <2>3, <2>4, <2>5, Zenon DEF Next, Step
<1>. DEFINE order == [aggressor.order EXCEPT !.quantity = remaining]
<1>5. remaining > 0 /\ book' = Insert(book, aggressor.id, order)
  <2>1. remaining > 0
    BY <1>2, <1>4 DEF InsertRemainder
  <2>. QED
    BY <1>4, <2>1 DEF InsertRemainder
<1>6. /\ aggressor.id \in OrderIds /\ Limit \in Nat /\ remaining \in Amounts
      /\ Side \in Sides /\ aggressor \in Aggressors
  BY <1>1, Running, BookAssumption DEF TypeOK
<1>7. order = [price |-> Limit, quantity |-> remaining, side |-> Side]
  BY <1>6 DEF Aggressors, Limit, Side
<1>. HIDE DEF order
<1>8. InsertResult(book, aggressor.id, order) = "Ok" /\ book' = Place(book, aggressor.id, order)
  BY <1>2, <1>5, Zenon DEF Insert
<1>9. order.price \in Prices
  BY <1>8 DEF InsertResult
<1>10. order \in Order
  BY <1>6, <1>7, <1>9 DEF Order
<1>11. id = aggressor.id
  <2>1. book'.orders = [book.orders EXCEPT ![aggressor.id] = order]
    BY <1>1, <1>6, <1>8, <1>10, PlaceEffect
  <2>. QED
    BY <1>1, <1>6, <2>1 DEF Books, Found
<1>. QED
  BY <1>4, <1>5, <1>8, <1>10, <1>11 DEF order

LEMMA CrossedByNone ==
    ASSUME EngineInv, BestSound(book), NoEmptyOrders, pc # "idle", remaining > 0, ~Crosses,
           NEW other \in OrderIds, Found(book, other),
           book.orders[other].side = Opposite(Side)
    PROVE  IF Side = "Bid" THEN Limit < book.orders[other].price
                           ELSE Limit > book.orders[other].price
<1>. DEFINE s == Opposite(Side)
            p == book.orders[other].price
            q == book.best[s]
<1>1. /\ TypeOK /\ book \in Books /\ Side \in Sides /\ s \in Sides /\ Limit \in Nat
  BY Running, BookAssumption DEF EngineInv, Sound
<1>2. p \in Prices /\ p \in Nat /\ book.orders[other].quantity > 0
  <2>1. p \in Prices /\ p \in Nat
    BY <1>1, FoundOrder, Constants
  <2>2. book.orders[other].quantity \in Nat \ {0}
    BY DEF NoEmptyOrders, QuantitiesIn
  <2>. QED
    BY <2>1, <2>2
<1>3. q \in Nat /\ MaxPrice \in Nat /\ p # 0 /\ p <= MaxPrice
  BY <1>1, <1>2, BestType, Constants DEF Prices
<1>4. /\ q \in Prices \/ q = Nobody[s]
      /\ ~Better(s, p, q)
  BY <1>1, <1>2 DEF BestSound, HasBest
<1>5. ~(q \in Prices) \/ Better(s, Limit, q)
  BY <1>1 DEF Crosses, HasBest
<1>6. /\ Side = "Bid" => s = "Ask"
      /\ Side = "Ask" => s = "Bid"
  BY DEF Opposite
<1>. HIDE DEF s, p, q
<1>7. q \in Prices
  BY <1>1, <1>2, <1>3, <1>4 DEF Better, Nobody, Sides
<1>8. Better(s, Limit, q) /\ ~Better(s, p, q)
  BY <1>4, <1>5, <1>7
<1>9. IF Side = "Bid" THEN Limit < p ELSE Limit > p
  BY <1>1, <1>2, <1>3, <1>6, <1>8 DEF Better, Sides
<1>. QED
  BY <1>9 DEF p

\* The remainder that matching leaves in the book meets nobody it could have
\* traded with: while no total has wrapped around, the best price that ended
\* the loop is the best price, and every resting order has quantity.
THEOREM RemainderMeetsNobody ==
    ASSUME TickSize = 1
    PROVE  Spec /\ []TotalsFit /\ []NoEmptyOrders => RestsUncrossed
<1>. DEFINE Uncrossed ==
       \A id, other \in OrderIds :
          /\ pc # "idle" /\ ~Found(book, id) /\ Found(book', id)
          /\ Found(book', other)
          /\ book'.orders[other].side = Opposite(book'.orders[id].side)
          => IF book'.orders[id].side = "Bid"
             THEN book'.orders[id].price < book'.orders[other].price
             ELSE book'.orders[id].price > book'.orders[other].price
<1>1. EngineInv /\ BestKnown /\ NoEmptyOrders /\ [Next]_vars => [Uncrossed]_vars
  <2>1. ASSUME EngineInv, BestKnown, NoEmptyOrders, [Next]_vars,
               NEW id \in OrderIds, NEW other \in OrderIds,
               pc # "idle", ~Found(book, id), Found(book', id), Found(book', other),
               book'.orders[other].side = Opposite(book'.orders[id].side)
        PROVE  IF book'.orders[id].side = "Bid"
               THEN book'.orders[id].price < book'.orders[other].price
               ELSE book'.orders[id].price > book'.orders[other].price
    <3>. DEFINE order == [aggressor.order EXCEPT !.quantity = remaining]
    <3>1. /\ InsertRemainder /\ remaining > 0
          /\ order \in Order /\ book' = Place(book, id, order)
      BY <2>1, OnlyRemainderJoins
    <3>2. ~Crosses
      BY <3>1 DEF InsertRemainder
    <3>3. aggressor \in Aggressors /\ book \in Books /\ BestSound(book) /\ Side \in Sides
      BY <2>1, Running DEF EngineInv, Sound, BestKnown
    <3>4. order.price = Limit /\ order.side = Side
      BY <3>3 DEF Aggressors, Limit, Side
    <3>5. book'.orders = [book.orders EXCEPT ![id] = order]
      BY <3>1, <3>3, PlaceEffect
    <3>. HIDE DEF order
    <3>6. book'.orders[id].price = Limit /\ book'.orders[id].side = Side
      BY <3>3, <3>4, <3>5 DEF Books
    <3>7. other # id
      BY <2>1, <3>3, <3>6 DEF Opposite, Sides
    <3>8. book'.orders[other] = book.orders[other] /\ Found(book, other)
      BY <2>1, <3>3, <3>5, <3>7 DEF Books, Found
    <3>9. IF Side = "Bid" THEN Limit < book.orders[other].price
                          ELSE Limit > book.orders[other].price
      BY <2>1, <3>1, <3>2, <3>3, <3>6, <3>8, CrossedByNone
    <3>. QED
      BY <3>6, <3>8, <3>9
  <2>2. ASSUME EngineInv, BestKnown, NoEmptyOrders, [Next]_vars
        PROVE  Uncrossed
    <3>. HIDE DEF BestKnown, NoEmptyOrders
    <3>. QED
      BY <2>1, <2>2
  <2>. QED
    BY <2>2
<1>. QED
  BY <1>1, EngineSound, BestKnownAlways, PTL DEF Spec, RestsUncrossed

\* The same from the constants alone.
THEOREM RemainderMeetsNobodyWithinBounds ==
    ASSUME TickSize = 1, "ModifyOrder" \in EventTypes => 0 \notin Quantities,
           NEW most \in Nat, Quantities \subseteq 0..most, MaxOrders * most < Word
    PROVE  Spec => RestsUncrossed
BY RemainderMeetsNobody, NoEmptyOrderRests, TotalsNeverWrapWhileMatching, PTL

----------------------------------------------------------------------------
(* The book as the queues of a market                                       *)

Entries == [id : OrderIds, quantity : Nat]

LEMMA RemovedAt ==
    ASSUME NEW T, NEW q \in Seq(T), NEW m \in 1..Len(q)
    PROVE  /\ RemoveAt(q, m) \in Seq(T)
           /\ Len(RemoveAt(q, m)) = Len(q) - 1
           /\ \A k \in 1..(Len(q) - 1) :
                 RemoveAt(q, m)[k] = IF k < m THEN q[k] ELSE q[k + 1]
<1>. DEFINE a == SubSeq(q, 1, m - 1)
            b == SubSeq(q, m + 1, Len(q))
<1>1. Len(q) \in Nat /\ m \in Nat /\ \A k \in 1..Len(q) : q[k] \in T
  OBVIOUS
<1>2. RemoveAt(q, m) = a \o b
  BY DEF RemoveAt
<1>3. /\ a \in Seq(T) /\ Len(a) = m - 1
      /\ \A k \in 1..(m - 1) : a[k] = q[k]
  <2>1. \A k \in 1..(m - 1) : q[k] \in T
    BY <1>1
  <2>2. m - 1 \in Int /\ 1 \in Int
    BY <1>1
  <2>3. /\ a \in Seq(T)
        /\ Len(a) = IF 1 <= m - 1 THEN (m - 1) - 1 + 1 ELSE 0
        /\ \A k \in 1..((m - 1) - 1 + 1) : a[k] = q[1 + k - 1]
    BY <2>1, <2>2, SubSeqProperties
  <2>. HIDE DEF a
  <2>. QED
    BY <1>1, <2>3
<1>4. /\ b \in Seq(T) /\ Len(b) = Len(q) - m
      /\ \A k \in 1..(Len(q) - m) : b[k] = q[m + k]
  <2>1. \A k \in (m + 1)..Len(q) : q[k] \in T
    BY <1>1
  <2>2. m + 1 \in Int /\ Len(q) \in Int
    BY <1>1
  <2>3. /\ b \in Seq(T)
        /\ Len(b) = IF m + 1 <= Len(q) THEN Len(q) - (m + 1) + 1 ELSE 0
        /\ \A k \in 1..(Len(q) - (m + 1) + 1) : b[k] = q[(m + 1) + k - 1]
    BY <2>1, <2>2, SubSeqProperties
  <2>. HIDE DEF b
  <2>. QED
    BY <1>1, <2>3
<1>. HIDE DEF a, b
<1>5. /\ a \o b \in Seq(T)
      /\ Len(a \o b) = Len(a) + Len(b)
      /\ \A k \in 1..(Len(a) + Len(b)) :
            (a \o b)[k] = IF k <= Len(a) THEN a[k] ELSE b[k - Len(a)]
  BY <1>3, <1>4, ConcatProperties
<1>6. Len(a) + Len(b) = Len(q) - 1
  BY <1>1, <1>3, <1>4
<1>7. ASSUME NEW k \in 1..(Len(q) - 1)
      PROVE  (a \o b)[k] = IF k < m THEN q[k] ELSE q[k + 1]
  <2>1. CASE k < m
    BY <1>1, <1>3, <1>5, <1>6, <2>1
  <2>2. CASE ~(k < m)
    <3>1. k - Len(a) \in 1..(Len(q) - m) /\ m + (k - Len(a)) = k + 1
          /\ ~(k <= Len(a))
      BY <1>1, <1>3, <2>2
    <3>. QED
      BY <1>4, <1>5, <1>6, <2>2, <3>1
  <2>. QED
    BY <2>1, <2>2
<1>. QED
  BY <1>2, <1>5, <1>6, <1>7

LEMMA WaitingElems ==
    ASSUME NEW b \in Books, NEW s \in Sides, NEW p \in Prices
    PROVE  LET ids == b.level[s][PriceIndex(p)].ids
           IN  /\ ids \in Seq(OrderIds)
               /\ Waiting(b, s, p) \in Seq(Entries)
               /\ Len(Waiting(b, s, p)) = Len(ids)
               /\ DOMAIN Waiting(b, s, p) = 1..Len(ids)
               /\ \A k \in 1..Len(ids) :
                     Waiting(b, s, p)[k] = [id |-> ids[k], quantity |-> b.orders[ids[k]].quantity]
<1>. DEFINE ids == b.level[s][PriceIndex(p)].ids
            w == Waiting(b, s, p)
<1>1. PriceIndex(p) \in LevelIndex
  BY Constants
<1>2. ids \in Seq(OrderIds) /\ Len(ids) \in Nat
  BY <1>1 DEF Books
<1>3. w = [k \in 1..Len(ids) |-> [id |-> ids[k], quantity |-> b.orders[ids[k]].quantity]]
  BY Zenon DEF Waiting
<1>. HIDE DEF ids, w
<1>4. \A k \in 1..Len(ids) : [id |-> ids[k], quantity |-> b.orders[ids[k]].quantity] \in Entries
  BY <1>2, OrderQuantity DEF Entries
<1>5. w \in Seq(Entries) /\ Len(w) = Len(ids) /\ DOMAIN w = 1..Len(ids)
  BY <1>2, <1>3, <1>4
<1>. QED
  BY <1>2, <1>3, <1>5 DEF ids, w

LEMMA SameWaiting ==
    ASSUME NEW b, NEW c, NEW s \in Sides, NEW p \in Prices,
           NEW ids, ids = b.level[s][PriceIndex(p)].ids,
           c.level[s][PriceIndex(p)].ids = ids,
           \A x \in Elems(ids) : c.orders[x].quantity = b.orders[x].quantity
    PROVE  Waiting(c, s, p) = Waiting(b, s, p)
<1>1. \A k \in 1..Len(ids) : c.orders[ids[k]].quantity = b.orders[ids[k]].quantity
  BY DEF Elems
<1>2. [k \in 1..Len(ids) |-> [id |-> ids[k], quantity |-> c.orders[ids[k]].quantity]] =
      [k \in 1..Len(ids) |-> [id |-> ids[k], quantity |-> b.orders[ids[k]].quantity]]
  BY <1>1
<1>. QED
  BY <1>2, Zenon DEF Waiting

\* No queue but one differs.
OthersWait(b, c, s, p) ==
    \A t \in Sides, r \in Prices : t # s \/ r # p => Waiting(c, t, r) = Waiting(b, t, r)

\* The queues of b with another one at one price.
Replaced(b, s, p, q) == [WaitingIn(b) EXCEPT ![s][p] = q]

LEMMA OneQueueChanged ==
    ASSUME NEW b, NEW c, NEW s \in Sides, NEW p \in Prices, OthersWait(b, c, s, p)
    PROVE  WaitingIn(c) = Replaced(b, s, p, Waiting(c, s, p))
BY DEF WaitingIn, OthersWait, Replaced

\* Who waits at a level.
LEMMA QueuedHere ==
    ASSUME NEW b, Sound(b), NEW s \in Sides, NEW p \in Prices
    PROVE  LET ids == b.level[s][PriceIndex(p)].ids
           IN  /\ \A x \in Elems(ids) : RestsAt(b, x, s, PriceIndex(p)) /\ x \in OrderIds
               /\ Distinct(ids)
<1>. DEFINE i == PriceIndex(p)
            ids == b.level[s][i].ids
<1>1. i \in LevelIndex /\ ids \in Seq(OrderIds)
  BY Constants DEF Sound, Books
<1>2. (\A x \in Elems(ids) : RestsAt(b, x, s, i)) /\ Distinct(ids)
  BY <1>1, QueuesByElems, Zenon DEF Sound
<1>. HIDE DEF ids
<1>3. Elems(ids) \subseteq OrderIds
  BY <1>1 DEF Elems
<1>. QED
  BY <1>2, <1>3 DEF ids

\* c is b but for one order, which rests at no other level than this one.
OneLevelTouched(b, c, id, s, i) ==
    /\ \A t \in Sides, j \in LevelIndex :
          t # s \/ j # i => c.level[t][j].ids = b.level[t][j].ids
    /\ \A x \in OrderIds \ {id} : c.orders[x].quantity = b.orders[x].quantity
    /\ \A t \in Sides, j \in LevelIndex : RestsAt(b, id, t, j) => t = s /\ j = i

\* With one price to a level an order is queued nowhere but at its price.
LEMMA ElsewhereSame ==
    ASSUME TickSize = 1, NEW b, Sound(b), NEW c, NEW s \in Sides, NEW p \in Prices,
           NEW id, OneLevelTouched(b, c, id, s, PriceIndex(p))
    PROVE  OthersWait(b, c, s, p)
<1>. SUFFICES ASSUME NEW t \in Sides, NEW r \in Prices, t # s \/ r # p
              PROVE  Waiting(c, t, r) = Waiting(b, t, r)
  BY Zenon DEF OthersWait
<1>. DEFINE j == PriceIndex(r)
            ids == b.level[t][j].ids
<1>1. j \in LevelIndex /\ (t # s \/ j # PriceIndex(p))
  BY Constants, OneLevelPerPrice
<1>2. \A x \in Elems(ids) : RestsAt(b, x, t, j) /\ x \in OrderIds
  BY QueuedHere
<1>3. c.level[t][j].ids = ids
  BY <1>1 DEF OneLevelTouched
<1>. HIDE DEF ids, j
<1>4. \A x \in Elems(ids) : c.orders[x].quantity = b.orders[x].quantity
  BY <1>1, <1>2 DEF OneLevelTouched
<1>. QED
  BY <1>3, <1>4, SameWaiting DEF ids, j

\* An accepted order joins the end of the queue of its price.
LEMMA PlaceWaits ==
    ASSUME TickSize = 1, NEW b, Sound(b), NEW id \in OrderIds, NEW order \in Order,
           ~Found(b, id), AllQueued(Place(b, id, order)),
           NEW s \in Sides, s = order.side, NEW p \in Prices, p = order.price
    PROVE  WaitingIn(Place(b, id, order)) =
             Replaced(b, s, p, Append(Waiting(b, s, p),
                                      [id |-> id, quantity |-> order.quantity]))
<1>. DEFINE c == Place(b, id, order)
            i == PriceIndex(p)
            ids == b.level[s][i].ids
            e == [id |-> id, quantity |-> order.quantity]
            w == Waiting(b, s, p)
            v == Waiting(c, s, p)
            new == c.level[s][i].ids
<1>1. i \in LevelIndex /\ b \in Books /\ order.quantity \in Nat
  <2>1. order.quantity \in Amounts /\ Amounts \subseteq Nat
    BY DEF Order, Amounts
  <2>. QED
    BY <2>1, Constants DEF Sound
<1>2. /\ c \in Books
      /\ c.orders = [b.orders EXCEPT ![id] = order]
      /\ c.level[s][i].ids = Push(ids, id)
      /\ \A t \in Sides, j \in LevelIndex : t # s \/ j # i => c.level[t][j] = b.level[t][j]
  BY <1>1, PlaceEffect DEF LevelOf
<1>3. /\ ids \in Seq(OrderIds)
      /\ \A x \in Elems(ids) : RestsAt(b, x, s, i) /\ x \in OrderIds
  BY <1>1, QueuedHere DEF Books
<1>4. /\ c.orders[id] = order
      /\ \A x \in OrderIds \ {id} : c.orders[x] = b.orders[x]
  BY <1>1, <1>2 DEF Books
<1>5. /\ w \in Seq(Entries) /\ Len(w) = Len(ids)
      /\ \A k \in 1..Len(ids) : w[k] = [id |-> ids[k], quantity |-> b.orders[ids[k]].quantity]
  BY <1>1, WaitingElems
<1>6. /\ v \in Seq(Entries) /\ Len(v) = Len(new)
      /\ \A k \in 1..Len(new) : v[k] = [id |-> new[k], quantity |-> c.orders[new[k]].quantity]
  <2>1. c \in Books
    BY <1>2
  <2>. HIDE DEF c
  <2>. QED
    BY <2>1, WaitingElems
<1>7. id \in Elems(c.level[s][i].ids)
  <2>1. RestsAt(c, id, s, i)
    BY <1>4, Constants DEF RestsAt, Found
  <2>. QED
    BY <1>1, <2>1, Zenon DEF AllQueued
<1>8. ~RestsAt(b, id, s, i)
  BY DEF RestsAt
<1>9. \A t \in Sides, j \in LevelIndex : ~RestsAt(b, id, t, j)
  BY DEF RestsAt
<1>. HIDE DEF c, i, ids, w, v, new
<1>10. new = Append(ids, id)
  <2>1. id \notin Elems(ids)
    BY <1>3, <1>8
  <2>. QED
    BY <1>2, <1>7, <2>1 DEF Push, new
<1>11. v = Append(w, e)
  <2>1. e \in Entries
    BY <1>1 DEF Entries
  <2>. DEFINE u == Append(w, e)
  <2>2. /\ Len(new) = Len(ids) + 1 /\ Len(ids) \in Nat
        /\ \A k \in 1..Len(ids) : new[k] = ids[k]
        /\ new[Len(ids) + 1] = id
    BY <1>3, <1>10, AppendProperties
  <2>3. /\ u \in Seq(Entries) /\ Len(u) = Len(w) + 1
        /\ \A k \in 1..Len(w) : u[k] = w[k]
        /\ u[Len(w) + 1] = e
    BY <1>5, <2>1, AppendProperties
  <2>. HIDE DEF u
  <2>4. \A k \in 1..Len(ids) : ids[k] \in OrderIds \ {id}
    BY <1>3, <1>8 DEF Elems
  <2>5. /\ v \in Seq(Entries) /\ Len(v) = Len(new)
        /\ \A k \in 1..Len(new) : v[k] = [id |-> new[k], quantity |-> c.orders[new[k]].quantity]
    BY <1>6
  <2>6. ASSUME NEW k \in 1..Len(v)
        PROVE  v[k] = u[k]
    <3>1. CASE k \in 1..Len(ids)
      <4>1. v[k] = [id |-> ids[k], quantity |-> c.orders[ids[k]].quantity]
        BY <2>2, <2>5, <2>6, <3>1
      <4>2. c.orders[ids[k]] = b.orders[ids[k]]
        BY <1>4, <2>4, <3>1
      <4>. QED
        BY <1>5, <2>3, <3>1, <4>1, <4>2
    <3>2. CASE k = Len(ids) + 1
      <4>1. v[k] = [id |-> id, quantity |-> order.quantity]
        BY <1>4, <2>2, <2>5, <2>6, <3>2
      <4>. QED
        BY <1>5, <2>3, <3>2, <4>1
    <3>. QED
      BY <2>2, <2>5, <2>6, <3>1, <3>2
  <2>7. Len(v) = Len(u)
    BY <1>5, <2>2, <2>3, <2>5
  <2>. QED
    <3>1. v \in Seq(Entries) /\ u \in Seq(Entries)
      BY <2>3, <2>5
    <3>2. v = u
      BY <2>6, <2>7, <3>1, SeqEqual
    <3>. QED
      BY <3>2 DEF u
<1>12. OthersWait(b, c, s, p)
  <2>1. OneLevelTouched(b, c, id, s, i)
    BY <1>2, <1>4, <1>9 DEF OneLevelTouched
  <2>2. OneLevelTouched(b, c, id, s, PriceIndex(p))
    BY <2>1 DEF i
  <2>. QED
    BY <2>2, ElsewhereSame
<1>13. WaitingIn(c) = Replaced(b, s, p, Append(w, e))
  BY <1>11, <1>12, OneQueueChanged DEF v
<1>. QED
  BY <1>13 DEF c, w

\* What TakeOut does to the queues of a book.
LEMMA TakeOutTouches ==
    ASSUME NEW b, Sound(b), NEW id \in OrderIds, NEW s \in Sides, NEW p \in Prices,
           RestsAt(b, id, s, PriceIndex(p))
    PROVE  /\ TakeOut(b, id) \in Books
           /\ OneLevelTouched(b, TakeOut(b, id), id, s, PriceIndex(p))
           /\ TakeOut(b, id).level[s][PriceIndex(p)].ids =
                 RemoveFirst(b.level[s][PriceIndex(p)].ids, id)
<1>. DEFINE c == TakeOut(b, id)
            i == PriceIndex(p)
<1>1. Found(b, id) /\ b.orders[id].side = s /\ PriceIndex(b.orders[id].price) = i /\ b \in Books
  BY DEF RestsAt, Sound
<1>2. /\ c \in Books /\ c.orders = [b.orders EXCEPT ![id] = Absent]
      /\ c.level[s][i].ids = RemoveFirst(b.level[s][i].ids, id)
      /\ \A t \in Sides, j \in LevelIndex : t # s \/ j # i => c.level[t][j] = b.level[t][j]
  <2>1. /\ c \in Books /\ c.orders = [b.orders EXCEPT ![id] = Absent]
        /\ LevelOf(c, b.orders[id]).ids = RemoveFirst(LevelOf(b, b.orders[id]).ids, id)
        /\ \A t \in Sides, j \in LevelIndex :
              t # b.orders[id].side \/ j # PriceIndex(b.orders[id].price)
                => c.level[t][j] = b.level[t][j]
    BY <1>1, TakeOutEffect
  <2>. HIDE DEF c, i
  <2>. QED
    BY <1>1, <2>1 DEF LevelOf
<1>. HIDE DEF c, i
<1>3. \A x \in OrderIds \ {id} : c.orders[x] = b.orders[x]
  BY <1>1, <1>2 DEF Books
<1>4. \A t \in Sides, j \in LevelIndex : RestsAt(b, id, t, j) => t = s /\ j = i
  BY <1>1 DEF RestsAt
<1>5. OneLevelTouched(b, c, id, s, i)
  BY <1>2, <1>3, <1>4 DEF OneLevelTouched
<1>. QED
  BY <1>2, <1>5 DEF c, i

\* new is ids without what stands at m.
Closed(ids, new, m) ==
    /\ m \in 1..Len(ids)
    /\ Len(new) = Len(ids) - 1
    /\ \A k \in 1..(Len(ids) - 1) : new[k] = IF k < m THEN ids[k] ELSE ids[k + 1]

\* A queue from which the id is gone is the old one without its entry.
LEMMA WaitingRemoved ==
    ASSUME NEW b, Sound(b), NEW c \in Books, NEW s \in Sides, NEW p \in Prices, NEW id,
           NEW m, b.level[s][PriceIndex(p)].ids[m] = id,
           Closed(b.level[s][PriceIndex(p)].ids, c.level[s][PriceIndex(p)].ids, m),
           \A x \in OrderIds \ {id} : c.orders[x].quantity = b.orders[x].quantity
    PROVE  /\ Waiting(c, s, p) = RemoveAt(Waiting(b, s, p), m)
           /\ {k \in DOMAIN Waiting(b, s, p) : Waiting(b, s, p)[k].id = id} = {m}
<1>. DEFINE ids == b.level[s][PriceIndex(p)].ids
            new == c.level[s][PriceIndex(p)].ids
            w == Waiting(b, s, p)
            v == Waiting(c, s, p)
            u == RemoveAt(w, m)
<1>1. /\ m \in 1..Len(ids) /\ ids[m] = id
      /\ Len(new) = Len(ids) - 1
      /\ \A k \in 1..(Len(ids) - 1) : new[k] = IF k < m THEN ids[k] ELSE ids[k + 1]
  BY Zenon DEF Closed
<1>2. b \in Books
  BY DEF Sound
<1>3. /\ ids \in Seq(OrderIds) /\ w \in Seq(Entries) /\ Len(w) = Len(ids)
      /\ DOMAIN w = 1..Len(ids)
      /\ \A k \in 1..Len(ids) : w[k] = [id |-> ids[k], quantity |-> b.orders[ids[k]].quantity]
  BY <1>2, WaitingElems
<1>4. /\ v \in Seq(Entries) /\ Len(v) = Len(new)
      /\ \A k \in 1..Len(new) : v[k] = [id |-> new[k], quantity |-> c.orders[new[k]].quantity]
  BY WaitingElems
<1>5. Distinct(ids)
  BY QueuedHere
<1>. HIDE DEF ids, new, w, v, u
<1>6. Len(ids) \in Nat /\ m \in Nat
  BY <1>1, <1>3
<1>7. /\ u \in Seq(Entries) /\ Len(u) = Len(ids) - 1
      /\ \A k \in 1..(Len(ids) - 1) : u[k] = IF k < m THEN w[k] ELSE w[k + 1]
  <2>1. m \in 1..Len(w)
    BY <1>1, <1>3
  <2>2. /\ u \in Seq(Entries) /\ Len(u) = Len(w) - 1
        /\ \A k \in 1..(Len(w) - 1) : u[k] = IF k < m THEN w[k] ELSE w[k + 1]
    BY <1>3, <2>1, RemovedAt DEF u
  <2>. QED
    BY <1>3, <2>2
<1>8. ASSUME NEW k \in 1..Len(v)
      PROVE  v[k] = u[k]
  <2>1. PICK j \in 1..Len(ids) : j # m /\ new[k] = ids[j] /\ u[k] = w[j] /\ k \in 1..Len(new)
    <3>1. CASE k < m
      <4>1. k \in 1..Len(ids) /\ k # m /\ k \in 1..(Len(ids) - 1) /\ k \in 1..Len(new)
        BY <1>1, <1>4, <1>6, <1>8, <3>1
      <4>. QED
        BY <1>1, <1>7, <3>1, <4>1
    <3>2. CASE ~(k < m)
      <4>1. k + 1 \in 1..Len(ids) /\ k + 1 # m /\ k \in 1..(Len(ids) - 1) /\ k \in 1..Len(new)
        BY <1>1, <1>4, <1>6, <1>8, <3>2
      <4>. QED
        BY <1>1, <1>7, <3>2, <4>1
    <3>. QED
      BY <3>1, <3>2
  <2>2. ids[j] \in OrderIds \ {id}
    BY <1>1, <1>3, <1>5, <2>1 DEF Distinct
  <2>3. v[k] = [id |-> ids[j], quantity |-> c.orders[ids[j]].quantity]
    BY <1>4, <2>1
  <2>4. u[k] = [id |-> ids[j], quantity |-> b.orders[ids[j]].quantity]
    BY <1>3, <2>1
  <2>. QED
    BY <2>2, <2>3, <2>4
<1>9. v = u
  <2>1. Len(v) = Len(u)
    BY <1>1, <1>4, <1>7
  <2>. QED
    BY <1>4, <1>7, <1>8, <2>1, SeqEqual
<1>10. {k \in DOMAIN w : w[k].id = id} = {m}
  <2>1. \A k \in 1..Len(ids) : w[k].id = ids[k]
    BY <1>3
  <2>2. \A k \in 1..Len(ids) : w[k].id = id <=> k = m
    BY <1>1, <1>5, <2>1 DEF Distinct
  <2>. QED
    BY <1>1, <1>3, <2>2
<1>. QED
  BY <1>9, <1>10 DEF u, v, w

LEMMA MarketLeft ==
    ASSUME NEW q, NEW id, NEW at, at = {k \in DOMAIN q : q[k].id = id}
    PROVE  /\ at = {} => Market!Left(q, id) = q
           /\ \A m \in Nat : at = {m} => Market!Left(q, id) = RemoveAt(q, m)
<1>1. Market!Left(q, id) = IF at = {} THEN q ELSE RemoveAt(q, Min(at))
  <2>1. Market!Left(q, id) = IF at = {} THEN q ELSE Market!RemoveAt(q, Market!Min(at))
    BY DEF Market!Left
  <2>2. Market!Min(at) = Min(at)
    BY Zenon DEF Market!Min, Min
  <2>3. Market!RemoveAt(q, Min(at)) = RemoveAt(q, Min(at))
    BY Zenon DEF Market!RemoveAt, RemoveAt
  <2>. QED
    BY <2>1, <2>2, <2>3, Zenon
<1>2. ASSUME NEW m \in Nat
      PROVE  Min({m}) = m
  BY MinOfNats
<1>. QED
  BY <1>1, <1>2

LEMMA NobodyLeft ==
    ASSUME NEW b, Sound(b), NEW s \in Sides, NEW p \in Prices, NEW id,
           id \notin Elems(b.level[s][PriceIndex(p)].ids)
    PROVE  Market!Left(Waiting(b, s, p), id) = Waiting(b, s, p)
<1>. DEFINE ids == b.level[s][PriceIndex(p)].ids
            w == Waiting(b, s, p)
<1>1. /\ DOMAIN w = 1..Len(ids)
      /\ \A k \in 1..Len(ids) : w[k] = [id |-> ids[k], quantity |-> b.orders[ids[k]].quantity]
  BY WaitingElems DEF Sound
<1>. HIDE DEF ids, w
<1>2. \A k \in 1..Len(ids) : w[k].id # id
  <2>1. id \notin Elems(ids)
    BY DEF ids
  <2>. QED
    BY <1>1, <2>1 DEF Elems
<1>3. {k \in DOMAIN w : w[k].id = id} = {}
  BY <1>1, <1>2
<1>. QED
  BY <1>3, MarketLeft DEF w

LEMMA TakeOutWaits ==
    ASSUME TickSize = 1, NEW b, Sound(b), NEW id \in OrderIds, Found(b, id)
    PROVE  WaitingIn(TakeOut(b, id)) =
             [s \in Sides |-> [p \in Prices |-> Market!Left(WaitingIn(b)[s][p], id)]]
<1>. DEFINE c == TakeOut(b, id)
<1>0. b \in Books
  BY DEF Sound
<1>1. PICK s \in Sides, p \in Prices : s = b.orders[id].side /\ p = b.orders[id].price
  BY <1>0, FoundOrder
<1>2. RestsAt(b, id, s, PriceIndex(p))
  BY <1>1 DEF RestsAt
<1>3. /\ c \in Books /\ OneLevelTouched(b, c, id, s, PriceIndex(p))
      /\ c.level[s][PriceIndex(p)].ids = RemoveFirst(b.level[s][PriceIndex(p)].ids, id)
  BY <1>2, TakeOutTouches
<1>. HIDE DEF c
<1>4. OthersWait(b, c, s, p)
  BY <1>3, ElsewhereSame
<1>5. Waiting(c, s, p) = Market!Left(Waiting(b, s, p), id)
  <2>. DEFINE ids == b.level[s][PriceIndex(p)].ids
              new == c.level[s][PriceIndex(p)].ids
  <2>1. ids \in Seq(OrderIds) /\ new = RemoveFirst(ids, id)
    BY <1>0, <1>3, WaitingElems
  <2>2. \A x \in OrderIds \ {id} : c.orders[x].quantity = b.orders[x].quantity
    BY <1>3 DEF OneLevelTouched
  <2>3. CASE (\A k \in 1..Len(ids) : ids[k] # id) /\ new = ids
    <3>1. id \notin Elems(ids)
      BY <2>3 DEF Elems
    <3>2. Elems(ids) \subseteq OrderIds \ {id}
      BY <2>1, <3>1 DEF Elems
    <3>3. \A x \in Elems(ids) : c.orders[x].quantity = b.orders[x].quantity
      BY <2>2, <3>2
    <3>4. Waiting(c, s, p) = Waiting(b, s, p)
      BY <2>3, <3>3, SameWaiting
    <3>. QED
      BY <3>1, <3>4, NobodyLeft
  <2>4. ASSUME NEW m \in 1..Len(ids), ids[m] = id,
               Len(new) = Len(ids) - 1,
               \A k \in 1..(Len(ids) - 1) : new[k] = IF k < m THEN ids[k] ELSE ids[k + 1]
        PROVE  Waiting(c, s, p) = Market!Left(Waiting(b, s, p), id)
    <3>0. Closed(ids, new, m)
      BY <2>4, Zenon DEF Closed
    <3>. DEFINE w == Waiting(b, s, p)
    <3>1. /\ Waiting(c, s, p) = RemoveAt(w, m)
          /\ {k \in DOMAIN w : w[k].id = id} = {m}
      BY <1>3, <2>2, <2>4, <3>0, WaitingRemoved
    <3>2. m \in Nat
      BY <2>1
    <3>. HIDE DEF w
    <3>3. Market!Left(w, id) = RemoveAt(w, m)
      BY <3>1, <3>2, MarketLeft
    <3>. QED
      BY <3>1, <3>3 DEF w
  <2>. HIDE DEF ids, new
  <2>5. CASE \E m \in 1..Len(ids) :
                 /\ ids[m] = id
                 /\ Len(new) = Len(ids) - 1
                 /\ \A k \in 1..(Len(ids) - 1) :
                       new[k] = IF k < m THEN ids[k] ELSE ids[k + 1]
    BY <2>4, <2>5
  <2>. QED
    BY <2>1, <2>3, <2>5, RemoveFirstCases
<1>6. ASSUME NEW t \in Sides, NEW r \in Prices
      PROVE  Waiting(c, t, r) = Market!Left(Waiting(b, t, r), id)
  <2>1. CASE t = s /\ r = p
    BY <1>5, <2>1
  <2>2. CASE t # s \/ r # p
    <3>1. t # s \/ PriceIndex(r) # PriceIndex(p)
      BY <2>2, OneLevelPerPrice
    <3>2. ~RestsAt(b, id, t, PriceIndex(r))
      BY <1>3, <3>1, Constants DEF OneLevelTouched
    <3>3. id \notin Elems(b.level[t][PriceIndex(r)].ids)
      BY <3>2, QueuedHere
    <3>4. Waiting(c, t, r) = Waiting(b, t, r)
      BY <1>4, <2>2 DEF OthersWait
    <3>. QED
      BY <3>3, <3>4, NobodyLeft
  <2>. QED
    BY <2>1, <2>2
<1>. QED
  BY <1>6 DEF WaitingIn, c

\* The queue whose head is the id, as the market sees it.
LEMMA WaitingHead ==
    ASSUME NEW b, Sound(b), NEW s \in Sides, NEW p \in Prices, NEW id,
           1 \in 1..Len(b.level[s][PriceIndex(p)].ids),
           b.level[s][PriceIndex(p)].ids[1] = id
    PROVE  LET w == Waiting(b, s, p)
           IN  /\ w \in Seq(Entries) /\ w # <<>>
               /\ Head(w) = [id |-> id, quantity |-> b.orders[id].quantity]
               /\ Tail(w) \in Seq(Entries)
               /\ Len(Tail(w)) = Len(w) - 1
               /\ \A k \in 1..(Len(w) - 1) : Tail(w)[k] = w[k + 1]
               /\ RestsAt(b, id, s, PriceIndex(p))
<1>. DEFINE ids == b.level[s][PriceIndex(p)].ids
            w == Waiting(b, s, p)
<1>1. /\ ids \in Seq(OrderIds) /\ w \in Seq(Entries) /\ Len(w) = Len(ids)
      /\ \A k \in 1..Len(ids) : w[k] = [id |-> ids[k], quantity |-> b.orders[ids[k]].quantity]
  BY WaitingElems DEF Sound
<1>2. \A x \in Elems(ids) : RestsAt(b, x, s, PriceIndex(p))
  BY QueuedHere
<1>3. 1 \in 1..Len(ids) /\ ids[1] = id
  OBVIOUS
<1>. HIDE DEF ids, w
<1>4. RestsAt(b, id, s, PriceIndex(p))
  BY <1>2, <1>3 DEF Elems
<1>5. w # <<>> /\ Len(w) \in Nat /\ w[1] = [id |-> id, quantity |-> b.orders[id].quantity]
  BY <1>1, <1>3
<1>6. /\ Head(w) = w[1] /\ Tail(w) \in Seq(Entries)
      /\ Len(Tail(w)) = Len(w) - 1
      /\ \A k \in 1..(Len(w) - 1) : Tail(w)[k] = w[k + 1]
  BY <1>1, <1>5
<1>. QED
  BY <1>1, <1>4, <1>5, <1>6 DEF w

LEMMA HeadOutWaits ==
    ASSUME TickSize = 1, NEW b, Sound(b), NEW s \in Sides, NEW p \in Prices,
           NEW id \in OrderIds,
           1 \in 1..Len(b.level[s][PriceIndex(p)].ids),
           b.level[s][PriceIndex(p)].ids[1] = id
    PROVE  WaitingIn(TakeOut(b, id)) = Replaced(b, s, p, Tail(Waiting(b, s, p)))
<1>. DEFINE c == TakeOut(b, id)
            ids == b.level[s][PriceIndex(p)].ids
            new == c.level[s][PriceIndex(p)].ids
            w == Waiting(b, s, p)
<1>1. /\ w \in Seq(Entries) /\ w # <<>> /\ Tail(w) \in Seq(Entries)
      /\ Len(Tail(w)) = Len(w) - 1
      /\ \A k \in 1..(Len(w) - 1) : Tail(w)[k] = w[k + 1]
      /\ RestsAt(b, id, s, PriceIndex(p))
  BY WaitingHead
<1>2. /\ c \in Books /\ OneLevelTouched(b, c, id, s, PriceIndex(p))
      /\ new = RemoveFirst(ids, id)
  BY <1>1, TakeOutTouches
<1>3. ids \in Seq(OrderIds) /\ 1 \in 1..Len(ids) /\ ids[1] = id
  BY WaitingElems DEF Sound
<1>. HIDE DEF c
<1>4. OthersWait(b, c, s, p)
  BY <1>2, ElsewhereSame
<1>5. \A x \in OrderIds \ {id} : c.orders[x].quantity = b.orders[x].quantity
  BY <1>2 DEF OneLevelTouched
<1>6. Closed(ids, new, 1)
  <2>. HIDE DEF ids, new
  <2>1. /\ Len(new) = Len(ids) - 1
        /\ \A k \in 1..(Len(ids) - 1) : new[k] = ids[k + 1]
    BY <1>2, <1>3, RemoveHead
  <2>. QED
    BY <1>3, <2>1 DEF Closed
<1>7. Waiting(c, s, p) = RemoveAt(w, 1)
  BY <1>2, <1>5, <1>6, WaitingRemoved
<1>. HIDE DEF w
<1>8. RemoveAt(w, 1) = Tail(w)
  <2>1. Len(w) \in Nat /\ 1 \in 1..Len(w)
    BY <1>1
  <2>2. /\ RemoveAt(w, 1) \in Seq(Entries) /\ Len(RemoveAt(w, 1)) = Len(w) - 1
        /\ \A k \in 1..(Len(w) - 1) : RemoveAt(w, 1)[k] = IF k < 1 THEN w[k] ELSE w[k + 1]
    BY <1>1, <2>1, RemovedAt
  <2>3. \A k \in 1..(Len(w) - 1) : RemoveAt(w, 1)[k] = w[k + 1]
    BY <2>2
  <2>. QED
    BY <1>1, <2>2, <2>3, SeqEqual
<1>. QED
  BY <1>4, <1>7, <1>8, OneQueueChanged DEF c, w

LEMMA HeadLessened ==
    ASSUME TickSize = 1, NEW b, Sound(b), NEW s \in Sides, NEW p \in Prices,
           NEW id \in OrderIds, NEW quantity \in Amounts, quantity < b.orders[id].quantity,
           1 \in 1..Len(b.level[s][PriceIndex(p)].ids),
           b.level[s][PriceIndex(p)].ids[1] = id
    PROVE  WaitingIn(Lessen(b, id, quantity)) =
             Replaced(b, s, p, <<[id |-> id, quantity |-> b.orders[id].quantity - quantity]>>
                                 \o Tail(Waiting(b, s, p)))
<1>. DEFINE c == Lessen(b, id, quantity)
            i == PriceIndex(p)
            ids == b.level[s][i].ids
            e == [id |-> id, quantity |-> b.orders[id].quantity - quantity]
            w == Waiting(b, s, p)
            v == Waiting(c, s, p)
            t == Tail(w)
            u == <<e>> \o t
<1>1. /\ w \in Seq(Entries) /\ t \in Seq(Entries) /\ Len(t) = Len(w) - 1
      /\ \A k \in 1..(Len(w) - 1) : t[k] = w[k + 1]
      /\ RestsAt(b, id, s, i)
  BY WaitingHead
<1>2. /\ ids \in Seq(OrderIds) /\ Len(w) = Len(ids) /\ 1 \in 1..Len(ids) /\ ids[1] = id
      /\ \A k \in 1..Len(ids) : w[k] = [id |-> ids[k], quantity |-> b.orders[ids[k]].quantity]
  BY WaitingElems DEF Sound
<1>3. Distinct(ids)
  BY QueuedHere
<1>4. b \in Books /\ Found(b, id) /\ b.orders[id].quantity \in Nat
  BY <1>1, OrderQuantity DEF RestsAt, Sound
<1>5. /\ c \in Books
      /\ \A x \in Sides, j \in LevelIndex : c.level[x][j].ids = b.level[x][j].ids
      /\ c.orders = [b.orders EXCEPT ![id].quantity = @ - quantity]
  BY <1>4, LessenEffect, LessenFigures
<1>6. i \in LevelIndex
  BY Constants
<1>. HIDE DEF c
<1>7. /\ \A x \in OrderIds \ {id} : c.orders[x].quantity = b.orders[x].quantity
      /\ c.orders[id].quantity = b.orders[id].quantity - quantity
  BY <1>4, <1>5, FoundOrder DEF Books, Order
<1>8. OneLevelTouched(b, c, id, s, i)
  BY <1>1, <1>5, <1>7 DEF OneLevelTouched, RestsAt
<1>9. OthersWait(b, c, s, p)
  BY <1>8, ElsewhereSame
<1>10. /\ v \in Seq(Entries) /\ Len(v) = Len(ids)
       /\ \A k \in 1..Len(ids) : v[k] = [id |-> ids[k], quantity |-> c.orders[ids[k]].quantity]
  <2>. DEFINE new == c.level[s][i].ids
  <2>1. new = ids
    BY <1>5, <1>6
  <2>2. /\ v \in Seq(Entries) /\ Len(v) = Len(new)
        /\ \A k \in 1..Len(new) : v[k] = [id |-> new[k], quantity |-> c.orders[new[k]].quantity]
    <3>1. c \in Books
      BY <1>5
    <3>. QED
      BY <3>1, WaitingElems
  <2>. HIDE DEF new
  <2>. QED
    BY <2>1, <2>2
<1>. HIDE DEF i, ids, w, v, t
<1>11. Len(ids) \in Nat /\ e \in Entries
  <2>1. b.orders[id].quantity - quantity \in Nat
    <3>1. quantity \in Nat
      BY DEF Amounts
    <3>. QED
      BY <1>4, <3>1
  <2>. QED
    BY <1>2, <2>1 DEF Entries
<1>. HIDE DEF e
<1>12. /\ u \in Seq(Entries) /\ Len(u) = Len(w)
       /\ u[1] = e /\ \A k \in 2..Len(w) : u[k] = t[k - 1]
  <2>. DEFINE f == <<e>>
  <2>1. f \in Seq(Entries) /\ Len(f) = 1 /\ f[1] = e
    BY <1>11
  <2>. HIDE DEF f
  <2>2. /\ f \o t \in Seq(Entries) /\ Len(f \o t) = Len(f) + Len(t)
        /\ \A k \in 1..(Len(f) + Len(t)) :
              (f \o t)[k] = IF k <= Len(f) THEN f[k] ELSE t[k - Len(f)]
    <3>1. t \in Seq(Entries)
      BY <1>1
    <3>. QED
      BY <2>1, <3>1, ConcatProperties, Zenon
  <2>3. u = f \o t
    BY DEF f
  <2>4. Len(f) + Len(t) = Len(w) /\ Len(w) \in Nat /\ 1 \in 1..Len(w)
    BY <1>1, <1>2, <2>1
  <2>. HIDE DEF u
  <2>. QED
    BY <2>1, <2>2, <2>3, <2>4
<1>. HIDE DEF u
<1>13. ASSUME NEW k \in 1..Len(v)
       PROVE  v[k] = u[k]
  <2>1. v[k] = [id |-> ids[k], quantity |-> c.orders[ids[k]].quantity]
    BY <1>10
  <2>2. CASE k = 1
    BY <1>2, <1>7, <1>12, <2>1, <2>2 DEF e
  <2>3. CASE k # 1
    <3>1. k \in 2..Len(w) /\ k - 1 \in 1..(Len(w) - 1) /\ (k - 1) + 1 = k /\ k \in 1..Len(ids)
      BY <1>2, <1>10, <1>11, <2>3
    <3>2. u[k] = w[k]
      BY <1>1, <1>12, <3>1
    <3>3. ids[k] \in OrderIds \ {id}
      BY <1>2, <1>3, <2>3, <3>1 DEF Distinct
    <3>. QED
      BY <1>2, <1>7, <2>1, <3>1, <3>2, <3>3
  <2>. QED
    BY <2>2, <2>3
<1>14. v = u
  <2>1. Len(v) = Len(u)
    BY <1>2, <1>10, <1>12
  <2>. QED
    BY <1>10, <1>12, <1>13, <2>1, SeqEqual
<1>. QED
  BY <1>9, <1>14, OneQueueChanged DEF c, u, v, w, t, e

\* Whoever is in a queue rests at its price.
LEMMA SomebodyWaits ==
    ASSUME TickSize = 1, NEW b, Sound(b), NEW s \in Sides, NEW p \in Prices,
           NEW id, id \in Elems(b.level[s][PriceIndex(p)].ids)
    PROVE  /\ id \in OrderIds /\ Found(b, id)
           /\ b.orders[id].side = s /\ b.orders[id].price = p
<1>1. id \in OrderIds /\ RestsAt(b, id, s, PriceIndex(p)) /\ b \in Books
  BY QueuedHere DEF Sound
<1>2. Found(b, id) /\ b.orders[id].side = s /\ PriceIndex(b.orders[id].price) = PriceIndex(p)
  BY <1>1 DEF RestsAt
<1>3. b.orders[id].price \in Prices
  BY <1>1, <1>2, FoundOrder
<1>. QED
  BY <1>1, <1>2, <1>3, OneLevelPerPrice

LEMMA NonemptyQueue ==
    ASSUME NEW b, Sound(b), NEW s \in Sides, NEW p \in Prices
    PROVE  WaitingIn(b)[s][p] # <<>> <=> \E id : id \in Elems(b.level[s][PriceIndex(p)].ids)
<1>. DEFINE ids == b.level[s][PriceIndex(p)].ids
            w == Waiting(b, s, p)
<1>1. ids \in Seq(OrderIds) /\ w \in Seq(Entries) /\ Len(w) = Len(ids)
  BY WaitingElems DEF Sound
<1>2. WaitingIn(b)[s][p] = w
  BY DEF WaitingIn
<1>. HIDE DEF ids, w
<1>3. w # <<>> <=> 1 \in 1..Len(ids)
  BY <1>1
<1>4. Len(ids) \in Nat
  BY <1>1
<1>5. 1 \in 1..Len(ids) <=> \E id : id \in Elems(ids)
  BY <1>4 DEF Elems
<1>. QED
  BY <1>2, <1>3, <1>5 DEF ids

\* The best of a set of prices is the one no other is better than.
LEMMA BestOfPrices ==
    ASSUME NEW W \in SUBSET Prices, NEW p \in W, NEW s \in Sides,
           \A r \in W : ~Better(s, r, p)
    PROVE  p = IF s = "Bid" THEN Max(W) ELSE Min(W)
<1>1. W \subseteq Nat /\ MaxPrice + 1 \in Nat /\ W \subseteq 0..(MaxPrice + 1) /\ W # {}
  BY Constants
<1>2. CASE s = "Bid"
  <2>1. Max(W) \in W /\ \A y \in W : Max(W) >= y
    BY <1>1, MaxOfBounded
  <2>2. Max(W) >= p /\ ~(Max(W) > p) /\ Max(W) \in Nat /\ p \in Nat
    BY <1>1, <1>2, <2>1 DEF Better
  <2>3. Max(W) = p
    BY <2>2
  <2>. QED
    BY <1>2, <2>3
<1>3. CASE s = "Ask"
  <2>1. Min(W) \in W /\ \A y \in W : Min(W) <= y
    BY <1>1, MinOfNats
  <2>2. Min(W) <= p /\ ~(Min(W) < p) /\ Min(W) \in Nat /\ p \in Nat
    BY <1>1, <1>3, <2>1 DEF Better
  <2>3. Min(W) = p
    BY <2>2
  <2>. QED
    BY <1>3, <2>3
<1>. QED
  BY <1>2, <1>3 DEF Sides

LEMMA NamedInQueue ==
    ASSUME NEW b, Sound(b), NEW s \in Sides, NEW p \in Prices, NEW id
    PROVE  (\E e \in Market!ToSet(WaitingIn(b)[s][p]) : e.id = id)
             <=> id \in Elems(b.level[s][PriceIndex(p)].ids)
<1>. DEFINE ids == b.level[s][PriceIndex(p)].ids
            w == Waiting(b, s, p)
<1>1. /\ DOMAIN w = 1..Len(ids)
      /\ \A k \in 1..Len(ids) : w[k] = [id |-> ids[k], quantity |-> b.orders[ids[k]].quantity]
  BY WaitingElems DEF Sound
<1>2. WaitingIn(b)[s][p] = w
  BY DEF WaitingIn
<1>. HIDE DEF ids, w
<1>3. \A k \in 1..Len(ids) : w[k].id = ids[k]
  BY <1>1
<1>4. Market!ToSet(w) = {w[k] : k \in 1..Len(ids)}
  BY <1>1, Zenon DEF Market!ToSet
<1>5. (\E e \in Market!ToSet(w) : e.id = id) <=> \E k \in 1..Len(ids) : ids[k] = id
  BY <1>3, <1>4
<1>6. (\E k \in 1..Len(ids) : ids[k] = id) <=> id \in Elems(ids)
  BY DEF Elems
<1>. QED
  BY <1>2, <1>5, <1>6 DEF ids

LEMMA MarketQueuesOf ==
    ASSUME TickSize = 1, EngineInv, Queued, NEW id \in OrderIds
    PROVE  /\ Found(book, id) =>
                Market!QueuesOf(id) = {<<book.orders[id].side, book.orders[id].price>>}
           /\ ~Found(book, id) => Market!QueuesOf(id) = {}
<1>1. Sound(book) /\ book \in Books /\ AllQueued(book)
  BY DEF EngineInv, Sound, Queued
<1>2. Market!QueuesOf(id) =
        {q \in Sides \X Prices :
           \E e \in Market!ToSet(WaitingIn(book)[q[1]][q[2]]) : e.id = id}
  BY Zenon DEF Market!QueuesOf, Market!Sides, Sides
<1>3. ASSUME NEW s \in Sides, NEW p \in Prices
      PROVE  <<s, p>> \in Market!QueuesOf(id)
               <=> Found(book, id) /\ s = book.orders[id].side /\ p = book.orders[id].price
  <2>1. <<s, p>> \in Market!QueuesOf(id)
          <=> \E e \in Market!ToSet(WaitingIn(book)[s][p]) : e.id = id
    BY <1>2
  <2>2. <<s, p>> \in Market!QueuesOf(id) <=> id \in Elems(book.level[s][PriceIndex(p)].ids)
    BY <1>1, <2>1, NamedInQueue
  <2>3. ASSUME id \in Elems(book.level[s][PriceIndex(p)].ids)
        PROVE  Found(book, id) /\ s = book.orders[id].side /\ p = book.orders[id].price
    BY <1>1, <2>3, SomebodyWaits
  <2>4. ASSUME Found(book, id), s = book.orders[id].side, p = book.orders[id].price
        PROVE  id \in Elems(book.level[s][PriceIndex(p)].ids)
    <3>1. RestsAt(book, id, s, PriceIndex(p)) /\ PriceIndex(p) \in LevelIndex
      BY <2>4, Constants DEF RestsAt
    <3>. QED
      BY <1>1, <3>1, Zenon DEF AllQueued
  <2>. QED
    BY <2>2, <2>3, <2>4
<1>4. \A q \in Market!QueuesOf(id) : \E s \in Sides, p \in Prices : q = <<s, p>>
  BY <1>2
<1>5. Found(book, id) => book.orders[id].side \in Sides /\ book.orders[id].price \in Prices
  BY <1>1, FoundOrder
<1>. HIDE DEF Market!QueuesOf
<1>. QED
  BY <1>3, <1>4, <1>5

LEMMA MarketResting ==
    ASSUME TickSize = 1, EngineInv, Queued
    PROVE  Market!Resting = Resting(book)
BY MarketQueuesOf DEF Market!Resting, Resting

----------------------------------------------------------------------------
(* Every step of the engine is one of the market                            *)

\* No output is full when another order is met.
RoomForEvent == AtOrder => Len(out.events) < MaxEvents

\* Nothing is left over between two events, and the level that is being filled
\* is the best of its side and within the limit.
LevelIsBest ==
    /\ pc = "idle" => remaining = 0
    /\ pc = "fill" =>
         /\ ~Better(Opposite(Side), Limit, matchPrice)
         /\ \A x \in OrderIds :
              Found(book, x) /\ book.orders[x].side = Opposite(Side) =>
                 ~Better(Opposite(Side), book.orders[x].price, matchPrice)

\* A fill moves no order and lets none in.
LEMMA ReduceMovesNobody ==
    ASSUME NEW b \in Books, NEW id \in OrderIds, Found(b, id), NEW quantity \in Amounts,
           NEW x \in OrderIds, Found(Reduce(b, id, quantity), x)
    PROVE  /\ Found(b, x)
           /\ Reduce(b, id, quantity).orders[x].side = b.orders[x].side
           /\ Reduce(b, id, quantity).orders[x].price = b.orders[x].price
<1>. DEFINE c == Reduce(b, id, quantity)
<1>1. CASE quantity >= b.orders[id].quantity
  <2>1. c = TakeOut(b, id)
    BY <1>1 DEF Reduce
  <2>2. c.orders = [b.orders EXCEPT ![id] = Absent]
    BY <2>1, TakeOutEffect
  <2>. HIDE DEF c
  <2>3. Found(c, x)
    BY DEF c
  <2>4. x # id /\ c.orders[x] = b.orders[x]
    BY <2>2, <2>3 DEF Books, Found
  <2>. QED
    BY <2>3, <2>4 DEF Found, c
<1>2. CASE ~(quantity >= b.orders[id].quantity)
  <2>1. quantity < b.orders[id].quantity
    BY <1>2, OrderQuantity DEF Amounts
  <2>2. c = Lessen(b, id, quantity)
    BY <1>2 DEF Reduce
  <2>3. c.orders = [b.orders EXCEPT ![id].quantity = @ - quantity]
    BY <2>1, <2>2, LessenFigures
  <2>. HIDE DEF c
  <2>4. c.orders[x].side = b.orders[x].side /\ c.orders[x].price = b.orders[x].price
    BY <2>3, FoundOrder DEF Books, Order
  <2>5. x # id => c.orders[x] = b.orders[x]
    BY <2>3 DEF Books
  <2>6. Found(c, x)
    BY DEF c
  <2>7. Found(b, x)
    BY <2>5, <2>6 DEF Found
  <2>. QED
    BY <2>4, <2>7 DEF c
<1>. QED
  BY <1>1, <1>2

LEMMA LevelIsBestNext ==
    ASSUME EngineInv, LevelIsBest, BestKnown, NoEmptyOrders, [Next]_vars
    PROVE  LevelIsBest'
<1>1. TypeOK /\ book \in Books
  BY DEF EngineInv, Sound
<1>2. CASE UNCHANGED vars
  BY <1>2 DEF vars, loopVars, LevelIsBest, Side, Limit, Opposite, Better, Found
<1>3. ASSUME TakeSnapshot
      PROVE  LevelIsBest'
  <2>1. /\ pc' = "fill" /\ matchPrice' = book.best[Opposite(Side)] /\ book' = book
        /\ aggressor' = aggressor /\ HasBest(book, Opposite(Side))
        /\ ~Better(Opposite(Side), Limit, book.best[Opposite(Side)])
        /\ pc # "idle"
    BY <1>3 DEF TakeSnapshot, Crosses, bookVars
  <2>2. Opposite(Side) \in Sides
    BY <1>1, <2>1, Running
  <2>3. ASSUME NEW x \in OrderIds, Found(book, x), book.orders[x].side = Opposite(Side)
        PROVE  ~Better(Opposite(Side), book.orders[x].price, book.best[Opposite(Side)])
    <3>1. book.orders[x].quantity > 0
      BY <2>3 DEF NoEmptyOrders, QuantitiesIn
    <3>. QED
      BY <2>2, <2>3, <3>1 DEF BestKnown, BestSound
  <2>4. Side' = Side /\ Limit' = Limit /\ Opposite(Side)' = Opposite(Side)
    BY <2>1 DEF Side, Limit, Opposite
  <2>. QED
    BY <2>1, <2>3, <2>4, Zenon DEF LevelIsBest, Found, Better
<1>4. ASSUME FillResting
      PROVE  LevelIsBest'
  <2>. DEFINE id == snap[pos]
              quantity == FillQuantity(id)
  <2>1. AtOrder /\ pc = "fill"
    BY <1>4 DEF FillResting, AtOrder
  <2>2. id \in OrderIds /\ Found(book, id) /\ remaining \in Amounts
    BY <1>1, <2>1, AtHead DEF RestsAt, TypeOK
  <2>3. quantity \in Amounts
    BY <1>1, <2>2, FoundOrder DEF FillQuantity
  <2>4. /\ book' = Reduce(book, id, quantity) /\ pc' = "fill" /\ aggressor' = aggressor
        /\ matchPrice' = matchPrice
    BY <1>4, <2>1, <2>2 DEF FillResting
  <2>. HIDE DEF id, quantity
  <2>5. Side' = Side /\ Limit' = Limit /\ Opposite(Side)' = Opposite(Side)
    BY <2>4 DEF Side, Limit, Opposite
  <2>6. ASSUME NEW x \in OrderIds, Found(book', x), book'.orders[x].side = Opposite(Side)
        PROVE  ~Better(Opposite(Side), book'.orders[x].price, matchPrice)
    <3>1. /\ Found(book, x) /\ book'.orders[x].side = book.orders[x].side
          /\ book'.orders[x].price = book.orders[x].price
      BY <1>1, <2>2, <2>3, <2>4, <2>6, ReduceMovesNobody
    <3>. QED
      BY <2>1, <2>6, <3>1 DEF LevelIsBest
  <2>7. ~Better(Opposite(Side), Limit, matchPrice)
    BY <2>1 DEF LevelIsBest
  <2>. QED
    BY <2>4, <2>5, <2>6, <2>7, Zenon DEF LevelIsBest, Found, Better
<1>5. ASSUME InsertRemainder \/ PreventSelfTrade
      PROVE  LevelIsBest'
  <2>1. pc' = "idle" /\ remaining' = 0
    BY <1>5 DEF InsertRemainder, PreventSelfTrade, Leave
  <2>. QED
    BY <2>1 DEF LevelIsBest
<1>6. ASSUME pc' = "scan"
      PROVE  LevelIsBest'
  BY <1>6 DEF LevelIsBest
<1>7. ASSUME pc = "idle", UNCHANGED <<pc, loopVars>>
      PROVE  LevelIsBest'
  BY <1>7 DEF LevelIsBest, loopVars
<1>8. LevelDone => pc' = "scan"
  BY DEF LevelDone
<1>9. \A id \in OrderIds : ProcessCancel(id) => pc = "idle" /\ UNCHANGED <<pc, loopVars>>
  BY DEF ProcessCancel
<1>10. \A id \in OrderIds, price \in InputPrices, quantity \in Quantities :
          ProcessModify(id, price, quantity) => pc = "idle" /\ UNCHANGED <<pc, loopVars>>
  BY DEF ProcessModify
<1>11. \A id \in OrderIds, price \in InputPrices, quantity \in Quantities, side \in Sides :
          NewOrder(id, price, quantity, side) => pc' = "scan"
  BY DEF NewOrder
<1>. QED
  BY <1>2, <1>3, <1>4, <1>5, <1>6, <1>7, <1>8, <1>9, <1>10, <1>11, Zenon DEF Next, Step

LEMMA MarketInit == Init => Market!Init
<1>. SUFFICES ASSUME Init
              PROVE  Market!Init
  OBVIOUS
<1>1. \A s \in Sides, p \in Prices : Waiting(book, s, p) = <<>>
  <2>. SUFFICES ASSUME NEW s \in Sides, NEW p \in Prices
                PROVE  Waiting(book, s, p) = <<>>
    OBVIOUS
  <2>1. PriceIndex(p) \in LevelIndex
    BY Constants
  <2>2. book.level[s][PriceIndex(p)].ids = <<>>
    BY <2>1 DEF Init, BookInit, EmptyBook
  <2>. QED
    BY <2>2 DEF Waiting
<1>2. WaitingIn(book) = [s \in Sides |-> [p \in Prices |-> <<>>]]
  BY <1>1 DEF WaitingIn
<1>3. Incoming(aggressor, remaining) = Market!Nobody /\ out = [result |-> "Ok", events |-> <<>>]
  BY DEF Init, Incoming, None, Absent, NoOutput, Market!Nobody
<1>. QED
  BY <1>2, <1>3 DEF Market!Init, Market!Sides, Sides

LEMMA MarketSees ==
    ASSUME EngineInv, pc # "idle"
    PROVE  /\ Incoming(aggressor, remaining) =
                [id |-> aggressor.id, price |-> Limit, quantity |-> remaining, side |-> Side]
           /\ Incoming(aggressor, remaining) # Market!Nobody
           /\ Market!Across = Opposite(Side)
           /\ Side \in Sides /\ Opposite(Side) \in Sides
           /\ aggressor.id \in OrderIds /\ Limit \in Nat /\ remaining \in Amounts
<1>1. Incoming(aggressor, remaining) =
        [id |-> aggressor.id, price |-> Limit, quantity |-> remaining, side |-> Side]
  BY DEF Incoming, Limit, Side
<1>2. /\ Side \in Sides /\ Opposite(Side) \in Sides
      /\ aggressor.id \in OrderIds /\ Limit \in Nat /\ remaining \in Amounts
  BY Running, BookAssumption DEF EngineInv, TypeOK
<1>3. Incoming(aggressor, remaining).side = Side
  BY <1>1
<1>4. Incoming(aggressor, remaining) # Market!Nobody
  BY <1>2, <1>3 DEF Market!Nobody, Sides
<1>5. Market!Across = Opposite(Side)
  BY <1>3 DEF Market!Across, Opposite
<1>. QED
  BY <1>1, <1>2, <1>4, <1>5

LEMMA IdleMarket ==
    ASSUME EngineInv, LevelIsBest, pc = "idle"
    PROVE  Incoming(aggressor, remaining) = Market!Nobody
<1>1. aggressor = None /\ remaining = 0
  BY DEF EngineInv, TypeOK, LevelIsBest
<1>. QED
  BY <1>1 DEF Incoming, None, Absent, Market!Nobody

LEMMA LeaveMarket ==
    ASSUME Leave
    PROVE  Incoming(aggressor, remaining)' = Market!Nobody
<1>1. aggressor' = None /\ remaining' = 0
  BY DEF Leave
<1>. QED
  BY <1>1 DEF Incoming, None, Absent, Market!Nobody

LEMMA MarketArrive ==
    ASSUME EngineInv, LevelIsBest, NEW id \in OrderIds, NEW price \in InputPrices,
           NEW quantity \in Quantities, NEW side \in Sides,
           NewOrder(id, price, quantity, side)
    PROVE  Market!Arrive(id, price, quantity, side)
<1>1. Incoming(aggressor, remaining) = Market!Nobody
  BY IdleMarket DEF NewOrder
<1>2. /\ aggressor' = [id |-> id, order |-> [price |-> price, quantity |-> quantity,
                                             side |-> side]]
      /\ remaining' = quantity /\ book' = book
      /\ out' = [result |-> "Ok", events |-> <<>>]
  BY DEF NewOrder, NoOutput, bookVars
<1>3. Incoming(aggressor, remaining)' =
        [id |-> id, price |-> price, quantity |-> quantity, side |-> side]
  BY <1>2 DEF Incoming
<1>4. WaitingIn(book)' = WaitingIn(book)
  BY <1>2
<1>. QED
  BY <1>1, <1>2, <1>3, <1>4 DEF Market!Arrive

\* Between two visits to the loop conditions the market stands still.
LEMMA MarketStill ==
    ASSUME TakeSnapshot \/ LevelDone \/ UNCHANGED vars
    PROVE  UNCHANGED <<WaitingIn(book), Incoming(aggressor, remaining), out>>
<1>1. book' = book /\ aggressor' = aggressor /\ remaining' = remaining /\ out' = out
  BY DEF TakeSnapshot, LevelDone, vars, bookVars, loopVars
<1>. QED
  BY <1>1

\* The order about to be filled is the counterparty the market names.
LEMMA MarketAtOrder ==
    ASSUME TickSize = 1, EngineInv, LevelIsBest, AtOrder
    PROVE  LET id == snap[pos]
               p == matchPrice
               s == Opposite(Side)
           IN  /\ Market!Marketable
               /\ Market!BestPrice(Market!Across) = p
               /\ Market!Counterparty = [id |-> id, quantity |-> book.orders[id].quantity]
               /\ Market!Related <=> SelfTrade(id)
<1>. DEFINE id == snap[pos]
            p == matchPrice
            s == Opposite(Side)
            w == WaitingIn(book)[s][p]
<1>1. Sound(book) /\ pc = "fill" /\ pc # "idle" /\ remaining > 0 /\ p \in Prices
  BY DEF EngineInv, AtOrder, TypeOK
<1>2. /\ Incoming(aggressor, remaining) =
           [id |-> aggressor.id, price |-> Limit, quantity |-> remaining, side |-> Side]
      /\ Market!Across = s /\ Side \in Sides /\ s \in Sides /\ Limit \in Nat
  BY <1>1, MarketSees
<1>3. /\ 1 \in 1..Len(book.level[s][PriceIndex(p)].ids)
      /\ book.level[s][PriceIndex(p)].ids[1] = id
  BY AtHead
<1>4. w = Waiting(book, s, p)
  BY <1>1, <1>2 DEF WaitingIn
<1>5. w # <<>> /\ Head(w) = [id |-> id, quantity |-> book.orders[id].quantity]
  BY <1>1, <1>2, <1>3, <1>4, WaitingHead
<1>6. /\ Side = "Bid" => s = "Ask"
      /\ Side = "Ask" => s = "Bid"
  BY DEF Opposite
<1>7. ~Better(s, Limit, p)
  BY <1>1 DEF LevelIsBest
<1>. DEFINE W == {r \in Prices : WaitingIn(book)[s][r] # <<>>}
<1>8. \A r \in W : ~Better(s, r, p)
  <2>. SUFFICES ASSUME NEW r \in Prices, WaitingIn(book)[s][r] # <<>>
                PROVE  ~Better(s, r, p)
    OBVIOUS
  <2>1. PICK x : x \in Elems(book.level[s][PriceIndex(r)].ids)
    BY <1>1, <1>2, NonemptyQueue
  <2>2. x \in OrderIds /\ Found(book, x) /\ book.orders[x].side = s /\ book.orders[x].price = r
    BY <1>1, <1>2, <2>1, SomebodyWaits
  <2>. QED
    BY <1>1, <2>2 DEF LevelIsBest
<1>9. p \in W /\ W \in SUBSET Prices
  BY <1>1, <1>5
<1>. HIDE DEF id, p, s, w
<1>10. Market!BestPrice(s) = p
  <2>1. Market!BestPrice(s) = IF s = "Bid" THEN Market!Max(W) ELSE Market!Min(W)
    BY DEF Market!BestPrice
  <2>2. Market!Max(W) = Max(W) /\ Market!Min(W) = Min(W)
    BY Zenon DEF Market!Max, Max, Market!Min, Min
  <2>. HIDE DEF W
  <2>3. p = IF s = "Bid" THEN Max(W) ELSE Min(W)
    BY <1>2, <1>8, <1>9, BestOfPrices
  <2>. QED
    BY <2>1, <2>2, <2>3
<1>. HIDE DEF W
<1>11. Market!Counterparty = [id |-> id, quantity |-> book.orders[id].quantity]
  BY <1>2, <1>5, <1>10 DEF Market!Counterparty, w
<1>12. Market!Marketable
  <2>1. IF Side = "Bid" THEN p <= Limit ELSE p >= Limit
    <3>1. p \in Nat
      BY <1>1, Constants DEF p
    <3>. QED
      BY <1>2, <1>6, <1>7, <3>1 DEF Better, Sides
  <2>2. Incoming(aggressor, remaining).quantity > 0
    BY <1>1, <1>2
  <2>3. /\ Incoming(aggressor, remaining).side = Side
        /\ Incoming(aggressor, remaining).price = Limit
    BY <1>2
  <2>. QED
    BY <1>1, <1>2, <1>5, <2>1, <2>2, <2>3 DEF Market!Marketable, w, p
<1>13. Market!Related <=> SelfTrade(id)
  <2>1. Incoming(aggressor, remaining).id = aggressor.id /\ Market!Counterparty.id = id
    BY <1>2, <1>11
  <2>. QED
    BY <2>1, Zenon DEF Market!Related, SelfTrade
<1>. QED
  BY <1>2, <1>10, <1>11, <1>12, <1>13 DEF id, p, s

\* What is traded leaves the head of the queue with the rest, or takes it away.
LEMMA FillWaits ==
    ASSUME TickSize = 1, NEW b, Sound(b), NEW s \in Sides, NEW p \in Prices,
           NEW id \in OrderIds, NEW quantity \in Amounts, quantity <= b.orders[id].quantity,
           1 \in 1..Len(b.level[s][PriceIndex(p)].ids),
           b.level[s][PriceIndex(p)].ids[1] = id
    PROVE  WaitingIn(Reduce(b, id, quantity)) =
             Replaced(b, s, p,
                IF quantity = b.orders[id].quantity THEN Tail(Waiting(b, s, p))
                ELSE <<[id |-> id, quantity |-> b.orders[id].quantity - quantity]>>
                       \o Tail(Waiting(b, s, p)))
<1>1. Found(b, id) /\ b \in Books
  BY WaitingHead DEF RestsAt, Sound
<1>2. b.orders[id].quantity \in Nat /\ quantity \in Nat
  BY <1>1, OrderQuantity DEF Amounts
<1>3. CASE quantity = b.orders[id].quantity
  <2>1. Reduce(b, id, quantity) = TakeOut(b, id)
    BY <1>1, <1>2, <1>3 DEF Reduce
  <2>. QED
    BY <1>3, <2>1, HeadOutWaits
<1>4. CASE quantity # b.orders[id].quantity
  <2>1. quantity < b.orders[id].quantity /\ ~(quantity >= b.orders[id].quantity)
    BY <1>2, <1>4
  <2>2. Reduce(b, id, quantity) = Lessen(b, id, quantity)
    BY <1>1, <2>1 DEF Reduce
  <2>. QED
    BY <1>4, <2>1, <2>2, HeadLessened
<1>. QED
  BY <1>3, <1>4

LEMMA MarketTrade ==
    ASSUME TickSize = 1, EngineInv, LevelIsBest, RoomForEvent, FillResting
    PROVE  Market!Trade
<1>. DEFINE id == snap[pos]
            p == matchPrice
            s == Opposite(Side)
            q == book.orders[id].quantity
            other == [id |-> id, quantity |-> q]
            quantity == FillQuantity(id)
            w == Waiting(book, s, p)
            in == Incoming(aggressor, remaining)
<1>1. AtOrder /\ Sound(book) /\ book \in Books /\ pc # "idle" /\ p \in Prices
  BY DEF FillResting, AtOrder, EngineInv, Sound, TypeOK
<1>2. /\ Market!Marketable /\ Market!BestPrice(Market!Across) = p
      /\ Market!Counterparty = other /\ (Market!Related <=> SelfTrade(id))
  BY <1>1, MarketAtOrder
<1>3. /\ in = [id |-> aggressor.id, price |-> Limit, quantity |-> remaining, side |-> Side]
      /\ Market!Across = s /\ s \in Sides /\ remaining \in Amounts
  BY <1>1, MarketSees
<1>4. /\ id \in OrderIds /\ Found(book, id)
      /\ 1 \in 1..Len(book.level[s][PriceIndex(p)].ids)
      /\ book.level[s][PriceIndex(p)].ids[1] = id
  BY <1>1, AtHead DEF RestsAt
<1>5. /\ ~SelfTrade(id) /\ book' = Reduce(book, id, quantity)
      /\ remaining' = remaining - quantity /\ aggressor' = aggressor
      /\ out' = [out EXCEPT !.events = Append(@, TradeExecution(p, quantity))]
  BY <1>1, <1>4 DEF FillResting, RoomForEvent, Emit
<1>6. q \in Amounts /\ q \in Nat /\ remaining \in Nat
  BY <1>1, <1>3, <1>4, FoundOrder, OrderQuantity DEF Amounts
<1>7. quantity \in Amounts /\ quantity <= q
  BY <1>3, <1>6 DEF FillQuantity
<1>8. Market!Min({in.quantity, other.quantity}) = quantity
  <2>1. in.quantity = remaining /\ other.quantity = q
    BY <1>3
  <2>2. Min({remaining, q}) = quantity
    <3>1. {remaining, q} \subseteq Nat /\ {remaining, q} # {}
      BY <1>6
    <3>2. Min({remaining, q}) \in {remaining, q} /\ \A y \in {remaining, q} : Min({remaining, q}) <= y
      BY <3>1, MinOfNats
    <3>. QED
      BY <1>6, <3>2 DEF FillQuantity
  <2>3. Market!Min({remaining, q}) = Min({remaining, q})
    BY Zenon DEF Market!Min, Min
  <2>. QED
    BY <2>1, <2>2, <2>3, Zenon
<1>9. WaitingIn(book)' =
        Replaced(book, s, p,
           IF quantity = q THEN Tail(w)
           ELSE <<[id |-> id, quantity |-> q - quantity]>> \o Tail(w))
  <2>. HIDE DEF id, p, s, quantity
  <2>1. WaitingIn(Reduce(book, id, quantity)) =
          Replaced(book, s, p,
             IF quantity = q THEN Tail(w)
             ELSE <<[id |-> id, quantity |-> q - quantity]>> \o Tail(w))
    BY <1>1, <1>3, <1>4, <1>7, FillWaits
  <2>. QED
    BY <1>5, <2>1, Zenon
<1>10. [other EXCEPT !.quantity = @ - quantity] = [id |-> id, quantity |-> q - quantity]
       /\ other.quantity = q
  OBVIOUS
<1>11. Incoming(aggressor, remaining)' = [in EXCEPT !.quantity = @ - quantity]
  <2>1. Incoming(aggressor, remaining)' =
          [id |-> aggressor.id, price |-> Limit, quantity |-> remaining - quantity, side |-> Side]
    BY <1>5 DEF Incoming, Limit, Side
  <2>. QED
    BY <1>3, <2>1
<1>12. WaitingIn(book)[s][p] = w
  BY <1>1, <1>3 DEF WaitingIn
<1>. HIDE DEF id, p, s, q, other, quantity, w, in
<1>13. WaitingIn(book)' =
         [WaitingIn(book) EXCEPT ![Market!Across][p] =
            IF quantity = other.quantity THEN Tail(w)
            ELSE <<[other EXCEPT !.quantity = @ - quantity]>> \o Tail(w)]
  BY <1>3, <1>9, <1>10, Zenon DEF Replaced
<1>14. out' = [out EXCEPT !.events =
                 Append(@, [type |-> "TradeExecution", price |-> p, quantity |-> quantity])]
  BY <1>5 DEF TradeExecution
<1>. DEFINE Traded(price, met, amount, rest) ==
       /\ WaitingIn(book)' = [WaitingIn(book) EXCEPT ![Market!Across][price] =
             IF amount = met.quantity THEN rest
             ELSE <<[met EXCEPT !.quantity = @ - amount]>> \o rest]
       /\ Incoming(aggressor, remaining)' = [in EXCEPT !.quantity = @ - amount]
       /\ out' = [out EXCEPT !.events =
             Append(@, [type |-> "TradeExecution", price |-> price, quantity |-> amount])]
<1>15. Traded(p, other, quantity, Tail(w))
  BY <1>11, <1>13, <1>14, Zenon
<1>16. /\ p = Market!BestPrice(Market!Across) /\ other = Market!Counterparty
       /\ w = WaitingIn(book)[Market!Across][p]
       /\ quantity = Market!Min({in.quantity, other.quantity})
  <2>1. w = WaitingIn(book)[Market!Across][p]
    <3>1. Market!Across = s
      BY <1>3
    <3>. HIDE DEF Market!Across
    <3>. QED
      BY <3>1, <1>12, Zenon
  <2>2. p = Market!BestPrice(Market!Across) /\ other = Market!Counterparty
    BY <1>2, Zenon
  <2>3. quantity = Market!Min({in.quantity, other.quantity})
    BY <1>8, Zenon
  <2>. QED
    BY <2>1, <2>2, <2>3, Zenon
<1>17. /\ Market!Marketable /\ ~Market!Related
       /\ LET price == Market!BestPrice(Market!Across)
              met == Market!Counterparty
          IN  Traded(price, met, Market!Min({in.quantity, met.quantity}),
                     Tail(WaitingIn(book)[Market!Across][price]))
       => Market!Trade
  BY Zenon DEF Market!Trade, in
<1>. HIDE DEF Traded
<1>. QED
  BY <1>2, <1>5, <1>15, <1>16, <1>17

LEMMA MarketStops ==
    ASSUME TickSize = 1, EngineInv, LevelIsBest, RoomForEvent, PreventSelfTrade
    PROVE  Market!StopSelfTrade
<1>1. AtOrder /\ SelfTrade(snap[pos]) /\ Leave /\ book' = book
  BY DEF PreventSelfTrade, bookVars
<1>2. Market!Marketable /\ Market!Related
  BY <1>1, MarketAtOrder
<1>3. out' = [result |-> "STPTriggered",
              events |-> Append(out.events, [type |-> "CancelOrder", price |-> 0, quantity |-> 0])]
  BY <1>1 DEF PreventSelfTrade, RoomForEvent, Emit, CancelAggressor
<1>4. Incoming(aggressor, remaining)' = Market!Nobody
  BY <1>1, LeaveMarket
<1>5. WaitingIn(book)' = WaitingIn(book)
  BY <1>1
<1>. QED
  BY <1>2, <1>3, <1>4, <1>5, Zenon DEF Market!StopSelfTrade

LEMMA MarketSettle ==
    ASSUME TickSize = 1, EngineInv, BestKnown, NoEmptyOrders, Queued, Queued', InsertRemainder
    PROVE  Market!Settle
<1>. DEFINE id == aggressor.id
            s == Opposite(Side)
            order == [aggressor.order EXCEPT !.quantity = remaining]
            in == Incoming(aggressor, remaining)
            status == InsertResult(book, id, order)
<1>1. /\ pc # "idle" /\ pc = "scan" /\ ~Crosses /\ Leave /\ Sound(book) /\ book \in Books
      /\ AllQueued(book)
  BY DEF InsertRemainder, EngineInv, Sound, Queued
<1>2. /\ in = [id |-> id, price |-> Limit, quantity |-> remaining, side |-> Side]
      /\ in # Market!Nobody /\ Market!Across = s
      /\ Side \in Sides /\ s \in Sides /\ id \in OrderIds /\ Limit \in Nat /\ remaining \in Amounts
  BY <1>1, MarketSees
<1>3. aggressor \in Aggressors
  BY <1>1, Running DEF EngineInv
<1>4. order = [price |-> Limit, quantity |-> remaining, side |-> Side]
  BY <1>3 DEF Aggressors, Limit, Side
<1>5. ~Market!Marketable
  <2>1. SUFFICES ASSUME in.quantity > 0, NEW p \in Prices, WaitingIn(book)[s][p] # <<>>,
                        IF in.side = "Bid" THEN p <= in.price ELSE p >= in.price
                 PROVE  FALSE
    BY <1>2, Zenon DEF Market!Marketable
  <2>2. PICK x : x \in Elems(book.level[s][PriceIndex(p)].ids)
    BY <1>1, <1>2, <2>1, NonemptyQueue
  <2>3. x \in OrderIds /\ Found(book, x) /\ book.orders[x].side = s /\ book.orders[x].price = p
    BY <1>1, <1>2, <2>2, SomebodyWaits
  <2>4. remaining > 0 /\ IF Side = "Bid" THEN p <= Limit ELSE p >= Limit
    BY <1>2, <2>1
  <2>5. IF Side = "Bid" THEN Limit < p ELSE Limit > p
    BY <1>1, <2>3, <2>4, CrossedByNone DEF BestKnown
  <2>. QED
    BY <1>2, <2>4, <2>5, Constants
<1>6. Market!Acceptable <=> status = "Ok"
  <2>1. Market!Resting = Resting(book)
    BY MarketResting
  <2>2. Market!Cardinality(Resting(book)) = Cardinality(Resting(book))
    BY Zenon DEF Market!Cardinality, Cardinality
  <2>3. Market!Acceptable <=> /\ Limit \in Prices
                              /\ id \notin Resting(book) \cup ReservedIds
                              /\ Cardinality(Resting(book)) < MaxOrders
    <3>1. in.price = Limit /\ in.id = id
      BY <1>2
    <3>. QED
      BY <2>1, <2>2, <3>1, Zenon DEF Market!Acceptable
  <2>4. Cardinality(Resting(book)) \in Nat /\ MaxOrders \in Nat
    BY RestingFinite, Constants
  <2>5. MapRefuses(book, id) <=> id \in ReservedIds \/ Cardinality(Resting(book)) >= MaxOrders
    BY Zenon DEF MapRefuses, Resting
  <2>6. id \in Resting(book) <=> Found(book, id)
    BY <1>2 DEF Resting
  <2>7. order.price = Limit
    BY <1>4
  <2>8. status = "Ok" <=> Limit \in Prices /\ ~Found(book, id) /\ ~MapRefuses(book, id)
    BY <2>7 DEF InsertResult
  <2>. QED
    BY <2>3, <2>4, <2>5, <2>6, <2>8
<1>7. Incoming(aggressor, remaining)' = Market!Nobody
  BY <1>1, LeaveMarket
<1>8. in.quantity = remaining /\ in.id = id /\ in.price = Limit /\ in.side = Side
  BY <1>2
<1>9. CASE remaining > 0 /\ status = "Ok"
  <2>1. book' = Place(book, id, order) /\ out' = out
    BY <1>9 DEF InsertRemainder, Insert
  <2>2. Limit \in Prices /\ ~Found(book, id)
    BY <1>4, <1>9 DEF InsertResult
  <2>3. order \in Order /\ order.side = Side /\ order.price = Limit /\ order.quantity = remaining
    BY <1>2, <1>4, <2>2 DEF Order
  <2>. HIDE DEF order
  <2>4. AllQueued(Place(book, id, order))
    BY <2>1 DEF Queued, AllQueued, RestsAt, Found
  <2>5. WaitingIn(Place(book, id, order)) =
          Replaced(book, Side, Limit, Append(Waiting(book, Side, Limit),
                                             [id |-> id, quantity |-> order.quantity]))
    BY <1>1, <1>2, <2>2, <2>3, <2>4, PlaceWaits
  <2>6. Waiting(book, Side, Limit) = WaitingIn(book)[Side][Limit]
    BY <1>2, <2>2 DEF WaitingIn
  <2>7. WaitingIn(book)' =
          [WaitingIn(book) EXCEPT ![Side][Limit] =
              Append(WaitingIn(book)[Side][Limit], [id |-> id, quantity |-> remaining])]
    BY <2>1, <2>3, <2>5, <2>6, Zenon DEF Replaced
  <2>8. WaitingIn(book)' =
          [WaitingIn(book) EXCEPT ![in.side][in.price] =
              Append(@, [id |-> in.id, quantity |-> in.quantity])]
    BY <1>8, <2>7, Zenon
  <2>. HIDE DEF in
  <2>. QED
    BY <1>2, <1>5, <1>6, <1>7, <1>8, <1>9, <2>1, <2>8, Zenon DEF Market!Settle, in
<1>10. CASE remaining > 0 /\ status # "Ok"
  <2>1. book' = book /\ out' = [out EXCEPT !.result = "OrderRejected"]
    BY <1>10 DEF InsertRemainder, Insert
  <2>2. WaitingIn(book)' = WaitingIn(book)
    BY <2>1
  <2>. QED
    BY <1>2, <1>5, <1>6, <1>7, <1>8, <1>10, <2>1, <2>2, Zenon DEF Market!Settle
<1>11. CASE ~(remaining > 0)
  <2>1. book' = book /\ out' = out
    BY <1>11 DEF InsertRemainder
  <2>2. WaitingIn(book)' = WaitingIn(book)
    BY <2>1
  <2>. QED
    BY <1>2, <1>5, <1>6, <1>7, <1>8, <1>11, <2>1, <2>2, Zenon DEF Market!Settle
<1>. QED
  BY <1>9, <1>10, <1>11

\* Without an order the queues are those of the book it was taken out of.
LEMMA MarketWithout ==
    ASSUME TickSize = 1, Sound(book), NEW id \in OrderIds, Found(book, id)
    PROVE  WaitingIn(TakeOut(book, id)) = Market!Without(id)
BY TakeOutWaits, Zenon DEF Market!Without, Market!Sides, Sides

LEMMA MarketCancel ==
    ASSUME TickSize = 1, EngineInv, LevelIsBest, Queued,
           NEW id \in OrderIds, ProcessCancel(id)
    PROVE  Market!Cancel(id) \/ UNCHANGED <<WaitingIn(book), Incoming(aggressor, remaining), out>>
<1>1. /\ pc = "idle" /\ Sound(book) /\ book' = Cancel(book, id)
      /\ aggressor' = aggressor /\ remaining' = remaining /\ out' = out
  BY DEF ProcessCancel, CancelOrder, EngineInv, loopVars
<1>2. Incoming(aggressor, remaining) = Market!Nobody
  BY <1>1, IdleMarket
<1>3. Incoming(aggressor, remaining)' = Incoming(aggressor, remaining)
  BY <1>1
<1>4. CASE Found(book, id)
  <2>1. book' = TakeOut(book, id)
    BY <1>1, <1>4 DEF Cancel
  <2>2. WaitingIn(book)' = Market!Without(id)
    BY <1>1, <1>4, <2>1, MarketWithout
  <2>3. id \in Market!Resting
    BY <1>4, MarketResting DEF Resting
  <2>. QED
    BY <1>1, <1>2, <1>3, <2>2, <2>3, Zenon DEF Market!Cancel
<1>5. CASE ~Found(book, id)
  <2>1. book' = book
    BY <1>1, <1>5 DEF Cancel
  <2>. QED
    BY <1>1, <1>3, <2>1
<1>. QED
  BY <1>4, <1>5

LEMMA MarketModify ==
    ASSUME TickSize = 1, EngineInv, LevelIsBest, Queued, Queued',
           NEW id \in OrderIds, NEW price \in InputPrices, NEW quantity \in Quantities,
           ProcessModify(id, price, quantity)
    PROVE  \/ Market!Modify(id, price, quantity)
           \/ UNCHANGED <<WaitingIn(book), Incoming(aggressor, remaining), out>>
<1>1. /\ pc = "idle" /\ Sound(book) /\ book \in Books /\ book' = Modify(book, id, price, quantity)
      /\ aggressor' = aggressor /\ remaining' = remaining /\ out' = out
  BY DEF ProcessModify, ModifyOrder, EngineInv, loopVars, Sound
<1>2. Incoming(aggressor, remaining) = Market!Nobody
  BY <1>1, IdleMarket
<1>3. Incoming(aggressor, remaining)' = Incoming(aggressor, remaining)
  BY <1>1
<1>4. CASE price \in Prices /\ Found(book, id)
  <2>. DEFINE c == TakeOut(book, id)
              order == Updated(book, id, price, quantity)
              side == book.orders[id].side
  <2>1. Sound(c) /\ ~Found(c, id) /\ ~MapRefuses(c, id)
    BY <1>1, <1>4, TakeOutEffect, TakeOutKeepsQueues, TakeOutKeepsMap, TakeOutKeepsTotals
       DEF Sound
  <2>2. /\ order \in Order /\ order.price = price /\ order.quantity = quantity
        /\ order.side = side /\ side \in Sides
    BY <1>1, <1>4, FoundOrder, BookAssumption DEF Order, Updated
  <2>3. book' = Insert(c, id, order)
    BY <1>1, <1>4 DEF Modify
  <2>4. WaitingIn(c) = Market!Without(id)
    BY <1>1, <1>4, MarketWithout
  <2>. HIDE DEF c, order, side
  <2>5. book' = Place(c, id, order)
    BY <1>4, <2>1, <2>2, <2>3 DEF Insert, InsertResult
  <2>6. AllQueued(Place(c, id, order))
    BY <2>5 DEF Queued, AllQueued, RestsAt, Found
  <2>7. WaitingIn(Place(c, id, order)) =
          Replaced(c, side, price, Append(Waiting(c, side, price),
                                          [id |-> id, quantity |-> order.quantity]))
    BY <1>4, <2>1, <2>2, <2>6, PlaceWaits
  <2>8. Waiting(c, side, price) = WaitingIn(c)[side][price]
    BY <1>4, <2>2 DEF WaitingIn
  <2>9. WaitingIn(book)' =
          [Market!Without(id) EXCEPT ![side][price] =
              Append(@, [id |-> id, quantity |-> quantity])]
    BY <2>2, <2>4, <2>5, <2>7, <2>8, Zenon DEF Replaced
  <2>10. id \in Market!Resting
    BY <1>4, MarketResting DEF Resting
  <2>11. (CHOOSE q \in Market!QueuesOf(id) : TRUE)[1] = side
    <3>1. Market!QueuesOf(id) = {<<side, book.orders[id].price>>}
      BY <1>4, MarketQueuesOf DEF side
    <3>2. \A x : (CHOOSE q \in {x} : TRUE) = x
      OBVIOUS
    <3>3. (CHOOSE q \in Market!QueuesOf(id) : TRUE) = <<side, book.orders[id].price>>
      BY <3>1, <3>2, Zenon
    <3>4. <<side, book.orders[id].price>>[1] = side
      OBVIOUS
    <3>. QED
      BY <3>3, <3>4, Zenon
  <2>. QED
    BY <1>1, <1>2, <1>3, <1>4, <2>9, <2>10, <2>11, Zenon DEF Market!Modify
<1>5. CASE ~(price \in Prices /\ Found(book, id))
  <2>1. book' = book
    BY <1>1, <1>5 DEF Modify
  <2>. QED
    BY <1>1, <1>3, <2>1
<1>. QED
  BY <1>4, <1>5

LEMMA MarketStep ==
    ASSUME TickSize = 1, EngineInv, LevelIsBest, BestKnown, NoEmptyOrders, Queued, Queued',
           RoomForEvent, [Next]_vars
    PROVE  [Market!Next]_<<WaitingIn(book), Incoming(aggressor, remaining), out>>
<1>1. CASE TakeSnapshot \/ LevelDone \/ UNCHANGED vars
  BY <1>1, MarketStill
<1>2. CASE FillResting
  BY <1>2, MarketTrade DEF Market!Next
<1>3. CASE PreventSelfTrade
  BY <1>3, MarketStops DEF Market!Next
<1>4. CASE InsertRemainder
  BY <1>4, MarketSettle DEF Market!Next
<1>5. ASSUME NEW id \in OrderIds, ProcessCancel(id)
      PROVE  [Market!Next]_<<WaitingIn(book), Incoming(aggressor, remaining), out>>
  BY <1>5, MarketCancel DEF Market!Next
<1>6. ASSUME NEW id \in OrderIds, NEW price \in InputPrices, NEW quantity \in Quantities,
             ProcessModify(id, price, quantity)
      PROVE  [Market!Next]_<<WaitingIn(book), Incoming(aggressor, remaining), out>>
  BY <1>6, MarketModify DEF Market!Next
<1>7. ASSUME NEW id \in OrderIds, NEW price \in InputPrices, NEW quantity \in Quantities,
             NEW side \in Sides, NewOrder(id, price, quantity, side)
      PROVE  Market!Next
  BY <1>7, MarketArrive DEF Market!Next, Market!Sides, Sides
<1>. QED
  BY <1>1, <1>2, <1>3, <1>4, <1>5, <1>6, <1>7, Zenon DEF Next, Step

\* The engine is price-time priority: every fill is a trade with the order that
\* has waited longest at the best price, and nothing else happens to a queue.
\* It holds as long as no total has wrapped around, no level has been full, no
\* order without quantity rests and no output was full when it was needed.
THEOREM EngineImplementsMarket ==
    ASSUME TickSize = 1
    PROVE  Spec /\ []TotalsFit /\ []RoomForAll /\ []NoEmptyOrders /\ []RoomForEvent
             => ImplementsPriceTimePriority
<1>1. Init => Market!Init /\ LevelIsBest
  <2>1. Init => LevelIsBest
    BY DEF Init, LevelIsBest
  <2>. QED
    BY <2>1, MarketInit
<1>2. EngineInv /\ LevelIsBest /\ BestKnown /\ NoEmptyOrders /\ [Next]_vars => LevelIsBest'
  BY LevelIsBestNext
<1>3. EngineInv /\ LevelIsBest /\ BestKnown /\ NoEmptyOrders /\ Queued /\ Queued'
        /\ RoomForEvent /\ [Next]_vars
      => [Market!Next]_<<WaitingIn(book), Incoming(aggressor, remaining), out>>
  BY MarketStep
<1>. QED
  BY <1>1, <1>2, <1>3, EngineSound, BestKnownAlways, QueuedAlways, PTL
     DEF Spec, ImplementsPriceTimePriority, Market!Spec, Market!vars

\* The same with the two conditions on values taken from the constants: no
\* quantity is 0 where orders are modified, and the largest one, as often as the
\* map has room, stays below the width of a total.  A book of the default 65536
\* orders with quantities below 2^48 meets both.
THEOREM EngineImplementsMarketSmallQuantities ==
    ASSUME TickSize = 1, "ModifyOrder" \in EventTypes => 0 \notin Quantities,
           NEW most \in Nat, Quantities \subseteq 0..most, MaxOrders * most < Word
    PROVE  Spec /\ []RoomForAll /\ []RoomForEvent => ImplementsPriceTimePriority
BY EngineImplementsMarket, TotalsNeverWrapWhileMatching, NoEmptyOrderRests, PTL
=============================================================================
