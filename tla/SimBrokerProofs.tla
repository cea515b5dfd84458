-------------------------- MODULE SimBrokerProofs --------------------------
(***************************************************************************)
(* What SimBroker guarantees for every configuration, every number of      *)
(* orders and every quote stream, checked by TLAPS.                        *)
(***************************************************************************)
EXTENDS LedgerProofs

(***************************************************************************)
(* The strengthening.  Countdown ties the bars an order has seen to the    *)
(* bars it must still wait, Fifo says that orders for one instrument come  *)
(* out of the latency in the order they went in; neither is visible to a   *)
(* client, and the properties below do not follow without them.            *)
(***************************************************************************)
Countdown ==
  \A o \in DOMAIN pending : pending[o] + age[o] >= LatencyBars

Fifo ==
  \A earlier, later \in DOMAIN pending :
    earlier < later /\ orders[earlier].instrument = orders[later].instrument
      => pending[earlier] <= pending[later]

SimInv ==
  /\ SimTypeOK
  /\ BookHoldsOpenOrders
  /\ Countdown
  /\ Fifo
  /\ QueueOrderRespected

-----------------------------------------------------------------------------
(* Lemmas on the operators                                                 *)

\* A function on an initial segment of the naturals is a sequence.
LEMMA FunctionIsSequence ==
  ASSUME NEW S, NEW n \in Nat, NEW f \in [1..n -> S]
  PROVE  f \in Seq(S) /\ Len(f) = n /\ DOMAIN f = 1..n
OBVIOUS

\* Every request becomes an order that has nothing filled and all to fill.
LEMMA NewOrderType ==
  ASSUME NEW r \in Requests
  PROVE  LET order == [NewOrder(r) EXCEPT !.status = "sent"]
         IN  /\ order \in Order
             /\ order.filled_qty = 0 /\ order.status = "sent"
             /\ order.type = r.type /\ order.instrument = r.instrument
BY RequestsAssumption DEF Request, NewOrder, Order, OrderStatuses

\* An execution takes at least one share and never more than remain.
LEMMA FillQtyBounds ==
  ASSUME NEW order \in Order, order.filled_qty < order.qty
  PROVE  /\ FillQty(order) \in Nat \ {0}
         /\ order.filled_qty + FillQty(order) <= order.qty
BY ConfigAssumption DEF Order, FillQty, RemainingQty, Least, NoCap

\* The fees of an execution are a natural number of money units.
LEMMA FeesType ==
  ASSUME NEW qty \in Nat
  PROVE  Fees(qty) \in Nat
<1>1. FeePerShare * qty \in Nat
  BY ConfigAssumption
<1>. QED
  BY <1>1, ConfigAssumption DEF Fees, Greatest

\* Slippage moves an integer price to an integer number of money units.
LEMMA FillPriceType ==
  ASSUME NEW order \in Order, NEW price \in Prices
  PROVE  FillPrice(order, price) \in Int
<1>1. price * (BpsUnit + SlippageBps) \in Int
  BY ConfigAssumption
<1>2. price * (BpsUnit - SlippageBps) \in Int
  BY ConfigAssumption
<1>3. order.limit_price * BpsUnit \in Int
  BY ConfigAssumption DEF Order
<1>. QED
  BY <1>1, <1>2, <1>3 DEF FillPrice, Slipped

\* Executed books the quantity it is given, and says "filled" exactly when
\* nothing remains.
LEMMA ExecutedType ==
  ASSUME NEW order \in Order, NEW qty \in Nat \ {0}, NEW price \in Int,
         order.filled_qty + qty <= order.qty
  PROVE  LET after == Executed(order, qty, price)
         IN  /\ after \in Order
             /\ after.filled_qty = order.filled_qty + qty
             /\ after.status = IF after.filled_qty < order.qty
                                 THEN "partially_filled" ELSE "filled"
             /\ after.qty = order.qty /\ after.type = order.type
             /\ after.instrument = order.instrument
<1>. DEFINE filled == order.filled_qty + qty
            status == IF order.qty - filled = 0 THEN "filled" ELSE "partially_filled"
            cost == order.cost + price * qty
<1>1. price * qty \in Int
  OBVIOUS
<1>2. cost \in Int /\ filled \in Nat /\ status \in OrderStatuses
  BY <1>1 DEF Order, OrderStatuses
<1>3. status = IF filled < order.qty THEN "partially_filled" ELSE "filled"
  BY DEF Order
<1>4. Executed(order, qty, price) =
        [order EXCEPT !.filled_qty = filled, !.cost = cost, !.status = status]
  BY DEF Executed
<1>. HIDE DEF filled, status, cost
<1>5. Executed(order, qty, price) \in Order
  BY <1>2, <1>4 DEF Order
<1>6. filled = order.filled_qty + qty
  BY DEF filled
<1>7. /\ Executed(order, qty, price).filled_qty = filled
      /\ Executed(order, qty, price).status = status
      /\ Executed(order, qty, price).qty = order.qty
      /\ Executed(order, qty, price).type = order.type
      /\ Executed(order, qty, price).instrument = order.instrument
  BY <1>4 DEF Order
<1>. QED
  BY <1>3, <1>5, <1>6, <1>7

-----------------------------------------------------------------------------
(* What one quote does to one order                                        *)

\* A matched order is one that still waits for shares, and it gets some of
\* them; any other order is left as it was.
LEMMA OrderAfterTick ==
  ASSUME SimInv, NEW i \in Instruments, NEW price \in Prices,
         NEW o \in DOMAIN orders
  PROVE  LET after == OrderAfter(o, i, price)
         IN  /\ after \in Order
             /\ after.qty = orders[o].qty /\ after.type = orders[o].type
             /\ after.instrument = orders[o].instrument
             /\ o \notin Matched(i, price) => after = orders[o]
             /\ o \in Matched(i, price) =>
                  /\ orders[o].filled_qty < after.filled_qty
                  /\ after.filled_qty <= after.qty
                  /\ after.status = IF after.filled_qty < after.qty
                                       THEN "partially_filled" ELSE "filled"
<1>1. orders[o] \in Order
  BY DEF SimInv, SimTypeOK
<1>2. CASE o \notin Matched(i, price)
  BY <1>1, <1>2 DEF OrderAfter
<1>3. CASE o \in Matched(i, price)
  <2>1. o \in DOMAIN pending
    BY <1>3 DEF Matched
  <2>2. orders[o].filled_qty < orders[o].qty
    BY <1>1, <2>1 DEF SimInv, BookHoldsOpenOrders, Order
  <2>3. /\ FillQty(orders[o]) \in Nat \ {0}
        /\ orders[o].filled_qty + FillQty(orders[o]) <= orders[o].qty
    BY <1>1, <2>2, FillQtyBounds
  <2>4. FillPrice(orders[o], price) \in Int
    BY <1>1, FillPriceType
  <2>5. OrderAfter(o, i, price) =
          Executed(orders[o], FillQty(orders[o]), FillPrice(orders[o], price))
    BY <1>3 DEF OrderAfter
  <2>6. LET after == OrderAfter(o, i, price)
        IN  /\ after \in Order
            /\ after.filled_qty = orders[o].filled_qty + FillQty(orders[o])
            /\ after.status = IF after.filled_qty < orders[o].qty
                                THEN "partially_filled" ELSE "filled"
            /\ after.qty = orders[o].qty /\ after.type = orders[o].type
            /\ after.instrument = orders[o].instrument
    <3>. DEFINE qty == FillQty(orders[o])
                cost == FillPrice(orders[o], price)
    <3>1. qty \in Nat \ {0} /\ cost \in Int /\ orders[o].filled_qty + qty <= orders[o].qty
      BY <2>3, <2>4
    <3>2. OrderAfter(o, i, price) = Executed(orders[o], qty, cost)
      BY <2>5
    <3>. HIDE DEF qty, cost
    <3>3. LET after == Executed(orders[o], qty, cost)
          IN  /\ after \in Order
              /\ after.filled_qty = orders[o].filled_qty + qty
              /\ after.status = IF after.filled_qty < orders[o].qty
                                  THEN "partially_filled" ELSE "filled"
              /\ after.qty = orders[o].qty /\ after.type = orders[o].type
              /\ after.instrument = orders[o].instrument
      BY <1>1, <3>1, ExecutedType
    <3>. QED
      BY <3>2, <3>3 DEF qty
  <2>7. orders[o].filled_qty \in Nat
    BY <1>1 DEF Order
  <2>. QED
    BY <1>3, <2>3, <2>6, <2>7
<1>. QED
  BY <1>2, <1>3

\* The executions of a quote are listed once each and are well formed.
LEMMA EmittedType ==
  ASSUME SimInv, NEW i \in Instruments, NEW price \in Prices,
         NEW hit \in InListOrder(Matched(i, price))
  PROVE  [k \in DOMAIN hit |-> FillOf(hit[k], price)] \in Seq(Execution)
<1>. DEFINE M == Matched(i, price)
<1>1. /\ Len(orders) \in Nat /\ DOMAIN orders = 1..Len(orders)
      /\ M \subseteq 1..Len(orders) /\ M \subseteq DOMAIN pending
  BY LenProperties DEF SimInv, SimTypeOK, Matched
<1>2. Cardinality(M) \in Nat
  <2>1. IsFiniteSet(1..Len(orders))
    BY <1>1, FS_Interval
  <2>2. IsFiniteSet(M)
    BY <1>1, <2>1, FS_Subset
  <2>. QED
    BY <2>2, FS_CardinalityType
<1>3. hit \in [1..Cardinality(M) -> M]
  BY DEF InListOrder
<1>4. ASSUME NEW o \in M
      PROVE  FillOf(o, price) \in Execution
  <2>1. orders[o] \in Order /\ o \in Nat \ {0}
    BY <1>1 DEF SimInv, SimTypeOK
  <2>2. orders[o].filled_qty < orders[o].qty
    BY <1>1, <2>1 DEF SimInv, BookHoldsOpenOrders, Order
  <2>3. FillQty(orders[o]) \in Nat \ {0}
    BY <2>1, <2>2, FillQtyBounds
  <2>4. FillPrice(orders[o], price) \in Int
    BY <2>1, FillPriceType
  <2>5. Fees(FillQty(orders[o])) \in Nat
    BY <2>3, FeesType
  <2>. QED
    BY <2>1, <2>3, <2>4, <2>5 DEF FillOf, Execution, Order
<1>5. [k \in DOMAIN hit |-> FillOf(hit[k], price)] \in [1..Cardinality(M) -> Execution]
  BY <1>3, <1>4
<1>. QED
  BY <1>2, <1>5, FunctionIsSequence

-----------------------------------------------------------------------------
(* The invariant is inductive                                              *)

LEMMA InvInit == SimInit => SimInv
<1>. SUFFICES ASSUME SimInit PROVE SimInv
  OBVIOUS
<1>1. Len(<< >>) = 0 /\ DOMAIN << >> = {}
  OBVIOUS
<1>2. SimTypeOK
  BY <1>1 DEF SimInit, SimTypeOK
<1>. QED
  BY <1>1, <1>2
     DEF SimInit, SimInv, BookHoldsOpenOrders, Countdown, Fifo, QueueOrderRespected

LEMMA InvPlaceOrder ==
  ASSUME SimInv, NEW r \in Requests, PlaceOrder(r)
  PROVE  SimInv'
<1>. DEFINE id == Len(orders) + 1
            order == [NewOrder(r) EXCEPT !.status = "sent"]
<1>1. /\ orders \in Seq(Order) /\ Len(orders) \in Nat
      /\ DOMAIN orders = 1..Len(orders) /\ id \in Nat /\ id \notin DOMAIN orders
      /\ age \in Seq(0..OldAge) /\ Len(age) = Len(orders)
      /\ DOMAIN age = DOMAIN orders
      /\ OldAge \in Nat /\ LatencyBars \in Nat /\ 0 \in 0..OldAge
  BY LenProperties, ConfigAssumption DEF SimInv, SimTypeOK, OldAge
<1>2. /\ order \in Order /\ order.filled_qty = 0 /\ order.status = "sent"
      /\ order.qty \in Nat \ {0}
  BY NewOrderType DEF Order
<1>3. orders' = Append(orders, order) /\ age' = Append(age, 0)
  BY DEF PlaceOrder, Accept
<1>. HIDE DEF order
<1>4. /\ orders' \in Seq(Order) /\ Len(orders') = id /\ DOMAIN orders' = 1..id
      /\ \A o \in DOMAIN orders : orders'[o] = orders[o]
      /\ orders'[id] = order
  BY <1>1, <1>2, <1>3, AppendProperties
<1>5. /\ age' \in Seq(0..OldAge) /\ Len(age') = id
      /\ \A o \in DOMAIN orders : age'[o] = age[o]
      /\ age'[id] = 0
  BY <1>1, <1>3, AppendProperties
<1>6. /\ DOMAIN pending' = DOMAIN pending \cup {id}
      /\ \A o \in DOMAIN pending : pending'[o] = pending[o]
      /\ pending'[id] = LatencyBars
      /\ pending' \in [DOMAIN pending' -> 0..LatencyBars]
      /\ DOMAIN pending \subseteq DOMAIN orders
      /\ \A o \in DOMAIN pending : pending[o] \in 0..LatencyBars
  <2>1. pending' = [o \in DOMAIN pending \cup {id} |->
                     IF o = id THEN LatencyBars ELSE pending[o]]
    BY DEF PlaceOrder, Accept
  <2>2. /\ DOMAIN pending \subseteq DOMAIN orders
        /\ \A o \in DOMAIN pending : pending[o] \in 0..LatencyBars
    BY DEF SimInv, SimTypeOK
  <2>. QED
    BY <1>1, <2>1, <2>2
<1>7. UNCHANGED <<fills, streamed, cancelled>>
  BY DEF PlaceOrder
<1>8. SimTypeOK'
  BY <1>1, <1>4, <1>5, <1>6, <1>7 DEF SimInv, SimTypeOK
<1>9. BookHoldsOpenOrders'
  <2>. SUFFICES ASSUME NEW o \in 1..id
                PROVE  LET filled == orders'[o].filled_qty
                       IN  /\ filled <= orders'[o].qty
                           /\ o \notin cancelled =>
                                orders'[o].status =
                                  IF filled = 0 THEN "sent"
                                  ELSE IF filled < orders'[o].qty THEN "partially_filled"
                                  ELSE "filled"
                           /\ o \in DOMAIN pending' <=>
                                orders'[o].status # "filled" /\ o \notin cancelled
    BY <1>4, <1>7 DEF BookHoldsOpenOrders
  <2>1. CASE o \in DOMAIN orders
    BY <1>1, <1>4, <1>6, <2>1 DEF SimInv, BookHoldsOpenOrders
  <2>2. CASE o = id
    <3>1. id \notin cancelled
      BY <1>1 DEF SimInv, SimTypeOK
    <3>. QED
      BY <1>2, <1>4, <1>6, <2>2, <3>1
  <2>. QED
    BY <1>1, <2>1, <2>2
<1>10. Countdown'
  BY <1>1, <1>5, <1>6 DEF SimInv, Countdown
<1>11. Fifo'
  BY <1>1, <1>4, <1>6 DEF SimInv, Fifo
<1>12. QueueOrderRespected'
  <2>. SUFFICES ASSUME NEW earlier \in DOMAIN pending', NEW later \in 1..id,
                       earlier < later,
                       orders'[earlier].instrument = orders'[later].instrument,
                       orders'[earlier].type = "market",
                       orders'[earlier].filled_qty = 0
                PROVE  orders'[later].filled_qty = 0
    BY <1>4 DEF QueueOrderRespected
  <2>1. CASE later = id
    BY <1>2, <1>4, <2>1
  <2>2. CASE later \in DOMAIN orders
    <3>1. earlier # id
      BY <1>1, <2>2
    <3>2. earlier \in DOMAIN pending /\ earlier \in DOMAIN orders
      BY <1>6, <3>1
    <3>. QED
      BY <1>4, <2>2, <3>2 DEF SimInv, QueueOrderRespected
  <2>3. later = id \/ later \in DOMAIN orders
    BY <1>1
  <2>. QED
    BY <2>1, <2>2, <2>3
<1>. QED
  BY <1>8, <1>9, <1>10, <1>11, <1>12 DEF SimInv

LEMMA InvCancelOrder ==
  ASSUME SimInv, NEW o \in DOMAIN orders, CancelOrder(o)
  PROVE  SimInv'
<1>1. /\ DOMAIN pending' = DOMAIN pending \ {o}
      /\ \A q \in DOMAIN pending' : pending'[q] = pending[q]
      /\ pending' \in [DOMAIN pending' -> 0..LatencyBars]
  BY DEF SimInv, SimTypeOK, CancelOrder
<1>2. UNCHANGED <<orders, fills, streamed, age>> /\ cancelled' = cancelled \cup {o}
  BY DEF CancelOrder
<1>3. SimTypeOK'
  BY <1>1, <1>2 DEF SimInv, SimTypeOK
<1>4. BookHoldsOpenOrders'
  BY <1>1, <1>2 DEF SimInv, BookHoldsOpenOrders
<1>5. Countdown' /\ Fifo' /\ QueueOrderRespected'
  BY <1>1, <1>2 DEF SimInv, Countdown, Fifo, QueueOrderRespected
<1>. QED
  BY <1>3, <1>4, <1>5 DEF SimInv

LEMMA InvStreamFill ==
  ASSUME SimInv, StreamFill
  PROVE  SimInv'
<1>1. UNCHANGED <<orders, pending, fills, cancelled, age>>
  BY DEF StreamFill
<1>2. streamed' \in 0..Len(fills)
  BY LenProperties DEF SimInv, SimTypeOK, StreamFill
<1>3. SimTypeOK'
  BY <1>1, <1>2 DEF SimInv, SimTypeOK
<1>. QED
  BY <1>1, <1>3
     DEF SimInv, BookHoldsOpenOrders, Countdown, Fifo, QueueOrderRespected

\* Everything the steps below need to know of a quote: which orders it can
\* touch, what it leaves on the list, and how it moves the countdowns.
LEMMA TickEffect ==
  ASSUME SimInv, NEW i \in Instruments, NEW price \in Prices, Tick(i, price)
  PROVE  /\ orders' \in Seq(Order) /\ Len(orders') = Len(orders)
         /\ DOMAIN orders' = DOMAIN orders /\ DOMAIN orders = 1..Len(orders)
         /\ Len(orders) \in Nat
         /\ \A o \in DOMAIN orders : orders'[o] = OrderAfter(o, i, price)
         /\ DOMAIN pending' = StillPending(i, price)
         /\ pending' \in [DOMAIN pending' -> 0..LatencyBars]
         /\ \A o \in DOMAIN pending' :
              pending'[o] = IF orders[o].instrument = i /\ pending[o] > 0
                              THEN pending[o] - 1 ELSE pending[o]
         /\ age' \in Seq(0..OldAge) /\ Len(age') = Len(orders)
         /\ \A o \in DOMAIN orders :
              age'[o] = IF o \in DOMAIN pending /\ orders[o].instrument = i
                          THEN Least(age[o] + 1, OldAge) ELSE age[o]
         /\ fills' \in Seq(Execution) /\ Len(fills) <= Len(fills')
         /\ UNCHANGED <<streamed, cancelled>>
<1>1. PICK hit \in InListOrder(Matched(i, price)) :
        /\ orders' = [o \in DOMAIN orders |-> OrderAfter(o, i, price)]
        /\ pending' = [o \in StillPending(i, price) |->
                         IF orders[o].instrument = i /\ pending[o] > 0
                           THEN pending[o] - 1 ELSE pending[o]]
        /\ fills' = fills \o [k \in DOMAIN hit |-> FillOf(hit[k], price)]
        /\ age' = [o \in DOMAIN age |->
                     IF o \in DOMAIN pending /\ orders[o].instrument = i
                       THEN Least(age[o] + 1, OldAge) ELSE age[o]]
        /\ UNCHANGED <<streamed, cancelled>>
  BY DEF Tick
<1>2. /\ orders \in Seq(Order) /\ Len(orders) \in Nat /\ DOMAIN orders = 1..Len(orders)
      /\ age \in Seq(0..OldAge) /\ Len(age) = Len(orders) /\ DOMAIN age = DOMAIN orders
      /\ OldAge \in Nat /\ LatencyBars \in Nat
      /\ \A o \in DOMAIN orders : age[o] \in 0..OldAge
      /\ \A o \in DOMAIN pending : pending[o] \in 0..LatencyBars
  <2>1. /\ orders \in Seq(Order) /\ age \in Seq(0..OldAge) /\ Len(age) = Len(orders)
        /\ \A o \in DOMAIN pending : pending[o] \in 0..LatencyBars
    BY DEF SimInv, SimTypeOK
  <2>2. OldAge \in Nat /\ LatencyBars \in Nat
    BY ConfigAssumption DEF OldAge
  <2>3. Len(orders) \in Nat /\ DOMAIN orders = 1..Len(orders)
    BY <2>1, LenProperties
  <2>4. DOMAIN age = 1..Len(orders) /\ \A o \in 1..Len(orders) : age[o] \in 0..OldAge
    BY <2>1, LenProperties, ElementOfSeq
  <2>. QED
    BY <2>1, <2>2, <2>3, <2>4
<1>3. orders' \in Seq(Order) /\ Len(orders') = Len(orders) /\ DOMAIN orders' = DOMAIN orders
  <2>1. orders' \in [1..Len(orders) -> Order]
    BY <1>1, <1>2, OrderAfterTick
  <2>. QED
    BY <1>2, <2>1, FunctionIsSequence
<1>4. age' \in Seq(0..OldAge) /\ Len(age') = Len(orders)
  <2>1. age' \in [1..Len(orders) -> 0..OldAge]
    BY <1>1, <1>2 DEF Least
  <2>. QED
    BY <1>2, <2>1, FunctionIsSequence
<1>5. DOMAIN pending' = StillPending(i, price) /\ StillPending(i, price) \subseteq DOMAIN pending
  BY <1>1 DEF StillPending
<1>6. pending' \in [DOMAIN pending' -> 0..LatencyBars]
  BY <1>1, <1>2, <1>5
<1>7. fills' \in Seq(Execution) /\ Len(fills) <= Len(fills')
  <2>. DEFINE new == [k \in DOMAIN hit |-> FillOf(hit[k], price)]
  <2>1. new \in Seq(Execution)
    BY EmittedType
  <2>2. fills \in Seq(Execution) /\ fills' = fills \o new
    BY <1>1 DEF SimInv, SimTypeOK
  <2>. HIDE DEF new
  <2>3. fills \o new \in Seq(Execution) /\ Len(fills \o new) = Len(fills) + Len(new)
    BY <2>1, <2>2, ConcatProperties
  <2>4. Len(fills) \in Nat /\ Len(new) \in Nat
    BY <2>1, <2>2, LenProperties
  <2>. QED
    BY <2>2, <2>3, <2>4
<1>. QED
  BY <1>1, <1>2, <1>3, <1>4, <1>5, <1>6, <1>7

LEMMA InvTick ==
  ASSUME SimInv, NEW i \in Instruments, NEW price \in Prices, Tick(i, price)
  PROVE  SimInv'
<1>. DEFINE M == Matched(i, price)
<1>1. /\ DOMAIN orders' = DOMAIN orders
      /\ DOMAIN pending' = StillPending(i, price)
      /\ DOMAIN pending' \subseteq DOMAIN pending /\ DOMAIN pending \subseteq DOMAIN orders
      /\ DOMAIN orders \subseteq Nat
  <2>1. /\ DOMAIN orders' = DOMAIN orders /\ DOMAIN orders = 1..Len(orders)
        /\ DOMAIN pending' = StillPending(i, price)
    BY TickEffect
  <2>2. DOMAIN pending \subseteq DOMAIN orders /\ 1..Len(orders) \subseteq Nat
    BY DEF SimInv, SimTypeOK
  <2>3. StillPending(i, price) \subseteq DOMAIN pending
    BY DEF StillPending
  <2>. QED
    BY <2>1, <2>2, <2>3
<1>2. \A o \in DOMAIN orders :
        /\ orders[o] \in Order /\ orders'[o] \in Order
        /\ orders'[o].qty = orders[o].qty /\ orders'[o].type = orders[o].type
        /\ orders'[o].instrument = orders[o].instrument
        /\ o \notin M => orders'[o] = orders[o]
        /\ o \in M => /\ orders[o].filled_qty < orders'[o].filled_qty
                      /\ orders'[o].filled_qty <= orders'[o].qty
                      /\ orders'[o].status = IF orders'[o].filled_qty < orders'[o].qty
                                               THEN "partially_filled" ELSE "filled"
  BY TickEffect, OrderAfterTick DEF SimInv, SimTypeOK
<1>3. /\ \A o \in DOMAIN pending : pending[o] \in 0..LatencyBars
      /\ \A o \in DOMAIN orders : age[o] \in 0..OldAge
      /\ LatencyBars \in Nat /\ OldAge = LatencyBars + 1
  BY ConfigAssumption, LenProperties DEF SimInv, SimTypeOK, OldAge
<1>4. SimTypeOK'
  <2>1. streamed' \in 0..Len(fills')
    BY TickEffect, LenProperties DEF SimInv, SimTypeOK
  <2>2. DOMAIN pending' \subseteq DOMAIN orders' /\ cancelled' \subseteq DOMAIN orders'
    BY <1>1, TickEffect DEF SimInv, SimTypeOK
  <2>. QED
    BY <2>1, <2>2, TickEffect DEF SimTypeOK
<1>5. BookHoldsOpenOrders'
  <2>. SUFFICES ASSUME NEW o \in DOMAIN orders
                PROVE  LET filled == orders'[o].filled_qty
                       IN  /\ filled <= orders'[o].qty
                           /\ o \notin cancelled' =>
                                orders'[o].status =
                                  IF filled = 0 THEN "sent"
                                  ELSE IF filled < orders'[o].qty THEN "partially_filled"
                                  ELSE "filled"
                           /\ o \in DOMAIN pending' <=>
                                orders'[o].status # "filled" /\ o \notin cancelled'
    BY <1>1 DEF BookHoldsOpenOrders
  <2>1. cancelled' = cancelled /\ orders'[o] = OrderAfter(o, i, price)
    BY TickEffect
  <2>2. CASE o \in M
    <3>1. o \in DOMAIN pending
      BY <2>2 DEF Matched
    <3>2. o \notin cancelled
      BY <3>1 DEF SimInv, BookHoldsOpenOrders
    <3>3. o \in DOMAIN pending' <=> orders'[o].status # "filled"
      BY <1>1, <2>1, <2>2, <3>1 DEF StillPending
    <3>4. orders'[o].filled_qty # 0
      BY <1>2, <2>2 DEF Order
    <3>. QED
      BY <1>2, <2>1, <2>2, <3>2, <3>3, <3>4
  <2>3. CASE o \notin M
    <3>1. o \in DOMAIN pending' <=> o \in DOMAIN pending
      BY <1>1, <2>3 DEF StillPending
    <3>. QED
      BY <1>2, <2>1, <2>3, <3>1 DEF SimInv, BookHoldsOpenOrders
  <2>. QED
    BY <2>2, <2>3
<1>6. Countdown'
  <2>. SUFFICES ASSUME NEW o \in DOMAIN pending'
                PROVE  pending'[o] + age'[o] >= LatencyBars
    BY DEF Countdown
  <2>1. o \in DOMAIN pending /\ o \in DOMAIN orders
    BY <1>1
  <2>2. pending[o] + age[o] >= LatencyBars
    BY <2>1 DEF SimInv, Countdown
  <2>3. /\ pending'[o] = IF orders[o].instrument = i /\ pending[o] > 0
                           THEN pending[o] - 1 ELSE pending[o]
        /\ age'[o] = IF orders[o].instrument = i THEN Least(age[o] + 1, OldAge) ELSE age[o]
    BY <2>1, TickEffect
  <2>. QED
    BY <1>3, <2>1, <2>2, <2>3 DEF Least
<1>7. Fifo'
  <2>. SUFFICES ASSUME NEW earlier \in DOMAIN pending', NEW later \in DOMAIN pending',
                       earlier < later,
                       orders'[earlier].instrument = orders'[later].instrument
                PROVE  pending'[earlier] <= pending'[later]
    BY DEF Fifo
  <2>1. /\ earlier \in DOMAIN pending /\ later \in DOMAIN pending
        /\ orders[earlier].instrument = orders[later].instrument
    BY <1>1, <1>2
  <2>2. pending[earlier] <= pending[later]
    BY <2>1 DEF SimInv, Fifo
  <2>3. /\ pending'[earlier] = IF orders[earlier].instrument = i /\ pending[earlier] > 0
                                 THEN pending[earlier] - 1 ELSE pending[earlier]
        /\ pending'[later] = IF orders[later].instrument = i /\ pending[later] > 0
                               THEN pending[later] - 1 ELSE pending[later]
    BY TickEffect
  <2>4. pending[earlier] \in Nat /\ pending[later] \in Nat
    BY <1>3, <2>1
  <2>5. CASE orders[later].instrument = i
    BY <2>1, <2>2, <2>3, <2>4, <2>5
  <2>6. CASE orders[later].instrument # i
    BY <2>1, <2>2, <2>3, <2>6
  <2>. QED
    BY <2>5, <2>6
<1>8. QueueOrderRespected'
  <2>. SUFFICES ASSUME NEW earlier \in DOMAIN pending', NEW later \in DOMAIN orders,
                       earlier < later,
                       orders'[earlier].instrument = orders'[later].instrument,
                       orders'[earlier].type = "market",
                       orders'[earlier].filled_qty = 0
                PROVE  orders'[later].filled_qty = 0
    BY <1>1 DEF QueueOrderRespected
  <2>1. earlier \in DOMAIN pending /\ earlier \in DOMAIN orders
    BY <1>1
  <2>2. earlier \notin M
    BY <1>2, <2>1 DEF Order
  <2>3. /\ orders[earlier].instrument = orders[later].instrument
        /\ orders[earlier].type = "market" /\ orders[earlier].filled_qty = 0
    BY <1>2, <2>1, <2>2
  <2>4. later \notin M
    <3>. SUFFICES ASSUME later \in M PROVE FALSE
      OBVIOUS
    <3>1. /\ later \in DOMAIN pending /\ pending[later] = 0
          /\ orders[later].instrument = i
      BY DEF Matched
    <3>2. pending[earlier] = 0
      BY <1>3, <2>1, <2>3, <3>1 DEF SimInv, Fifo
    <3>. QED
      BY <2>1, <2>2, <2>3, <3>1, <3>2 DEF Matched, Crosses
  <2>. QED
    BY <1>2, <2>1, <2>3, <2>4 DEF SimInv, QueueOrderRespected
<1>. QED
  BY <1>4, <1>5, <1>6, <1>7, <1>8 DEF SimInv

LEMMA InvNext == SimInv /\ [SimNext]_brokerVars => SimInv'
<1>. SUFFICES ASSUME SimInv, [SimNext]_brokerVars PROVE SimInv'
  OBVIOUS
<1>1. CASE \E r \in Requests : PlaceOrder(r)
  BY <1>1, InvPlaceOrder
<1>2. CASE \E o \in DOMAIN orders : CancelOrder(o)
  BY <1>2, InvCancelOrder
<1>3. CASE \E i \in Instruments, price \in Prices : Tick(i, price)
  BY <1>3, InvTick
<1>4. CASE StreamFill
  BY <1>4, InvStreamFill
<1>5. CASE UNCHANGED brokerVars
  BY <1>5 DEF brokerVars, SimInv, SimTypeOK, BookHoldsOpenOrders, Countdown, Fifo,
              QueueOrderRespected
<1>. QED
  BY <1>1, <1>2, <1>3, <1>4, <1>5 DEF SimNext

-----------------------------------------------------------------------------
(* Theorems                                                                *)

\* The inductive invariant holds of every behaviour of the broker.
THEOREM Inductive == SimSpec => []SimInv
BY InvInit, InvNext, PTL DEF SimSpec

\* brokers/sim.py never leaves the shape its types describe; in particular
\* every execution tick emits is of at least one share.
THEOREM TypeInvariant == SimSpec => []SimTypeOK
<1>1. SimInv => SimTypeOK
  BY DEF SimInv
<1>. QED
  BY <1>1, Inductive, PTL

\* _pending holds exactly the orders neither filled nor cancelled, whose status
\* says what is filled, and no order is filled beyond its quantity.
THEOREM BookIsExact == SimSpec => []BookHoldsOpenOrders
<1>1. SimInv => BookHoldsOpenOrders
  BY DEF SimInv
<1>. QED
  BY <1>1, Inductive, PTL

\* Market orders for one instrument start to execute in the order of placing,
\* under any latency and any cap.
THEOREM FirstComeFirstServed == SimSpec => []QueueOrderRespected
<1>1. SimInv => QueueOrderRespected
  BY DEF SimInv
<1>. QED
  BY <1>1, Inductive, PTL

\* No order executes before its latency has passed.
THEOREM LatencyHolds == SimSpec => LatencyRespected
<1>. DEFINE Waited == \A o \in DOMAIN orders :
              orders'[o].filled_qty # orders[o].filled_qty => age'[o] = OldAge
<1>1. SimInv /\ [SimNext]_brokerVars => [Waited]_brokerVars
  <2>. SUFFICES ASSUME SimInv, SimNext, NEW o \in DOMAIN orders,
                       orders'[o].filled_qty # orders[o].filled_qty
                PROVE  age'[o] = OldAge
    OBVIOUS
  <2>1. PICK i \in Instruments, price \in Prices : Tick(i, price)
    <3>1. ASSUME NEW r \in Requests, PlaceOrder(r)
          PROVE  orders'[o] = orders[o]
      <4>1. /\ orders \in Seq(Order) /\ o \in 1..Len(orders)
            /\ [NewOrder(r) EXCEPT !.status = "sent"] \in Order
        BY NewOrderType, LenProperties DEF SimInv, SimTypeOK
      <4>2. orders' = Append(orders, [NewOrder(r) EXCEPT !.status = "sent"])
        BY <3>1 DEF PlaceOrder, Accept
      <4>. QED
        BY <4>1, <4>2, AppendProperties
    <3>2. ASSUME NEW q \in DOMAIN orders, CancelOrder(q)
          PROVE  orders' = orders
      BY <3>2 DEF CancelOrder
    <3>3. StreamFill => orders' = orders
      BY DEF StreamFill
    <3>. QED
      BY <3>1, <3>2, <3>3 DEF SimNext
  <2>2. o \in Matched(i, price)
    BY <2>1, TickEffect, OrderAfterTick
  <2>3. /\ o \in DOMAIN pending /\ pending[o] = 0 /\ orders[o].instrument = i
    BY <2>2 DEF Matched
  <2>4. age'[o] = Least(age[o] + 1, OldAge)
    BY <2>1, <2>3, TickEffect
  <2>5. age[o] \in 0..OldAge /\ LatencyBars \in Nat
    <3>1. age \in Seq(0..OldAge) /\ o \in 1..Len(age)
      BY LenProperties DEF SimInv, SimTypeOK
    <3>. QED
      BY <3>1, ElementOfSeq, ConfigAssumption
  <2>6. pending[o] + age[o] >= LatencyBars
    BY <2>3 DEF SimInv, Countdown
  <2>. QED
    BY <2>3, <2>4, <2>5, <2>6 DEF Least, OldAge
<1>. QED
  BY <1>1, Inductive, PTL DEF SimSpec, LatencyRespected

\* The broker implements the abstract order lifecycle: an order stays open until
\* it is filled in full or withdrawn, its fill only grows while it is open, and
\* nothing happens to it afterwards.
THEOREM RefinesLifecycle == SimSpec => ImplementsLifecycle
<1>1. SimInit => Lifecycle!LifecycleInit
  BY DEF SimInit, Lifecycle!LifecycleInit, BookView
<1>2. SimInv /\ SimInv' /\ [SimNext]_brokerVars => [Lifecycle!LifecycleNext]_BookView
  <2>. SUFFICES ASSUME SimInv, SimInv', [SimNext]_brokerVars
                PROVE  Lifecycle!LifecycleNext \/ BookView' = BookView
    OBVIOUS
  <2>1. /\ orders \in Seq(Order) /\ Len(orders) \in Nat /\ DOMAIN orders = 1..Len(orders)
        /\ orders' \in Seq(Order) /\ Len(orders') \in Nat /\ DOMAIN orders' = 1..Len(orders')
    BY LenProperties DEF SimInv, SimTypeOK
  <2>2. Len(BookView) = Len(orders) /\ Len(BookView') = Len(orders')
    BY <2>1, FunctionIsSequence DEF BookView
  <2>3. CASE \E r \in Requests : PlaceOrder(r)
    <3>1. PICK r \in Requests : PlaceOrder(r)
      BY <2>3
    <3>. DEFINE order == [NewOrder(r) EXCEPT !.status = "sent"]
                id == Len(orders) + 1
    <3>2. order \in Order /\ order.filled_qty = 0
      BY NewOrderType
    <3>3. orders' = Append(orders, order) /\ DOMAIN pending' = DOMAIN pending \cup {id}
      BY <3>1 DEF PlaceOrder, Accept
    <3>. HIDE DEF order
    <3>4. /\ Len(orders') = id /\ orders'[id] = order
          /\ \A o \in DOMAIN orders : orders'[o] = orders[o]
      BY <2>1, <3>2, <3>3, AppendProperties
    <3>5. \A o \in DOMAIN BookView : BookView'[o] = BookView[o]
      BY <2>1, <3>3, <3>4 DEF BookView
    <3>6. BookView'[id].filled = 0 /\ BookView'[id].state = "open"
      BY <2>1, <3>2, <3>3, <3>4 DEF BookView
    <3>. QED
      BY <2>2, <3>4, <3>5, <3>6 DEF Lifecycle!LifecycleNext, Lifecycle!Accepted
  <2>4. CASE \E o \in DOMAIN orders : CancelOrder(o)
    <3>1. PICK o \in DOMAIN orders : CancelOrder(o)
      BY <2>4
    <3>2. orders' = orders /\ o \in DOMAIN pending /\ DOMAIN pending' = DOMAIN pending \ {o}
      BY <3>1 DEF CancelOrder
    <3>3. BookView[o].state = "open" /\ o \in DOMAIN BookView
      BY <3>2 DEF BookView
    <3>4. BookView' = [BookView EXCEPT ![o].state = "closed"]
      BY <3>2 DEF BookView
    <3>. QED
      BY <3>3, <3>4 DEF Lifecycle!LifecycleNext, Lifecycle!Withdrawn
  <2>5. CASE \E i \in Instruments, price \in Prices : Tick(i, price)
    <3>1. PICK i \in Instruments, price \in Prices : Tick(i, price)
      BY <2>5
    <3>2. DOMAIN orders' = DOMAIN orders /\ Len(orders') = Len(orders)
      BY <3>1, TickEffect
    <3>3. ASSUME NEW o \in DOMAIN orders
          PROVE  \/ BookView'[o] = BookView[o]
                 \/ Lifecycle!Progressed(BookView[o], BookView'[o])
      <4>1. orders'[o] = OrderAfter(o, i, price) /\ DOMAIN pending' = StillPending(i, price)
        BY <3>1, TickEffect
      <4>2. /\ BookView[o] = [qty |-> orders[o].qty, filled |-> orders[o].filled_qty,
                              state |-> IF o \in DOMAIN pending THEN "open" ELSE "closed"]
            /\ BookView'[o] = [qty |-> orders'[o].qty, filled |-> orders'[o].filled_qty,
                               state |-> IF o \in DOMAIN pending' THEN "open" ELSE "closed"]
        BY <3>2 DEF BookView
      <4>3. CASE o \notin Matched(i, price)
        <5>1. orders'[o] = orders[o]
          BY <4>1, <4>3, OrderAfterTick
        <5>2. o \in DOMAIN pending' <=> o \in DOMAIN pending
          BY <4>1, <4>3 DEF StillPending
        <5>. QED
          BY <4>2, <5>1, <5>2
      <4>4. CASE o \in Matched(i, price)
        <5>1. /\ orders[o].filled_qty < orders'[o].filled_qty
              /\ orders'[o].filled_qty <= orders'[o].qty
              /\ orders'[o].qty = orders[o].qty
              /\ orders'[o].status = IF orders'[o].filled_qty < orders'[o].qty
                                       THEN "partially_filled" ELSE "filled"
          BY <4>1, <4>4, OrderAfterTick
        <5>2. o \in DOMAIN pending
          BY <4>4 DEF Matched
        <5>3. o \in DOMAIN pending' <=> orders'[o].status # "filled"
          BY <4>1, <4>4, <5>2 DEF StillPending
        <5>4. o \in DOMAIN pending' <=> orders'[o].filled_qty < orders'[o].qty
          BY <5>1, <5>3
        <5>. QED
          BY <4>2, <5>1, <5>2, <5>4 DEF Lifecycle!Progressed
      <4>. QED
        BY <4>3, <4>4
    <3>4. DOMAIN BookView = DOMAIN orders
      BY DEF BookView
    <3>. QED
      BY <2>2, <3>2, <3>3, <3>4 DEF Lifecycle!LifecycleNext, Lifecycle!Executions
  <2>6. CASE StreamFill \/ UNCHANGED brokerVars
    BY <2>6 DEF StreamFill, brokerVars, BookView
  <2>. QED
    BY <2>3, <2>4, <2>5, <2>6 DEF SimNext
<1>. QED
  BY <1>1, <1>2, Inductive, PTL
     DEF SimSpec, ImplementsLifecycle, Lifecycle!LifecycleSpec

-----------------------------------------------------------------------------
(* The ledgers reconcile                                                   *)

\* What an execution counts for on order o: shares, and what they cost.
SharesOf(o) == [e \in Fill |-> IF e.order_id = o THEN e.qty ELSE 0]

PaidFor(o) == [e \in Fill |-> IF e.order_id = o THEN e.price * e.qty ELSE 0]

LEMMA SharesType ==
  ASSUME NEW o
  PROVE  SharesOf(o) \in [Fill -> Int] /\ PaidFor(o) \in [Fill -> Int]
<1>1. ASSUME NEW e \in Fill PROVE e.qty \in Int /\ e.price * e.qty \in Int
  <2>1. PICK q \in Int, p \in Int : q = e.qty /\ p = e.price
    BY DEF Fill
  <2>2. p * q \in Int
    OBVIOUS
  <2>. QED  BY <2>1, <2>2
<1>. QED
  BY <1>1 DEF SharesOf, PaidFor

\* Every execution names an order placed, and each order adds up to those that name it.
\* Without the first part a new order could come with executions of its own.
OrdersTally ==
  /\ \A k \in DOMAIN fills : fills[k].order_id \in DOMAIN orders
  /\ \A o \in DOMAIN orders :
       /\ orders[o].filled_qty = Over(SharesOf(o), fills)
       /\ orders[o].cost = Over(PaidFor(o), fills)

LedgerInv == Reconciled /\ OrdersTally

LEMMA ExecutionsAreFills ==
  ASSUME NEW list \in Seq(Execution)
  PROVE  list \in Seq(Fill)
<1>1. Execution \subseteq Fill
  BY DEF Execution, Fill
<1>. QED
  BY <1>1

\* No execution names an order, so none adds to it.
LEMMA OverNone ==
  ASSUME NEW list \in Seq(Fill), NEW o, \A k \in DOMAIN list : list[k].order_id # o
  PROVE  Over(SharesOf(o), list) = 0 /\ Over(PaidFor(o), list) = 0
<1>1. PICK n \in Nat : n = Len(list) /\ DOMAIN list = 1..n /\ \A k \in 1..n : list[k] \in Fill
  BY LenProperties
<1>2. ASSUME NEW k \in 1..Len(list)
      PROVE  SharesOf(o)[list[k]] = 0 /\ PaidFor(o)[list[k]] = 0
  BY <1>1 DEF SharesOf, PaidFor
<1>3. 0 \notin 1..Len(list)
  BY <1>1
<1>4. Over(SharesOf(o), list) = IF 0 \in 1..Len(list) THEN SharesOf(o)[list[0]] ELSE 0
  BY <1>2, SharesType, OverOne
<1>5. Over(PaidFor(o), list) = IF 0 \in 1..Len(list) THEN PaidFor(o)[list[0]] ELSE 0
  BY <1>2, SharesType, OverOne
<1>. QED
  BY <1>3, <1>4, <1>5

\* What a quote emits: one execution of each order it matches, for what that order gets.
LEMMA EmittedTally ==
  ASSUME SimInv, NEW i \in Instruments, NEW price \in Prices,
         NEW hit \in InListOrder(Matched(i, price)),
         NEW new, new = [k \in DOMAIN hit |-> FillOf(hit[k], price)]
  PROVE  /\ new \in Seq(Fill)
         /\ \A k \in DOMAIN new : new[k].order_id \in DOMAIN orders
         /\ \A o \in DOMAIN orders :
              /\ Over(SharesOf(o), new) =
                   IF o \in Matched(i, price) THEN FillQty(orders[o]) ELSE 0
              /\ Over(PaidFor(o), new) =
                   IF o \in Matched(i, price)
                     THEN FillPrice(orders[o], price) * FillQty(orders[o]) ELSE 0
<1>1. new \in Seq(Fill)
  BY EmittedType, ExecutionsAreFills
<1>2. PICK M : M = Matched(i, price)
  OBVIOUS
<1>3. M \subseteq DOMAIN orders /\ M \subseteq Int /\ IsFiniteSet(M)
  <2>1. Len(orders) \in Nat /\ DOMAIN orders = 1..Len(orders)
    BY LenProperties DEF SimInv, SimTypeOK
  <2>2. M \subseteq DOMAIN orders
    BY <1>2 DEF SimInv, SimTypeOK, Matched
  <2>3. IsFiniteSet(1..Len(orders))
    BY <2>1, FS_Interval
  <2>. QED  BY <2>1, <2>2, <2>3, FS_Subset
<1>4. PICK n \in Nat : /\ n = Cardinality(M) /\ hit \in [1..n -> M]
                       /\ \A j, k \in 1..n : hit[j] = hit[k] => j = k
                       /\ \A o \in M : \E k \in 1..n : hit[k] = o
  BY <1>2, <1>3, ListedOnce
<1>5. /\ DOMAIN new = 1..n /\ Len(new) = n
      /\ \A k \in 1..n : new[k] = FillOf(hit[k], price) /\ new[k] \in Fill /\ hit[k] \in M
  <2>1. new = [k \in 1..n |-> FillOf(hit[k], price)]
    BY <1>4
  <2>2. DOMAIN new = 1..n
    BY <2>1
  <2>3. Len(new) = n
    BY <1>1, <2>2, LenProperties
  <2>4. \A k \in 1..n : new[k] \in Fill
    BY <1>1, <2>3, LenProperties, ElementOfSeq
  <2>. QED  BY <1>4, <2>1, <2>2, <2>3, <2>4
<1>6. \A k \in 1..n : new[k].order_id = hit[k]
  BY <1>5 DEF FillOf
<1>7. ASSUME NEW o \in DOMAIN orders, o \in M
      PROVE  /\ Over(SharesOf(o), new) = FillQty(orders[o])
             /\ Over(PaidFor(o), new) = FillPrice(orders[o], price) * FillQty(orders[o])
  <2>1. PICK at \in 1..n : hit[at] = o
    BY <1>4, <1>7
  <2>2. ASSUME NEW k \in 1..Len(new), k # at
        PROVE  SharesOf(o)[new[k]] = 0 /\ PaidFor(o)[new[k]] = 0
    <3>1. new[k].order_id # o /\ new[k] \in Fill
      BY <1>4, <1>5, <1>6, <2>1, <2>2
    <3>. QED  BY <3>1 DEF SharesOf, PaidFor
  <2>3. at \in Nat /\ at \in 1..Len(new)
    BY <1>5
  <2>4. Over(SharesOf(o), new) = SharesOf(o)[new[at]]
    <3>1. Over(SharesOf(o), new) = IF at \in 1..Len(new) THEN SharesOf(o)[new[at]] ELSE 0
      BY <1>1, <2>2, <2>3, SharesType, OverOne
    <3>. QED  BY <2>3, <3>1
  <2>5. Over(PaidFor(o), new) = PaidFor(o)[new[at]]
    <3>1. Over(PaidFor(o), new) = IF at \in 1..Len(new) THEN PaidFor(o)[new[at]] ELSE 0
      BY <1>1, <2>2, <2>3, SharesType, OverOne
    <3>. QED  BY <2>3, <3>1
  <2>6. /\ new[at].order_id = o /\ new[at].qty = FillQty(orders[o])
        /\ new[at].price = FillPrice(orders[o], price) /\ new[at] \in Fill
    BY <1>5, <2>1 DEF FillOf
  <2>. QED  BY <2>4, <2>5, <2>6 DEF SharesOf, PaidFor
<1>8. ASSUME NEW o \in DOMAIN orders, o \notin M
      PROVE  Over(SharesOf(o), new) = 0 /\ Over(PaidFor(o), new) = 0
  <2>1. \A k \in DOMAIN new : new[k].order_id # o
    BY <1>5, <1>6, <1>8
  <2>. QED  BY <1>1, <2>1, OverNone
<1>9. \A k \in DOMAIN new : new[k].order_id \in DOMAIN orders
  BY <1>3, <1>5, <1>6
<1>. QED
  BY <1>1, <1>2, <1>7, <1>8, <1>9

LEMMA LedgersTick ==
  ASSUME SimInv, LedgerInv, NEW i \in Instruments, NEW price \in Prices, Tick(i, price)
  PROVE  LedgerInv'
<1>1. PICK hit \in InListOrder(Matched(i, price)) :
        LET new == [k \in DOMAIN hit |-> FillOf(hit[k], price)]
        IN  /\ orders' = [o \in DOMAIN orders |-> OrderAfter(o, i, price)]
            /\ fills' = fills \o new
            /\ positions' = BooksAfter(positions, new)
            /\ cash' = CashAfter(cash, new)
  BY DEF Tick
<1>2. PICK new : new = [k \in DOMAIN hit |-> FillOf(hit[k], price)]
  OBVIOUS
<1>3. /\ orders' = [o \in DOMAIN orders |-> OrderAfter(o, i, price)]
      /\ fills' = fills \o new
      /\ positions' = BooksAfter(positions, new)
      /\ cash' = CashAfter(cash, new)
  BY <1>1, <1>2
<1>4. /\ new \in Seq(Fill)
      /\ \A k \in DOMAIN new : new[k].order_id \in DOMAIN orders
      /\ \A o \in DOMAIN orders :
           /\ Over(SharesOf(o), new) =
                IF o \in Matched(i, price) THEN FillQty(orders[o]) ELSE 0
           /\ Over(PaidFor(o), new) =
                IF o \in Matched(i, price)
                  THEN FillPrice(orders[o], price) * FillQty(orders[o]) ELSE 0
  BY <1>2, EmittedTally
<1>5. fills \in Seq(Fill) /\ Reconciled'
  BY <1>3, <1>4, ReconciledTick DEF LedgerInv, Reconciled
<1>6. ASSUME NEW o \in DOMAIN orders
      PROVE  /\ orders'[o].filled_qty = Over(SharesOf(o), fills')
             /\ orders'[o].cost = Over(PaidFor(o), fills')
  <2>1. /\ Over(SharesOf(o), fills') = orders[o].filled_qty + Over(SharesOf(o), new)
        /\ Over(PaidFor(o), fills') = orders[o].cost + Over(PaidFor(o), new)
    <3>1. Over(SharesOf(o), fills \o new) = Over(SharesOf(o), fills) + Over(SharesOf(o), new)
      BY <1>4, <1>5, SharesType, OverJoined
    <3>2. Over(PaidFor(o), fills \o new) = Over(PaidFor(o), fills) + Over(PaidFor(o), new)
      BY <1>4, <1>5, SharesType, OverJoined
    <3>. QED  BY <1>3, <3>1, <3>2 DEF LedgerInv, OrdersTally
  <2>2. orders'[o] = OrderAfter(o, i, price) /\ orders[o] \in Order
    BY <1>3 DEF SimInv, SimTypeOK
  <2>3. CASE o \in Matched(i, price)
    <3>1. PICK order, q, p : /\ order = orders[o] /\ order \in Order
                             /\ q = FillQty(orders[o]) /\ p = FillPrice(orders[o], price)
      BY <2>2
    <3>2. orders'[o] = Executed(order, q, p)
      BY <2>2, <2>3, <3>1 DEF OrderAfter
    <3>3. Executed(order, q, p).filled_qty = order.filled_qty + q
          /\ Executed(order, q, p).cost = order.cost + p * q
      BY DEF Executed, Order
    <3>. QED  BY <1>4, <2>1, <2>3, <3>1, <3>2, <3>3
  <2>4. CASE o \notin Matched(i, price)
    <3>1. orders'[o] = orders[o] /\ orders[o].filled_qty \in Int /\ orders[o].cost \in Int
      BY <2>2, <2>4 DEF OrderAfter, Order
    <3>. QED  BY <1>4, <2>1, <2>4, <3>1
  <2>. QED  BY <2>3, <2>4
<1>7. ASSUME NEW k \in DOMAIN fills' PROVE fills'[k].order_id \in DOMAIN orders'
  <2>1. PICK n \in Nat, m \in Nat : /\ n = Len(fills) /\ DOMAIN fills = 1..n
                                    /\ m = Len(new) /\ DOMAIN new = 1..m
    BY <1>4, <1>5, LenProperties
  <2>2. /\ Len(fills \o new) = Len(fills) + Len(new) /\ fills \o new \in Seq(Fill)
        /\ \A j \in 1..(Len(fills) + Len(new)) :
             (fills \o new)[j] = IF j <= Len(fills) THEN fills[j] ELSE new[j - Len(fills)]
    BY <1>4, <1>5, ConcatProperties
  <2>3. k \in 1..(Len(fills) + Len(new))
    BY <1>3, <2>2, LenProperties
  <2>4. fills'[k] = IF k <= Len(fills) THEN fills[k] ELSE new[k - Len(fills)]
    BY <1>3, <2>2, <2>3
  <2>5. k <= n => k \in DOMAIN fills
    BY <2>1, <2>3
  <2>6. ~(k <= n) => k - n \in DOMAIN new
    BY <2>1, <2>3
  <2>7. DOMAIN orders' = DOMAIN orders
    BY <1>3
  <2>. QED  BY <1>4, <2>1, <2>4, <2>5, <2>6, <2>7 DEF LedgerInv, OrdersTally
<1>. QED
  BY <1>3, <1>5, <1>6, <1>7 DEF LedgerInv, OrdersTally

LEMMA LedgersPlace ==
  ASSUME SimInv, LedgerInv, NEW r \in Requests, PlaceOrder(r)
  PROVE  LedgerInv'
<1>1. PICK order : order = [NewOrder(r) EXCEPT !.status = "sent"]
  OBVIOUS
<1>2. order \in Order /\ order.filled_qty = 0 /\ order.cost = 0
  <2>1. order \in Order /\ order.filled_qty = 0
    BY <1>1, NewOrderType
  <2>. QED  BY <1>1, <2>1 DEF NewOrder
<1>3. PICK n \in Nat : n = Len(orders) /\ DOMAIN orders = 1..n /\ orders \in Seq(Order)
  BY LenProperties DEF SimInv, SimTypeOK
<1>4. orders' = Append(orders, order) /\ UNCHANGED <<positions, cash, fills>>
  BY <1>1 DEF PlaceOrder, Accept
<1>5. /\ DOMAIN orders' = 1..(n + 1) /\ orders'[n + 1] = order
      /\ \A o \in DOMAIN orders : orders'[o] = orders[o]
  BY <1>2, <1>3, <1>4, AppendProperties, LenProperties
<1>6. Reconciled'
  BY <1>4, ReconciledSame DEF LedgerInv
<1>7. \A k \in DOMAIN fills' : fills'[k].order_id \in DOMAIN orders'
  BY <1>3, <1>4, <1>5 DEF LedgerInv, OrdersTally
<1>8. Over(SharesOf(n + 1), fills) = 0 /\ Over(PaidFor(n + 1), fills) = 0
  <2>1. \A k \in DOMAIN fills : fills[k].order_id # n + 1
    BY <1>3 DEF LedgerInv, OrdersTally
  <2>. QED  BY <2>1, OverNone DEF LedgerInv, Reconciled
<1>9. ASSUME NEW o \in DOMAIN orders'
      PROVE  /\ orders'[o].filled_qty = Over(SharesOf(o), fills')
             /\ orders'[o].cost = Over(PaidFor(o), fills')
  <2>1. o \in DOMAIN orders \/ o = n + 1
    BY <1>3, <1>5
  <2>2. CASE o \in DOMAIN orders
    BY <1>4, <1>5, <2>2 DEF LedgerInv, OrdersTally
  <2>3. CASE o = n + 1
    BY <1>2, <1>4, <1>5, <1>8, <2>3
  <2>. QED  BY <2>1, <2>2, <2>3
<1>. QED
  BY <1>6, <1>7, <1>9 DEF LedgerInv, OrdersTally

LEMMA LedgersInit == SimInit => LedgerInv
<1>. SUFFICES ASSUME SimInit PROVE LedgerInv
  OBVIOUS
<1>1. DOMAIN orders = {} /\ DOMAIN fills = {}
  BY DEF SimInit
<1>. QED
  BY <1>1, ReconciledInit DEF LedgerInv, OrdersTally

LEMMA LedgersNext == SimInv /\ LedgerInv /\ [SimNext]_brokerVars => LedgerInv'
<1>. SUFFICES ASSUME SimInv, LedgerInv, [SimNext]_brokerVars PROVE LedgerInv'
  OBVIOUS
<1>1. ASSUME UNCHANGED <<orders, positions, cash, fills>> PROVE LedgerInv'
  <2>1. Reconciled'
    BY <1>1, ReconciledSame DEF LedgerInv
  <2>2. OrdersTally'
    BY <1>1 DEF LedgerInv, OrdersTally
  <2>. QED  BY <2>1, <2>2 DEF LedgerInv
<1>2. ASSUME NEW r \in Requests, PlaceOrder(r) PROVE LedgerInv'
  BY <1>2, LedgersPlace
<1>3. ASSUME NEW o \in DOMAIN orders, CancelOrder(o) PROVE LedgerInv'
  BY <1>1, <1>3 DEF CancelOrder
<1>4. ASSUME NEW i \in Instruments, NEW price \in Prices, Tick(i, price) PROVE LedgerInv'
  BY <1>4, LedgersTick
<1>5. CASE StreamFill
  BY <1>1, <1>5 DEF StreamFill
<1>6. CASE UNCHANGED brokerVars
  BY <1>1, <1>6 DEF brokerVars
<1>. QED
  BY <1>2, <1>3, <1>4, <1>5, <1>6 DEF SimNext

\* Orders, positions and cash are what the executions come to, in every behaviour.
THEOREM LedgersKept == SimSpec => []LedgerInv
BY LedgersInit, LedgersNext, Inductive, PTL DEF SimSpec

\* Every order's filled quantity and cost are those of the executions that name it: tick
\* books each execution on its order once, under any cap and any number of bars.
THEOREM OrdersAreReconciled == SimSpec => []OrdersReconcile
<1>1. LedgerInv => OrdersReconcile
  <2>. SUFFICES ASSUME LedgerInv, NEW o \in DOMAIN orders
                PROVE  orders[o].filled_qty = FilledOf(o) /\ orders[o].cost = CostOf(o)
    BY DEF OrdersReconcile
  <2>1. \A k \in DOMAIN fills : fills[k] \in Fill
    BY DEF LedgerInv, Reconciled
  <2>2. [k \in DOMAIN fills |-> IF fills[k].order_id = o THEN fills[k].qty ELSE 0]
          = [k \in DOMAIN fills |-> SharesOf(o)[fills[k]]]
    BY <2>1 DEF SharesOf
  <2>3. [k \in DOMAIN fills |-> IF fills[k].order_id = o
                                  THEN fills[k].price * fills[k].qty ELSE 0]
          = [k \in DOMAIN fills |-> PaidFor(o)[fills[k]]]
    BY <2>1 DEF PaidFor
  <2>4. FilledOf(o) = Over(SharesOf(o), fills) /\ CostOf(o) = Over(PaidFor(o), fills)
    BY <2>2, <2>3 DEF FilledOf, CostOf, Over
  <2>. QED  BY <2>4 DEF LedgerInv, OrdersTally
<1>. QED
  BY <1>1, LedgersKept, PTL

\* Every position holds what was bought less what was sold, and whatever mix of adding,
\* reducing, closing and flipping led to it, profit realised less the cost of what is held
\* is what the executions brought in.
THEOREM PositionsAreReconciled == SimSpec => []PositionsReconcile
<1>1. LedgerInv => PositionsReconcile
  BY ReconciledMeans DEF LedgerInv
<1>. QED
  BY <1>1, LedgersKept, PTL

\* The account's cash is what it started with, plus what the executions brought in for
\* every instrument, less every fee.
THEOREM CashIsReconciled == SimSpec => []CashReconciles
<1>1. LedgerInv => CashReconciles
  BY ReconciledMeans DEF LedgerInv
<1>. QED
  BY <1>1, LedgersKept, PTL

=============================================================================
