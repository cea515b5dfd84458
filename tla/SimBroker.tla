----------------------------- MODULE SimBroker -----------------------------
(***************************************************************************)
(* brokers/sim.py: the in-process broker.  Clients place and cancel        *)
(* orders; the host pushes quotes with tick(), which matches every order   *)
(* waiting for that instrument, books the executions on orders, positions  *)
(* and cash, and queues them for whoever reads stream_fills().             *)
(*                                                                         *)
(* tick() and place_order() never suspend, so each is one action.          *)
(*                                                                         *)
(* An order is known by its place in `orders`, the order of placing; the   *)
(* list _pending is always in that order too (place_order appends,         *)
(* cancel_order and tick filter), so it is kept as a function from the     *)
(* orders on it to their bars_remaining.                                   *)
(***************************************************************************)
EXTENDS Trading, SequencesExt

CONSTANTS
  Instruments,    \* instrument keys
  Requests,       \* what clients may ask for
  Prices,         \* the prices a quote may carry
  SessionMode,    \* mode of the broker session
  LatencyBars,    \* config.latency_bars
  MaxQtyPerBar,   \* config.max_qty_per_bar, NoCap where the code has None
  SlippageBps,    \* config.slippage_bps
  BpsUnit,        \* how many bps make the whole price: 10000 in the code
  FeePerShare,    \* config.fee_per_share
  FeeMin,         \* config.fee_min
  StartingCash,   \* config.starting_cash
  MaxOrders       \* bound: orders placed in a behaviour

NoCap == 0

Modes == {"paper", "backtest", "live"}

ASSUME RequestsAssumption == Requests \subseteq Request(Instruments, Modes)

ASSUME ConfigAssumption ==
  /\ IsFiniteSet(Instruments) /\ Prices \subseteq Nat \ {0}
  /\ SessionMode \in Modes
  /\ LatencyBars \in Nat /\ MaxQtyPerBar \in Nat
  /\ BpsUnit \in Nat \ {0} /\ SlippageBps \in 0..BpsUnit
  /\ FeePerShare \in Nat /\ FeeMin \in Nat
  /\ StartingCash \in Int
  /\ MaxOrders \in Nat

VARIABLES
  orders,       \* the orders placed, oldest first
  pending,      \* _pending: waiting order |-> bars_remaining
  positions,    \* _positions
  cash,         \* _account.cash, in price units * BpsUnit
  fills,        \* every execution emitted, oldest first (history)
  streamed,     \* how many of them have left _fill_queue
  cancelled,    \* orders a cancel took off the list (history)
  age           \* bars of its instrument an order has seen (history), capped

brokerVars ==
  <<orders, pending, positions, cash, fills, streamed, cancelled, age>>

\* The history only tells apart "still inside the latency" from "past it".
OldAge == LatencyBars + 1

SimInit ==
  /\ orders = << >>
  /\ pending = << >>
  /\ positions = [i \in Instruments |-> Flat]
  /\ cash = StartingCash
  /\ fills = << >>
  /\ streamed = 0
  /\ cancelled = {}
  /\ age = << >>

-----------------------------------------------------------------------------
(* Placing and cancelling                                                  *)

\* Book `order` as the next one and put it at the end of the pending list.
Accept(order) ==
  LET id == Len(orders) + 1
  IN  /\ orders' = Append(orders, [order EXCEPT !.status = "sent"])
      /\ pending' = [o \in DOMAIN pending \cup {id} |->
                       IF o = id THEN LatencyBars ELSE pending[o]]
      /\ age' = Append(age, 0)

\* place_order: an order of another mode raises, and nothing changes.
PlaceOrder(r) ==
  /\ Len(orders) < MaxOrders
  /\ r.mode = SessionMode
  /\ Accept(NewOrder(r))
  /\ UNCHANGED <<positions, cash, fills, streamed, cancelled>>

\* cancel_order drops the order from the list and touches nothing else: the
\* order keeps the status it had.  An unknown id changes nothing.
CancelOrder(o) ==
  /\ o \in DOMAIN pending
  /\ pending' = [q \in DOMAIN pending \ {o} |-> pending[q]]
  /\ cancelled' = cancelled \cup {o}
  /\ UNCHANGED <<orders, positions, cash, fills, streamed, age>>

-----------------------------------------------------------------------------
(* Matching                                                                *)

\* _apply_slippage, in units of 1/BpsUnit of a price.
Slipped(order, price) ==
  price * (IF order.side = "buy" THEN BpsUnit + SlippageBps
                                 ELSE BpsUnit - SlippageBps)

Crosses(order, price) ==
  \/ order.type = "market"
  \/ /\ order.type = "limit"
     /\ \/ order.side = "buy"  /\ price <= order.limit_price
        \/ order.side = "sell" /\ price >= order.limit_price

FillPrice(order, price) ==
  IF order.type = "market" THEN Slipped(order, price)
                           ELSE order.limit_price * BpsUnit

\* Faulty variant: the cap is taken whole, whatever remains of the order.
FillQtyCapOnly(order) ==
  IF MaxQtyPerBar = NoCap THEN RemainingQty(order) ELSE MaxQtyPerBar

FillQty(order) ==
  IF MaxQtyPerBar = NoCap THEN RemainingQty(order)
                          ELSE Least(RemainingQty(order), MaxQtyPerBar)

Fees(qty) == Greatest(FeeMin, FeePerShare * qty)

FillOf(o, price) ==
  [order_id |-> o, instrument |-> orders[o].instrument, side |-> orders[o].side,
   qty |-> FillQty(orders[o]), price |-> FillPrice(orders[o], price),
   fees |-> Fees(FillQty(orders[o]))]

\* Faulty variant: an order executes on the last bar of its latency already.
MatchedEarly(i, price) ==
  { o \in DOMAIN pending : /\ orders[o].instrument = i
                           /\ pending[o] <= 1
                           /\ Crosses(orders[o], price) }

\* Faulty variant: the loop stops at the newest order it can execute.
MatchedNewestOnly(i, price) ==
  LET due == { o \in DOMAIN pending : /\ orders[o].instrument = i
                                      /\ pending[o] = 0
                                      /\ Crosses(orders[o], price) }
  IN  { o \in due : \A q \in due : q <= o }

\* The pending orders a quote of instrument i at `price` executes.
Matched(i, price) ==
  { o \in DOMAIN pending : /\ orders[o].instrument = i
                           /\ pending[o] = 0
                           /\ Crosses(orders[o], price) }

\* The listing of a set of orders in the order of the pending list.
InListOrder(S) ==
  { s \in [1..Cardinality(S) -> S] : \A j, k \in DOMAIN s : j < k => s[j] < s[k] }

OrderAfter(o, i, price) ==
  IF o \in Matched(i, price)
    THEN Executed(orders[o], FillQty(orders[o]), FillPrice(orders[o], price))
    ELSE orders[o]

\* Faulty variant: the loop keeps every order on the list.
StillPendingAll(i, price) == DOMAIN pending

\* Faulty variant: any execution, complete or not, takes its order off the list.
StillPendingUntouched(i, price) == DOMAIN pending \ Matched(i, price)

\* Still on the list after the loop: everything but the orders it filled.
StillPending(i, price) ==
  { o \in DOMAIN pending :
      o \in Matched(i, price) => OrderAfter(o, i, price).status # "filled" }

\* The positions after the executions `new`, booked one after the other.
BooksAfter(book, new) ==
  LET after[k \in 0..Len(new)] ==
        IF k = 0 THEN book
        ELSE [after[k - 1] EXCEPT ![new[k].instrument] = Apply(@, new[k])]
  IN  after[Len(new)]

\* The cash after them.
CashAfter(balance, new) == balance + Total([k \in DOMAIN new |-> CashFlow(new[k])])

\* tick, for a quote that has a price; one without returns at once.
Tick(i, price) ==
  \E hit \in InListOrder(Matched(i, price)) :
    LET new == [k \in DOMAIN hit |-> FillOf(hit[k], price)]
    IN  /\ orders' = [o \in DOMAIN orders |-> OrderAfter(o, i, price)]
        /\ pending' = [o \in StillPending(i, price) |->
                         IF orders[o].instrument = i /\ pending[o] > 0
                           THEN pending[o] - 1 ELSE pending[o]]
        /\ fills' = fills \o new
        /\ positions' = BooksAfter(positions, new)
        /\ cash' = CashAfter(cash, new)
        /\ age' = [o \in DOMAIN age |->
                     IF o \in DOMAIN pending /\ orders[o].instrument = i
                       THEN Least(age[o] + 1, OldAge) ELSE age[o]]
        /\ UNCHANGED <<streamed, cancelled>>

\* One turn of stream_fills: the oldest queued execution leaves the queue.
StreamFill ==
  /\ streamed < Len(fills)
  /\ streamed' = streamed + 1
  /\ UNCHANGED <<orders, pending, positions, cash, fills, cancelled, age>>

-----------------------------------------------------------------------------

SimNext ==
  \/ \E r \in Requests : PlaceOrder(r)
  \/ \E o \in DOMAIN orders : CancelOrder(o)
  \/ \E i \in Instruments, price \in Prices : Tick(i, price)
  \/ StreamFill

SimSpec == SimInit /\ [][SimNext]_brokerVars

\* The host goes on pushing quotes of every instrument it trades.
SimFairSpec ==
  SimSpec /\ \A i \in Instruments :
               WF_brokerVars(\E price \in Prices : Tick(i, price))

-----------------------------------------------------------------------------
(* Properties                                                              *)

Order ==
  [instrument : Instruments, side : Sides, type : OrderTypes,
   limit_price : Nat, qty : Nat \ {0}, mode : Modes, status : OrderStatuses,
   filled_qty : Nat, cost : Int]

Execution ==
  [order_id : Nat \ {0}, instrument : Instruments, side : Sides,
   qty : Nat \ {0}, price : Int, fees : Nat]

\* The state has the shape the code's types give it: the pending list names
\* placed orders with a countdown within the configured latency, quantities
\* are never negative and every execution is of a positive quantity.
SimTypeOK ==
  /\ orders \in Seq(Order)
  /\ DOMAIN pending \subseteq DOMAIN orders
  /\ pending \in [DOMAIN pending -> 0..LatencyBars]
  /\ age \in Seq(0..OldAge) /\ Len(age) = Len(orders)
  /\ fills \in Seq(Execution)
  /\ streamed \in 0..Len(fills)
  /\ cancelled \subseteq DOMAIN orders

\* No order is lost and none is filled twice over: an order that was placed is
\* either waiting, or filled exactly, or was cancelled; unless it was cancelled, its
\* status says which share of it is filled, and a waiting order always has
\* something to fill.  (A cancelled order should end in CANCELLED, "terminal" by
\* core/orders.py, line 93; cancel_order leaves the status it had.)
BookHoldsOpenOrders ==
  \A o \in DOMAIN orders :
    LET filled == orders[o].filled_qty
    IN  /\ filled <= orders[o].qty
        /\ o \notin cancelled =>
             orders[o].status = IF filled = 0 THEN "sent"
                                ELSE IF filled < orders[o].qty THEN "partially_filled"
                                ELSE "filled"
        /\ o \in DOMAIN pending <=> orders[o].status # "filled" /\ o \notin cancelled

\* The broker keeps the promise of OrderLifecycle: an order is open exactly while
\* it is on the pending list, whatever its status says, and closed it never changes
\* again.
BookView ==
  [o \in DOMAIN orders |->
     [qty |-> orders[o].qty, filled |-> orders[o].filled_qty,
      state |-> IF o \in DOMAIN pending THEN "open" ELSE "closed"]]

Lifecycle == INSTANCE OrderLifecycle WITH book <- BookView

ImplementsLifecycle == Lifecycle!LifecycleSpec

\* Model of latency_bars (docstring of brokers/sim.py): an order executes only
\* on a bar of its own instrument that comes more than LatencyBars bars of that
\* instrument after it was placed.
LatencyRespected ==
  [][\A o \in DOMAIN orders :
       orders'[o].filled_qty # orders[o].filled_qty => age'[o] = OldAge]_brokerVars

\* First come, first served: while an earlier market order of the same
\* instrument waits without an execution, no later one has got any.
QueueOrderRespected ==
  \A earlier \in DOMAIN pending, later \in DOMAIN orders :
    ( /\ earlier < later
      /\ orders[earlier].instrument = orders[later].instrument
      /\ orders[earlier].type = "market"
      /\ orders[earlier].filled_qty = 0 )
    => orders[later].filled_qty = 0

\* What the executions of order o come to, and what they cost; likewise those of
\* instrument i, what they brought in, fees apart, and all fees.
FilledOf(o) ==
  Total([k \in DOMAIN fills |-> IF fills[k].order_id = o THEN fills[k].qty ELSE 0])

CostOf(o) ==
  Total([k \in DOMAIN fills |->
           IF fills[k].order_id = o THEN fills[k].price * fills[k].qty ELSE 0])

HeldOf(i) ==
  Total([k \in DOMAIN fills |-> IF fills[k].instrument = i THEN SignedQty(fills[k]) ELSE 0])

Proceeds(i) ==
  Total([k \in DOMAIN fills |->
           IF fills[k].instrument = i THEN -SignedQty(fills[k]) * fills[k].price ELSE 0])

FeesPaid == Total([k \in DOMAIN fills |-> fills[k].fees])

\* The broker's three ledgers agree with the executions it emitted: each order
\* with the executions that name it (quantity and cost), ...
OrdersReconcile ==
  \A o \in DOMAIN orders :
    orders[o].filled_qty = FilledOf(o) /\ orders[o].cost = CostOf(o)

\* ... each position with its executions: the quantity is their signed sum, and
\* whatever mix of adding, reducing, closing and flipping led to it, profit
\* realised less the cost of what is held is what the executions brought in
\* (Position.apply, "broker-side numbers should always reconcile") ...
PositionsReconcile ==
  \A i \in Instruments :
    /\ positions[i].qty = HeldOf(i)
    /\ Plus(positions[i].realised_pnl, Times(-positions[i].qty, positions[i].avg_price))
         = Whole(Proceeds(i))

\* ... and the account: cash is what it started with, plus the proceeds of every
\* instrument, less the fees of every execution.
CashReconciles ==
  cash = StartingCash + SumFunction([i \in Instruments |-> Proceeds(i)]) - FeesPaid

\* As long as quotes keep coming, a market order is in the end filled, in one
\* execution or in several under the cap, unless it is cancelled first.
MarketOrdersComplete ==
  \A o \in 1..MaxOrders :
    (o \in DOMAIN orders /\ orders[o].type = "market")
      ~> (o \in DOMAIN orders /\ (orders[o].status = "filled" \/ o \in cancelled))

=============================================================================
