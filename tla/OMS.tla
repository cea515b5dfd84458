-------------------------------- MODULE OMS --------------------------------
(***************************************************************************)
(* oms/manager.py: the order manager in front of a SimBroker.              *)
(*                                                                         *)
(* submit() runs an order through the risk engine and hands it to the      *)
(* broker; with this broker place_order never suspends, so the whole call  *)
(* is one step.  on_fill() books an execution the broker reported.         *)
(*                                                                         *)
(* The Order the manager registers is the very object the broker holds on  *)
(* its pending list: `orders` is one variable that both write.             *)
(***************************************************************************)
EXTENDS SimBroker, RiskEngine

VARIABLES
  registry,        \* OMS.orders: the ids registered
  oms_positions,   \* OMS.positions
  sent_at,         \* when each order that passed the checks did (history)
  crowded          \* an order was sent while another was in flight (history)

omsOwn == <<registry, oms_positions, sent_at, crowded>>

omsVars == <<brokerVars, riskVars, omsOwn>>

OMSInit ==
  /\ SimInit
  /\ RiskInit
  /\ registry = {}
  /\ oms_positions = [i \in Instruments |-> Flat]
  /\ sent_at = << >> /\ crowded = FALSE

-----------------------------------------------------------------------------
(* Submitting                                                              *)

\* A refused order is registered as rejected and never reaches the broker.
Refuse(order) ==
  /\ orders' = Append(orders, [order EXCEPT !.status = "rejected"])
  /\ age' = Append(age, 0)
  /\ UNCHANGED <<pending, sent_at, crowded>>

Send(order) ==
  /\ Accept(order)
  /\ sent_at' = Append(sent_at, now)
  /\ crowded' = (crowded \/ pending # << >> \/ streamed < Len(fills))

\* OMS.submit.  The broker has set the status to "sent" by the time the
\* manager looks, so its own NEW -> SENT assignment finds nothing to do.
Submit(r) ==
  LET order == NewOrder(r)
  IN  /\ Len(orders) < MaxOrders
      /\ window' = WindowAfter(order, SessionMode, oms_positions)
      /\ IF Passes(order, SessionMode, oms_positions) THEN Send(order)
                                                      ELSE Refuse(order)
      /\ registry' = registry \cup {Len(orders) + 1}
      /\ UNCHANGED <<positions, cash, fills, streamed, cancelled,
                     daily_realised_pnl, now, oms_positions>>

-----------------------------------------------------------------------------
(* Executions                                                              *)

SumOfFractions(f) == FoldFunction(Plus, Whole(0), f)

\* Faulty variant: an execution of an order already terminal is taken for a
\* repetition and dropped whole.
PositionsAfterFillSkipping(fill) ==
  IF fill.order_id \in registry /\ IsTerminal(orders[fill.order_id])
    THEN oms_positions
    ELSE [oms_positions EXCEPT ![fill.instrument] = Apply(@, fill)]

PositionsAfterFill(fill) ==
  [oms_positions EXCEPT ![fill.instrument] = Apply(@, fill)]

\* OMS.on_fill: the order if it is known, the position in any case, and the
\* day's realised profit afresh from all positions.
BookFill(fill) ==
  /\ orders' = IF fill.order_id \in registry
                 THEN [orders EXCEPT ![fill.order_id] =
                         Executed(@, fill.qty, fill.price)]
                 ELSE orders
  /\ oms_positions' = PositionsAfterFill(fill)
  /\ daily_realised_pnl' =
       SumOfFractions([i \in Instruments |-> oms_positions'[i].realised_pnl])

\* Whoever reads stream_fills passes the oldest queued execution to on_fill, as the
\* backtest does with what tick returns; the repository has no such reader yet.
DeliverFill ==
  /\ streamed < Len(fills)
  /\ BookFill(fills[streamed + 1])
  /\ streamed' = streamed + 1
  /\ UNCHANGED <<pending, positions, cash, fills, cancelled, age,
                 window, now, registry, sent_at, crowded>>

-----------------------------------------------------------------------------
(* A desk: any client submits and cancels, quotes arrive, time passes, and *)
(* one task delivers executions when it gets to run.                       *)

CONSTANT MaxTime   \* bound: how far the clock is followed

CONSTANT Ticks     \* the lengths of time a step may take

\* A desk trades finitely many instruments, and its clock is not set back.
ASSUME DeskAssumption == Ticks \subseteq Nat

BrokerAlone == UNCHANGED <<riskVars, omsOwn>>

OMSNext ==
  \/ \E r \in Requests : Submit(r)
  \/ DeliverFill
  \/ \E o \in DOMAIN orders : CancelOrder(o) /\ BrokerAlone
  \/ \E i \in Instruments, price \in Prices : Tick(i, price) /\ BrokerAlone
  \/ \E t \in Ticks : /\ now + t <= MaxTime
                      /\ Elapse(t)
                      /\ UNCHANGED <<brokerVars, omsOwn>>

OMSSpec == OMSInit /\ [][OMSNext]_omsVars

-----------------------------------------------------------------------------
(* Properties                                                              *)

\* The manager's state has the shape its types give it.  The order's filled
\* quantity is only known to be an integer: an execution the broker matched is added to the
\* shared order by the broker and again by on_fill.
OMSTypeOK ==
  /\ \A o \in DOMAIN orders : /\ orders[o].status \in OrderStatuses
                              /\ orders[o].filled_qty \in Int
  /\ registry = DOMAIN orders
  /\ DOMAIN pending \subseteq { o \in registry : orders[o].status # "rejected" }
  /\ streamed \in 0..Len(fills)
  /\ \A k \in DOMAIN window : window[k] \in 0..now
  /\ Len(window) <= MaxOrdersPerMinute
  /\ daily_realised_pnl \in Int \X (Nat \ {0})

\* "order-rate caps" (README.md): in no stretch of a minute do more orders go to
\* the broker than the limit allows, however refusals and the pruning of the
\* window fall between them.
RateCapped ==
  \A k \in DOMAIN sent_at :
    k + MaxOrdersPerMinute \in DOMAIN sent_at =>
      sent_at[k + MaxOrdersPerMinute] - sent_at[k] >= Minute

\* Position.apply is "the canonical accounting routine": once every execution
\* has been delivered, the manager's positions are the broker's.
PositionsAgree == streamed = Len(fills) => oms_positions = positions

\* The positions after the executions delivered so far, booked afresh from none.
Reported == BooksAfter([i \in Instruments |-> Flat], SubSeq(fills, 1, streamed))

LossReached(book) ==
  LET total == SumOfFractions([i \in Instruments |-> book[i].realised_pnl])
  IN  MaxDailyLoss # NoLimit /\ total[1] <= -MaxDailyLoss * total[2]

\* "a daily-loss kill-switch" (README.md, line 71): no order goes to the broker once the
\* executions delivered come to the loss, whatever is in flight besides.  Against a loss the
\* broker has booked an order passes only while an execution is on its way.  (Nothing is
\* flattened, as ARCHITECTURE.md, line 357, would have it.)
OrdersStopAtLoss ==
  [][sent_at' # sent_at =>
       /\ ~LossReached(Reported)
       /\ LossReached(positions) => streamed < Len(fills)]_omsVars

\* README.md line 71: "It enforces per-symbol size limits".  The position held at
\* the broker stays within the limit, through closing, flipping and refusals, unless an
\* order was sent while another was in flight: check() does not count those.
SymbolLimitHolds ==
  (MaxQtyPerSymbol # NoLimit /\ ~crowded) =>
    \A i \in Instruments : Magnitude(positions[i].qty) <= MaxQtyPerSymbol

=============================================================================
