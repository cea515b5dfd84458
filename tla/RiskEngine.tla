----------------------------- MODULE RiskEngine -----------------------------
(***************************************************************************)
(* risk/gates.py: the chain of checks in front of every order, and the     *)
(* state it keeps between calls.  check() runs in one go; OMS.submit calls *)
(* it with the positions the order manager knows, which are built from the *)
(* executions reported so far, and not from the orders still waiting.      *)
(***************************************************************************)
EXTENDS Trading, SequencesExt

CONSTANTS
  NoLimit,             \* None, for a limit that is not set
  MaxQtyPerSymbol,     \* limits.max_qty_per_symbol, NoLimit for None
  MaxNotional,         \* limits.max_notional_per_order, NoLimit for None
  MaxOrdersPerMinute,  \* limits.max_orders_per_minute
  MaxDailyLoss,        \* limits.max_daily_loss, NoLimit for None
  Minute               \* length of the rate window: 60 seconds in the code

ASSUME LimitsAssumption ==
  /\ NoLimit \notin Int
  /\ MaxQtyPerSymbol \in Nat \cup {NoLimit}
  /\ MaxNotional \in Nat \cup {NoLimit}
  /\ MaxOrdersPerMinute \in Nat
  /\ MaxDailyLoss \in Nat \cup {NoLimit}
  /\ Minute \in Nat \ {0}

VARIABLES
  window,               \* _order_timestamps
  daily_realised_pnl,   \* profit realised, a fraction; written by the OMS
  now                   \* the wall clock

riskVars == <<window, daily_realised_pnl, now>>

RiskInit ==
  /\ window = << >>
  /\ daily_realised_pnl = Whole(0)
  /\ now = 0

\* Faulty variant: the size of the order is compared, not of the position.
QtyAfterAlone(order, book) == SignedQty(order)

\* The position the order would lead to if nothing else were in flight.
QtyAfter(order, book) ==
  book[order.instrument].qty + SignedQty(order)

BreachesSymbolLimit(order, book) ==
  MaxQtyPerSymbol # NoLimit /\ Magnitude(QtyAfter(order, book)) > MaxQtyPerSymbol

\* Only an order that carries a limit price has a notional to check.
BreachesNotional(order) ==
  /\ MaxNotional # NoLimit
  /\ order.limit_price # 0
  /\ order.qty * order.limit_price > MaxNotional

\* The checks before the rate window: failing one leaves no trace.
RefusedAtOnce(order, session, book) ==
  \/ order.mode # session
  \/ BreachesSymbolLimit(order, book)
  \/ BreachesNotional(order)

\* The entries of the window that still count.
Counting(since) == { k \in DOMAIN window : window[k] > since }

\* What the comprehension keeps of the window: the list is in the order of its
\* timestamps, so that is its last entries.
Latest(n) == SubSeq(window, Len(window) - n + 1, Len(window))

\* Faulty variant: a timestamp counts for one second less.
RecentTooShort == Latest(Cardinality(Counting(now - Minute + 1)))

Recent == Latest(Cardinality(Counting(now - Minute)))

\* Faulty variant: one order more than the limit passes.
RateExceededOffByOne == Len(Recent) > MaxOrdersPerMinute

RateExceeded == Len(Recent) >= MaxOrdersPerMinute

\* Faulty variant: a loss of exactly the limit does not count.
KillSwitchStrict ==
  /\ MaxDailyLoss # NoLimit
  /\ daily_realised_pnl[1] < -MaxDailyLoss * daily_realised_pnl[2]

\* The kill switch compares the running total with the limit; it is no latch.
KillSwitch ==
  /\ MaxDailyLoss # NoLimit
  /\ daily_realised_pnl[1] <= -MaxDailyLoss * daily_realised_pnl[2]

\* The order takes its place in the rate window before the kill switch is asked.
WindowAfter(order, session, book) ==
  IF RefusedAtOnce(order, session, book) THEN window
  ELSE IF RateExceeded THEN Recent
  ELSE Append(Recent, now)

Passes(order, session, book) ==
  /\ ~RefusedAtOnce(order, session, book)
  /\ ~RateExceeded
  /\ ~KillSwitch

\* Time passes between calls.
Elapse(seconds) ==
  /\ now' = now + seconds
  /\ UNCHANGED <<window, daily_realised_pnl>>

=============================================================================
