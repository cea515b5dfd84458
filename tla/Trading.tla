------------------------------ MODULE Trading ------------------------------
(***************************************************************************)
(* The records every part of the trading core passes around, and the       *)
(* accounting they share: core/orders.py and core/positions.py.            *)
(*                                                                         *)
(* Quantities are integers and money is counted in integer units.  The     *)
(* averages, the only quotients the code forms, are fractions in lowest    *)
(* terms: the code rounds them to the 28 digits of a Decimal, the model    *)
(* does not round.                                                         *)
(***************************************************************************)
EXTENDS Integers, Sequences

Sides == {"buy", "sell"}

OrderTypes == {"market", "limit", "stop", "stop_limit"}

OrderStatuses ==
  {"new", "sent", "partially_filled", "filled", "cancelled", "rejected"}

\* What a caller asks for; status, filled_qty and cost are added by Order.
\* limit_price is 0 where the code has None, and the validator insists on a
\* price for the two limit types and on a positive quantity.
Request(instruments, modes) ==
  { r \in [instrument : instruments, side : Sides, type : OrderTypes,
           limit_price : Nat, qty : Nat \ {0}, mode : modes] :
      r.type \in {"limit", "stop_limit"} => r.limit_price > 0 }

\* cost stands for avg_fill_price * filled_qty: both places that maintain the
\* average multiply it back by the filled quantity before dividing again.
NewOrder(r) ==
  [instrument |-> r.instrument, side |-> r.side, type |-> r.type,
   limit_price |-> r.limit_price, qty |-> r.qty, mode |-> r.mode,
   status |-> "new", filled_qty |-> 0, cost |-> 0]

RemainingQty(order) == order.qty - order.filled_qty

IsTerminal(order) == order.status \in {"filled", "cancelled", "rejected"}

\* Faulty variant: an execution replaces the filled quantity.
ExecutedAfresh(order, qty, price) ==
  [order EXCEPT !.filled_qty = qty,
                !.cost = @ + price * qty,
                !.status = IF order.qty = qty THEN "filled" ELSE "partially_filled"]

\* The order after one execution of `qty` at `price`: the same three
\* assignments in the broker and in the order manager.
Executed(order, qty, price) ==
  LET filled == order.filled_qty + qty
  IN  [order EXCEPT !.filled_qty = filled,
                    !.cost = @ + price * qty,
                    !.status = IF order.qty - filled = 0 THEN "filled"
                                                         ELSE "partially_filled"]

SignedQty(fill) == IF fill.side = "buy" THEN fill.qty ELSE -fill.qty

Least(a, b) == IF a <= b THEN a ELSE b

Greatest(a, b) == IF a <= b THEN b ELSE a

Magnitude(n) == IF n < 0 THEN -n ELSE n

\* The sum of a list of numbers.
Total(values) ==
  LET sum[k \in 0..Len(values)] == IF k = 0 THEN 0 ELSE sum[k - 1] + values[k]
  IN  sum[Len(values)]

(***************************************************************************)
(* Fractions, as pairs <<numerator, denominator>> in lowest terms with a   *)
(* positive denominator, so that equal values are equal pairs.             *)
(***************************************************************************)
Fraction(num, den) ==
  LET common == CHOOSE d \in 1..den :
                  /\ num % d = 0 /\ den % d = 0
                  /\ \A e \in (d + 1)..den : num % e # 0 \/ den % e # 0
  IN  <<num \div common, den \div common>>

Whole(n) == <<n, 1>>

Plus(a, b) == Fraction(a[1] * b[2] + b[1] * a[2], a[2] * b[2])

Times(k, a) == Fraction(k * a[1], a[2])

(***************************************************************************)
(* Position.apply.  A position is its signed quantity, the average price   *)
(* of what is held and the profit realised so far.                         *)
(***************************************************************************)
Flat == [qty |-> 0, avg_price |-> Whole(0), realised_pnl |-> Whole(0)]

Extends(pos, signed) == pos.qty = 0 \/ (pos.qty > 0) = (signed > 0)

\* Opening or adding: the weighted average of what was held and what came.
Added(pos, fill) ==
  LET signed == SignedQty(fill)
      held   == pos.qty + signed
      total  == Plus(Times(Magnitude(pos.qty), pos.avg_price),
                     Whole(fill.price * Magnitude(signed)))
  IN  [pos EXCEPT !.qty = held,
                  !.avg_price = IF held = 0 THEN Whole(0)
                                ELSE Fraction(total[1], total[2] * Magnitude(held))]

\* Faulty variant: a flipped position keeps the average of the closed one.
ReducedKeepingAverage(pos, fill) ==
  LET signed    == SignedQty(fill)
      held      == pos.qty + signed
      closing   == Least(Magnitude(signed), Magnitude(pos.qty))
      direction == IF pos.qty > 0 THEN 1 ELSE -1
      gain      == Times(direction * closing,
                         Plus(Whole(fill.price), Times(-1, pos.avg_price)))
  IN  [qty |-> held,
       avg_price |-> IF held = 0 THEN Whole(0) ELSE pos.avg_price,
       realised_pnl |-> Plus(pos.realised_pnl, gain)]

\* Reducing, closing or flipping: profit is realised on the closed part, and
\* what is left after a flip was opened at the fill price.
Reduced(pos, fill) ==
  LET signed    == SignedQty(fill)
      held      == pos.qty + signed
      closing   == Least(Magnitude(signed), Magnitude(pos.qty))
      direction == IF pos.qty > 0 THEN 1 ELSE -1
      gain      == Times(direction * closing,
                         Plus(Whole(fill.price), Times(-1, pos.avg_price)))
      average   == IF held = 0 THEN Whole(0)
                   ELSE IF (held > 0) # (pos.qty > 0) THEN Whole(fill.price)
                   ELSE pos.avg_price
  IN  [qty |-> held, avg_price |-> average,
       realised_pnl |-> Plus(pos.realised_pnl, gain)]

Apply(pos, fill) ==
  IF Extends(pos, SignedQty(fill)) THEN Added(pos, fill) ELSE Reduced(pos, fill)

\* Faulty variant: a sale is credited its fees.
CashFlowFeesSigned(fill) ==
  -SignedQty(fill) * fill.price - (IF fill.side = "buy" THEN fill.fees ELSE -fill.fees)

\* The cash a fill moves: a buy pays notional and fees, a sale receives the
\* notional and pays the fees.
CashFlow(fill) == -SignedQty(fill) * fill.price - fill.fees

=============================================================================
