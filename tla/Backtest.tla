------------------------------ MODULE Backtest ------------------------------
(***************************************************************************)
(* simulation/backtest.py: BacktestEngine.run, with the OMS and SimBroker  *)
(* it builds, the PortfolioTracker and the moving-average strategy.        *)
(*                                                                         *)
(* run() is one thread: for each bar it lets the broker match, books every *)
(* execution the tick returned, asks the strategy for signals and turns    *)
(* them into orders, and marks the portfolio.  `phase` is where the loop   *)
(* stands; the other modules' operations appear as conjuncts of its steps. *)
(***************************************************************************)
EXTENDS OMS

CONSTANTS
  Lot,      \* shares a fresh position is opened with: 10 in the code
  MaxBars   \* bound: bars in the merged series

ASSUME LotAssumption == Lot \in Nat \ {0} /\ MaxBars \in Nat

VARIABLES
  phase,        \* "bar", "fills", "signals" or "mark"
  bar,          \* the bar the loop is at, [instrument, close]
  bars,         \* bars taken so far
  booked,       \* executions handed to on_fill and apply_fill so far
  last_signal,  \* SmaCrossStrategy._last_signal, 0 before the first
  pf_positions, \* PortfolioTracker.positions
  pf_cash,      \* PortfolioTracker.cash
  equity,       \* the last point of PortfolioTracker.history
  last_price    \* SimBroker._last_price, 0 before an instrument's first bar

engineVars ==
  <<phase, bar, bars, booked, last_signal, pf_positions, pf_cash, equity, last_price>>

btVars == <<omsVars, engineVars>>

BTInit ==
  /\ OMSInit
  /\ phase = "bar"
  /\ bar \in [instrument : Instruments, close : Prices]
  /\ bars = 0
  /\ booked = 0
  /\ last_signal = [i \in Instruments |-> 0]
  /\ pf_positions = [i \in Instruments |-> Flat]
  /\ pf_cash = StartingCash
  /\ equity = StartingCash
  /\ last_price = [i \in Instruments |-> 0]

-----------------------------------------------------------------------------
(* The steps of the loop                                                   *)

\* The next bar of the merged series, as a quote for the broker.
TakeBar(i, close) ==
  /\ phase = "bar" /\ bars < MaxBars
  /\ Tick(i, close)
  /\ bar' = [instrument |-> i, close |-> close]
  /\ bars' = bars + 1
  /\ last_price' = [last_price EXCEPT ![i] = close]
  /\ phase' = "fills"
  /\ BrokerAlone
  /\ UNCHANGED <<booked, last_signal, pf_positions, pf_cash, equity>>

\* Faulty variant: a purchase is credited its fees.
PortfolioCashFeesBack(fill) ==
  IF fill.side = "buy" THEN pf_cash - fill.price * fill.qty + fill.fees
                       ELSE pf_cash + fill.price * fill.qty - fill.fees

\* PortfolioTracker.apply_fill, the cash.
PortfolioCash(fill) ==
  IF fill.side = "buy" THEN pf_cash - (fill.price * fill.qty + fill.fees)
                       ELSE pf_cash + (fill.price * fill.qty - fill.fees)

\* One turn of the loop over the list tick returned.
BookOneFill ==
  /\ phase = "fills" /\ booked < Len(fills)
  /\ LET fill == fills[booked + 1]
     IN  /\ BookFill(fill)
         /\ pf_positions' = [pf_positions EXCEPT ![fill.instrument] = Apply(@, fill)]
         /\ pf_cash' = PortfolioCash(fill)
  /\ booked' = booked + 1
  /\ UNCHANGED <<pending, positions, cash, fills, streamed, cancelled, age,
                 window, now, registry, sent_at, crowded, phase, bar, bars, last_signal, equity,
                 last_price>>

FillsBooked ==
  /\ phase = "fills" /\ booked = Len(fills)
  /\ phase' = "signals"
  /\ UNCHANGED <<omsVars, bar, bars, booked, last_signal, pf_positions, pf_cash,
                 equity, last_price>>

\* SmaCrossStrategy.on_bar: nothing until the history is long enough, then the
\* direction of the averages, reported when it differs from the last report.
Directions(i) == IF last_signal[i] = 0 THEN {-1, 0, 1} ELSE {-1, 1}

MarketOrder(i, side, qty) ==
  [instrument |-> i, side |-> side, type |-> "market", limit_price |-> 0,
   qty |-> qty, mode |-> "backtest"]

\* Faulty variant: a positive signal buys whatever is held already.
OrderForAlwaysBuying(i, direction) ==
  LET cur_qty == pf_positions[i].qty
  IN  IF direction > 0
        THEN {MarketOrder(i, "buy", Lot + Magnitude(cur_qty))}
      ELSE IF direction < 0 /\ cur_qty > 0 THEN {MarketOrder(i, "sell", cur_qty)}
      ELSE {}

\* Faulty variant: a purchase does not make up for a short position, and a sale
\* is of one share.
OrderForOneShare(i, direction) ==
  LET cur_qty == pf_positions[i].qty
  IN  IF direction > 0 /\ cur_qty <= 0 THEN {MarketOrder(i, "buy", Lot)}
      ELSE IF direction < 0 /\ cur_qty > 0 THEN {MarketOrder(i, "sell", 1)}
      ELSE {}

\* The order a signal becomes, if any.
OrderFor(i, direction) ==
  LET cur_qty == pf_positions[i].qty
  IN  IF direction > 0 /\ cur_qty <= 0
        THEN {MarketOrder(i, "buy", Lot + Magnitude(cur_qty))}
      ELSE IF direction < 0 /\ cur_qty > 0 THEN {MarketOrder(i, "sell", cur_qty)}
      ELSE {}

\* No signal, or one that asks for nothing.
NoOrder(direction) ==
  LET i == bar.instrument
  IN  /\ phase = "signals"
      /\ direction \in {0, last_signal[i]} \/ OrderFor(i, direction) = {}
      /\ last_signal' = [last_signal EXCEPT ![i] = direction]
      /\ phase' = "mark"
      /\ UNCHANGED <<omsVars, bar, bars, booked, pf_positions, pf_cash, equity, last_price>>

\* A signal that becomes an order; the strategy is not told what comes of it.
PlaceSignalled(direction) ==
  LET i == bar.instrument
  IN  /\ phase = "signals"
      /\ direction \notin {0, last_signal[i]}
      /\ \E r \in OrderFor(i, direction) : Submit(r)
      /\ last_signal' = [last_signal EXCEPT ![i] = direction]
      /\ phase' = "mark"
      /\ UNCHANGED <<bar, bars, booked, pf_positions, pf_cash, equity, last_price>>

\* Faulty variant: the holding is marked at what it cost on average.
MarkedAtCost(close) ==
  LET pos == pf_positions[bar.instrument]
  IN  (pos.qty * pos.avg_price[1]) \div pos.avg_price[2]

\* The value PortfolioTracker.mark adds to the cash: the run marks each bar with
\* that bar's close alone, so only its instrument has a price.
Marked(close) == pf_positions[bar.instrument].qty * close * BpsUnit

MarkToMarket ==
  /\ phase = "mark"
  /\ equity' = pf_cash + Marked(bar.close)
  /\ phase' = "bar"
  /\ UNCHANGED <<omsVars, bar, bars, booked, last_signal, pf_positions, pf_cash,
                 last_price>>

\* The wall clock, which the rate window reads, is no part of the bar series.
WallClock(t) ==
  /\ phase = "bar" /\ now + t <= MaxTime
  /\ Elapse(t)
  /\ UNCHANGED <<brokerVars, omsOwn, engineVars>>

\* run() returns after the last bar.
Returned == phase = "bar" /\ bars = MaxBars /\ UNCHANGED btVars

BTNext ==
  \/ \E i \in Instruments, close \in Prices : TakeBar(i, close)
  \/ BookOneFill
  \/ FillsBooked
  \/ \E d \in Directions(bar.instrument) : NoOrder(d) \/ PlaceSignalled(d)
  \/ MarkToMarket
  \/ \E t \in Ticks : WallClock(t)
  \/ Returned

BTSpec == BTInit /\ [][BTNext]_btVars

-----------------------------------------------------------------------------
(* Properties                                                              *)

BTTypeOK ==
  /\ OMSTypeOK
  /\ phase \in {"bar", "fills", "signals", "mark"}
  /\ bars \in 0..MaxBars /\ booked \in 0..Len(fills)
  /\ last_signal \in [Instruments -> {-1, 0, 1}]
  /\ pf_cash \in Int /\ equity \in Int

\* Three parts of the program keep the same books: the broker, the order manager
\* and the portfolio.  Whenever a bar's executions have all been booked, the
\* three agree on every position, and broker and portfolio on the cash.
LedgersAgree ==
  booked = Len(fills) =>
    /\ oms_positions = positions
    /\ pf_positions = positions
    /\ pf_cash = cash

\* The rule that turns signals into orders goes by the position, not by what is
\* in flight.  Without latency and without a cap nothing is in flight when a
\* signal is weighed, so it never stacks lots and never sells short, even when
\* the rate limit refuses orders in between.
OneLotAtMost ==
  phase = "signals" => positions[bar.instrument].qty \in {0, Lot}

WaitingFor(i, side) ==
  \E o \in DOMAIN pending : orders[o].instrument = i /\ orders[o].side = side

\* Between bars the portfolio stands where the strategy believes it to stand:
\* long, or about to be, after a positive signal; out, or about to be, after a
\* negative one, unless the risk engine refused an order of that instrument.
PortfolioFollowsSignals ==
  phase = "bar" =>
    \A i \in Instruments :
      \/ \E o \in DOMAIN orders : /\ orders[o].instrument = i
                                  /\ orders[o].status = "rejected"
      \/ /\ last_signal[i] = 1 => pf_positions[i].qty > 0 \/ WaitingFor(i, "buy")
         /\ last_signal[i] = -1 => pf_positions[i].qty = 0 \/ WaitingFor(i, "sell")

\* The unrealised profit of a position at a price.
Unrealised(pos, price) ==
  Times(pos.qty, Plus(Whole(price * BpsUnit), Times(-1, pos.avg_price)))

\* What the account is worth at the last prices seen: the starting cash less fees,
\* plus the profit realised and the unrealised profit on what is held.
Worth ==
  Plus(Whole(StartingCash - FeesPaid),
       SumOfFractions([i \in Instruments |->
         Plus(positions[i].realised_pnl, Unrealised(positions[i], last_price[i]))]))

\* "Mark-to-market." (backtest.py, line 110): the equity point of a bar is what
\* the account is worth.
EquityIsWorth == phase = "bar" /\ bars > 0 => Whole(equity) = Worth

\* It is at least while nothing is held but the instrument of the bar: the sum over
\* marks agrees with what was paid, earned and charged for every instrument.
EquityIsWorthAlone ==
  (\A i \in Instruments \ {bar.instrument} : positions[i].qty = 0) => EquityIsWorth

\* tests/test_sim_broker.py, lines 84 and 85, in a backtest: an order reported
\* filled was executed for the quantity it asked.
FilledIsExecuted ==
  phase = "bar" =>
    \A o \in DOMAIN orders :
      orders[o].status = "filled" => FilledOf(o) = orders[o].qty

=============================================================================
