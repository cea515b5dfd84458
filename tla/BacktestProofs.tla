--------------------------- MODULE BacktestProofs ---------------------------
(***************************************************************************)
(* What a backtest run guarantees for every series of bars, every sequence *)
(* of signals and every configuration, checked by TLAPS.                   *)
(***************************************************************************)
EXTENDS Backtest, OMSProofs

-----------------------------------------------------------------------------
(* Histories of the ledgers                                                *)

\* One history after the other.
Join(h, l, g, n) == [k \in 0..(l + n) |-> IF k <= l THEN h[k] ELSE g[k - l]]

LEMMA Joined ==
  ASSUME NEW l \in Nat, NEW n \in Nat, NEW h, NEW g, h[l] = g[0]
  PROVE  /\ \A k \in 0..l : Join(h, l, g, n)[k] = h[k]
         /\ \A j \in 0..n : Join(h, l, g, n)[l + j] = g[j]
<1>1. \A k \in 0..l : Join(h, l, g, n)[k] = h[k]
  BY DEF Join
<1>2. ASSUME NEW j \in 0..n PROVE Join(h, l, g, n)[l + j] = g[j]
  <2>1. CASE j = 0
    BY <2>1 DEF Join
  <2>2. CASE j # 0
    <3>1. ~(l + j <= l) /\ (l + j) - l = j /\ l + j \in 0..(l + n)
      BY <2>2
    <3>. QED  BY <3>1 DEF Join
  <2>. QED  BY <2>1, <2>2
<1>. QED
  BY <1>1, <1>2

-----------------------------------------------------------------------------
(* The invariant                                                           *)

EngineTyped ==
  /\ phase \in {"bar", "fills", "signals", "mark"}
  /\ bar \in [instrument : Instruments, close : Prices]
  /\ bars \in 0..MaxBars /\ booked \in 0..Len(fills)
  /\ phase # "fills" => booked = Len(fills)
  /\ last_signal \in [Instruments -> {-1, 0, 1}]
  /\ pf_cash \in Int /\ equity \in Int

\* h and c tell how positions and cash went, execution by execution.  The broker's are where
\* they end, the order manager's and the portfolio's where they stood after those booked.
Traced(h, c) ==
  /\ \A k \in 0..Len(fills) : h[k] \in Books /\ c[k] \in Int
  /\ \A k \in 1..Len(fills) :
       h[k] = Booked(h[k - 1], fills[k]) /\ c[k] = c[k - 1] + CashFlow(fills[k])
  /\ h[Len(fills)] = positions /\ c[Len(fills)] = cash
  /\ h[booked] = oms_positions /\ h[booked] = pf_positions /\ c[booked] = pf_cash

LedgersTraced == \E h, c : Traced(h, c)

BTInv == WindowInv /\ DeskTyped /\ DailyIsSum /\ EngineTyped /\ LedgersTraced

-----------------------------------------------------------------------------
(* The steps of the loop                                                   *)

LEMMA BTInvInit == BTInit => BTInv
<1>. SUFFICES ASSUME BTInit PROVE BTInv
  OBVIOUS
<1>1. OMSInv
  BY InvInit DEF BTInit
<1>2. [i \in Instruments |-> Flat] \in Books
  BY FlatType DEF Books
<1>3. fills = << >> /\ Len(fills) = 0 /\ StartingCash \in Int
  BY ConfigAssumption DEF BTInit, OMSInit, SimInit
<1>4. EngineTyped
  BY <1>3, LotAssumption DEF BTInit, EngineTyped
<1>5. LedgersTraced
  <2>1. Traced([k \in {0} |-> positions], [k \in {0} |-> cash])
    BY <1>2, <1>3 DEF BTInit, OMSInit, SimInit, Traced
  <2>. QED  BY <2>1 DEF LedgersTraced
<1>. QED
  BY <1>1, <1>4, <1>5 DEF BTInv, OMSInv

\* What a submission leaves of the desk's types.
LEMMA SubmitTyped ==
  ASSUME DeskTyped, NEW r \in Request(Instruments, Modes), Submit(r)
  PROVE  /\ DeskTyped'
         /\ UNCHANGED <<positions, cash, fills, streamed, cancelled,
                        daily_realised_pnl, now, oms_positions>>
         /\ \A o \in DOMAIN orders : o \in DOMAIN orders' /\ orders'[o] = orders[o]
<1>1. NewOrder(r) \in Ticket
  BY NewTicket
<1>2. PICK id : id = Len(orders) + 1
  OBVIOUS
<1>3. PICK ticket \in Ticket :
        /\ orders' = Append(orders, ticket)
        /\ \/ pending' = pending /\ crowded' = crowded
           \/ /\ DOMAIN pending' = DOMAIN pending \cup {id} /\ ticket.status = "sent"
              /\ crowded' = (crowded \/ pending # << >> \/ streamed < Len(fills))
  <2>1. CASE Passes(NewOrder(r), SessionMode, oms_positions)
    <3>1. /\ [NewOrder(r) EXCEPT !.status = "sent"] \in Ticket
          /\ [NewOrder(r) EXCEPT !.status = "sent"].status = "sent"
      BY NewTicket
    <3>. QED  BY <1>2, <2>1, <3>1 DEF Submit, Send, Accept
  <2>2. CASE ~Passes(NewOrder(r), SessionMode, oms_positions)
    <3>1. [NewOrder(r) EXCEPT !.status = "rejected"] \in Ticket
      BY NewTicket
    <3>. QED  BY <2>2, <3>1 DEF Submit, Refuse
  <2>. QED  BY <2>1, <2>2
<1>4. /\ orders' \in Seq(Ticket)
      /\ DOMAIN orders' = DOMAIN orders \cup {id}
      /\ \A o \in DOMAIN orders : orders'[o] = orders[o]
      /\ orders'[id] = ticket
  BY <1>2, <1>3, OrdersAppend DEF DeskTyped
<1>5. /\ registry' = registry \cup {id}
      /\ UNCHANGED <<positions, cash, fills, streamed, cancelled,
                     daily_realised_pnl, now, oms_positions>>
  BY <1>2 DEF Submit
<1>6. \A o \in DOMAIN pending' : o \in DOMAIN orders' /\ orders'[o].status # "rejected"
  BY <1>3, <1>4 DEF DeskTyped
<1>7. crowded' \in BOOLEAN
  BY <1>3 DEF DeskTyped
<1>. QED
  BY <1>4, <1>5, <1>6, <1>7 DEF DeskTyped

\* Steps that leave the desk and the ledgers alone.
LEMMA LedgersStay ==
  ASSUME LedgersTraced,
         UNCHANGED <<positions, cash, fills, oms_positions, booked, pf_positions, pf_cash>>
  PROVE  LedgersTraced'
<1>1. PICK h, c : Traced(h, c)
  BY DEF LedgersTraced
<1>2. Traced(h, c)'
  BY <1>1 DEF Traced
<1>. QED
  BY <1>2 DEF LedgersTraced

\* A bar: the broker's ledgers go on, the others' stay behind.
LEMMA BTInvBar ==
  ASSUME BTInv, NEW i \in Instruments, NEW close \in Prices, TakeBar(i, close)
  PROVE  BTInv'
<1>0. DeskTyped /\ EngineTyped /\ LedgersTraced
  BY DEF BTInv
<1>1. /\ Tick(i, close)
      /\ UNCHANGED <<window, daily_realised_pnl, now, registry, oms_positions, sent_at, crowded,
                     booked, last_signal, pf_positions, pf_cash, equity>>
  BY DEF TakeBar, BrokerAlone, riskVars, omsOwn
<1>2. PICK hit, new : Emits(i, close, hit, new) /\ cash' = CashAfter(cash, new)
  BY <1>1 DEF Tick, Emits
<1>3. /\ new \in Seq(Fill) /\ fills' \in Seq(Fill) /\ Len(fills') = Len(fills) + Len(new)
      /\ \A k \in 1..Len(fills) : fills'[k] = fills[k]
      /\ \A k \in 1..Len(new) : fills'[Len(fills) + k] = new[k]
  BY <1>0, <1>2, EmittedFills
<1>4. PICK l \in Nat, n \in Nat, b \in Nat :
        l = Len(fills) /\ n = Len(new) /\ b = booked /\ b \in 0..l
  BY <1>0, <1>3 DEF DeskTyped, EngineTyped
<1>5. PICK h, c : Traced(h, c)
  BY <1>0 DEF LedgersTraced
<1>6. /\ \A k \in 0..l : h[k] \in Books /\ c[k] \in Int
      /\ \A k \in 1..l : h[k] = Booked(h[k - 1], fills[k]) /\ c[k] = c[k - 1] + CashFlow(fills[k])
      /\ h[l] = positions /\ c[l] = cash
      /\ h[b] = oms_positions /\ h[b] = pf_positions /\ c[b] = pf_cash
  BY <1>4, <1>5 DEF Traced
<1>7. PICK g : /\ g[0] = positions /\ positions' = g[n]
               /\ \A j \in 1..n : g[j] = Booked(g[j - 1], new[j])
  <2>1. PICK g : History(g, positions, new) /\ BooksAfter(positions, new) = g[Len(new)]
    BY <1>4, BooksAfterHistory
  <2>. QED  BY <1>2, <1>4, <2>1 DEF Emits, History
<1>8. PICK d : /\ d[0] = cash /\ cash' = d[n]
               /\ \A j \in 1..n : d[j] = d[j - 1] + CashFlow(new[j])
  <2>1. Flow \in [Fill -> Int]
    BY MeasuresType
  <2>2. PICK s : Along(s, Flow, new)
    BY <1>3, <2>1, OverAlong
  <2>3. /\ s[0] = 0 /\ (\A j \in 0..n : s[j] \in Int)
        /\ \A j \in 1..n : s[j] = s[j - 1] + Flow[new[j]]
        /\ cash' = cash + s[n]
    <3>1. CashAfter(cash, new) = cash + Over(Flow, new)
      BY <1>3, CashMoves
    <3>. QED  BY <1>2, <1>4, <2>2, <3>1 DEF Along
  <2>4. \A j \in 1..n : Flow[new[j]] = CashFlow(new[j]) /\ CashFlow(new[j]) \in Int
    BY <1>3, <1>4, CashFlowInt DEF Flow
  <2>5. cash \in Int
    BY <1>4, <1>6
  <2>6. PICK d : \A j \in 0..n : d[j] = cash + s[j]
    <3>1. \A j \in 0..n : [k \in 0..n |-> cash + s[k]][j] = cash + s[j]
      OBVIOUS
    <3>. QED  BY <3>1
  <2>7. d[0] = cash /\ cash' = d[n]
    BY <1>4, <2>3, <2>5, <2>6
  <2>8. ASSUME NEW j \in 1..n PROVE d[j] = d[j - 1] + CashFlow(new[j])
    <3>1. j \in 0..n /\ j - 1 \in 0..n
      OBVIOUS
    <3>2. s[j] = s[j - 1] + CashFlow(new[j]) /\ s[j - 1] \in Int /\ CashFlow(new[j]) \in Int
      BY <2>3, <2>4, <3>1
    <3>3. d[j] = cash + s[j] /\ d[j - 1] = cash + s[j - 1]
      BY <2>6, <3>1
    <3>. QED  BY <2>5, <3>2, <3>3
  <2>. QED  BY <2>7, <2>8
<1>9. PICK h2 : (\A k \in 0..l : h2[k] = h[k]) /\ (\A j \in 0..n : h2[l + j] = g[j])
  <2>1. h[l] = g[0]
    BY <1>6, <1>7
  <2>2. /\ \A k \in 0..l : Join(h, l, g, n)[k] = h[k]
        /\ \A j \in 0..n : Join(h, l, g, n)[l + j] = g[j]
    BY <2>1, Joined
  <2>. QED  BY <2>2
<1>10. PICK c2 : (\A k \in 0..l : c2[k] = c[k]) /\ (\A j \in 0..n : c2[l + j] = d[j])
  <2>1. c[l] = d[0]
    BY <1>6, <1>8
  <2>2. /\ \A k \in 0..l : Join(c, l, d, n)[k] = c[k]
        /\ \A j \in 0..n : Join(c, l, d, n)[l + j] = d[j]
    BY <2>1, Joined
  <2>. QED  BY <2>2
<1>11. \A j \in 0..n : g[j] \in Books /\ d[j] \in Int
  <2>. DEFINE T == { j \in 0..n : g[j] \in Books /\ d[j] \in Int }
  <2>1. 0 \in T
    BY <1>6, <1>7, <1>8
  <2>2. ASSUME NEW j \in 0..(n - 1), j \in T PROVE j + 1 \in T
    <3>1. j + 1 \in 1..n /\ (j + 1) - 1 = j
      OBVIOUS
    <3>2. new[j + 1] \in Fill
      BY <1>3, <1>4, <3>1
    <3>3. g[j + 1] = Booked(g[j], new[j + 1]) /\ d[j + 1] = d[j] + CashFlow(new[j + 1])
      BY <1>7, <1>8, <3>1
    <3>4. g[j + 1] \in Books /\ d[j + 1] \in Int
      BY <2>2, <3>2, <3>3, BookedType, CashFlowInt
    <3>. QED  BY <3>1, <3>4
  <2>3. \A j \in 0..n : j \in T
    <3>. HIDE DEF T
    <3>. QED  BY <2>1, <2>2, ReachesAll
  <2>. QED  BY <2>3
<1>12. ASSUME NEW k \in 0..(l + n)
       PROVE  k \in 0..l \/ \E j \in 1..n : k = l + j
  <2>1. CASE k <= l
    BY <2>1
  <2>2. CASE k > l
    <3>1. k - l \in 1..n /\ k = l + (k - l)
      BY <2>2
    <3>. QED  BY <3>1
  <2>. QED  BY <2>1, <2>2
<1>13. \A k \in 0..(l + n) : h2[k] \in Books /\ c2[k] \in Int
  <2>. TAKE k \in 0..(l + n)
  <2>1. CASE k \in 0..l
    BY <1>6, <1>9, <1>10, <2>1
  <2>2. ASSUME NEW j \in 1..n, k = l + j PROVE h2[k] \in Books /\ c2[k] \in Int
    BY <1>9, <1>10, <1>11, <2>2
  <2>. QED  BY <1>12, <2>1, <2>2
<1>14. ASSUME NEW k \in 1..(l + n)
       PROVE  h2[k] = Booked(h2[k - 1], fills'[k]) /\ c2[k] = c2[k - 1] + CashFlow(fills'[k])
  <2>1. CASE k \in 0..l
    <3>1. k \in 1..l /\ k - 1 \in 0..l
      BY <2>1
    <3>2. fills'[k] = fills[k]
      BY <1>3, <1>4, <3>1
    <3>. QED  BY <1>6, <1>9, <1>10, <3>1, <3>2
  <2>2. ASSUME NEW j \in 1..n, k = l + j
        PROVE  h2[k] = Booked(h2[k - 1], fills'[k]) /\ c2[k] = c2[k - 1] + CashFlow(fills'[k])
    <3>1. j \in 0..n /\ j - 1 \in 0..n /\ k - 1 = l + (j - 1)
      BY <2>2
    <3>2. /\ h2[k] = g[j] /\ h2[k - 1] = g[j - 1] /\ c2[k] = d[j] /\ c2[k - 1] = d[j - 1]
          /\ fills'[k] = new[j]
      BY <1>3, <1>4, <1>9, <1>10, <2>2, <3>1
    <3>. QED  BY <1>7, <1>8, <3>2
  <2>3. k \in 0..(l + n)
    OBVIOUS
  <2>. QED  BY <1>12, <2>1, <2>2, <2>3
<1>15. h2[l + n] = positions' /\ c2[l + n] = cash'
  <2>1. n \in 0..n
    OBVIOUS
  <2>. QED  BY <1>7, <1>8, <1>9, <1>10, <2>1
<1>16. Len(fills') = l + n /\ booked' = b
  BY <1>1, <1>3, <1>4
<1>17. Traced(h2, c2)'
  <2>1. h2[b] = h[b] /\ c2[b] = c[b]
    BY <1>4, <1>9, <1>10
  <2>. QED  BY <1>1, <1>6, <1>13, <1>14, <1>15, <1>16, <2>1 DEF Traced
<1>18. positions' \in Books
  BY <1>7, <1>11
<1>19. DeskTyped'
  <2>1. /\ DOMAIN orders' = DOMAIN orders /\ orders' \in Seq(Ticket)
        /\ DOMAIN pending' \subseteq DOMAIN pending
        /\ \A o \in DOMAIN pending' : orders'[o].status # "rejected"
    BY <1>0, <1>2, DeskAfterQuote
  <2>2. streamed' \in 0..Len(fills')
    <3>1. streamed' = streamed
      BY <1>2 DEF Emits
    <3>2. streamed \in 0..l
      BY <1>0, <1>4 DEF DeskTyped
    <3>. QED  BY <1>16, <3>1, <3>2
  <2>. QED  BY <1>0, <1>1, <1>3, <1>18, <2>1, <2>2 DEF DeskTyped
<1>20. EngineTyped'
  <2>1. /\ phase' = "fills" /\ bar' = [instrument |-> i, close |-> close]
        /\ bars' = bars + 1 /\ bars < MaxBars
    BY DEF TakeBar
  <2>2. bars' \in 0..MaxBars
    BY <1>0, <2>1, LotAssumption DEF EngineTyped
  <2>3. booked' \in 0..Len(fills')
    BY <1>4, <1>16
  <2>. QED  BY <1>0, <1>1, <2>1, <2>2, <2>3 DEF EngineTyped
<1>21. WindowInv'
  BY <1>1 DEF BTInv, WindowInv, WindowTyped, WindowCovers, RateCapped, Ascending
<1>22. DailyIsSum'
  BY <1>1 DEF BTInv, DailyIsSum
<1>. QED
  BY <1>17, <1>19, <1>20, <1>21, <1>22 DEF BTInv, LedgersTraced

LEMMA PortfolioCashFlow ==
  ASSUME pf_cash \in Int, NEW fill \in Fill
  PROVE  PortfolioCash(fill) = pf_cash + CashFlow(fill)
<1>1. PICK m \in Int, q \in Int, p \in Int, f \in Int :
        m = pf_cash /\ q = fill.qty /\ p = fill.price /\ f = fill.fees
  BY DEF Fill
<1>2. PICK x \in Int : x = p * q
  OBVIOUS
<1>3. -q * p = -x /\ q * p = x
  BY <1>2
<1>4. CASE fill.side = "buy"
  <2>1. PortfolioCash(fill) = m - (x + f)
    BY <1>1, <1>2, <1>4 DEF PortfolioCash
  <2>2. CashFlow(fill) = -x - f
    BY <1>1, <1>3, <1>4 DEF CashFlow, SignedQty
  <2>. QED  BY <1>1, <2>1, <2>2
<1>5. CASE fill.side # "buy"
  <2>1. PortfolioCash(fill) = m + (x - f)
    BY <1>1, <1>2, <1>5 DEF PortfolioCash
  <2>2. CashFlow(fill) = x - f
    <3>1. -(-q) * p = x
      BY <1>3
    <3>. QED  BY <1>1, <1>5, <3>1 DEF CashFlow, SignedQty
  <2>. QED  BY <1>1, <2>1, <2>2
<1>. QED
  BY <1>4, <1>5

\* An execution: order manager and portfolio both come one step closer to the broker.
LEMMA BTInvFill ==
  ASSUME BTInv, BookOneFill
  PROVE  BTInv'
<1>0. DeskTyped /\ EngineTyped /\ LedgersTraced
  BY DEF BTInv
<1>1. PICK n \in Nat : n = booked + 1
  BY <1>0 DEF EngineTyped
<1>2. PICK fill \in Fill : fill = fills[n]
  BY <1>0, <1>1 DEF DeskTyped, EngineTyped, BookOneFill
<1>3. /\ n \in 1..Len(fills) /\ booked' = n
      /\ BookFill(fill)
      /\ pf_positions' = Booked(pf_positions, fill)
      /\ pf_cash' = PortfolioCash(fill)
      /\ phase = "fills"
      /\ UNCHANGED <<pending, positions, cash, fills, streamed, cancelled, age,
                     window, now, registry, sent_at, crowded, phase, bar, bars,
                     last_signal, equity>>
  BY <1>0, <1>1, <1>2 DEF DeskTyped, EngineTyped, BookOneFill, Booked
<1>4. /\ oms_positions' = Booked(oms_positions, fill) /\ oms_positions' \in Books
      /\ DOMAIN orders' = DOMAIN orders /\ orders' \in Seq(Ticket)
      /\ \A o \in DOMAIN orders : orders'[o] = orders[o] \/ orders'[o].status # "rejected"
  BY <1>0, <1>3, FillBooked
<1>5. DeskTyped'
  <2>1. \A o \in DOMAIN pending' : o \in DOMAIN orders' /\ orders'[o].status # "rejected"
    BY <1>0, <1>3, <1>4 DEF DeskTyped
  <2>. QED  BY <1>0, <1>3, <1>4, <2>1 DEF DeskTyped
<1>6. pf_cash' = pf_cash + CashFlow(fill) /\ pf_cash' \in Int
  <2>1. pf_cash \in Int /\ CashFlow(fill) \in Int
    BY <1>0, CashFlowInt DEF EngineTyped
  <2>. QED  BY <1>3, <2>1, PortfolioCashFlow
<1>7. EngineTyped'
  BY <1>0, <1>3, <1>6 DEF EngineTyped
<1>8. LedgersTraced'
  <2>1. PICK h, c : Traced(h, c)
    BY <1>0 DEF LedgersTraced
  <2>2. n - 1 = booked
    BY <1>0, <1>1 DEF EngineTyped
  <2>3. h[n] = Booked(h[booked], fill) /\ c[n] = c[booked] + CashFlow(fill)
    BY <1>2, <1>3, <2>1, <2>2 DEF Traced
  <2>4. Traced(h, c)'
    BY <1>3, <1>4, <1>6, <2>1, <2>3 DEF Traced
  <2>. QED  BY <2>4 DEF LedgersTraced
<1>9. WindowInv'
  BY <1>3 DEF BTInv, WindowInv, WindowTyped, WindowCovers, RateCapped, Ascending
<1>10. DailyIsSum'
  BY <1>3 DEF BookFill, DailyIsSum
<1>. QED
  BY <1>5, <1>7, <1>8, <1>9, <1>10 DEF BTInv

\* What a signal orders is a proper order of the instrument of the bar.
LEMMA OrderForType ==
  ASSUME DeskTyped, EngineTyped, LedgersTraced, NEW i \in Instruments, NEW d,
         NEW r \in OrderFor(i, d)
  PROVE  r \in Request(Instruments, Modes) /\ r.instrument = i /\ r.type = "market"
<1>1. pf_positions[i].qty \in Int
  <2>1. pf_positions \in Books
    BY DEF LedgersTraced, Traced, EngineTyped
  <2>. QED  BY <2>1 DEF Books, Position
<1>2. PICK q \in Int : q = pf_positions[i].qty
  BY <1>1
<1>3. Magnitude(q) \in Nat /\ Lot + Magnitude(q) \in Nat \ {0}
  BY LotAssumption DEF Magnitude
<1>4. \/ r = MarketOrder(i, "buy", Lot + Magnitude(q))
      \/ q > 0 /\ r = MarketOrder(i, "sell", q)
  BY <1>2 DEF OrderFor
<1>. QED
  BY <1>3, <1>4 DEF MarketOrder, Request, Sides, OrderTypes, Modes

LEMMA BTInvPlace ==
  ASSUME BTInv, NEW d \in Directions(bar.instrument), PlaceSignalled(d)
  PROVE  BTInv'
<1>0. DeskTyped /\ EngineTyped /\ LedgersTraced
  BY DEF BTInv
<1>1. PICK i \in Instruments : i = bar.instrument
  BY <1>0 DEF EngineTyped
<1>2. PICK r \in OrderFor(i, d) : Submit(r)
  BY <1>1 DEF PlaceSignalled
<1>3. r \in Request(Instruments, Modes)
  BY <1>0, <1>1, <1>2, OrderForType
<1>4. /\ DeskTyped'
      /\ UNCHANGED <<positions, cash, fills, streamed, cancelled,
                     daily_realised_pnl, now, oms_positions>>
  BY <1>0, <1>2, <1>3, SubmitTyped
<1>5. /\ phase = "signals" /\ phase' = "mark"
      /\ last_signal' = [last_signal EXCEPT ![i] = d]
      /\ UNCHANGED <<bar, bars, booked, pf_positions, pf_cash, equity>>
  BY <1>1 DEF PlaceSignalled
<1>6. d \in {-1, 0, 1}
  BY DEF Directions
<1>7. EngineTyped'
  BY <1>0, <1>4, <1>5, <1>6 DEF EngineTyped
<1>8. WindowInv'
  BY <1>2, WindowSubmit DEF BTInv
<1>9. DailyIsSum'
  BY <1>4 DEF BTInv, DailyIsSum
<1>10. LedgersTraced'
  BY <1>0, <1>4, <1>5, LedgersStay
<1>. QED
  BY <1>4, <1>7, <1>8, <1>9, <1>10 DEF BTInv

\* Steps that touch neither the desk nor the ledgers.
LEMMA BTInvInside ==
  ASSUME BTInv, UNCHANGED <<omsVars, booked, pf_positions, pf_cash>>, EngineTyped'
  PROVE  BTInv'
<1>1. UNCHANGED <<orders, pending, positions, cash, fills, streamed, window,
                  daily_realised_pnl, now, registry, oms_positions, sent_at, crowded>>
  BY DEF omsVars, brokerVars, riskVars, omsOwn
<1>2. WindowInv'
  BY <1>1 DEF BTInv, WindowInv, WindowTyped, WindowCovers, RateCapped, Ascending
<1>3. DeskTyped' /\ DailyIsSum'
  BY <1>1 DEF BTInv, DeskTyped, DailyIsSum
<1>4. LedgersTraced'
  BY <1>1, LedgersStay DEF BTInv
<1>. QED
  BY <1>2, <1>3, <1>4 DEF BTInv

LEMMA BTInvNext == BTInv /\ [BTNext]_btVars => BTInv'
<1>. SUFFICES ASSUME BTInv, [BTNext]_btVars PROVE BTInv'
  OBVIOUS
<1>0. DeskTyped /\ EngineTyped /\ LedgersTraced
  BY DEF BTInv
<1>f. fills \in Seq(Fill) /\ Len(fills) \in Nat
  BY <1>0 DEF DeskTyped
<1>1. ASSUME NEW i \in Instruments, NEW close \in Prices, TakeBar(i, close) PROVE BTInv'
  BY <1>1, BTInvBar
<1>2. CASE BookOneFill
  BY <1>2, BTInvFill
<1>3. CASE FillsBooked
  <2>1. EngineTyped'
    BY <1>0, <1>3 DEF FillsBooked, EngineTyped, omsVars, brokerVars
  <2>. QED  BY <1>3, <2>1, BTInvInside DEF FillsBooked
<1>4. ASSUME NEW d \in Directions(bar.instrument), NoOrder(d) PROVE BTInv'
  <2>1. d \in {-1, 0, 1}
    BY DEF Directions
  <2>2. EngineTyped'
    BY <1>0, <1>4, <2>1 DEF NoOrder, EngineTyped, omsVars, brokerVars
  <2>. QED  BY <1>4, <2>2, BTInvInside DEF NoOrder
<1>5. ASSUME NEW d \in Directions(bar.instrument), PlaceSignalled(d) PROVE BTInv'
  BY <1>5, BTInvPlace
<1>6. CASE MarkToMarket
  <2>1. bar.instrument \in Instruments /\ bar.close \in Nat /\ BpsUnit \in Nat
    BY <1>0, ConfigAssumption DEF EngineTyped
  <2>2. pf_positions \in Books
    BY <1>0 DEF LedgersTraced, Traced, EngineTyped
  <2>3. PICK q \in Int, p \in Int, u \in Int :
          q = pf_positions[bar.instrument].qty /\ p = bar.close /\ u = BpsUnit
    BY <2>1, <2>2 DEF Books, Position
  <2>4. (q * p) * u \in Int
    OBVIOUS
  <2>5. equity' \in Int
    BY <1>0, <1>6, <2>3, <2>4 DEF MarkToMarket, Marked, EngineTyped
  <2>6. EngineTyped'
    BY <1>0, <1>6, <2>5 DEF MarkToMarket, EngineTyped, omsVars, brokerVars
  <2>. QED  BY <1>6, <2>6, BTInvInside DEF MarkToMarket
<1>7. ASSUME NEW t \in Ticks, WallClock(t) PROVE BTInv'
  <2>1. /\ Elapse(t) /\ window' = window /\ daily_realised_pnl' = daily_realised_pnl
        /\ UNCHANGED <<orders, pending, positions, cash, fills, streamed, registry,
                       oms_positions, sent_at, crowded, phase, bar, bars, booked, last_signal,
                       pf_positions, pf_cash, equity>>
    BY <1>7 DEF WallClock, Elapse, brokerVars, omsOwn, engineVars
  <2>2. WindowInv'
    BY <2>1, WindowElapse DEF BTInv
  <2>3. DeskTyped' /\ DailyIsSum' /\ EngineTyped'
    BY <2>1 DEF BTInv, DeskTyped, DailyIsSum, EngineTyped
  <2>4. LedgersTraced'
    BY <1>0, <2>1, LedgersStay
  <2>. QED  BY <2>2, <2>3, <2>4 DEF BTInv
<1>8. CASE UNCHANGED btVars
  <2>1. EngineTyped'
    BY <1>0, <1>8 DEF btVars, engineVars, omsVars, brokerVars, EngineTyped
  <2>. QED  BY <1>8, <2>1, BTInvInside DEF btVars, engineVars
<1>. QED
  BY <1>1, <1>2, <1>3, <1>4, <1>5, <1>6, <1>7, <1>8 DEF BTNext, Returned

\* BTInv holds all through a run, whatever the bars, signals, limits and broker.
THEOREM BTKeepsInv == BTSpec => []BTInv
<1>1. BTInit => BTInv
  BY BTInvInit
<1>2. BTInv /\ [BTNext]_btVars => BTInv'
  BY BTInvNext
<1>. QED
  BY <1>1, <1>2, PTL DEF BTSpec

\* The desk's and the engine's state keep their shape through a run.
THEOREM BTTypesCorrect == BTSpec => []BTTypeOK
<1>1. BTInv => BTTypeOK
  <2>1. BTInv => OMSTypeOK
    BY DeskTypes DEF BTInv
  <2>. QED  BY <2>1 DEF BTInv, EngineTyped, BTTypeOK
<1>. QED
  BY <1>1, BTKeepsInv, PTL

\* Broker, order manager and portfolio each book every execution, at other moments; once a
\* bar's executions are booked all three hold the same, under any cap, latency and fees.
THEOREM BooksAllAgree == BTSpec => []LedgersAgree
<1>1. BTInv => LedgersAgree
  BY DEF BTInv, LedgersTraced, Traced, LedgersAgree
<1>. QED
  BY <1>1, BTKeepsInv, PTL

-----------------------------------------------------------------------------
(* The default broker: no latency and no cap                               *)

DefaultBroker == LatencyBars = 0 /\ MaxQtyPerBar = NoCap

\* An order that waits is for one lot, untouched, and what the strategy reported last.
WaitsForLot(o) ==
  LET i == orders[o].instrument
  IN  /\ pending[o] = 0 /\ orders[o].type = "market"
      /\ orders[o].filled_qty = 0 /\ orders[o].qty = Lot
      /\ positions[i].qty = IF orders[o].side = "buy" THEN 0 ELSE Lot
      /\ last_signal[i] = IF orders[o].side = "buy" THEN 1 ELSE -1

\* Each instrument has at most one order waiting, and none from its bar to its signal.
\* An execution still to be booked is of an order that was sent and waits no more.
LotsInv ==
  /\ \A i \in Instruments : positions[i].qty \in {0, Lot}
  /\ \A o \in DOMAIN pending : WaitsForLot(o)
  /\ \A o, p \in DOMAIN pending : orders[o].instrument = orders[p].instrument => o = p
  /\ phase \in {"fills", "signals"} =>
       \A o \in DOMAIN pending : orders[o].instrument # bar.instrument
  /\ \A k \in (booked + 1)..Len(fills) :
       /\ fills[k].order_id \notin DOMAIN pending
       /\ fills[k].order_id \in DOMAIN orders => orders[fills[k].order_id].status # "rejected"

Refused(i) ==
  \E o \in DOMAIN orders : orders[o].instrument = i /\ orders[o].status = "rejected"

\* At the broker every signal is carried out or about to be.
Heeded(i) ==
  /\ last_signal[i] = 1 => positions[i].qty > 0 \/ WaitingFor(i, "buy")
  /\ last_signal[i] = -1 => positions[i].qty = 0 \/ WaitingFor(i, "sell")

SignalsHeeded == \A i \in Instruments : Refused(i) \/ Heeded(i)

LEMMA LotsInit == BTInit => LotsInv /\ SignalsHeeded
<1>. SUFFICES ASSUME BTInit PROVE LotsInv /\ SignalsHeeded
  OBVIOUS
<1>1. DOMAIN pending = {} /\ Len(fills) = 0 /\ booked = 0 /\ phase = "bar"
  BY DEF BTInit, OMSInit, SimInit
<1>2. \A i \in Instruments : positions[i].qty = 0 /\ last_signal[i] = 0
  BY DEF BTInit, OMSInit, SimInit, Flat
<1>3. LotsInv
  BY <1>1, <1>2 DEF LotsInv
<1>4. SignalsHeeded
  BY <1>2 DEF SignalsHeeded, Heeded
<1>. QED
  BY <1>3, <1>4

\* What at most one execution does to the books.
LEMMA BooksAfterFew ==
  ASSUME NEW i, NEW price, NEW hit, NEW new, Emits(i, price, hit, new), Len(new) \in Nat
  PROVE  /\ Len(new) = 0 => positions' = positions
         /\ Len(new) = 1 => positions' = Booked(positions, new[1])
<1>1. PICK g : History(g, positions, new) /\ BooksAfter(positions, new) = g[Len(new)]
  BY BooksAfterHistory
<1>2. positions' = g[Len(new)]
  BY <1>1 DEF Emits
<1>. QED
  BY <1>1, <1>2 DEF History

\* A bar executes whatever waits for its instrument, whole.
LEMMA LotsBar ==
  ASSUME DefaultBroker, BTInv, LotsInv, SignalsHeeded,
         NEW i \in Instruments, NEW close \in Prices, TakeBar(i, close)
  PROVE  LotsInv' /\ SignalsHeeded'
<1>0. DeskTyped /\ EngineTyped /\ positions \in Books /\ Lot \in Nat \ {0}
  BY LotAssumption DEF BTInv, DeskTyped
<1>1. /\ Tick(i, close) /\ phase' = "fills" /\ bar' = [instrument |-> i, close |-> close]
      /\ booked = Len(fills) /\ booked' = booked /\ last_signal' = last_signal
  BY <1>0 DEF TakeBar, EngineTyped
<1>2. PICK hit, new : /\ Emits(i, close, hit, new)
                      /\ \A o \in StillPending(i, close) :
                           pending'[o] = IF orders[o].instrument = i /\ pending[o] > 0
                                           THEN pending[o] - 1 ELSE pending[o]
  BY <1>1 DEF Tick, Emits
<1>3. Matched(i, close) = { o \in DOMAIN pending : orders[o].instrument = i }
  BY DEF LotsInv, WaitsForLot, Matched, Crosses
<1>4. /\ DOMAIN orders' = DOMAIN orders
      /\ \A o \in DOMAIN orders : orders'[o] = OrderAfter(o, i, close)
  BY <1>0, <1>2, DeskAfterQuote
<1>5. ASSUME NEW o \in Matched(i, close)
      PROVE  /\ o \in DOMAIN orders /\ orders[o] \in Ticket /\ o \in DOMAIN pending
             /\ FillQty(orders[o]) = Lot /\ orders'[o].status = "filled"
             /\ OrderAfter(o, i, close).status = "filled"
  <2>1. o \in DOMAIN orders /\ orders[o] \in Ticket /\ o \in DOMAIN pending
    BY <1>0, <1>3 DEF DeskTyped
  <2>2. orders[o].filled_qty = 0 /\ orders[o].qty = Lot
    BY <2>1 DEF LotsInv, WaitsForLot
  <2>3. FillQty(orders[o]) = Lot
    BY <1>0, <2>2 DEF DefaultBroker, FillQty, RemainingQty
  <2>4. OrderAfter(o, i, close).status = "filled"
    BY <1>0, <1>5, <2>1, <2>2, <2>3, OrderAfterQuote
  <2>. QED  BY <1>4, <2>1, <2>3, <2>4
<1>6. ASSUME NEW o \in DOMAIN orders, o \notin Matched(i, close) PROVE orders'[o] = orders[o]
  BY <1>0, <1>4, <1>6, OrderAfterQuote
<1>7. DOMAIN pending' = { o \in DOMAIN pending : orders[o].instrument # i }
  BY <1>2, <1>3, <1>5 DEF Emits, StillPending
<1>8. \A o \in DOMAIN pending' : /\ o \in DOMAIN pending /\ o \notin Matched(i, close)
                                 /\ o \in DOMAIN orders /\ orders'[o] = orders[o]
                                 /\ pending'[o] = pending[o] /\ orders[o].instrument # i
  <2>1. \A o \in DOMAIN pending : pending[o] = 0 /\ o \in DOMAIN orders
    BY <1>0 DEF LotsInv, WaitsForLot, DeskTyped
  <2>2. DOMAIN pending' = StillPending(i, close)
    BY <1>2 DEF Emits
  <2>. QED  BY <1>2, <1>3, <1>6, <1>7, <2>1, <2>2
<1>9. /\ hit \in [1..Cardinality(Matched(i, close)) -> Matched(i, close)]
      /\ Len(new) = Cardinality(Matched(i, close)) /\ Len(new) \in Nat
      /\ \A k \in 1..Len(new) : new[k] = FillOf(hit[k], close)
      /\ Len(fills') = Len(fills) + Len(new)
      /\ \A k \in 1..Len(new) : fills'[Len(fills) + k] = new[k]
  <2>1. Emits(i, close, hit, new) /\ DeskTyped
    BY <1>0, <1>2
  <2>2. Cardinality(Matched(i, close)) \in Nat
    BY <2>1, MatchedSize, Zenon
  <2>3. hit \in [1..Cardinality(Matched(i, close)) -> Matched(i, close)]
    BY <2>1, EmittedFills
  <2>4. Len(new) = Cardinality(Matched(i, close))
    BY <2>1, EmittedFills
  <2>5. \A k \in 1..Len(new) : new[k] = FillOf(hit[k], close)
    BY <2>1, EmittedFills
  <2>6. /\ Len(fills') = Len(fills) + Len(new)
        /\ \A k \in 1..Len(new) : fills'[Len(fills) + k] = new[k]
    BY <2>1, EmittedFills
  <2>. QED  BY <2>2, <2>3, <2>4, <2>5, <2>6
<1>10. /\ \A j \in Instruments : j # i => positions'[j].qty = positions[j].qty
       /\ Matched(i, close) = {} => positions'[i].qty = positions[i].qty
       /\ \A o \in Matched(i, close) :
            positions'[i].qty = IF orders[o].side = "buy" THEN Lot ELSE 0
  <2>1. CASE Matched(i, close) = {}
    <3>1. Len(new) = 0
      BY <1>9, <2>1, FS_EmptySet
    <3>2. positions' = positions
      BY <1>2, <1>9, <3>1, BooksAfterFew
    <3>. QED  BY <2>1, <3>2
  <2>2. ASSUME NEW o \in Matched(i, close)
        PROVE  /\ \A j \in Instruments : j # i => positions'[j].qty = positions[j].qty
               /\ positions'[i].qty = IF orders[o].side = "buy" THEN Lot ELSE 0
    <3>1. Matched(i, close) = {o}
      BY <1>3, <2>2 DEF LotsInv
    <3>2. Cardinality(Matched(i, close)) = 1
      BY <3>1, FS_Singleton
    <3>3. hit[1] = o /\ Len(new) = 1
      <4>1. hit \in [1..1 -> {o}] /\ Len(new) = 1
        BY <1>9, <3>1, <3>2
      <4>. QED  BY <4>1
    <3>4. PICK fill \in Fill : /\ fill = FillOf(o, close) /\ fill.instrument = i
                               /\ fill.side = orders[o].side /\ fill.qty = Lot
      BY <1>0, <1>3, <1>5, <2>2, FillOfType
    <3>5. positions' = Booked(positions, fill)
      <4>1. new[1] = fill
        BY <1>9, <3>3, <3>4
      <4>. QED  BY <1>2, <1>9, <3>3, <4>1, BooksAfterFew
    <3>6. \A j \in Instruments :
            positions'[j].qty = IF j = i THEN positions[j].qty + SignedQty(fill)
                                ELSE positions[j].qty
      BY <1>0, <3>4, <3>5, BookedType
    <3>7. positions[i].qty = IF orders[o].side = "buy" THEN 0 ELSE Lot
      BY <1>3, <1>5, <2>2 DEF LotsInv, WaitsForLot
    <3>. QED  BY <1>0, <3>4, <3>6, <3>7 DEF SignedQty
  <2>. QED  BY <2>1, <2>2
<1>11. \A j \in Instruments : positions'[j].qty \in {0, Lot}
  <2>. TAKE j \in Instruments
  <2>1. positions[j].qty \in {0, Lot}
    BY DEF LotsInv
  <2>. QED  BY <1>10, <2>1
<1>12. ASSUME NEW o \in DOMAIN pending' PROVE WaitsForLot(o)'
  <2>1. WaitsForLot(o) /\ orders[o].instrument \in Instruments
    <3>1. o \in DOMAIN pending /\ o \in DOMAIN orders
      BY <1>8
    <3>2. orders[o] \in Ticket
      BY <1>0, <3>1 DEF DeskTyped
    <3>3. orders[o].instrument \in Instruments
      BY <3>2 DEF Ticket
    <3>. QED  BY <3>1, <3>3 DEF LotsInv
  <2>2. positions'[orders[o].instrument].qty = positions[orders[o].instrument].qty
    BY <1>8, <1>10, <2>1
  <2>. QED  BY <1>1, <1>8, <2>1, <2>2 DEF WaitsForLot
<1>13. \A k \in (booked' + 1)..Len(fills') :
         /\ fills'[k].order_id \notin DOMAIN pending'
         /\ fills'[k].order_id \in DOMAIN orders' =>
              orders'[fills'[k].order_id].status # "rejected"
  <2>. TAKE k \in (booked' + 1)..Len(fills')
  <2>1. PICK l \in Nat, n \in Nat : l = Len(fills) /\ n = Len(new)
    BY <1>0, <1>9 DEF DeskTyped
  <2>2. k - l \in 1..n /\ k = l + (k - l)
    BY <1>1, <1>9, <2>1
  <2>3. PICK j \in 1..n : k = l + j
    BY <2>2
  <2>4. hit[j] \in Matched(i, close) /\ fills'[k] = FillOf(hit[j], close)
    BY <1>9, <2>1, <2>3
  <2>5. fills'[k].order_id = hit[j]
    BY <2>4 DEF FillOf
  <2>. QED  BY <1>5, <1>8, <2>4, <2>5
<1>14. LotsInv'
  <2>1. \A o, p \in DOMAIN pending' : orders'[o].instrument = orders'[p].instrument => o = p
    BY <1>8 DEF LotsInv
  <2>2. \A o \in DOMAIN pending' : orders'[o].instrument # bar'.instrument
    BY <1>1, <1>8
  <2>. QED  BY <1>11, <1>12, <1>13, <2>1, <2>2 DEF LotsInv
<1>15. ASSUME NEW j \in Instruments, Refused(j) PROVE Refused(j)'
  <2>1. PICK o \in DOMAIN orders : orders[o].instrument = j /\ orders[o].status = "rejected"
    BY <1>15 DEF Refused
  <2>2. o \notin DOMAIN pending
    BY <1>0, <2>1 DEF DeskTyped
  <2>3. orders'[o] = orders[o]
    BY <1>3, <1>6, <2>1, <2>2
  <2>. QED  BY <1>4, <2>1, <2>3 DEF Refused
<1>16. ASSUME NEW j \in Instruments, Heeded(j) PROVE Heeded(j)'
  <2>1. CASE j # i
    <3>1. ASSUME NEW side, WaitingFor(j, side) PROVE WaitingFor(j, side)'
      <4>1. PICK o \in DOMAIN pending : orders[o].instrument = j /\ orders[o].side = side
        BY <3>1 DEF WaitingFor
      <4>2. o \in DOMAIN pending' /\ orders'[o] = orders[o]
        BY <1>7, <1>8, <2>1, <4>1
      <4>. QED  BY <4>1, <4>2 DEF WaitingFor
    <3>2. positions'[j].qty = positions[j].qty /\ last_signal'[j] = last_signal[j]
      BY <1>1, <1>10, <2>1
    <3>. QED  BY <1>16, <3>1, <3>2 DEF Heeded
  <2>2. CASE j = i /\ Matched(i, close) = {}
    <3>1. \A side : ~WaitingFor(i, side)
      BY <1>3, <2>2 DEF WaitingFor
    <3>. QED  BY <1>1, <1>10, <1>16, <2>2, <3>1 DEF Heeded
  <2>3. ASSUME j = i, NEW o \in Matched(i, close) PROVE Heeded(j)'
    <3>1. last_signal[i] = IF orders[o].side = "buy" THEN 1 ELSE -1
      BY <1>3, <2>3 DEF LotsInv, WaitsForLot
    <3>2. positions'[i].qty = IF orders[o].side = "buy" THEN Lot ELSE 0
      BY <1>10, <2>3
    <3>. QED  BY <1>0, <1>1, <2>3, <3>1, <3>2 DEF Heeded
  <2>. QED  BY <2>1, <2>2, <2>3
<1>17. SignalsHeeded'
  BY <1>15, <1>16 DEF SignalsHeeded
<1>. QED
  BY <1>14, <1>17

\* Booking an execution touches no order that waits and none that was refused.
LEMMA LotsFill ==
  ASSUME DefaultBroker, BTInv, LotsInv, SignalsHeeded, BookOneFill
  PROVE  LotsInv' /\ SignalsHeeded'
<1>0. DeskTyped /\ EngineTyped
  BY DEF BTInv
<1>1. PICK n \in Nat : n = booked + 1
  BY <1>0 DEF EngineTyped
<1>2. PICK fill \in Fill : fill = fills[n]
  BY <1>0, <1>1 DEF DeskTyped, EngineTyped, BookOneFill
<1>3. /\ n \in 1..Len(fills) /\ booked' = n
      /\ BookFill(fill)
      /\ phase = "fills" /\ phase' = phase
      /\ UNCHANGED <<pending, positions, fills, bar, last_signal>>
  BY <1>0, <1>1, <1>2 DEF DeskTyped, EngineTyped, BookOneFill
<1>4. /\ fill.order_id \notin DOMAIN pending
      /\ fill.order_id \in DOMAIN orders => orders[fill.order_id].status # "rejected"
  BY <1>0, <1>1, <1>2, <1>3 DEF LotsInv, EngineTyped
<1>5. /\ DOMAIN orders' = DOMAIN orders
      /\ \A o \in DOMAIN orders :
           /\ o # fill.order_id => orders'[o] = orders[o]
           /\ o = fill.order_id => orders'[o].status # "rejected"
  BY <1>0, <1>3, FillBooked
<1>6. \A o \in DOMAIN pending : orders'[o] = orders[o] /\ o \in DOMAIN orders
  BY <1>0, <1>4, <1>5 DEF DeskTyped
<1>7. LotsInv'
  <2>1. \A i \in Instruments : positions'[i].qty \in {0, Lot}
    BY <1>3 DEF LotsInv
  <2>2. ASSUME NEW o \in DOMAIN pending' PROVE WaitsForLot(o)'
    <3>1. WaitsForLot(o) /\ orders'[o] = orders[o]
      BY <1>3, <1>6 DEF LotsInv
    <3>. QED  BY <1>3, <3>1 DEF WaitsForLot
  <2>3. \A o, p \in DOMAIN pending' : orders'[o].instrument = orders'[p].instrument => o = p
    BY <1>3, <1>6 DEF LotsInv
  <2>4. \A o \in DOMAIN pending' : orders'[o].instrument # bar'.instrument
    BY <1>3, <1>6 DEF LotsInv
  <2>5. ASSUME NEW k \in (booked' + 1)..Len(fills')
        PROVE  /\ fills'[k].order_id \notin DOMAIN pending'
               /\ fills'[k].order_id \in DOMAIN orders' =>
                    orders'[fills'[k].order_id].status # "rejected"
    <3>1. k \in (booked + 1)..Len(fills)
      BY <1>0, <1>1, <1>3 DEF EngineTyped
    <3>2. /\ fills[k].order_id \notin DOMAIN pending
          /\ fills[k].order_id \in DOMAIN orders =>
               orders[fills[k].order_id].status # "rejected"
      BY <3>1 DEF LotsInv
    <3>. QED  BY <1>3, <1>5, <3>2
  <2>. QED  BY <2>1, <2>2, <2>3, <2>4, <2>5 DEF LotsInv
<1>8. SignalsHeeded'
  <2>. SUFFICES ASSUME NEW i \in Instruments PROVE (Refused(i) \/ Heeded(i))'
    BY DEF SignalsHeeded
  <2>1. CASE Refused(i)
    <3>1. PICK o \in DOMAIN orders : orders[o].instrument = i /\ orders[o].status = "rejected"
      BY <2>1 DEF Refused
    <3>2. o # fill.order_id
      BY <1>4, <3>1
    <3>. QED  BY <1>5, <3>1, <3>2 DEF Refused
  <2>2. CASE Heeded(i)
    <3>1. ASSUME NEW side, WaitingFor(i, side) PROVE WaitingFor(i, side)'
      BY <1>3, <1>6, <3>1 DEF WaitingFor
    <3>. QED  BY <1>3, <2>2, <3>1 DEF Heeded
  <2>. QED  BY <2>1, <2>2 DEF SignalsHeeded
<1>. QED
  BY <1>7, <1>8

\* What the engine sees in its portfolio while it weighs a signal is what the broker holds.
LEMMA SeenIsHeld ==
  ASSUME BTInv, phase # "fills"
  PROVE  pf_positions = positions
BY DEF BTInv, EngineTyped, LedgersTraced, Traced

\* An order a signal leads to is for one lot and fits what is held.
LEMMA OrderIsOneLot ==
  ASSUME BTInv, LotsInv, phase = "signals", NEW i \in Instruments, NEW d \in {-1, 1}
  PROVE  /\ \A r \in OrderFor(i, d) :
              /\ r = MarketOrder(i, IF d = 1 THEN "buy" ELSE "sell", Lot)
              /\ positions[i].qty = IF d = 1 THEN 0 ELSE Lot
         /\ OrderFor(i, d) = {} => positions[i].qty = IF d = 1 THEN Lot ELSE 0
<1>1. pf_positions[i].qty \in {0, Lot} /\ pf_positions = positions
  BY SeenIsHeld DEF LotsInv
<1>2. PICK q : q = pf_positions[i].qty /\ q \in {0, Lot}
  BY <1>1
<1>3. Lot \in Nat \ {0}
  BY LotAssumption
<1>4. OrderFor(i, d) = IF d > 0 /\ q <= 0 THEN {MarketOrder(i, "buy", Lot + Magnitude(q))}
                       ELSE IF d < 0 /\ q > 0 THEN {MarketOrder(i, "sell", q)} ELSE {}
  BY <1>2 DEF OrderFor
<1>5. CASE q = 0
  <2>1. Lot + Magnitude(q) = Lot
    BY <1>3, <1>5 DEF Magnitude
  <2>2. OrderFor(i, d) = IF d = 1 THEN {MarketOrder(i, "buy", Lot)} ELSE {}
    <3>. HIDE DEF Magnitude
    <3>. QED  BY <1>4, <1>5, <2>1
  <2>. QED  BY <1>1, <1>2, <1>5, <2>2
<1>6. CASE q = Lot
  <2>1. OrderFor(i, d) = IF d = 1 THEN {} ELSE {MarketOrder(i, "sell", Lot)}
    BY <1>3, <1>4, <1>6
  <2>. QED  BY <1>1, <1>2, <1>3, <1>6, <2>1
<1>. QED
  BY <1>2, <1>5, <1>6

\* A signal that becomes an order: sent, it waits for its lot; refused, it stays on record.
LEMMA LotsPlace ==
  ASSUME DefaultBroker, BTInv, LotsInv, SignalsHeeded,
         NEW d \in Directions(bar.instrument), PlaceSignalled(d)
  PROVE  LotsInv' /\ SignalsHeeded'
<1>0. DeskTyped /\ EngineTyped /\ LedgersTraced
  BY DEF BTInv
<1>1. PICK i \in Instruments : i = bar.instrument
  BY <1>0 DEF EngineTyped
<1>2. PICK r \in OrderFor(i, d) : Submit(r)
  BY <1>1 DEF PlaceSignalled
<1>3. /\ phase = "signals" /\ phase' = "mark" /\ booked' = booked /\ booked = Len(fills)
      /\ last_signal' = [last_signal EXCEPT ![i] = d] /\ d \in {-1, 1}
  BY <1>0, <1>1 DEF PlaceSignalled, Directions, EngineTyped
<1>4. /\ r = MarketOrder(i, IF d = 1 THEN "buy" ELSE "sell", Lot)
      /\ positions[i].qty = IF d = 1 THEN 0 ELSE Lot
  BY <1>2, <1>3, OrderIsOneLot
<1>5. PICK order : /\ order = NewOrder(r) /\ order.instrument = i /\ order.type = "market"
                   /\ order.side = (IF d = 1 THEN "buy" ELSE "sell")
                   /\ order.qty = Lot /\ order.filled_qty = 0 /\ order \in Ticket
  <2>1. NewOrder(r) \in Ticket
    BY <1>0, <1>2, OrderForType, NewTicket
  <2>. QED  BY <1>4, <2>1 DEF NewOrder, MarketOrder
<1>6. PICK id : id = Len(orders) + 1
  OBVIOUS
<1>7. PICK status \in {"sent", "rejected"} :
        /\ orders' = Append(orders, [order EXCEPT !.status = status])
        /\ status = "rejected" => pending' = pending
        /\ status = "sent" =>
             pending' = [o \in DOMAIN pending \cup {id} |->
                           IF o = id THEN LatencyBars ELSE pending[o]]
  BY <1>2, <1>5, <1>6 DEF Submit, Send, Accept, Refuse
<1>8. PICK ticket : /\ ticket = [order EXCEPT !.status = status] /\ ticket \in Ticket
                    /\ ticket.status = status /\ ticket.instrument = i
                    /\ ticket.type = "market" /\ ticket.qty = Lot /\ ticket.filled_qty = 0
                    /\ ticket.side = (IF d = 1 THEN "buy" ELSE "sell")
  BY <1>5, <1>7 DEF Ticket, OrderStatuses
<1>9. /\ DOMAIN orders' = DOMAIN orders \cup {id} /\ orders'[id] = ticket
      /\ \A o \in DOMAIN orders : orders'[o] = orders[o]
      /\ id \notin DOMAIN orders
  <2>1. orders' = Append(orders, ticket)
    BY <1>7, <1>8
  <2>. QED  BY <1>0, <1>6, <1>8, <2>1, OrdersAppend DEF DeskTyped
<1>10. \A o \in DOMAIN pending : o \in DOMAIN orders /\ o # id /\ orders'[o] = orders[o]
  BY <1>0, <1>9 DEF DeskTyped
<1>11. UNCHANGED <<positions, fills>>
  BY <1>2 DEF Submit
<1>12. ASSUME NEW o \in DOMAIN pending
       PROVE  orders[o].instrument # i /\ orders[o].instrument \in Instruments
  <2>1. orders[o] \in Ticket
    BY <1>0, <1>10 DEF DeskTyped
  <2>2. orders[o].instrument \in Instruments
    BY <2>1 DEF Ticket
  <2>. QED  BY <1>1, <1>3, <2>2 DEF LotsInv
<1>13. ASSUME NEW o \in DOMAIN pending'
       PROVE  \/ o \in DOMAIN pending /\ pending'[o] = pending[o]
              \/ o = id /\ pending'[o] = 0 /\ status = "sent"
  BY <1>7 DEF DefaultBroker
<1>14. last_signal'[i] = d /\ \A j \in Instruments : j # i => last_signal'[j] = last_signal[j]
  BY <1>0, <1>3 DEF EngineTyped
<1>15. ASSUME NEW o \in DOMAIN pending' PROVE WaitsForLot(o)'
  <2>1. ASSUME o \in DOMAIN pending, pending'[o] = pending[o] PROVE WaitsForLot(o)'
    <3>1. WaitsForLot(o)
      BY <2>1 DEF LotsInv
    <3>. QED  BY <1>10, <1>11, <1>12, <1>14, <2>1, <3>1 DEF WaitsForLot
  <2>2. ASSUME o = id, pending'[o] = 0 PROVE WaitsForLot(o)'
    BY <1>3, <1>4, <1>8, <1>9, <1>11, <1>14, <2>2 DEF WaitsForLot
  <2>. QED  BY <1>13, <2>1, <2>2
<1>16. ASSUME NEW o \in DOMAIN pending', NEW p \in DOMAIN pending',
              orders'[o].instrument = orders'[p].instrument
       PROVE  o = p
  <2>1. \A q \in DOMAIN pending' : \/ q \in DOMAIN pending /\ orders'[q].instrument # i
                                   \/ q = id /\ orders'[q].instrument = i
    BY <1>8, <1>9, <1>10, <1>12, <1>13
  <2>2. o \in DOMAIN pending /\ p \in DOMAIN pending => o = p
    BY <1>10, <1>16 DEF LotsInv
  <2>. QED  BY <1>16, <2>1, <2>2
<1>17. LotsInv'
  <2>1. \A j \in Instruments : positions'[j].qty \in {0, Lot}
    BY <1>11 DEF LotsInv
  <2>2. (booked' + 1)..Len(fills') = {}
    BY <1>0, <1>3, <1>11 DEF DeskTyped
  <2>. QED  BY <1>3, <1>15, <1>16, <2>1, <2>2 DEF LotsInv
<1>18. ASSUME NEW j \in Instruments PROVE (Refused(j) \/ Heeded(j))'
  <2>1. CASE Refused(j)
    BY <1>9, <2>1 DEF Refused
  <2>2. CASE j = i /\ status = "rejected"
    BY <1>8, <1>9, <2>2 DEF Refused
  <2>3. CASE j = i /\ status = "sent"
    <3>1. id \in DOMAIN pending'
      BY <1>7, <2>3
    <3>2. WaitingFor(i, IF d = 1 THEN "buy" ELSE "sell")'
      BY <1>8, <1>9, <3>1 DEF WaitingFor
    <3>. QED  BY <1>3, <1>14, <2>3, <3>2 DEF Heeded
  <2>4. CASE j # i /\ Heeded(j)
    <3>1. DOMAIN pending \subseteq DOMAIN pending'
      BY <1>7
    <3>2. ASSUME NEW side, WaitingFor(j, side) PROVE WaitingFor(j, side)'
      BY <1>10, <3>1, <3>2 DEF WaitingFor
    <3>. QED  BY <1>11, <1>14, <2>4, <3>2 DEF Heeded
  <2>. QED  BY <1>7, <2>1, <2>2, <2>3, <2>4 DEF SignalsHeeded
<1>. QED
  BY <1>17, <1>18 DEF SignalsHeeded

\* A report that orders nothing finds the position where it wants it.
LEMMA LotsNoOrder ==
  ASSUME DefaultBroker, BTInv, LotsInv, SignalsHeeded,
         NEW d \in Directions(bar.instrument), NoOrder(d)
  PROVE  LotsInv' /\ SignalsHeeded'
<1>0. EngineTyped /\ Lot \in Nat \ {0} /\ d \in {-1, 0, 1}
  BY LotAssumption DEF BTInv, Directions
<1>1. PICK i \in Instruments : i = bar.instrument
  BY <1>0 DEF EngineTyped
<1>2. /\ phase = "signals" /\ phase' = "mark" /\ booked' = booked
      /\ UNCHANGED <<orders, pending, positions, fills, bar>>
      /\ d \in {0, last_signal[i]} \/ OrderFor(i, d) = {}
  BY <1>1 DEF NoOrder, omsVars, brokerVars
<1>3. last_signal'[i] = d /\ \A j \in Instruments : j # i => last_signal'[j] = last_signal[j]
  BY <1>0, <1>1 DEF NoOrder, EngineTyped
<1>4. \A o \in DOMAIN pending : /\ WaitsForLot(o) /\ orders[o].instrument # i
                                /\ orders[o].instrument \in Instruments
  <2>1. \A o \in DOMAIN pending : o \in DOMAIN orders /\ orders[o] \in Ticket
    BY DEF BTInv, DeskTyped
  <2>2. \A o \in DOMAIN pending : orders[o].instrument \in Instruments
    BY <2>1 DEF Ticket
  <2>. QED  BY <1>1, <1>2, <2>2 DEF LotsInv
<1>5. LotsInv'
  <2>1. \A o \in DOMAIN pending' : WaitsForLot(o)'
    BY <1>2, <1>3, <1>4 DEF WaitsForLot
  <2>. QED  BY <1>2, <2>1 DEF LotsInv
<1>6. ASSUME NEW j \in Instruments PROVE (Refused(j) \/ Heeded(j))'
  <2>1. CASE Refused(j)
    BY <1>2, <2>1 DEF Refused
  <2>2. CASE Heeded(j) /\ (j # i \/ d = last_signal[i])
    <3>1. last_signal'[j] = last_signal[j]
      BY <1>3, <2>2
    <3>. QED  BY <1>2, <2>2, <3>1 DEF Heeded, WaitingFor
  <2>3. CASE j = i /\ d = 0
    BY <1>3, <2>3 DEF Heeded
  <2>4. CASE j = i /\ d # 0 /\ OrderFor(i, d) = {}
    <3>1. positions[i].qty = IF d = 1 THEN Lot ELSE 0
      BY <1>0, <1>2, <2>4, OrderIsOneLot
    <3>. QED  BY <1>0, <1>2, <1>3, <2>4, <3>1 DEF Heeded
  <2>. QED  BY <1>2, <2>1, <2>2, <2>3, <2>4 DEF SignalsHeeded
<1>. QED
  BY <1>5, <1>6 DEF SignalsHeeded

LEMMA LotsNext ==
  ASSUME DefaultBroker, BTInv, LotsInv, SignalsHeeded, [BTNext]_btVars
  PROVE  LotsInv' /\ SignalsHeeded'
<1>1. ASSUME UNCHANGED <<orders, pending, positions, fills, bar, booked, last_signal>>,
             phase' \in {"fills", "signals"} => phase \in {"fills", "signals"}
      PROVE  LotsInv' /\ SignalsHeeded'
  <2>1. \A o \in DOMAIN pending' : WaitsForLot(o)'
    BY <1>1 DEF LotsInv, WaitsForLot
  <2>2. LotsInv'
    BY <1>1, <2>1 DEF LotsInv
  <2>3. \A i \in Instruments : Refused(i)' = Refused(i) /\ Heeded(i)' = Heeded(i)
    BY <1>1 DEF Refused, Heeded, WaitingFor
  <2>. QED  BY <2>2, <2>3 DEF SignalsHeeded
<1>2. ASSUME NEW i \in Instruments, NEW close \in Prices, TakeBar(i, close)
      PROVE  LotsInv' /\ SignalsHeeded'
  BY <1>2, LotsBar
<1>3. CASE BookOneFill
  BY <1>3, LotsFill
<1>4. CASE FillsBooked
  BY <1>1, <1>4 DEF FillsBooked, omsVars, brokerVars
<1>5. ASSUME NEW d \in Directions(bar.instrument), NoOrder(d)
      PROVE  LotsInv' /\ SignalsHeeded'
  BY <1>5, LotsNoOrder
<1>6. ASSUME NEW d \in Directions(bar.instrument), PlaceSignalled(d)
      PROVE  LotsInv' /\ SignalsHeeded'
  BY <1>6, LotsPlace
<1>7. CASE MarkToMarket
  BY <1>1, <1>7 DEF MarkToMarket, omsVars, brokerVars
<1>8. ASSUME NEW t \in Ticks, WallClock(t) PROVE LotsInv' /\ SignalsHeeded'
  BY <1>1, <1>8 DEF WallClock, brokerVars, engineVars
<1>9. CASE UNCHANGED btVars
  BY <1>1, <1>9 DEF btVars, engineVars, omsVars, brokerVars
<1>. QED
  BY <1>2, <1>3, <1>4, <1>5, <1>6, <1>7, <1>8, <1>9 DEF BTNext, Returned

\* With the broker's defaults an instrument's orders never overlap: each is for one lot, sent
\* when the position asks for it and executed whole before the next signal is weighed.
THEOREM LotsKept ==
  ASSUME DefaultBroker
  PROVE  BTSpec => [](LotsInv /\ SignalsHeeded)
<1>1. BTInit => LotsInv /\ SignalsHeeded
  BY LotsInit
<1>2. BTInv /\ (LotsInv /\ SignalsHeeded) /\ [BTNext]_btVars => (LotsInv /\ SignalsHeeded)'
  BY LotsNext
<1>. QED
  BY <1>1, <1>2, BTKeepsInv, PTL DEF BTSpec

\* With the broker's defaults a run holds no lot or one of each instrument whenever it weighs
\* a signal: it never stacks lots and never sells short, whatever the risk engine refuses.
THEOREM NeverMoreThanALot ==
  ASSUME DefaultBroker
  PROVE  BTSpec => []OneLotAtMost
<1>1. BTInv /\ LotsInv => OneLotAtMost
  BY DEF BTInv, EngineTyped, LotsInv, OneLotAtMost
<1>. QED
  BY <1>1, BTKeepsInv, LotsKept, PTL

\* With the broker's defaults the portfolio stands, between bars, where the strategy reported
\* last, or an order that takes it there waits, or the risk engine refused one.
THEOREM SignalsAreFollowed ==
  ASSUME DefaultBroker
  PROVE  BTSpec => []PortfolioFollowsSignals
<1>1. BTInv /\ SignalsHeeded => PortfolioFollowsSignals
  <2>. SUFFICES ASSUME BTInv, SignalsHeeded, phase = "bar" PROVE PortfolioFollowsSignals
    BY DEF PortfolioFollowsSignals
  <2>1. pf_positions = positions
    BY SeenIsHeld
  <2>2. \A i \in Instruments : Refused(i) \/ Heeded(i)
    BY DEF SignalsHeeded
  <2>. QED  BY <2>1, <2>2 DEF Refused, Heeded, PortfolioFollowsSignals
<1>. QED
  BY <1>1, BTKeepsInv, LotsKept, PTL

-----------------------------------------------------------------------------
(* What the account is worth                                               *)

\* Profit realised and unrealised at price p, over the common denominator of the position.
LEMMA ProfitIs ==
  ASSUME NEW pos \in Position, NEW w \in Int, NEW p \in Int, HasEarned(pos, w)
  PROVE  Plus(pos.realised_pnl, Times(pos.qty, Plus(Whole(p), Times(-1, pos.avg_price))))
           = Whole(w + pos.qty * p)
<1>1. PICK D, A, C : EarnedOver(pos, w, D, A, C)
  BY DEF HasEarned
<1>2. /\ D \in Nat \ {0} /\ A \in Int /\ C \in Int
      /\ Is(pos.realised_pnl, A, D) /\ Is(pos.avg_price, C, D)
      /\ A - pos.qty * C = w * D
  BY <1>1 DEF EarnedOver
<1>3. PICK q \in Int, real \in Frac, avg \in Frac :
        q = pos.qty /\ real = pos.realised_pnl /\ avg = pos.avg_price
  BY DEF Position
<1>4. Times(-1, avg) \in Frac /\ Is(Times(-1, avg), -1 * C, D)
  BY <1>2, <1>3, TimesType, TimesIs
<1>5. Whole(p) \in Frac /\ Is(Whole(p), p * D, D)
  BY <1>2, WholeType, WholeIs
<1>6. PICK x \in Int : x = p * D
  BY <1>2
<1>7. PICK gain \in Frac : gain = Plus(Whole(p), Times(-1, avg))
  BY <1>4, <1>5, PlusType
<1>8. Is(gain, x + -1 * C, D)
  <2>1. -1 * C \in Int
    BY <1>2
  <2>. QED  BY <1>2, <1>4, <1>5, <1>6, <1>7, <2>1, PlusIs
<1>9. PICK y \in Int : y = x + -1 * C
  BY <1>2, <1>6
<1>10. Times(q, gain) \in Frac /\ Is(Times(q, gain), q * y, D)
  BY <1>2, <1>3, <1>7, <1>8, <1>9, TimesType, TimesIs
<1>11. w + q * p \in Int /\ q * y \in Int
  <2>1. q * p \in Int /\ q * y \in Int
    BY <1>3, <1>9
  <2>. QED  BY <2>1
<1>12. A + q * y = (w + q * p) * D
  <2>1. PICK r \in Int, s \in Int, t \in Int, v \in Int :
          r = q * x /\ s = q * C /\ t = q * p /\ v = w * D
    <3>1. q * x \in Int /\ q * C \in Int /\ q * p \in Int /\ w * D \in Int
      BY <1>2, <1>3, <1>6
    <3>. QED  BY <3>1
  <2>2. q * y = r - s
    BY <1>2, <1>3, <1>6, <1>9, <2>1
  <2>3. A - s = v
    BY <1>2, <1>3, <2>1
  <2>4. r = t * D
    BY <1>2, <1>3, <1>6, <2>1
  <2>5. (w + t) * D = v + r
    BY <1>2, <2>1, <2>4
  <2>. QED  BY <1>2, <2>1, <2>2, <2>3, <2>5
<1>. QED
  BY <1>2, <1>3, <1>7, <1>10, <1>11, <1>12, PlusWhole

LEMMA PlusOfWholes ==
  ASSUME NEW a \in Int, NEW b \in Int
  PROVE  Plus(Whole(a), Whole(b)) = Whole(a + b)
<1>1. Is(Whole(a), a, 1) /\ Is(Whole(b), b, 1)
  BY DEF Is, Whole
<1>2. Whole(a) \in Frac /\ Whole(b) \in Frac /\ a + b \in Int /\ a + b = (a + b) * 1
  BY WholeType
<1>. QED
  BY <1>1, <1>2, PlusWhole

\* A sum of whole fractions is the whole sum.
LEMMA SumOfWholes ==
  ASSUME NEW D, IsFiniteSet(D), NEW f \in [D -> Int], NEW g, DOMAIN g = D,
         \A x \in D : g[x] = Whole(f[x])
  PROVE  SumOfFractions(g) = Whole(SumFunction(f))
<1>1. PICK a : Unfolding(a, D, f)
  BY TotalUnfolds
<1>2. PICK b : Unfolds(b, D, g)
  BY SumUnfolds
<1>. DEFINE Agree(s) == a[s] \in Int /\ b[s] = Whole(a[s])
            T == { n \in Nat : \A s \in SUBSET D : Cardinality(s) = n => Agree(s) }
<1>3. 0 \in T
  <2>1. \A s \in SUBSET D : Cardinality(s) = 0 => s = {}
    BY FS_Subset, FS_EmptySet
  <2>2. Agree({})
    <3>1. a[{}] = 0
      BY <1>1 DEF Unfolding
    <3>2. b[{}] = Whole(0)
      BY <1>2 DEF Unfolds
    <3>. QED  BY <3>1, <3>2
  <2>3. \A s \in SUBSET D : Cardinality(s) = 0 => Agree(s)
    <3>. HIDE DEF Agree
    <3>. QED  BY <2>1, <2>2
  <2>. QED
    <3>. HIDE DEF Agree
    <3>. QED  BY <2>3
<1>4. ASSUME NEW n \in Nat, n \in T PROVE n + 1 \in T
  <2>. SUFFICES ASSUME NEW s \in SUBSET D, Cardinality(s) = n + 1 PROVE Agree(s)
    OBVIOUS
  <2>1. s # {} /\ IsFiniteSet(s)
    BY FS_EmptySet, FS_Subset
  <2>2. PICK x : x = CHOOSE y \in s : TRUE
    OBVIOUS
  <2>3. x \in s
    BY <2>1, <2>2
  <2>4. Cardinality(s \ {x}) = n
    <3>1. Cardinality(s \ {x}) = Cardinality(s) - 1
      BY <2>1, <2>3, FS_RemoveElement
    <3>. QED  BY <3>1
  <2>5. PICK rest : rest = s \ {x}
    OBVIOUS
  <2>6. a[s] = f[x] + a[rest] /\ b[s] = Plus(g[x], b[rest])
    BY <1>1, <1>2, <2>1, <2>2, <2>5 DEF Unfolding, Unfolds
  <2>7. a[rest] \in Int /\ b[rest] = Whole(a[rest])
    BY <1>4, <2>4, <2>5
  <2>8. f[x] \in Int /\ g[x] = Whole(f[x])
    BY <2>3
  <2>9. b[s] = Whole(f[x] + a[rest])
    BY <2>6, <2>7, <2>8, PlusOfWholes
  <2>. QED  BY <2>6, <2>7, <2>8, <2>9
<1>5. Cardinality(D) \in T
  <2>. HIDE DEF T
  <2>. QED  BY <1>3, <1>4, FS_CardinalityType, Reaches
<1>. QED
  BY <1>1, <1>2, <1>5 DEF Unfolding, Unfolds

\* The broker's ledgers reconcile, the bar's instrument was last priced at its close, and
\* the last equity point was made from the portfolio as it still is.
EquityInv ==
  /\ Reconciled
  /\ last_price \in [Instruments -> Nat]
  /\ bars > 0 => last_price[bar.instrument] = bar.close
  /\ phase = "bar" /\ bars > 0 => equity = pf_cash + Marked(bar.close)

LEMMA EquityInit == BTInit => EquityInv
<1>. SUFFICES ASSUME BTInit PROVE EquityInv
  OBVIOUS
<1>1. Reconciled
  BY ReconciledInit DEF BTInit, OMSInit
<1>. QED
  BY <1>1 DEF BTInit, EquityInv

LEMMA EquityNext == BTInv /\ EquityInv /\ [BTNext]_btVars => EquityInv'
<1>. SUFFICES ASSUME BTInv, EquityInv, [BTNext]_btVars PROVE EquityInv'
  OBVIOUS
<1>0. DeskTyped /\ EngineTyped
  BY DEF BTInv
<1>1. ASSUME NEW i \in Instruments, NEW close \in Prices, TakeBar(i, close) PROVE EquityInv'
  <2>1. Tick(i, close) /\ phase' = "fills" /\ bar' = [instrument |-> i, close |-> close]
        /\ last_price' = [last_price EXCEPT ![i] = close]
    BY <1>1 DEF TakeBar
  <2>2. PICK hit, new : Emits(i, close, hit, new) /\ cash' = CashAfter(cash, new)
    BY <2>1 DEF Tick, Emits
  <2>3. new \in Seq(Fill)
    BY <1>0, <2>2, EmittedFills
  <2>4. Reconciled'
    BY <2>2, <2>3, ReconciledTick DEF EquityInv, Emits
  <2>5. close \in Nat
    BY ConfigAssumption
  <2>. QED  BY <2>1, <2>4, <2>5 DEF EquityInv
<1>2. ASSUME UNCHANGED <<fills, positions, cash, last_price, bar, bars>>,
             phase' # "bar" \/ (phase' = phase /\ UNCHANGED <<equity, pf_cash, pf_positions>>)
             \/ (phase' = "bar" /\ equity' = pf_cash + Marked(bar.close)
                 /\ UNCHANGED <<pf_cash, pf_positions>>)
      PROVE  EquityInv'
  <2>1. Reconciled'
    BY <1>2, ReconciledSame DEF EquityInv
  <2>2. phase' = "bar" /\ bars' > 0 => equity' = (pf_cash + Marked(bar.close))'
    BY <1>2 DEF EquityInv, Marked
  <2>. QED  BY <1>2, <2>1, <2>2 DEF EquityInv
<1>3. CASE BookOneFill
  <2>1. phase' = "fills" /\ UNCHANGED <<fills, positions, cash, last_price, bar, bars>>
    BY <1>3 DEF BookOneFill
  <2>. QED  BY <1>2, <2>1
<1>4. CASE FillsBooked
  BY <1>2, <1>4 DEF FillsBooked, omsVars, brokerVars
<1>5. ASSUME NEW d \in Directions(bar.instrument), NoOrder(d) PROVE EquityInv'
  BY <1>2, <1>5 DEF NoOrder, omsVars, brokerVars
<1>6. ASSUME NEW d \in Directions(bar.instrument), PlaceSignalled(d) PROVE EquityInv'
  <2>1. \E r : Submit(r)
    BY <1>6 DEF PlaceSignalled
  <2>2. UNCHANGED <<fills, positions, cash>>
    BY <2>1 DEF Submit
  <2>. QED  BY <1>2, <1>6, <2>2 DEF PlaceSignalled
<1>7. CASE MarkToMarket
  BY <1>2, <1>7 DEF MarkToMarket, omsVars, brokerVars
<1>8. ASSUME NEW t \in Ticks, WallClock(t) PROVE EquityInv'
  BY <1>2, <1>8 DEF WallClock, brokerVars, engineVars
<1>9. CASE UNCHANGED btVars
  BY <1>2, <1>9 DEF btVars, engineVars, omsVars, brokerVars
<1>. QED
  BY <1>1, <1>3, <1>4, <1>5, <1>6, <1>7, <1>8, <1>9 DEF BTNext, Returned

\* What the positions are worth at the last prices: what each brought in and what it would.
LEMMA WorthIs ==
  ASSUME BTInv, EquityInv
  PROVE  \E v \in [Instruments -> Int] :
           /\ \A i \in Instruments :
                v[i] = Proceeds(i) + positions[i].qty * (last_price[i] * BpsUnit)
           /\ Worth = Plus(Whole(StartingCash - FeesPaid), Whole(SumFunction(v)))
<1>. DEFINE v == [i \in Instruments |-> Proceeds(i) + positions[i].qty * (last_price[i] * BpsUnit)]
            g == [i \in Instruments |->
                    Plus(positions[i].realised_pnl, Unrealised(positions[i], last_price[i]))]
<1>1. IsFiniteSet(Instruments) /\ BpsUnit \in Nat
  BY ConfigAssumption
<1>2. ASSUME NEW i \in Instruments
      PROVE  v[i] \in Int /\ g[i] = Whole(v[i])
  <2>1. /\ positions[i] \in Position
        /\ HasEarned(positions[i], Over(Earned(i), fills))
        /\ fills \in Seq(Fill)
    BY DEF EquityInv, Reconciled, Books
  <2>2. Proceeds(i) = Over(Earned(i), fills)
    BY ReconciledMeans DEF EquityInv
  <2>3. Proceeds(i) \in Int
    BY <2>1, <2>2, MeasuresType, OverType
  <2>4. PICK p \in Int : p = last_price[i] * BpsUnit
    <3>1. PICK m \in Nat, u \in Nat : m = last_price[i] /\ u = BpsUnit
      BY <1>1 DEF EquityInv
    <3>2. m * u \in Int
      OBVIOUS
    <3>. QED  BY <3>1, <3>2
  <2>5. PICK w \in Int : w = Proceeds(i)
    BY <2>3
  <2>6. PICK pos \in Position : pos = positions[i]
    BY <2>1
  <2>7. Plus(pos.realised_pnl, Times(pos.qty, Plus(Whole(p), Times(-1, pos.avg_price))))
          = Whole(w + pos.qty * p)
    BY <2>1, <2>2, <2>5, <2>6, ProfitIs
  <2>8. pos.qty * p \in Int /\ w + pos.qty * p \in Int
    <3>1. pos.qty \in Int
      BY DEF Position
    <3>2. pos.qty * p \in Int
      BY <3>1
    <3>. QED  BY <3>2
  <2>. QED  BY <2>4, <2>5, <2>6, <2>7, <2>8 DEF Unrealised
<1>3. v \in [Instruments -> Int] /\ DOMAIN g = Instruments
  BY <1>2
<1>4. SumOfFractions(g) = Whole(SumFunction(v))
  <2>. HIDE DEF v, g
  <2>. QED  BY <1>1, <1>2, <1>3, SumOfWholes
<1>5. Worth = Plus(Whole(StartingCash - FeesPaid), Whole(SumFunction(v)))
  BY <1>4 DEF Worth
<1>. QED
  BY <1>3, <1>5

LEMMA EquityMeans == BTInv /\ EquityInv => EquityIsWorthAlone
<1>. SUFFICES ASSUME BTInv, EquityInv, phase = "bar", bars > 0,
                     \A i \in Instruments \ {bar.instrument} : positions[i].qty = 0
              PROVE  Whole(equity) = Worth
  BY DEF EquityIsWorthAlone, EquityIsWorth
<1>1. EngineTyped /\ LedgersTraced /\ Reconciled
  BY DEF BTInv, EquityInv
<1>2. PICK at \in Instruments : at = bar.instrument
  BY <1>1 DEF EngineTyped
<1>3. pf_positions = positions /\ pf_cash = cash
  BY <1>1 DEF LedgersTraced, Traced, EngineTyped
<1>4. PICK v \in [Instruments -> Int] :
        /\ \A i \in Instruments :
             v[i] = Proceeds(i) + positions[i].qty * (last_price[i] * BpsUnit)
        /\ Worth = Plus(Whole(StartingCash - FeesPaid), Whole(SumFunction(v)))
  BY WorthIs
<1>. DEFINE f == [i \in Instruments |-> Proceeds(i)]
<1>5. f \in [Instruments -> Int] /\ FeesPaid \in Int
  <2>1. \A i \in Instruments : Proceeds(i) = Over(Earned(i), fills)
    BY <1>1, ReconciledMeans
  <2>2. FeesPaid = Over(Charged, fills)
    BY <1>1, ReconciledMeans
  <2>3. fills \in Seq(Fill)
    BY <1>1 DEF Reconciled
  <2>. QED  BY <2>1, <2>2, <2>3, MeasuresType, OverType
<1>6. PICK d \in Int : d = positions[at].qty * (last_price[at] * BpsUnit)
  <2>1. PICK q \in Int, m \in Nat, u \in Nat :
          q = positions[at].qty /\ m = last_price[at] /\ u = BpsUnit
    BY <1>1, ConfigAssumption DEF EquityInv, Reconciled, Books, Position
  <2>2. q * (m * u) \in Int
    OBVIOUS
  <2>. QED  BY <2>1, <2>2
<1>7. MovedAt(Instruments, f, v, at, d)
  <2>. SUFFICES ASSUME NEW i \in Instruments PROVE v[i] = IF i = at THEN f[i] + d ELSE f[i]
    BY DEF MovedAt
  <2>1. CASE i = at
    BY <1>4, <1>6, <2>1
  <2>2. CASE i # at
    <3>1. positions[i].qty = 0
      BY <1>2, <2>2
    <3>2. PICK m \in Nat, u \in Nat : m = last_price[i] /\ u = BpsUnit
      BY ConfigAssumption DEF EquityInv
    <3>3. 0 * (m * u) = 0
      OBVIOUS
    <3>4. f[i] \in Int
      BY <1>5
    <3>5. v[i] = f[i] + 0
      BY <1>4, <3>1, <3>2, <3>3
    <3>. QED  BY <2>2, <3>4, <3>5
  <2>. QED  BY <2>1, <2>2
<1>8. SumFunction(f) \in Int /\ SumFunction(v) = SumFunction(f) + d
  <2>1. IsFiniteSet(Instruments)
    BY ConfigAssumption
  <2>. HIDE DEF f
  <2>. QED  BY <1>5, <1>7, <2>1, SumMoved
<1>9. cash = StartingCash + SumFunction(f) - FeesPaid
  BY <1>1, ReconciledMeans DEF CashReconciles
<1>10. equity = cash + d
  <2>1. equity = pf_cash + Marked(bar.close) /\ last_price[at] = bar.close
    BY <1>2 DEF EquityInv
  <2>2. Marked(bar.close) = positions[at].qty * last_price[at] * BpsUnit
    BY <1>2, <1>3, <2>1 DEF Marked
  <2>3. PICK q \in Int, m \in Nat, u \in Nat :
          q = positions[at].qty /\ m = last_price[at] /\ u = BpsUnit
    BY <1>1, ConfigAssumption DEF EquityInv, Reconciled, Books, Position
  <2>4. (q * m) * u = q * (m * u)
    BY Regrouped
  <2>. QED  BY <1>3, <1>6, <2>1, <2>2, <2>3, <2>4
<1>11. Worth = Whole((StartingCash - FeesPaid) + SumFunction(v))
  <2>1. StartingCash - FeesPaid \in Int /\ SumFunction(v) \in Int
    BY <1>5, <1>6, <1>8, ConfigAssumption
  <2>. QED  BY <1>4, <2>1, PlusOfWholes
<1>12. equity = (StartingCash - FeesPaid) + SumFunction(v)
  <2>. HIDE DEF f
  <2>. QED  BY <1>5, <1>6, <1>8, <1>9, <1>10, ConfigAssumption
<1>. QED
  BY <1>11, <1>12

\* The equity point of a bar, made from the portfolio's own cash and one mark, is what the
\* broker's fills, fees, averages and realised profits say the account is worth, as long as
\* only the bar's instrument is held: for any bars, orders, latency, cap, fees and slippage.
THEOREM EquityAgrees == BTSpec => []EquityIsWorthAlone
<1>1. BTInit => EquityInv
  BY EquityInit
<1>2. BTInv /\ EquityInv /\ [BTNext]_btVars => EquityInv'
  BY EquityNext
<1>3. BTInv /\ EquityInv => EquityIsWorthAlone
  BY EquityMeans
<1>. QED
  BY <1>1, <1>2, <1>3, BTKeepsInv, PTL DEF BTSpec

=============================================================================
