# simtrader: a TLA+ verification project

simtrader is two programs that share a Postgres schema. `src/tradingplatform`
is a Python trading core (broker adapters, risk gates, order manager,
strategies, a backtester). `workers/src` is a Cloudflare Worker that signs
people in through BudgetApp, keeps their sessions, lets administrators manage
them and serves a research API. This directory holds TLA+ models of the parts
whose behaviour depends on order, interleaving, failure or arithmetic, TLC
configurations that check them on small instances, and TLAPS proofs of all
the safety properties these check, for instances of any size. Paths below are
relative to the repository's root.

## 1. Inventory

### Trading core (Python)

| Component | State | Operations | What is hard, what makes it correct |
|---|---|---|---|
| Orders and positions, `core/orders.py`, `core/positions.py` | `Order.status`, `filled_qty`, `avg_fill_price`; `Position.qty`, `avg_price`, `realised_pnl` | construction and validation, `Position.apply` | Adding, reducing, closing and flipping share one branch. Profit less the cost of what is held must equal what the executions brought in. |
| SimBroker, `brokers/sim.py` | `_pending` (a list rebuilt while it is walked), `_positions`, `_account.cash`, `_fill_queue`, `_last_price` | `place_order`, `cancel_order`, `tick`, `stream_fills` | Latency countdown per instrument, partial executions under a cap, cancels between executions. No order is lost, overfilled, overtaken or executed early, and every order that keeps seeing quotes completes. |
| RiskEngine, `risk/gates.py` | `_order_timestamps`, `daily_realised_pnl` | `check` | Sliding window over the wall clock; an order refused by the kill switch has already used a place in it. The limit on a symbol sees executions only, not orders in flight. |
| OMS, `oms/manager.py` | `orders`, `positions` | `submit`, `on_fill` | Books what the broker has booked already, later, on the *same* `Order` object. Positions catch up; once a loss is reported no order goes out. |
| Backtest engine, portfolio, strategy, `simulation/backtest.py`, `portfolio/tracker.py`, `strategies/examples/sma_cross.py` | loop position, `PortfolioTracker.cash/positions/history`, `_last_signal` | `run`: tick, book, signal, order, mark | Three ledgers of one account; signals go by the position held and not by what is in flight; refused orders are not repeated. |
| Executor and evaluator agents, `agents/` | `ExecutorPolicy`; the evaluator's `notes` | `ExecutorAgent.reconcile`, `_split`; `EvaluatorAgent.evaluate` (equal weights as a baseline) | Orders computed from positions that lag behind. A call nothing disturbs moves the position to its target and never past it. |
| Research client, models, scoring, `research/` | none of its own | HTTP calls, score arithmetic | Numeric edges of the score. |
| Saxo and IBKR adapters, `brokers/saxo.py`, `brokers/ibkr.py` | none | stubs that raise `NotImplementedError` | nothing to check yet |
| Market data, CLI, settings, persistence models | none that is shared | reading, printing, wiring | pure input and output |

The parts interact by direct calls: the engine calls `SimBroker.tick`, hands
each returned fill to `OMS.on_fill` and to the portfolio, asks the strategy for
signals and calls `OMS.submit`, which calls `RiskEngine.check` and
`Broker.place_order`. Outside a backtest the fills would reach `on_fill` through
`stream_fills`, that is, later and from another task.

### Worker (TypeScript)

| Component | State | Operations | What is hard, what makes it correct |
|---|---|---|---|
| Sessions, `lib/session.ts` | KV `session:<token>`, KV `user_sessions:<user>` | `createSession`, `destroySession`, `destroyAllUserSessions`, `validateSession` | The index is read, changed and written back with an `await` between. Ending all sessions must leave none. |
| BudgetApp sign-in, `routes/budgetapp-auth.ts` | KV flow and replay entries, `users`, `external_identities`, `audit_log` | `/start`, `/callback` | Look-up and two inserts without a transaction; two guards that read and then write. A member is linked to the member's own account, and a flow signs in once. |
| Identity events, `routes/identity-events.ts`, `lib/identity-events.ts` | the same stores | `user.deleted`, `user.suspended`, `user.sessions_revoked` | A 2xx answer to a deletion is a promise; events are sent again after a failure. |
| User administration, `routes/admin/users.ts`, `ui/admin/users.ts`, CLI `seed-admin` | `users.status`, `role`, `saxo_tokens`, `audit_log` | suspend, unsuspend, delete, role change, expiring a token, seeding an administrator, listing page by page | Buttons on pages that are out of date; administrators acting on each other; read, update and audit row in three statements. An administrator remains, a deleted account stays shut, the trail explains the role, a listing shows everybody. |
| Gates, `middleware/` | session, role, second factor | `sessionMiddleware`, `requireAdmin`, `requireResearchAuth`, `requireResearchOrSession` | Checked at one await of a request whose effect comes later. Nobody acts on authority withdrawn before the request began. |
| ID token verification and issuers, `lib/sso-jwt.ts`, `lib/issuers.ts` | `jwksCache` of each isolate | `verifyIdToken`, `fetchJwks` | A cache that outlives a key rotation, on top of the edge's; leeway at both ends of a token's life. |
| Research API, `routes/research/` | signals, signal actions, evaluations, instruments, engine keys | push and list signals, act on one, push and list evaluations, upsert and list instruments, create, list and revoke engine keys, portfolio context | References between rows that may go, a key that works before it is on record, paging order. |
| Audit log, pages, wiring, schema | rows, HTML | inserts, listings | `writeAudit` fails when its actor or target is erased, and with it the request. The schema's foreign keys decide what a statement may do; the modelled statements carry them. |

`PROJECT.json` lists each of these with its status, and under `hazards` what can
go wrong at which line, with the properties that would notice.

## 2. Modules

| Module | Models | Extends |
|---|---|---|
| `Trading` | orders, executions, positions, exact fractions | |
| `OrderLifecycle` | *abstract*: what any broker promises about its orders | |
| `SimBroker` | the simulated broker | `Trading` |
| `LedgerProofs` | lemmas on induction, sums, fractions and `Position.apply`, which the proofs of the trading core share | `SimBroker` |
| `SimBrokerProofs` | theorems about the broker | `LedgerProofs` |
| `RiskEngine` | the chain of checks and its state | `Trading` |
| `OMS` | order manager composed with `SimBroker` and `RiskEngine` | both |
| `OMSProofs` | theorems about both | `OMS`, `LedgerProofs` |
| `Executor` | the executor agent at a desk with other clients of the order manager | `OMS` |
| `ExecutorProofs` | theorems about it | `Executor`, `OMSProofs` |
| `Backtest` | engine, portfolio and strategy on top of `OMS` | `OMS` |
| `BacktestProofs` | theorems about it | `Backtest`, `OMSProofs` |
| `SignIn` | start of a sign-in and the callback up to the verified identity, token verification, key cache | |
| `SignInProofs` | theorems about it | `SignIn` |
| `Accounts` | the rest of the callback, logout, identity events, user administration over KV and Postgres | |
| `AccountsProofs` | theorems about it | `Accounts` |
| `Administration` | gates, administrators' requests with buttons, audit rows and the listing, `seed-admin` | |
| `ResearchApi` | engine keys, research credentials, signals, evaluations, actions, paging; completes the Worker's next-state relation | `Administration` |
| `ResearchApiProofs` | theorems about it and `Administration` | `ResearchApi` |
| `MC...` | instances for TLC | the module named |

`Accounts` and `Administration` look at the same requests from two sides.
`Accounts` opens sign-in, logout, events and the ending of sessions await by
await and takes the gate for passed; `Administration` opens the gate and what
administrators do, and cuts the others down to what those can meet: a sign-in is
its look-up and the session put afterwards, an erasure is one step, and
`destroyAllUserSessions` is one step that may miss sessions only of a user whose
sign-ins crossed another or the ending, which is what `Accounts` shows of it.

### How state and actions correspond to the code

`SimBroker`. An order is its place in `orders`, in the order of placing. The
list `_pending` is always in that order (`place_order` appends, the other two
filter), so it is a function from waiting orders to `bars_remaining`. `Tick` is
the whole of `tick()`: it picks the matching orders, executes each in list
order, books order, position and cash, queues the executions and rebuilds the
list. `fills` keeps every execution ever emitted and `streamed` counts those
taken from the queue, so the queue is the rest. `cancelled` and `age` are
history the code does not have; no guard reads them.

`RiskEngine`. `RefusedAtOnce`, `RateExceeded` and `KillSwitch` are the checks in
the order the code makes them, `WindowAfter` what `check()` leaves in
`_order_timestamps` on each of its exits.

`OMS`. `Submit` is all of `submit()`: with this broker the awaited
`place_order` never suspends. `DeliverFill` is whoever reads `stream_fills` and
passes one execution to `on_fill`. Today only the backtest calls `on_fill`, with what
`tick` returns; nothing in the repository reads the stream, so this reader is
external, and it may be late. The manager registers the very object the broker holds,
so both write one variable `orders`; both add an execution to it. `crowded`
(history) says an order was sent while another was in flight.

`Executor`. `Reconcile` is the first loop of `reconcile()`, over a plan for any
instruments in any order: quantity from worth and mark, the difference to the
position passed, side, chunks. `SubmitNext` is one turn of its second loop, and
nothing else runs until `outbox` is empty, because no `submit` suspends with this
broker. Parts of a share are the unit, so a target may be a fraction of a share,
which the code's `>= 1` then lets be. `course` (history) keeps what the last call
can be held to; a call made while something is in flight, a refused child, or
somebody else's order or cancel takes it away.

`Backtest`. `phase` is the point in the loop; `TakeBar`, `BookOneFill`,
`FillsBooked`, `NoOrder`, `PlaceSignalled` and `MarkToMarket` are its
statements, and `WallClock` lets real time pass at any speed, because the rate
window reads the wall clock and not the bars. The averages of the strategy are
replaced by any sequence of directions (`Directions`), which contains every
sequence the averages can give; what the strategy does with a direction (report
a change once) is kept.

`SignIn`. A request is a record in `frames` with the point its handler stands at;
an action is what happens between two awaits. `flows` and `used` are the KV
entries `sso:flow:` and `sso:jti:`, kept as the time they lapse. `cache` is
`jwksCache`, one per isolate; `edge` the answer Cloudflare keeps for `fetchJwks`'s
`cacheTtl`. BudgetApp is external: `tokens`, `keys`, `signing` and `ahead` are
what it issued, publishes and signs with, and how far its clock is off; it may
refuse an exchange, answer a repeated code with the same token, publish a key,
switch to it later and withdraw the old one. `Pass` is the clock: it may advance
while the browser or the exchange is waited for, and not between the check of a
token's times and the end of the replay guard (`Prompt`), which take far less
than the leeway of a minute. `signed_in`, `raced` and `last` are history.

`Accounts`. A request is a record in `frames` with the point its handler stands
at; an action is what happens between two awaits, and `Fail` is a throw or a
death at any of them. `users`, `identities` and `addresses` are the Postgres
tables with their foreign keys and unique constraint (a statement that would
break one fails and the request ends there), `sessions` and `index` the two
kinds of KV entry. The erasing transaction reads its rows in one step and
commits in the next, as READ COMMITTED allows. Table `external_identities` was
created as `bridge_jwt_identities` (migration 0009) and renamed by 0011; its
cascade is `LinksAfterDeletingOf`. `cookies`, `promised`, `linked` and
`overlapped` are what an observer would remember; no guard of a handler's step
reads them (a logout starts from a cookie).

`Administration`. `frames` again; `Gate` is `sessionMiddleware` with `requireAdmin`
and the handlers' own early returns, `After` the order of each handler's awaits.
`roll` is `users` by `created_at`, `tokens` the `saxo_tokens` rows, `trail` is
`audit_log` with the columns a property reads. `Buttons` is what a page offers for a
status, and `seen` the statuses a page an administrator keeps open may show: a button
is pressed only if some such page had it, however old. (The page offers the expiry of
a token whether or not there is one; the status `pending` is never set.) `ListUsers`
is one request for the next page. Its two statements, the page and the count, are one
step here; another session may commit between them, and then the count is of a later
moment: an arrival offers one page more, a departure is `shifted` already. `Free` says
a request may arrive, asked once for all kinds. `Observe` updates the history:
`overlapped`, `crossed`, `removed`, `excused`, `shifted`, read by properties and,
`crossed` alone, by `EndSessions`.

`ResearchApi`. `KeyGate`, `TokenGate` and `SessionGate` are the three ways of
`research-auth.ts`; `AcceptedAt` leads to the statement each route makes, with
the look-up of the signal first where the route makes one. `InsertKey`, then
`AuditThenAnswer`: the raw key is in the answer alone, so it is `held` only if
the audit row went in. `fit` (history) is the set of requests whose credential
was good at some moment since they began.

## 3. Runs

| Run | Question | Bounds |
|---|---|---|
| `sim_book` | Is the order book exact, does it implement `OrderLifecycle`, and do orders, positions and cash reconcile with the executions, under any interleaving of placing, cancelling and quotes? | 2 instruments, 3 orders, latency 1, cap 2, orders of 1, 3 and 4 on either side, two prices around the limits, slippage, a fee per share with a minimum |
| `sim_progress` | Does every market order complete while quotes keep coming? | 2 instruments, 2 orders, latency 1, one of them in two executions |
| `oms_desk` | Executor and other clients with executions delivered late: rate cap, positions, symbol limit, no order after a loss is reported, and does a call of `reconcile` reach its target without passing it? | 2 instruments (the other clients trade one), 3 orders, minute of 2 time units, clock to 2, cap of 2 orders a minute, prices 1 and 3 so that a round trip loses the limit of 4; 2 parts to the share, children of at most 3 parts, plans that go short or let go |
| `backtest_run` | The loop with the default broker: ledgers, lots, signals, equity | 2 instruments in any order, 6 bars, 2 prices, rate cap 2 so that orders are refused |
| `backtest_equity` | *(violation)* Is the equity point the worth of the account with two instruments? | 4 bars |
| `backtest_overfill` | *(violation)* Was an order reported filled executed in full? | 4 bars, cap 1, lot 2 |
| `accounts_desk` | Links, promises and sessions while requests of two members interleave and die | 2 members, 2 requests in flight, 3 in all, 3 accounts |
| `accounts_index` | *(violation)* Does the index name every live session between requests? | 1 member, 2 requests in flight |
| `accounts_erase` | *(violation)* Does an acknowledged deletion leave nothing personal? | 1 member, one request at a time, no failure |
| `research_desk` | Gates, administrators and research API: authority, the last administrator, accounts deleted, the trail, keys on record, actions of the erased, the pages of users | 3 people, one of them not there yet, 2 requests in flight, 3 in all of which 1 to the research API, a walk along the users' pages counting as one, 2 keys, 2 signals, a page of 1 row |
| `research_pages` | *(violation)* Do the pages of signals show all of them? | 1 client, 5 requests, 3 signals, a page of 1 row |
| `signin_flow` | Does a flow sign in once, is a withdrawn key dropped in time, and is nothing genuine refused? | 1 flow, 2 requests in flight, 3 in all, 2 isolates, 2 keys, clock to 3, clocks apart by the whole leeway either way |

**Why these bounds are enough.** In the broker two orders are the least that can
overtake one another and two instruments the least that can be confused; latency 1 has
a bar that waits and one that does not; a cap of 2 over an order of 3 gives a partial
and a completing execution. Orders of unequal size on both sides reach every case of
`Position.apply`: open, add with an average that is not whole, reduce, close, flip. In
`oms_desk` a window of two orders and a clock that runs to the end of one window lets
orders be pruned, refused and passed again; three orders build a loss, realise it and
meet the kill switch, which refuses the third once the executions are reported and
lets it through while they are on their way (a refusal with a third execution still in
flight would take four orders and is left to the proof); from two parts long to three
short takes a full child of three and a rest of two; at the price of 3 the short is
one part, half a share; and a plan for both instruments has one child of each. Two
overlapping requests are what a lost update takes, and the third is the observer (for
instance an event after two sign-ins); two members show that one's requests leave the
other's alone. In `research_desk` two people are an administrator and whom the
administrator acts on, or two administrators facing each other. Listed together they
are a listing of two pages, and the third person (`Newcomers`) signs in for the first
time at any moment, so also while somebody is between the pages: the rows move down by
one and a page is added. Only the first page of a walk counts towards `MaxRequests`.
Two requests are a race and the third what finds its result (a deletion, an
unsuspension from an old page, a sign-in). One call to the research API is enough
beside them, because what an earlier call leaves (a key in use, a signal) is there
from the start. In `signin_flow` two callbacks of one flow are what both races take
and the third request is the event or reload that finds what they left; two isolates
share one edge; the clock runs to `JwksTtl + EdgeTtl`, past the life of a token issued
at the start with its leeway, so that every entry can lapse and be filled again while
the token still passes, and a key born at the start counts as settled. Every bound
(`MaxOrders`, `MaxTime`, `MaxBars`, `MaxRequests`, `MaxUsers`, `MaxFlows`, `MaxKeys`,
`MaxSignals`, `MaxCalls`) appears in a guard and only stops new work from arriving:
what is under way goes on. `accounts_desk`, `signin_flow`, `research_desk` and
`research_pages` turn the deadlock check off for that reason: when the last request
has finished nothing is left to do.

**Properties with a proviso.** `BookHoldsOpenOrders` says of an order cancelled that
it has left the list, and nothing of its status; `OrdersStopAtLoss` lets an order
through while an execution is on its way. Section 4 says what the documents ask beyond
that. `SessionsEndTogether` and `PromiseKept` speak of
members no two of whose requests overlapped, because without the proviso the code
breaks them; `IndexComplete` and `DataIsGone` state what the comments say without
one, and their runs show how they fail. The proviso leaves in other members'
requests at any moment and requests that died half way and were sent again.
`SignsInOnce` lets a flow sign in twice when two requests raced at both guards,
which the code cannot exclude: it reads and then writes; what the run shows is
that no lapse of either entry, no reload, no death and no repeated token does it
otherwise. `GenuineAccepted` speaks of keys published for as long as the two
caches together may lag. `SymbolLimitHolds` speaks of desks where no order was
sent while another was in flight (`~crowded`): the check reads positions of
executions delivered, so two orders in flight pass one after the other and end
beyond the limit README line 71 speaks of (`risk/gates.py:65`).
`EquityIsWorthAlone` speaks of bars at which nothing is held in the other
instrument, which is where `backtest_equity` differs. `MovesToward` and
`ReachesTarget` hold a call of `reconcile` to its target when nothing was in
flight at the call and nobody else traded since, with a broker without a cap.
`AnAdminRemains` leaves out two administrators' changes both past the gate (they
lock each other out, which the code does not prevent) and BudgetApp's erasure of
an administrator; `NoWayBack` a sign-in that crossed another or the ending of its
sessions, the race of `accounts_index`; `TrailExplainsRole` role changes of one
account that overlapped, and rows that a request which died half way never wrote;
`UsersPagesComplete` walks during which a row left the listing, be it one of the
start or one that came meanwhile: the later rows move up by one, and the first of
them may pass from a page to come to one shown already. `OneLotAtMost` and
`PortfolioFollowsSignals` are checked with the default broker (no latency, no cap);
with latency the code stacks lots.

**Fairness.** Only `sim_progress` needs any: `SimFairSpec` asks, for each
instrument, that the host go on pushing quotes of it. That is what the docstring of
`brokers/sim.py` expects of the host (`tick` is called for every quote), and
nothing is asked of clients. `Tick` is enabled in every state, so weak fairness
suffices.

**Mutants.** Each property of a passing run has an operator, marked "Faulty
variant" and placed before the definition it replaces, that changes it the way a
plausible bug would; put in its place it makes TLC find the property violated.
No specification uses these operators otherwise.

## 4. Disagreements found

1. `backtest_overfill`: broker and order manager both add each execution to the
   `Order` they share; under a cap an order is FILLED after half of it
   (`oms/manager.py:44`). Without a cap the order goes from FILLED back to
   PARTIALLY_FILLED with twice its quantity, and the ledgers of positions and cash
   agree all the same (`backtest_run`).
2. `backtest_equity`: each bar marks its own instrument alone, so with two
   instruments the equity leaves out what is held in the other
   (`simulation/backtest.py:111`).
3. `accounts_index`: the session index loses an update when two requests about one
   user overlap, and a session nobody can end early stays (`lib/session.ts:29`).
4. `accounts_erase`: an account an administrator deleted is unlinked, so a later
   `user.deleted` answers 200 and leaves its audit addresses
   (`routes/admin/users.ts:193`).
5. `research_pages`: the next page of signals is cut by `id <` the last one shown,
   but pages are in the order of `created_at` and ids are random: some signals are
   on no page (`routes/research/signals.ts:74`; `evaluations.ts:71` is the same).

Two more show in the models' definitions and have no run of their own: no reachable
state is in doubt, the code has no statement that would do what the document says.

6. No order ever gets the status CANCELLED. `ARCHITECTURE.md:132` ends the life of an
   order in `FILLED | CANCELLED | REJECTED`, and `core/orders.py:39` and `:93` have the
   status and count it as terminal; `cancel_order` (`brokers/sim.py:105-108`) only
   takes the order off the list. A cancelled order stays SENT or PARTIALLY_FILLED, and
   its `is_terminal` false, for good. `CancelOrder` models that: it leaves `orders`
   alone. `ImplementsLifecycle` reads off the list whether an order is open.
7. The kill switch does not flatten, and its halt is not one that lasts.
   `ARCHITECTURE.md:357` says "automatic flatten + halt if breached". The code refuses
   orders (`risk/gates.py:86-93`), those that would close a position too, and sends
   none, so a position that is losing stays. Orders pass until the execution
   that made the loss is reported. `on_fill` recomputes the total at each execution
   (`oms/manager.py:59-61`), so one still in flight that brings a profit lifts the
   halt again; and the total is of all time and not of the day, as nothing resets it.
   `OrdersStopAtLoss` says what is left: no order at any moment at which
   the executions reported come to the loss.

## 5. Proofs

TLC answers for the instances of section 3; the theorems below hold for every value
of the constants that the named assumptions allow: any number of instruments,
orders, members, accounts, requests, keys and isolates, any prices, limits, latency,
lifetimes and clocks. Of the 38 properties the passing runs check, 37 are stated by
a theorem: all but the one liveness property. Each module proves an inductive
invariant, or several that rest on the first, and derives its theorems from that. Where
TLC can evaluate an invariant it was checked before it was proved: `TrailInv` and
`PagesInv` on some millions of states of larger instances than section 3 has,
`LedgerInv` and `EquityInv` through the properties they give, since `HasEarned`
quantifies over all integers.

| Module | Inductive invariant | Theorems and the properties they state |
|---|---|---|
| `SimBrokerProofs` | `SimInv`, `LedgerInv` | `TypeInvariant` (`SimTypeOK`), `BookIsExact` (`BookHoldsOpenOrders`), `FirstComeFirstServed` (`QueueOrderRespected`), `LatencyHolds` (`LatencyRespected`), `RefinesLifecycle` (`ImplementsLifecycle`), `OrdersAreReconciled` (`OrdersReconcile`), `PositionsAreReconciled` (`PositionsReconcile`), `CashIsReconciled` (`CashReconciles`) |
| `OMSProofs` | `OMSInv`, `ReportedInv` | `OMSTypesCorrect` (`OMSTypeOK`), `RateIsCapped` (`RateCapped`), `ManagerAgreesWithBroker` (`PositionsAgree`), `SymbolLimitIsKept` (`SymbolLimitHolds`), `NothingSentAtLoss` (`OrdersStopAtLoss`) |
| `ExecutorProofs` | `ExecInv`, `CoursedInv` | `AgentKeepsGuarantees` (the four invariants of `OMS` with the agent at the desk), `AgentStopsAtLoss` (`OrdersStopAtLoss`), `NeverAwayFromTarget` (`MovesToward`), `TargetIsReached` (`ReachesTarget`) |
| `BacktestProofs` | `BTInv`, `LotsInv`, `EquityInv` | `BTTypesCorrect` (`BTTypeOK`), `BooksAllAgree` (`LedgersAgree`), `NeverMoreThanALot` (`OneLotAtMost`), `SignalsAreFollowed` (`PortfolioFollowsSignals`), `EquityAgrees` (`EquityIsWorthAlone`) |
| `AccountsProofs` | `AccountsInv` | `AccountsTypesCorrect` (`AccountsTypeOK`), `LinksAreOwn` (`LinkIsOwn`), `PromisesAreKept` (`PromiseKept`), `SessionsDoEndTogether` (`SessionsEndTogether`) |
| `SignInProofs` | `SignInInv` | `SignInTypesCorrect` (`SignInTypeOK`), `FlowsSignInOnce` (`SignsInOnce`), `AcceptedKeysAreRecent` (`KeysRecent`), `GenuineTokensAccepted` (`GenuineAccepted`) |
| `ResearchApiProofs` | `WorkerInv`, `TrailInv`, `PagesInv` | `AdministrationTypesCorrect` (`AdminTypeOK`), `ResearchTypesCorrect` (`ResearchTypeOK`), `RequestsHaveAuthority` (`WithAuthority`), `SomebodyRemainsInCharge` (`AnAdminRemains`), `RemovedStayOut` (`NoWayBack`), `KeysAreOnRecord` (`KeysOnRecord`), `ActionsAreOwned` (`ActionsOwned`), `RolesAreExplained` (`TrailExplainsRole`), `NobodyIsSkipped` (`UsersPagesComplete`) |

### Assumptions

Each is declared beside the constants it is about, and TLC evaluates it on every run.
`RequestsAssumption` and `ConfigAssumption`: requests are well formed, prices
positive, latency, cap and fees natural, slippage at most the whole price, and the
instruments are finitely many, for the account sums over them.
`LimitsAssumption`: a limit is a natural number or absent. `DeskAssumption`: a clock
that does not go back. `LotAssumption`: the
lot is positive. `ExecutorAssumption`: a share and a child are of a positive
quantity, and a worth comes out even in parts of a share at every mark. `SignInAssumption`:
lifetimes are natural, the edge keeps an answer for some time
(`EdgeTtl`, the `cacheTtl` of `fetchJwks`), and clocks differ by at most the leeway.
`AdministrationAssumption`: finitely many people, a page of at least one row.

Three theorems of `BacktestProofs` and three of `ExecutorProofs` state a condition
in an `ASSUME` of their own, because the code breaks them otherwise:
`DefaultBroker` is `SimConfig` as `brokers/sim.py:41` declares it, no latency and no
cap on a bar, and `MaxQtyPerBar = NoCap` is the second half of that. With latency
the strategy's lots stack up, and under a cap `on_fill` counts an execution twice
(finding 1), so that neither a lot nor a child is what it says.

### The broker

    SimInv == SimTypeOK /\ BookHoldsOpenOrders /\ Countdown /\ Fifo /\ QueueOrderRespected

`BookHoldsOpenOrders` rests on the types alone: a waiting order has something to
fill, so an execution is of a positive quantity and at most of what remains
(`FillQtyBounds`), and the order leaves the list exactly when nothing remains
(`OrderAfterTick`). `QueueOrderRespected` is not inductive: a later order could
have the smaller countdown. `Fifo` excludes it: orders for one instrument
count down together, and a new one enters with the largest countdown there is.
Then a quote that executes a later order finds the earlier market order due
too. `LatencyRespected` needs `Countdown`: what an order has left to wait and
what it has seen cover the latency, so an order that is due has seen
`LatencyBars` bars and the quote at hand is one more. `TickEffect` states once
what a quote does to each order, and each lemma `Inv...` has a step per
conjunct its action can disturb. The refinement maps placing to `Accepted`,
cancelling to `Withdrawn`, a quote to `Executions` (of no order, it is a
stutter) and reading the stream to a stutter.

    LedgerInv == Reconciled /\ OrdersTally

is what makes the three ledgers agree with the executions. `OrdersReconcile` alone
is not inductive: an execution that names no order yet would be one of the next order
placed, so `OrdersTally` adds that there is none. `PositionsReconcile` speaks of
fractions in lowest terms, and lowest terms say nothing about a step. `HasEarned`
says the same over a common denominator: there are integers `A`, `C` and `D` with the profit
realised worth `A/D`, the average worth `C/D`, and `A` less the quantity times `C`
equal to `D` times what the executions brought in. `Position.apply` keeps that in
both its branches, adding (`AddedSettles`) and reducing, closing or flipping
(`ReducedSettles`). The lemmas on `Is`, `Plus`, `Times` and `Fraction` say what a
fraction is worth whatever its terms. Cash is one sum along all executions, and
`CashReconciles` has it by instruments, where each execution counts once.

### The desk

    OMSInv == WindowInv /\ DeskTyped /\ DailyIsSum /\ BooksInv

`SimInv` does not survive the order manager, which adds each execution to
`filled_qty` a second time, so `OMSInv` builds on `DeskTyped`, which asks less.
`WindowInv` says what `_order_timestamps` stands for: it is in ascending order and
its entries younger than a minute are those of the last orders sent. Then the order
that would be one too many is the one that `RateExceeded` refuses, and the orders
the window has dropped are older than a minute for good.

`BooksInv` says there is a history of books, one per execution, that leads from the
manager's positions (after `streamed` executions) to the broker's (after all of
them), each by `Position.apply` of that execution. Such a history exists although
the program keeps none, and with nothing left to deliver it has one entry, which is
`PositionsAgree`. For the symbol limit `LimitKept` adds, as long as no order was sent
while another was in flight, that the one order in flight was checked at the
position `base` where the history starts: `Alone` says that its executions lead from
`base` toward `base` plus its quantity and never past it, and that its `filled_qty`
counts what the broker executed and once more what was delivered. The doubly counted
quantity is why the bound is stated by the positions and not by `filled_qty`.
`DailyIsSum` (the day's profit is the sum over the manager's positions) and
`ReportedInv` (those positions are the executions delivered, booked afresh from none) are
what the kill switch needs: the total its gate reads is then the one `OrdersStopAtLoss`
recomputes from the executions, and with nothing left to deliver it is the broker's own.

`ExecutorProofs` shows first that the agent's orders, which are among nobody's
`Requests`, keep `OMSInv` too (`ExecInv`). A call of `reconcile` is held to its
target by `CourseInv`: for each instrument of an undisturbed call the parts of its
open children, those in the outbox and those waiting, are all on the side toward
the target and come, counted one by one (`Left`), to exactly what lies between the position and the
target. A child that is executed takes its parts from the one and its quantity from
the other. `SpreadSize` is the arithmetic: the chunks of `_split` come to the total,
with a last one that is neither missing nor too large. `Fresh` is what
keeps deliveries from disturbing it: a waiting child was never executed and an
execution under way is of an order that waits no more.

### The backtest

`BTInv` is `OMSInv` without the symbol limit, the types of the engine, and `Traced`:
one history of books *and* of cash, at whose end the broker stands and at whose
place `booked` both the order manager and the portfolio stand. Three ledgers written
by three pieces of code (`sim.py`, `manager.py`, `tracker.py`) agree because each makes
the same step at the same place of that history.

`LotsInv` is what makes `OneLotAtMost` inductive under `DefaultBroker`: a position
is none or one lot, an instrument has at most one order waiting, for one lot, in the
direction the strategy reported last, and between the bar and its signal it has
none, for the quote has just executed it. An execution still to be booked is of an
order that waits no more, so the second booking of `filled_qty` never meets the
broker's reading of it. `PortfolioFollowsSignals` follows for an instrument none of
whose orders was refused.

`EquityIsWorthAlone` compares what the *portfolio* says (its cash plus its quantity at
one mark) with what the *broker* says (starting cash, fees, and for each instrument the
profit realised and unrealised). `EquityInv` carries `Reconciled` from the broker's
proofs over to the engine, where the broker's orders are written by the manager too,
and says the bar's instrument was last priced at its close, which is the mark. Over
the common denominator of `HasEarned` the average price drops out: realised plus
unrealised is what the executions brought in plus what is held, at the mark
(`ProfitIs`). So every term of `Worth` is a whole number (`WorthIs`); the terms of
instruments not held are their proceeds, and with all proceeds less the fees added up
there is the cash, which `Traced` has the broker and the portfolio agree on.

### The Worker

`AccountsInv` has four parts: rows are typed, and an address is gone exactly when the
account is; a request that knows its account knows one of its own member, whatever
the others did since it looked it up (`RequestsOnOwnAccounts`), which gives
`LinkIsOwn`; two overlapping requests have left a trace (`OverlapsRecorded`); so a
request that has its member to itself knows the stores as they are between its
awaits (`KnowsTheStores`), and members without overlap are `Settled`: their link, their
promise and their index agree. `PromiseKept` and `SessionsEndTogether` follow from
the last two together, and from neither alone.

`SignInInv` has three. Entries of flows and tokens are guards: while the entry is
there nobody is past it, and afterwards one request is, unless two raced
(`FlowOnce`, `JtiOnce`). A used token stays marked until it would no longer pass
(`UsedWhileValid`), which is why `MinTtl` and the leeway appear in the code's
`Math.max`. And every set of keys somewhere on the way, at the edge, in an isolate's
cache or in a request's hands, is what was published at some moment no older than
its place allows (`AsOf`, `KeySetsAsOf`): the two caches' lags add up to
`KeysRecent` and, from the other side, to `GenuineAccepted`.

`WorkerInv` conjoins the properties with what makes them inductive. `fit` requests
have their authority by `WithAuthority` itself. For `AnAdminRemains`, whoever is at
work to take power from somebody is an administrator in force and not at work on
themselves, and all who are so at work are one person (`OneAtWork`), unless
administrators' changes met; then that person remains. For `NoWayBack`, an
account deleted is `Shut`: no link leads to it, and no sign-in to it is under way.

`TrailInv` makes `TrailExplainsRole` inductive, which is silent while a row is missing
and must hold again when it comes. For an account without overlapping changes
`Follows` says: one request at most is between reading the role and writing its row;
what it read is the role until its update, and what it was told is the role until its
row; there are never more rows than roles set, and if there are as many (counting the
row of the request under way) they lead, link by link, to the role, or to what that
request read. A request that dies between update and row leaves one row fewer than
roles set for good, and the trail is noticed to be short rather than wrong.

`PagesInv` says of a walk along the users listing that nobody left: whoever was listed at the
start is listed still, and was shown or stands below the last page shown. A creation
only pushes places down the list (`PlacesRise`, on top of `OrderOutlasts`: the order of
creation survives what is appended and what is erased), a page shows exactly the
places from its offset on (`NextPageShows`), and the last link reaches the last row
(`LastPageReaches`), so at the end nobody stands below.

### What the proofs taught about the models

`UsersPagesComplete` was wrong beyond the run's three requests: it left out only walks
during which an account *of the start* left the listing. `PagesInv` would not go
through, and TLC with five requests showed why: an account created during the walk
pushes the rows down, and when it leaves again they move up past the pages shown.
`shifted` now counts anybody who leaves.

Two `CASE` expressions of `ResearchApi` had guards that overlap; TLC takes the first
one true and hides it, the provers may take either, so nothing could be proved and
the guards now exclude one another. `RowAfter` of `Accounts` and `Administration`
left a row undefined for kinds that never reach it, for the same reason. The books
along a list of executions (`BooksAfter`), the sums (`Total`) and the pruning of the
window (`Recent`) became recursive functions, equal to the folds they replace, and the
rows about an account a set of positions in the trail. `SimInv` was
found not to hold in `OMS`, as said above. Where the argument is an induction over
such a function, it is over the set of positions at which the claim holds
(`LeastNumber`, `Reaches`), because the library's induction theorems take an operator
as a parameter, which the installed provers cannot instantiate.

### Left to TLC

- `MarketOrdersComplete`: liveness under fairness, which is out of the provers' reach.
- The runs that expect a violation stay with TLC by their nature.

## 6. Abstractions, and what is not modelled

- Money is integer units, and slippage is a fraction of `BpsUnit`; averages are
  exact fractions. The code rounds to the 28 digits of `Decimal`, which no
  property here speaks of. One currency, as the code's own comment says.
- `_last_price` is kept only in `Backtest`, where a property reads it. Stop and
  stop-limit orders are placed and never match, as in the code.
- Quotes without a price do nothing and are left out.
- KV is taken to be strongly consistent; Cloudflare's is eventually
  consistent, which would add behaviours (to both guards of `SignIn` too).
  Sessions and their index do not expire. IP addresses
  and wording of administrators' audit rows are left out; a sign-in's audit row
  with its address is kept, because erasure is about it. `user.suspended` and
  `user.sessions_revoked` do the same thing and are one kind.
- `Accounts` starts where `SignIn` ends: a request has its token or session
  accepted. `SignIn` leaves out the cryptography and what an honest issuer sets
  right (issuer, audience, algorithm, nonce), and takes a token to have a `jti`.
- In `Executor` a plan names only instruments with a mark and a position (the code
  passes over the others), and `max_child_qty` is positive; with 0 or less `_split`
  would never end, which no caller sets. The evaluator's equal weights are plans like
  any other; its notes are left out.
- `Administration` leaves out the filters of the listing. (With one set, the links
  of `ui/admin/users.ts:84` and `ui/base.ts:110` read `?status=x?page=2`.) Logout
  is in `Accounts` only. The time stamps `last_seen_at` and `last_used_at`, which
  the gates write without waiting, are read by pages only.
- In `ResearchApi` a key's scopes are recorded and never consulted, as in the code.
  The upsert of instruments and the portfolio context are single
  statements; evaluations are paged as signals are; audit listings and dashboards
  only read.
- Migration 0010 takes UPDATE on `audit_log` from the role `simtrader_app` where that
  role exists, which would make `eraseUser` fail; grants are deployment state and
  not modelled.
- Saxo and IBKR adapters are stubs; market data, settings, HTML and the
  database client carry no state that can go wrong. Of the command line only
  `seed-admin` changes what others read.

## 7. Plan

In order of importance.

1. `Trading`, `OrderLifecycle`, `SimBroker`, with proofs. *(done)*
2. `RiskEngine`, `OMS`. *(done)*
3. `Backtest`. *(done)*
4. `Accounts`: sessions, callback, events. *(done)*
5. `SignIn`: start, flow entry, replay guard, token times and the key cache. *(done)*
6. `Administration`: gates, administrators' requests, trail, listing. *(done)*
7. `ResearchApi`: keys, credentials, signals, actions, evaluations, paging. *(done)*
8. `Executor`: `ExecutorAgent.reconcile` and `_split` on `OMS`. *(done)*
9. Proofs of every safety property and action property the passing runs check, of the
   trading core and of the Worker, for all values of the constants. *(done)*
10. An abstract ledger that `SimBroker`'s positions and cash implement, replacing
    some of the reconciling properties; an abstract login, used at most once.
11. `Scoring`: a pure algorithm against a reference definition.
12. Expiry of sessions and their index.

Twelve runs are what can be checked in reasonable time, so new modules share the
instance of one that is there: `Executor` brings its actions to `oms_desk`,
`ResearchApi` and `Administration` share `research_desk`, and a `Scoring` would be
checked there too, on the rows it reads.
