# A TLA+ model of the upstox trading pipeline

The repository is a paper-trading system for Indian equities: five Python
services that hand messages to each other over Redis pub/sub, three tables in
Supabase, and a dashboard.  This directory holds TLA+ modules of the services
whose state decides what is traded, the TLC configurations that check them on
small instances, and proofs checked by TLAPS.  Paths below are relative to
`src/services/` unless they start with a known top directory.

## 1. Inventory

    Upstox feed -> data-engine --candles--> strategy-engine --signals--> risk-engine
                        |                                                    |
                        +--------candles--> execution-engine <----orders-----+
                                                  |
                                     Supabase (orders, trades, equity_snapshots)
                                                  |
                                risk-engine (equity)    api-gateway -> frontend

| component | state it keeps | operations | status |
|---|---|---|---|
| `data-engine` (`main.py`, `candle_aggregator.py`, `market_hours.py`, `feed_client.py`, `auth.py`) | the feed session and its open five-minute bars | begin a session on the token of the day, tick in, bar closed and published by the next bar's first tick, flush after 15:30, reconnect | `CandleFeed` |
| `strategy-engine` (`main.py`, `day_plan.py`, `breakout_tracker.py`, `regime_gate.py`) | the day's candles, the resolved plan, one tracker per stock | candle in, begin a day, resolve the plan once, backfill, detect a breakout, publish a signal | `BreakoutTracker`, `DayPlan`, `StrategyEngine` |
| `risk-engine` (`main.py`, `daily_cap.py`, `sizing.py`, `equity.py`) | the tracker's date and accepted symbols, the day's equity, the cash left | signal in, skip or size and publish an order | `RiskEngine` |
| `execution-engine` broker (`brokers/paper_broker.py`, `charges.py`) | one plan per order | `place_order`, `on_candle`, `cancel_order`, `get_positions` | `PlanState`, `BrokerPlans`, `PaperBroker`, `Charges` |
| `execution-engine` process (`main.py`, `ledger.py`, `persistence.py`) | the broker, the realised result, two subscriptions | two asyncio tasks, writes to three tables | `ExecutionEngine` |
| `packages/shared` messaging | none: Redis pub/sub delivers at most once | `publish`, `subscribe` | inside `ExecutionEngine`, `RiskEngine` |
| database (`src/infra/supabase/migrations`) | `orders`, `trades`, `equity_snapshots`, tokens | upserts and inserts, reads | inside `ExecutionEngine` |
| `api-gateway` queries and `src/frontend` | none; a polling view | trades, positions, equity curve | `Dashboard` |
| `api-gateway` Upstox login (`upstox_auth.py`) | table `upstox_tokens` | the OAuth callback stores a token | inside `CandleFeed` |
| `strategy-engine` reference data (`candle_cache.py`, `history.py`, `features.py`, `live_reference.py`) | cached candle chunks, read once per process | merge the chunks; previous close, trend, ATR, volume ratios, by date and at the end of the series | `ReferenceData`, `LoadHistory` of `StrategyEngine` |
| generated protobuf code, static instrument lists, texts of the strategy parameters | none | | not modelled: nothing changes state |

What is hard about this code, and what makes each part correct:

* **Broker.**  A candle carries four prices and no order among them.  It can
  reach the entry, the breakeven trigger, the stop and the target of one plan;
  the code's order of looking decides outcome and price.  Right means: no price
  is booked that the candle did not trade at, outcome and result agree, a stop
  never loosens, every order lives one life, and a session leaves nothing open.
* **Two tasks, two channels.**  Orders and candles reach execution-engine in any
  order.  Right means: each close is booked once and written once whatever the
  order, and an order that came late still ends.
* **At-most-once delivery, volatile memory, unretried writes.**  Candles, orders
  and signals may be lost; a crash loses broker, ledger, cap and cash; a write
  may fail and is not repeated.  Right means: the tables may fall behind the
  broker but never contradict it, and rows are not taken back.
* **Daily limits.**  The cap, the per-trade risk and the cash bound a day
  together although each order is checked alone.
* **Time as text.**  The broker compares the HH:MM characters of a timestamp;
  data-engine writes UTC, the strategy's times are exchange-local.
* **Streaming against batch.**  The strategy resolves its plan once, from
  whatever candles came, and then replays a stock's candles into its tracker;
  its lookups are a second copy of the backtest's.  Right means: the result does
  not depend on the arrival order, and it is what the backtest finds.
* **Feed sessions.**  A bar closes on its key's next tick, or on the first
  message after the close; connections drop, publications fail in the middle of
  a message, a silent session lives through the night.  Right means: no tick a
  session heard is lost, no slot is published twice or out of order.
* **Limits before filters.**  The dashboard's pages are cut to a limit before
  or after they are filtered; right means that what is open and new is on them.

`PROJECT.json` lists all of these hazards with the lines where they bite.

## 2. Modules

    Charges <- PlanState <- BrokerPlans <- PaperBroker      <- MCPaperBroker
                                  ^              |
                                  |              +-- INSTANCE TradeLifecycle
                                  +-------- ExecutionEngine <- Dashboard <- MCExecutionEngine
    RiskEngine <- MCRiskEngine
    ReferenceData <- BreakoutTracker <- DayPlan <- StrategyEngine <- MCStrategyEngine
                                                         +-- INSTANCE DayFunnel
    CandleFeed <- MCCandleFeed

and the proofs, which extend the modules they are about:

    SumProofs <- PlanProofs <- PaperBrokerProofs        BrokerPlans, PaperBroker
        ^            ^-------- ExecutionEngineProofs    ExecutionEngine, Dashboard
        +------ RiskEngineProofs, CandleFeedProofs
        +------ StrategyEngineProofs <- BacktestProofs  StrategyEngine, ReferenceData

* **`Charges`** - `round_trip_charges`.  Prices are whole rupees; the
  percentages of the source are integers in units of 10^-7 rupee, and the
  result is rounded to paise as the code rounds it.
* **`PlanState`** - class `_PlanState`.  A plan is a record; `Advance(p, c)` is
  `advance`, built from one operator for each of its branches in the code's
  order (`AdvancePending`: expire, trigger, past the target, fill, fall through
  to `ManageOpen`: breakeven, stop, target, force exit), and `Reports(p, c)` is
  its return value.  A candle's `time` is a global slot number;
  `Label` is the HH:MM text the broker reads, as a count of five-minute slots:
  `FirstLabel = 180` is 15:00, 111 is 09:15, and 45 or so the UTC text of it.
* **`BrokerPlans`** - the dictionary `_plans` as a sequence in insertion order,
  and what each method of `PaperBroker` makes of it.  `on_candle` returns at the
  first plan that reports, so `PlansAfter` advances the live plans up to that
  one and leaves the rest.
* **`PaperBroker`** - the broker as a state machine driven by orders, candles
  and cancellations.  The environment keeps what the rest of the pipeline
  guarantees and no more; the symbols whose feed had a gap or a late order are
  remembered in the history variable `irregular`.
* **`TradeLifecycle`** - the abstract specification: every order goes once from
  unknown over resting and open to an end, and one order moves at a time.
  `PaperBroker` is shown to implement it under the mapping `Stage`.
* **`ExecutionEngine`** - the process: `ConsumeOrder` and `ConsumeCandle` are
  one turn each of the two tasks.  A turn is one step, because neither task
  awaits anything between taking its message and its last write (the database
  client is synchronous).  `Written(before, after)` is a write that may fail;
  a crash empties memory and queues, and messages published while the process
  is down go nowhere.  `PublishOrder` sends an order at any time after its breakout
  candle, a second one for a symbol and session included, as risk-engine does after a restart.
* **`RiskEngine`** - one signal is one step: `reset_if_new_day`, the refresh of
  equity and cash, `can_accept`, `size_order`, and either nothing or the order,
  the cash taken and the symbol remembered.  `LatestEquity` is the newest
  snapshot, or the default when the table is empty or the read fails.
* **`Dashboard`** - `fetch_trades`, `fetch_positions` and `fetch_equity_curve` as
  functions of the tables of `ExecutionEngine`, and the figure the page shows as
  the equity.  Rows that sort alike come in any order, so an answer is a set of
  possible pages.
* **`ReferenceData`** - the reference data as pure operators: `ReadCached` (merging
  overlapping chunks), the lookups of `features.py` by the date of a day, and those
  of `live_reference.py` at the end of the series.  What a window of rows says
  (`Trend`, `Atr`, `RatioToMean`) is one formula in both files and one operator here;
  what differs, and what could be wrong, is which window each takes.
* **`BreakoutTracker`**, **`DayPlan`** - `SymbolTracker.on_candle` and the methods of
  `DayPlan` as operators on records.  Stocks are known by one name where the code
  maps trading symbols to instrument keys one to one.
* **`StrategyEngine`** - the process.  `Turn` is one turn of the loop of `main`: date,
  plan, `feed_candle`, volume filter, signal.  `Candle`, `StaleCandle` and `Skip` are
  what the feed does with a slot: publish its bar, hold it overnight and publish it
  on the key's first tick of the next day, or never.  `Restart` loads the history
  anew and forgets the plan.  The market is one of the constants `Tapes`, from which
  both the live candles and the cache are made, with a first chunk fetched while its
  last day was still trading.  Percentages are basis points, ratios hundredths.
* **`DayFunnel`** - the abstract specification of a day: decided once, and a watched
  stock leaves the list once, with a signal or without.  `StrategyEngine` implements it.
* **`CandleFeed`** - one feed session after another.  `LiveMessage(told)` is one turn
  of `run_session` with a tick of each key in `told` (none is a message too), the
  clock check and the flush; `PublishFails` and `FlushFails` are the same turn with a
  publication that raises, `Drop` any other error, or the server's closing the connection,
  which ends the session without an error and without its flush just as well.  The aggregator lives in the
  session.  `Trade`, `Tick` and `Login` are the environment.
* **`MC...`** - the model values, orders, candles and signals of the runs.
* **`X_Variant` operators** just before an operator `X` are the ways a plausible
  slip would change it.  No run uses them as they stand; each is there to be put
  in the place of `X`, to see that a property notices.

Left out of the modelled parts: the memo of `read_cached` (each series is read once
per process), `missing_symbols`, the messages of type `initial_feed` and
`market_info`, failed dashboard reads (an empty page); `r_multiple` and `last_price` (computed, never
read back by the broker), log lines, and the texts of ids (an id is a value).
Prices, quantities and per cents are integers where the code has floats: the
rounding of floats is not modelled, the rounding the code asks for is.  Where a quotient
has to become an integer all the same, the side matters: the stop of a breakout lies
strictly beyond its candle in the code at every positive price, so `Buffer` rounds up.

## 3. Runs

Each takes from seconds to two minutes.

| run | instance | what it shows |
|---|---|---|
| `broker_prices` | one symbol, LONG and SHORT, with and without a breakeven trigger, every OHLC candle on six price levels, 2 % slippage, missing candles | fills and exits stay on the candle, a target needs a later candle once a trigger is set, outcome and result agree, stops never loosen |
| `broker_sessions` | two symbols, two sessions of three slots, gaps, late orders, cancellations | for an orderly feed: one live plan per symbol, everything settled by the session's end, every live plan advanced; for any feed: one order moves at a time and exactly it is returned, `TradeLifecycle` is implemented |
| `broker_overnight` (violated) | UTC labels | 15:10 never comes, the position stays overnight |
| `risk_engine` | three symbols, seven signals over two days, equity wiped out, shrunk or grown, 2x leverage, restarts | per-trade risk and sizing; on days without a restart also cap, the day's risk, its commitment and its cash |
| `risk_capafterrestart` (violated) | the same | a restart forgets the cap |
| `execution_interleaving` | a symbol and an index, two sessions, fair tasks, pages of one row | tables equal memory after every turn; open positions, equity and the newest day's trades are on the dashboard as far as the limits allow; every order that still can settles |
| `execution_crash` | two symbols, three slots, failing writes, one crash | each close booked once, tables never ahead, rows never taken back |
| `execution_lookahead` (violated) | one symbol | an order is filled by its own breakout candle |
| `execution_equityafterrestart` (violated) | two sessions, one crash | the first snapshot after a restart forgets earlier results |
| `strategy_engine` | two sectors sharing a stock, two markets of two days, candles of five keys up to two slots apart, a missed slot, a held bar or a restart | the signals of an undisturbed day are the backtest's; the decision depends on first candles only; trackers miss nothing; one signal per stock and plan; signals are tradeable; `DayFunnel` is implemented; every day is decided |
| `strategy_utcslots` (violated) | one rising day, live labels behind the cache's | a qualifying breakout on volume is skipped |
| `candle_feed` | two keys, three trades, a trading day, its night and the next morning, one failing session | candles closed by a tick tell their slots; a session that ends with its flush loses nothing it heard; slots move forward; a login ends the outage; a session ends after the close |

**Bounds.**  The mechanics of one plan depend on one candle at a time and on how
its four prices lie against the plan's four; six levels put every price of a
candle below, on, between and above each of them, and a LONG order at 300/200/500
with trigger 400 sits on levels of the grid.  Three or four slots are enough for
a plan to rest, fill, move its stop and end on different candles or on the
same.  Two sessions are what it takes for an order to outlive its own; two
symbols for one to disturb the other; one crash, since a process after a crash
starts from the same empty memory each time.  Two days of signals with two
trades a day let the cap bind, be skipped past, and start afresh.
A day of the strategy has as many bars as its decision needs: a snapshot of one
candle, an opening range of two, breakouts in the third, and for one stock a fall back
into the range and a second breakout.  Two days are what it takes for a stale history,
a held bar and a second plan; a skew of two slots lets a plan resolve before and after
the first candles of the range; one fault is enough for each kind, and more would only
repeat them.  The windows (3 closes, 2 ranges, 3 sessions of which 2 are needed) are as
short as lets one be too short, exact and longer than needed.  In the feed, three
trades of two keys make a bar that grows, one that closes and one that is open at the
end; days of three open slots and a closed one bring the market's end and its next
opening within five ticks, and `Weekend` is empty, which the proof does not ask.
`NumDays`, `MaxCrashes`, `MaxSkew`, `MaxFaults`, `LastTick`, `MaxTrades`, `MaxLag`,
`MaxDrops`, and the condition of `Login` that one is needed, are the only bounds in the
guards.

`strategy_engine` takes live labels and cached labels from one clock (`UtcShift = 0`), as
the tests of the service do; the deployed offset is the subject of `strategy_utcslots`.

**Fairness.**  In `execution_interleaving`, weak fairness of the two tasks: both are coroutines of one event loop and a message waiting in a
subscription wakes them.  Weak fairness of the feed of each key: while the
session lasts the exchange goes on trading and data-engine goes on closing
candles.  Nothing obliges risk-engine to publish an order.  The liveness property
asks for as many force-exit candles ahead as the symbol has live orders, since
`on_candle` settles only one per candle.  The run has no crash and no failed
write: after either, a row may stay OPEN for ever.  In `strategy_engine`, weak fairness
of the slots of each key: a session of the exchange goes by, whether a slot has a bar
or not, and a held bar is closed before its key's next one.  Restarts and missed slots
are not fair.  In `candle_feed`, weak fairness of the start of a session with a readable
table, since `main` retries for ever, and of live messages, since the feed goes on
sending them; nobody is obliged to log in or to trade, and the clock may stop.

## 4. Proofs

Each of the five state machines has its safety properties proved for every value of the
constants that its assumption and the hypotheses named below allow: each invariant and
each action property of a passing run is a theorem.  Every theorem of
the form `Spec => []P` comes from an inductive invariant that names what the property
alone does not say.

**`RiskEngineProofs`**: every set of symbols and signals, every capital, risk share,
leverage and cap, and restarts at any point (what is said of a whole day is said of the
days that saw none).

* `TypeCorrect` - the work is in the sizing: a quotient of integers is an integer only for
  a positive divisor, so `size_order`'s early returns for zero risk and zero price matter.
* `OrderRiskBounded` (no order risks more than `RiskPct` of the equity it was sized from)
  and `SizingMaximal` (a quantity one larger would exceed the budget or the cash):
  `SizeFitsRisk` and its converse give them for one order, and an order published is never
  changed.
* `DailyCapHolds` - on every day without a restart at most `MaxTradesPerDay` orders are
  published, and one per symbol.  `CapInv` says why: the tracker of the day knows
  every order of the day (`TrackerKnows`), and for any other uninterrupted day that has
  orders a later signal was already seen (`PastDaysAreOver`), so no signal of it comes any
  more.  That signals come day by day is an assumption on the environment (`MayCome`).
* `CashAccounted` - on a day without a restart the cash is the day's equity less the sum
  of quantity times price over the orders published that day - and `DayRiskIsBounded` - the
  orders of such a day together risk at most `MaxTradesPerDay` times the share of its equity.
  `DayInv` adds that they were sized from one equity, the one in memory while the day lasts,
  and that an order belongs to a signal that was taken; the rest is `CapInv` and a sum of at
  most so many bounded members.
* `CommitmentBounded` - the orders published on a day without a restart together cost at most
  the equity they were sized from times the leverage.  `CommitInv` bounds what is missing from
  the cash in memory (and adds `cash <= equity`, without which one order could break the
  bound); `DayInv` says that this is the sum of the day's orders while the day lasts, and
  once it is over `CapInv` adds none to it.  A restart forgets what its day committed, and
  after it the day may commit as much again: such days are not claimed.

**`SumProofs`** holds what these and other proofs need of `SumFunctionOnSet` and of the
folds of the community modules: the sum over the empty set, with one element more,
over equal functions, of bounded members.  The folds are defined by recursion over finite
sets, and the library's induction theorems take an operator as their parameter, which no
installed prover instantiates; the lemmas are proved by the least counterexample instead
(the set of the cardinalities at which the claim fails has no least element).

**`PaperBrokerProofs`**, on the lemmas of `PlanProofs`: every set of orders and candle
shapes, every slippage below 100 %, every length of a session, every order in which
candles, orders and cancellations arrive.

* `TypeCorrect`, `PlansStayCoherent` (the fields of every plan agree with its state and no
  order has two plans), `StopsNeverLoosen` - from `BrokerInv`.  `PlansCoherent` alone is
  not inductive.  Moving to breakeven replaces the stop by the price paid, which is a
  tightening only because the price paid, slippage included, lies beyond the order's
  stop: `EntryBeyondStop` shows it at the fill and `PlanInv` carries it.  An exit is no
  earlier than its entry only because no candle of a symbol comes before the entry of its
  open plans: `EnteredInThePast` says so of the clock, and `CandlesComeLater` draws the
  conclusion for the next candle.  `OnePlanPerOrder` keeps a cancellation, which moves
  later plans up by one, from being mistaken for a change of a plan.
* `FillsStayInside` - no order fills and no position closes at a price its candle did not
  trade at, slippage apart.
* `TargetsTakeALaterCandle` - with a breakeven trigger, a target is never booked on the
  candle of the entry: a candle that reaches the target reaches the trigger as well, the
  stop moves to the price of the entry, which the candle traded at, and the code looks at
  the stop before the target.
* `ResultsMatchOutcomes` - the outcome of a closed plan agrees with the sign of its result.
  `PricesInv` adds where entry, stop and target of an open plan lie.  The proof corrected
  the property: charges are rounded to paise, so the net result lies strictly below the
  gross one only from a turnover of five rupees on, and never above it.
* `NothingGoesUnreported` - `on_candle` returns exactly what the candle changed.
* `EveryOrderLivesOneLife` - `PaperBroker` implements `TradeLifecycle`.  Each action is
  mapped by `Stage` to a step or a stutter; that a candle moves one order only is
  the fact, about `PlansAfter`, that the advance stops at the first plan that reports and
  that a plan that does not report keeps its stage.
* `OneLivePlanPerSymbol`, `EverySessionSettles`, `EveryLivePlanAdvances` - for symbols with
  an orderly feed and under `SessionsEndAfterCutoffs`: the last slot of a session is
  labelled no earlier than the force exit and the expiry of entries.  `SessionInv` says
  that a live plan of such a symbol belongs to the session under way and that no two of
  its orders are of one session.  The hypothesis is what the exchange's own clock
  gives (`MCPaperBroker` satisfies it); the UTC labels of data-engine do not, and
  `broker_overnight` shows what then happens.

`PlanProofs` holds what is true of one plan and of a list of plans, so that
`ExecutionEngine`, which uses the same operators, is proved about with the same lemmas.

**`ExecutionEngineProofs`**: every set of orders, candles and page limits.

* `TypesHold`, `RowsAreNotTakenBack`, `TablesDoNotLead`, `LedgerCountsEveryClose` - with
  crashes and failed writes.  `ExecInv` adds to the types that a row fits the plan of its
  order while the broker has one (`RowsFit`), that an order is queued at most once and not
  when it has a plan or a row (`QueuedOnce`), and that queued candles come in the order of
  their times, after every entry.  `RowsAreNotTakenBack` rests on `QueuedOnce`: a
  process that crashed never gets an order it had before, because messages are delivered at
  most once.  The ledger's sum is a step over one closed plan more, with `SumProofs`.
* `TablesFollowMemory` under `~WritesFail`.
* `DashboardFollows` and `NewestDayIsComplete` under `~WritesFail` and `MaxCrashes = 0`:
  these are the conditions of the run, since either fault leaves a row OPEN for ever.
  `DashInv` adds to `TablesMatchMemory` that every row is of a plan in memory; what the
  pages show is then counted: a page cut to a limit lacks a row only if it is full of
  rows that sort no later.

**`StrategyEngineProofs`**: every market, cache, universe, sectors and parameters, every
order of candles, held bars, missed slots and restarts.

* `TypesHold`, `NoCandleIsMissed`, `OneSignalADay`, `DecisionStands`, `SignalsCanBeTraded`
  and the refinement `EveryDayIsAFunnel`.  `EngineInv` is the shape of the process: what
  the exchange has released (`ExchangeInv`) and that memory is either empty or the plan of
  a begun day (`ProcessInv`).
* `NoCandleIsMissed` - a tracker is a fold over the candles of its stock from the first of
  the day on: one more candle is one more step of the fold, so it needs no induction.
* `OneSignalADay` - `OnceInv`: the signals of a stock for the day, and one more if its tracker
  may still break out, are no more than the plans the day had; a tracker with a breakout
  never breaks out again, and a restart begins a new plan.
* `DecisionStands` - `DecisionInv`: an undecided plan has chosen nothing, and a decided one
  chose what its buffers say, however they have grown since: `Resolve` reads no candle
  after the first ones of a key, and a key it reads has them all when it runs.
* `SignalsCanBeTraded` - stop, entry, trigger and target lie in the order that risk-engine
  and the broker rely on, and the stop keeps the floor of the ATR.  Hypotheses:
  `StockPricesAreReal` (prices above nothing, no low above its high) and `RulesLeaveRoom`
  (the target is at least one risk away, and at least one risk beyond the trigger; the
  defaults are 3 and 1.5).  `TradeInv` says it of the signals; `StampInv`, that a signal of the day is the
  breakout of a tracker, ties it to the history whose ATR set the floor.

**`BacktestProofs`**: the same instances.  The service computes in one pass over arriving
candles what the backtest computes by date over finished series; these theorems say that
the two agree, from the files of the cache to the prices of the signals.

* *The cache.*  What `read_cached` returns after some days is the past and one row for
  each day since (`DailySeries`), and grouped by day the bars of each (`VolumeSeries`).
  `Sorted` is defined by rank, so a sequence in a strict order is the sorted sequence of
  its elements (`RankedAscends`), whatever chunks they came from; `WinnerIs` says which
  row of a timestamp survives.  `HistoryIsArchive` puts together what `load_history`
  returns.
* `LiveLookupsMatchBatch` and `LiveRatiosMatchBatch` - the sentence at
  `live_reference.py:12`, for every series: previous close, trend and ATR at the end of
  a series, and the volume ratios after a profile, are what `features.py` finds at the
  day that comes next.
* *The tracker.*  Fed the bars of a day one by one, it breaks out at the first close
  beyond the range of the first bars, and nowhere if there is none
  (`TrackerFindsBreakout`, from `WatchesOneMore` by the least counterexample).
* *The decision.*  Direction, gate, strengths and places (`PlaceIsRank`) are the
  backtest's; so the plan lists the backtest's sectors in order of place
  (`SectorsAreSelected`), and watches the stocks it could trade
  (`QualifiesIsWatchable`).
* *The day.*  `StreamingMatchesBacktest`, `Spec => []SignalsMatchBacktest`, needs three
  invariants besides `EngineInv` and `DecisionInv`.  `ReadyInv`: no turn leaves a plan
  waiting that has its snapshots.  `FreshInv`: before the first plan of a day there is no
  signal of the day, and no bar has gone by unnoticed.  `QuietInv`: while the day's one
  plan has missed nothing, its buffers are the bars so far, and the signals of the day are
  the breakouts, on volume, of its trackers since the resolution.  At the end of the day
  the buffers are the whole of it, and the parts above apply (`BreakoutsOfTheDay`).
* `EveryBreakoutSignalled`, `Spec => []NoMissedBreakouts`, follows.  The run
  `strategy_utcslots` violates this property; the theorem says that the offset between
  the clocks is all it takes.

Their hypotheses, beyond `EngineAssumption`, are defined in `StrategyEngine`.
`UtcShift = 0`: live and cached labels are of one clock, as in the tests of the service.
`CacheHoldsPast`: the series called `Past` are what the first chunk files give, and none
of their rows is of a later day; the chunks may overlap in any way.  `SnapshotsComplete`:
on every day NIFTY, the sectors and the stocks have as many bars as a snapshot takes; an
awaited key with fewer keeps the plan from resolving, while the backtest has no price for
it (it is asked of stocks without a history too, which neither side trades).
`SectorsDiffer`: `V2_SECTORS` names no sector twice.  And the VIX is not a stock.

**`CandleFeedProofs`**: every set of keys, every price, slot length, day length that is a
multiple of it, market hours, weekends, and every order of trades, messages, errors,
sessions and days.

* `CandlesMoveForward` - `FeedInv` adds to `SlotsMoveForward` why it stays true.  A key's
  open bar is later than all of its candles and no later than its waiting ticks, so
  the candle that a tick closes is the latest (`KeyIngests`).  When a session ends without
  a flush its bars are forgotten and later trades are in later slots or in the bar's own,
  which was not published (`KeyEnds`).  A flush publishes a slot that may not be over;
  that nothing of it is traded any more follows from the calendar: the market is closed,
  within a day it does not open again (`NoBreakInTheDay`), and a later day is a later slot
  (`ReopensLater`, which needs the day to be a whole number of slots).
* `TypesHold`, `CandlesTellTheTape`, `EveryTickIsAccounted` - from `HeardInv`.
  `KeyTape` says of the open bar, not only of candles, that it tells the trades of its
  slot handled so far (`Tells`), for a slot that began after the session did; closing it
  makes that the whole tape.  `KeyHeard` keeps the books of each session: what it handled is
  in its candles, in the open bar, or went with a session that ended before its flush.  `TokensInv` orders the logins.

The assumptions are `RiskAssumption`, `PlanAssumption` (of `PlanState` and of `DayPlan`),
`BrokerAssumption`, `ExecutionAssumption`, `DashboardAssumption`, `FeedAssumption`,
`ReferenceAssumption`, `TrackerAssumption`, `NoPlanAssumption` and `EngineAssumption`;
TLC evaluates each on a run.  The hypotheses named above are satisfied by the instance of
the passing run that checks the property; those of `StrategyEngine` on its constants TLC
evaluates as `InstanceAssumption` of `MCStrategyEngine`.

Besides `ResultMatchesOutcome`, proving corrected two properties: `TypeOK` of
`StrategyEngine` had a wrong range for the date of a plan made by a held bar, and
`SignalsAreTradeable` asked for the floor of an ATR that a second plan of a day no longer has.

Only model-checked: the liveness properties `EventuallySettled`, `EveryDayDecided`,
`LoginEndsTheOutage` and `SessionEndsAfterClose`, since the prover has no ENABLED.

## 5. Where code and documentation disagree

Shown by a violated run:

1. `broker_overnight` - `strategy-engine/app/params.py:69` says every open
   position is closed at 15:15.  The broker compares HH:MM with "15:10" and
   data-engine writes UTC, where a session runs from 03:45 to 09:55.
2. `risk_capafterrestart` - `risk-engine/app/main.py:5` promises one position per
   symbol and a daily maximum; both are forgotten by a restart.
3. `execution_lookahead` - `params.py:65` calls the entry a stop order at the
   breakout candle's high; handled before that candle, the order is filled by it.
4. `execution_equityafterrestart` - `risk-engine/app/equity.py:1` reads the newest
   snapshot as the day's capital; after a restart of execution-engine it leaves
   out the results booked before.
5. `strategy_utcslots` - `strategy-engine/app/main.py:6` publishes a signal "the moment a
   qualifying stock's breakout clears the volume filter too".  The filter looks up the
   HH:MM of a UTC timestamp (`candle_aggregator.py:37`) among slots in exchange time
   (`live_reference.py:52`): until 14:45 none is found and the breakout is skipped
   whatever its volume, and later the wrong slots are compared.

Seen while reading, not shown by a run of their own:

* `paper_broker.py:185` says that `on_candle` advances every non-terminal plan; it
  stops at the first that reports.  `AdvancesEveryLivePlan` holds for an orderly
  feed only, and UTC labels break it too.
* `0001_init.sql` declares uuid ids for orders and trades and lets an order refer
  to a row of `signals`, which no service writes; the ids sent are texts.  Against
  that schema every upsert fails and is logged: in the model, every write of
  `execution_crash` takes its failing branch.  What the runs say of succeeding
  writes is about the schema the code expects.
* The snapshot of 09:30 is the third candle received (`day_plan.py:68`), which after a
  restart or a gap is a later one; `DecisionIgnoresArrivalOrder` holds all the same.
* A breakout inside the candles a stock is backfilled with is swallowed
  (`day_plan.py:156`); `SignalsMatchBacktest` and `NoMissedBreakouts` except it.
* The history is loaded once per process, although `main.py:3` says once per new trading
  day: from the second day on the previous closes are stale, and
  `SignalsMatchBacktest` claims nothing for such a day.
* `candle_cache.py:11` says that "later-fetched chunks win"; the chunks sort by the end
  and start of their range, so of two with one end the one that starts later wins.
* The candle of the slot in which a session reconnects is published as if it were whole
  (`data-engine/app/main.py:38`); `CandlesMatchTape` claims the later ones only.
* Silence after the close carries a session and its bars to the next trading day, when
  they are published as candles of the day before (`data-engine/app/main.py:63`).
* "Open positions" lists resting orders too, since their rows have status OPEN
  (`api-gateway/app/queries.py:34`); the equity shown stands still from the 501st snapshot
  on (`queries.py:37` with `App.tsx:16`).
* The cap counts accepted orders although its text counts trades (`params.py:71`); signals
  come in the order bars close, not in the order of breakouts
  (`risk-engine/app/daily_cap.py:3`).

## 6. Not modelled, and what is left to do

Not modelled: the decoding of protobuf messages (generated code), the instrument indexes,
the static universe lists and the texts of the parameters (nothing changes state), the
insert of the configuration at start-up and its read by the dashboard (one row, written
and read as it is), `filters.py` (no module imports it), the polling of the frontend
(each answer replaces the last), trading holidays (the file has a TODO), ticks that come
out of the order of their trades (Upstox documents none).

Left to do: **`Pipeline`** - strategy, risk and execution engine over shared channels
and tables: the equity one writes and another reads, orders that never fill against the
cap, and the order of signals. The three are modelled apart; their product is large, and
the properties of each are stated over what the others may send it.
