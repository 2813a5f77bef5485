--------------------------- MODULE StrategyEngine ----------------------------
(***************************************************************************)
(* services/strategy-engine as a process (app/main.py): one task takes     *)
(* candles off the `candles` channel, runs each through the day's plan and *)
(* publishes a signal for a breakout on volume.                            *)
(*                                                                         *)
(* A turn of the loop has no other task to interleave with, so a candle is *)
(* handled in one step.  What is free is the order in which the bars of    *)
(* different keys close, slots in which a key has no bar, bars left open   *)
(* overnight and closed by the key's first tick of the next day, and the   *)
(* restarts of the process, planned or not.                                *)
(***************************************************************************)
EXTENDS DayPlan

CONSTANTS
    VIX,                \* VIX_INSTRUMENT_KEY
    LIQUID_UNIVERSE,    \* the stocks that may have a history
    Fed,                \* the keys data-engine subscribes to
    Past,               \* [key -> [daily, minutes]]: the rows before day 1
    BaseChunks,         \* [key -> [daily, minutes]]: the chunk files of them
    Tapes,              \* markets, each [day -> [key -> sequence of bars]]
    UtcShift,           \* slots by which a live label is behind the cache's
    NumDays,            \* bound: trading days
    MaxSkew,            \* bound: slots by which one key is ahead of another
    MaxFaults           \* bound: slots without a bar and restarts, together

Days == 1 .. NumDays
BarRecords == [high : Nat, low : Nat, close : Nat \ {0}, volume : Nat]

ASSUME EngineAssumption ==
    /\ LIQUID_UNIVERSE \subseteq Listed
    /\ {NIFTY} \cup Sectors \subseteq Fed
    /\ Fed \subseteq Keys
    /\ DOMAIN BaseChunks = Fed \cup {VIX}
    /\ \A k \in Fed \cup {VIX} : /\ CacheFiles(BaseChunks[k].daily)
                                 /\ CacheFiles(BaseChunks[k].minutes)
    /\ \A t \in DOMAIN Tapes :
          Tapes[t] \in [Days -> [Fed \cup {VIX} -> Seq(BarRecords) \ {<<>>}]]
    /\ {UtcShift, MaxSkew, MaxFaults} \subseteq Nat
    /\ NumDays \in Nat \ {0}

VARIABLES
    tape,       \* the market it is
    day,        \* the trading day
    next,       \* the slot each key has reached
    held,       \* keys whose last bar of the day before is still open
    gaps,       \* slots without a bar so far
    restarts,   \* restarts so far
    history,    \* the History the process has loaded
    plan,       \* its day_plan
    currentDate,\* its current_date
    signals,    \* the signals published
    loadedOn,   \* the day on which the history was loaded
    plansToday, \* day plans begun on this trading day
    gapToday,   \* whether a bar of this trading day was missed
    seen        \* candles of each stock in the buffer when the plan resolved

exchange == <<tape, day, next, held, gaps>>
process  == <<history, plan, currentDate>>
ghosts   == <<loadedOn, plansToday, gapToday, seen>>
vars     == <<exchange, restarts, process, signals, ghosts>>

-----------------------------------------------------------------------------
(* The market, as bars and as rows of the cache.                           *)

Row(bar, d, label) ==
    [day |-> d, label |-> label, high |-> bar.high, low |-> bar.low,
     close |-> bar.close, volume |-> bar.volume]

MinuteRows(market, k, d) ==
    [i \in DOMAIN market[d][k] |-> Row(market[d][k][i], d, i)]

DailyRow(market, k, d) ==
    LET bars == market[d][k]
    IN  [day |-> d, label |-> 0, high |-> RangeOf(bars).high,
         low |-> RangeOf(bars).low, close |-> bars[Len(bars)].close,
         volume |-> SumFunction([i \in DOMAIN bars |-> bars[i].volume])]

\* refresh_cache adds a chunk for each day that is over.
ChunkOf(d, rows) == [from |-> d, to |-> d, rows |-> rows]

CacheAfter(market, days) ==
    [k \in Fed \cup {VIX} |->
        [daily |-> BaseChunks[k].daily
             \cup {ChunkOf(d, {DailyRow(market, k, d)}) : d \in 1 .. days},
         minutes |-> BaseChunks[k].minutes
             \cup {ChunkOf(d, ToSet(MinuteRows(market, k, d))) :
                      d \in 1 .. days}]]

\* load_history
LoadHistory(cache) ==
    LET found == {s \in LIQUID_UNIVERSE \cap DOMAIN cache :
                     ReadCached(cache[s].minutes) # <<>>}
    IN  [nifty_daily |-> ReadCached(cache[NIFTY].daily),
         vix_daily |-> ReadCached(cache[VIX].daily),
         sector_daily |-> [n \in Sectors |-> ReadCached(cache[n].daily)],
         stock_daily |-> [s \in found |-> ReadCached(cache[s].daily)],
         stock_volume |-> [s \in found |->
                              GroupByDay(ReadCached(cache[s].minutes))]]

\* What it returns on the morning of each day.
Histories ==
    [t \in DOMAIN Tapes |->
        [d \in Days |-> LoadHistory(CacheAfter(Tapes[t], d - 1))]]

\* The candle that data-engine publishes for a slot.
LiveCandle(k, d, slot) == Row(Tapes[tape][d][k][slot], d, slot - UtcShift)

-----------------------------------------------------------------------------
Init ==
    /\ tape \in DOMAIN Tapes
    /\ day = 1
    /\ next = [k \in Fed |-> 1]
    /\ held = {}
    /\ gaps = 0
    /\ restarts = 0
    /\ history = Histories[tape][1]
    /\ plan = None
    /\ currentDate = None
    /\ signals = {}
    /\ loadedOn = 1
    /\ plansToday = 0
    /\ gapToday = FALSE
    /\ seen = [s \in Fed |-> 0]

\* _sector_for: the first of the selected sectors that has the stock.
SectorFor(symbol, sectors) ==
    LET at == {i \in DOMAIN sectors :
                  symbol \in ToSet(INDEX_CONSTITUENTS[sectors[i]])}
    IN  IF at = {} THEN "unknown" ELSE sectors[Min(at)]

\* _handle_breakout
SignalFor(symbol, direction, sector, breakout, atr) ==
    LET stop == ApplyAtrFloor(direction, breakout.entry, breakout.stop, atr,
                              Params.stop_floor_atr)
        At(rrr) == breakout.entry
            + Sign(direction) * ((rrr * Abs(breakout.entry - stop)) \div 100)
    IN  [symbol |-> symbol, direction |-> direction, sector |-> sector,
         day |-> breakout.day, label |-> breakout.label,
         breakout_price |-> breakout.entry, stop_price |-> stop,
         target_price |-> At(Params.target_rrr),
         breakeven_trigger |-> IF Params.breakeven_rrr = None
                               THEN None ELSE At(Params.breakeven_rrr)]

\* The volume filter of the main loop.
ClearsVolume(symbol, breakout) ==
    LET ratio == LiveSlotVolumeRatio(history.stock_volume[symbol],
                                     breakout.label, breakout.volume)
    IN  ratio # None /\ ratio >= Params.min_breakout_ratio

\* One turn of the main loop, for candle c of key k.
Turn(k, c) ==
    LET fresh == c.day # currentDate
        today == IF fresh THEN NewDayPlan ELSE plan
        after == FeedCandle(history, today, k, c)
        breakout == BreakoutIn(today, k, c)
    IN  /\ plan' = after
        /\ currentDate' = c.day
        /\ signals' =
              IF breakout # None /\ ClearsVolume(k, breakout)
              THEN signals \cup
                     {SignalFor(k, after.direction,
                                SectorFor(k, after.sectors), breakout,
                                LatestAtrPct(history.stock_daily[k]))}
              ELSE signals
        /\ plansToday' = IF fresh THEN plansToday + 1 ELSE plansToday
        /\ seen' = IF after.resolved /\ ~today.resolved
                   THEN [s \in Fed |-> Len(after.buffer[s])] ELSE seen
        /\ UNCHANGED <<restarts, history, loadedOn, gapToday>>

Bars(k) == Len(Tapes[tape][day][k])

\* The slot of k goes by before MaxSkew later ones of any other key.
Passes(k) ==
    /\ k \notin held
    /\ next[k] <= Bars(k)
    /\ \A j \in Fed : next[j] <= Bars(j) => next[k] <= next[j] + MaxSkew

\* The bar of a key's slot closes and is published.
Candle(k) ==
    /\ Passes(k)
    /\ next' = [next EXCEPT ![k] = @ + 1]
    /\ Turn(k, LiveCandle(k, day, next[k]))
    /\ UNCHANGED <<tape, day, held, gaps>>

\* Nothing is published for a slot: no trade, or a bar lost with its feed
\* session; the day's last bar may stay open until the key's next tick.
Skip(k) ==
    /\ Passes(k)
    /\ gaps + restarts < MaxFaults
    /\ gaps' = gaps + 1
    /\ next' = [next EXCEPT ![k] = @ + 1]
    /\ \/ UNCHANGED held
       \/ next[k] = Bars(k) /\ held' = held \cup {k}
    /\ gapToday' = TRUE
    /\ UNCHANGED <<tape, day, restarts, process, signals, loadedOn,
                   plansToday, seen>>

\* A bar held overnight is published by the key's first tick of the day.
StaleCandle(k) ==
    /\ k \in held
    /\ next[k] = 1
    /\ day > 1
    /\ held' = held \ {k}
    /\ Turn(k, LiveCandle(k, day - 1, Len(Tapes[tape][day - 1][k])))
    /\ UNCHANGED <<tape, day, next, gaps>>

\* Variant: the date survives the restart, its plan does not.
Restart_KeepsDate ==
    /\ gaps + restarts < MaxFaults
    /\ restarts' = restarts + 1
    /\ history' = Histories[tape][day]
    /\ plan' = None
    /\ loadedOn' = day
    /\ UNCHANGED <<exchange, currentDate, signals, plansToday, gapToday, seen>>

\* The process ends, of itself or not, and starts again with what the cache
\* holds; what is published meanwhile, it misses (Skip).
Restart ==
    /\ gaps + restarts < MaxFaults
    /\ restarts' = restarts + 1
    /\ history' = Histories[tape][day]
    /\ plan' = None
    /\ currentDate' = None
    /\ loadedOn' = day
    /\ UNCHANGED <<exchange, signals, plansToday, gapToday, seen>>

DayOver == \A k \in Fed : next[k] > Bars(k)

NextDay ==
    /\ DayOver
    /\ day < NumDays
    /\ day' = day + 1
    /\ next' = [k \in Fed |-> 1]
    /\ plansToday' = 0
    /\ gapToday' = FALSE
    /\ seen' = [s \in Fed |-> 0]
    /\ UNCHANGED <<tape, held, gaps, restarts, process, signals, loadedOn>>

\* The bounded market is over.
Finished == DayOver /\ day = NumDays /\ UNCHANGED vars

Next ==
    \/ \E k \in Fed : Candle(k) \/ Skip(k) \/ StaleCandle(k)
    \/ Restart
    \/ NextDay
    \/ Finished

Spec == Init /\ [][Next]_vars

\* A slot of k goes by, with a bar or without; the steps of Next that do so
\* are those of Candle(k) and Skip(k), one of which is enabled when this is.
SlotGoesBy(k) == Passes(k) /\ next' = [next EXCEPT ![k] = @ + 1]

HeldBarCloses(k) == k \in held /\ next[k] = 1 /\ held' = held \ {k}

\* While a session lasts, the slots of every key go by.
Fairness ==
    \A k \in Fed : WF_next(SlotGoesBy(k)) /\ WF_held(HeldBarCloses(k))

FairSpec == Spec /\ Fairness

-----------------------------------------------------------------------------
(* The backtest of one day, over the series that end with that day: what   *)
(* snapshots.py and orb_engine.py computed, which the service was ported   *)
(* from, with the lookups of features.py.                                  *)

DailyArchive(k, d) ==
    Past[k].daily \o [e \in 1 .. d |-> DailyRow(Tapes[tape], k, e)]

VolumeArchive(k, d) ==
    LET past == GroupByDay(Past[k].minutes)
    IN  [e \in DOMAIN past \cup 1 .. d |->
            IF e >= 1 THEN MinuteRows(Tapes[tape], k, e) ELSE past[e]]

\* There is a close before day d to measure the change from.
ChangeKnown(d, k) == PrevClose(DailyArchive(k, d), d) # None

ChangeOn(d, k) ==
    PctChange(Tapes[tape][d][k][SnapshotCandles].close,
              PrevClose(DailyArchive(k, d), d))

DirectionOn(d) ==
    IF ChangeKnown(d, NIFTY) THEN PickDirection(ChangeOn(d, NIFTY)) ELSE None

SignedChangeOn(d, k) == Sign(DirectionOn(d)) * ChangeOn(d, k)

EligibleOn(d) ==
    {n \in Sectors : /\ ChangeKnown(d, n)
                     /\ SignedChangeOn(d, n) > Params.sector_band}

\* The n-th place goes to the sector that n - 1 others beat.
PlaceOn(d, n) ==
    Cardinality({m \in EligibleOn(d) :
        \/ SignedChangeOn(d, m) > SignedChangeOn(d, n)
        \/ /\ SignedChangeOn(d, m) = SignedChangeOn(d, n)
           /\ \E i, j \in DOMAIN V2_SECTORS :
                 i < j /\ V2_SECTORS[i] = m /\ V2_SECTORS[j] = n}) + 1

SectorsWith(d, s) ==
    {n \in EligibleOn(d) : /\ PlaceOn(d, n) <= Params.top_sectors
                           /\ s \in ToSet(INDEX_CONSTITUENTS[n])}

\* The slots in which s closed beyond its opening range.
BeyondRange(d, s) ==
    LET bars == Tapes[tape][d][s]
        range == RangeOf(SubSeq(bars, 1, OpeningRangeCandles))
    IN  {i \in OpeningRangeCandles + 1 .. Len(bars) :
            IF DirectionOn(d) = "LONG"
            THEN bars[i].close > range.high
            ELSE bars[i].close < range.low}

Tradeable(d, s) ==
    /\ SectorsWith(d, s) # {}
    /\ ChangeKnown(d, s)
    /\ SignedChangeOn(d, s) > 0
    /\ SignedChangeOn(d, s) \in Params.stock_min .. Params.stock_max
    /\ OpeningRatio(VolumeArchive(s, d), d) # None
    /\ OpeningRatio(VolumeArchive(s, d), d) >= Params.min_opening_ratio
    /\ BeyondRange(d, s) # {}
    /\ LET ratio == SlotRatio(VolumeArchive(s, d), d, Min(BeyondRange(d, s)))
       IN  ratio # None /\ ratio >= Params.min_breakout_ratio

TradeableStocks(d) ==
    IF GateOk(DirectionOn(d), PrevClose(DailyArchive(VIX, d), d),
              TrendPct(DailyArchive(NIFTY, d), d))
    THEN {s \in LIQUID_UNIVERSE \cap Fed : Tradeable(d, s)}
    ELSE {}

BacktestSignal(d, s) ==
    LET sector == CHOOSE n \in SectorsWith(d, s) :
                     \A m \in SectorsWith(d, s) : PlaceOn(d, n) <= PlaceOn(d, m)
    IN  SignalFor(s, DirectionOn(d), sector,
                  BreakoutAt(NewTracker(DirectionOn(d)),
                             LiveCandle(s, d, Min(BeyondRange(d, s)))),
                  AtrPct(DailyArchive(s, d), d))

-----------------------------------------------------------------------------
(* Properties.                                                             *)

TypeOK ==
    /\ day \in Days
    /\ next \in [Fed -> Nat] /\ \A k \in Fed : next[k] <= Bars(k) + 1
    /\ held \subseteq Fed
    /\ gaps + restarts <= MaxFaults
    /\ plan = None <=> currentDate = None
    /\ plan # None =>
          /\ currentDate \in 1 .. day
          /\ \A k \in Keys : plan.buffer[k] # <<>> => k \in Fed
          /\ DOMAIN plan.trackers \subseteq LIQUID_UNIVERSE
          /\ ToSet(plan.sectors) \subseteq Sectors
          /\ plan.gate_ok => plan.resolved /\ plan.direction # None
    /\ \A x \in signals : x.symbol \in LIQUID_UNIVERSE /\ x.day \in 1 .. day

\* The process saw the whole of a trading day, with the history of the day.
UndisturbedDay ==
    /\ DayOver
    /\ ~gapToday
    /\ loadedOn = day
    /\ plansToday = 1
    /\ currentDate = day

TodaysSignals == {x \in signals : x.day = day}

(* live_reference.py:12: "calling the live function on it and the ported   *)
(* batch function on it agree exactly", and so does all that is built on   *)
(* them: over an undisturbed day the streaming engine has published the    *)
(* signals, with their prices, that the backtest of that day finds, in     *)
(* whatever order the bars of different keys closed.  The exception is     *)
(* what it has chosen to ignore: a breakout inside the candles that a      *)
(* stock's tracker is backfilled with.                                     *)
SignalsMatchBacktest ==
    UndisturbedDay =>
        TodaysSignals =
            {BacktestSignal(day, s) :
                s \in {r \in TradeableStocks(day) :
                          Min(BeyondRange(day, r)) > seen[r]}}

(* main.py:6: the service "publishes a Signal to the `signals` channel the *)
(* moment a qualifying stock's breakout clears the volume filter too": on  *)
(* an undisturbed day no such breakout after the plan's resolution is      *)
(* passed over.                                                            *)
NoMissedBreakouts ==
    UndisturbedDay =>
        \A s \in TradeableStocks(day) :
            Min(BeyondRange(day, s)) > seen[s] =>
                \E x \in TodaysSignals : x.symbol = s

(* The decision of the day is a function of what each key's first          *)
(* candles said: neither the order in which the keys became ready nor      *)
(* anything that arrived before the last of them changes it.               *)
DecisionIgnoresArrivalOrder ==
    plan # None /\ plan.resolved =>
        LET first == [k \in Keys |->
                SubSeq(plan.buffer[k], 1,
                       Min({SnapshotCandles, Len(plan.buffer[k])}))]
            alone == Resolve(history, [NewDayPlan EXCEPT !.buffer = first])
        IN  /\ plan.direction = alone.direction
            /\ plan.gate_ok = alone.gate_ok
            /\ plan.sectors = alone.sectors
            /\ DOMAIN plan.trackers = DOMAIN alone.trackers

(* Backfilling and streaming together miss nothing: the tracker of a       *)
(* qualified stock is what it would be had it watched the stock from its   *)
(* first buffered candle.                                                  *)
TrackersMissNothing ==
    plan # None =>
        \A s \in DOMAIN plan.trackers :
            plan.trackers[s] = Tracked(plan.direction, plan.buffer[s])

(* breakout_tracker.py:50, "at most one breakout per symbol per day": a    *)
(* stock has at most as many signals of a day as plans were begun that     *)
(* day.  One is the rule; a restart, or a bar of the day before arriving   *)
(* late, begins a second plan and so allows a second signal.               *)
OneSignalPerStockAndDay ==
    \A s \in Fed :
        Cardinality({x \in TodaysSignals : x.symbol = s}) <= plansToday

Between(p, q, r) == (p < q /\ q < r) \/ (r < q /\ q < p)

(* What is published can be sized and traded: the stop lies on the losing  *)
(* side of the entry at a distance of at least the ATR floor, the target   *)
(* and the breakeven trigger on the winning side, in that order.           *)
SignalsAreTradeable ==
    \A x \in signals :
        /\ Sign(x.direction) * (x.breakout_price - x.stop_price) > 0
        /\ Between(x.stop_price, x.breakout_price, x.target_price)
        /\ x.breakeven_trigger # None =>
              Between(x.breakout_price, x.breakeven_trigger, x.target_price)
        /\ x.day = day /\ currentDate = day /\ plansToday = 1 =>
              LET atr == LatestAtrPct(history.stock_daily[x.symbol])
              IN  atr # None =>
                  1000000 * (Abs(x.breakout_price - x.stop_price) + 1)
                      >= x.breakout_price * Params.stop_floor_atr * atr

SignalOf(s) ==
    {x \in signals : /\ x.symbol = s
                     /\ plan.trackers[s].breakout # None
                     /\ x.day = plan.trackers[s].breakout.day
                     /\ x.label = plan.trackers[s].breakout.label}

Funnel == INSTANCE DayFunnel WITH
    phase     <- IF plan = None THEN "none"
                 ELSE IF ~plan.resolved THEN "gathering"
                 ELSE IF plan.gate_ok THEN "watching" ELSE "closed",
    watched   <- IF plan = None THEN {}
                 ELSE {s \in DOMAIN plan.trackers :
                          plan.trackers[s].breakout = None},
    signalled <- IF plan = None THEN {}
                 ELSE {s \in DOMAIN plan.trackers : SignalOf(s) # {}}

(* The engine implements the funnel: however days, restarts and late bars  *)
(* interleave, a plan decides once, and a stock leaves its watch list once *)
(* and for good.                                                           *)
ImplementsFunnel == Funnel!Spec

\* Each awaited key still has bars enough ahead, whatever may be skipped.
WillBeReady ==
    /\ plan # None /\ currentDate = day /\ held = {}
    /\ \A k \in Awaited(history) :
          Len(plan.buffer[k]) + Bars(k) - (next[k] - 1) - (MaxFaults - gaps)
              >= SnapshotCandles

(* A day is always decided: once each key that has a history can still get *)
(* its snapshot candles, the plan resolves, unless the process restarts;   *)
(* the listed stocks without a history, which may never trade, do not hold *)
(* it up.                                                                  *)
EveryDayDecided ==
    \A r \in 0 .. MaxFaults :
        (restarts = r /\ WillBeReady)
            ~> (restarts > r \/ (plan # None /\ plan.resolved))

-----------------------------------------------------------------------------
(* What the theorems about particular values of the constants ask of them. *)

\* The target lies further off than the breakeven trigger, each at least as
\* far as the stop.
RulesLeaveRoom ==
    /\ Params.target_rrr >= 100
    /\ Params.breakeven_rrr # None =>
          /\ Params.breakeven_rrr >= 100
          /\ Params.target_rrr >= Params.breakeven_rrr + 100

\* The candles of a stock are at prices above nothing, with the low no higher
\* than the high.
StockPricesAreReal ==
    \A t \in DOMAIN Tapes : \A d \in Days : \A k \in LIQUID_UNIVERSE \cap Fed :
        \A i \in 1 .. Len(Tapes[t][d][k]) :
            /\ Tapes[t][d][k][i].low >= 1
            /\ Tapes[t][d][k][i].low <= Tapes[t][d][k][i].high

\* The cache files hold the rows before day 1, and none after it.
CacheHoldsPast ==
    \A k \in Fed \cup {VIX} :
        /\ Past[k].daily = ReadCached(BaseChunks[k].daily)
        /\ Past[k].minutes = ReadCached(BaseChunks[k].minutes)
        /\ \A f \in BaseChunks[k].daily \cup BaseChunks[k].minutes :
              \A c \in f.rows : c.day <= 0

\* On every day each key that a plan may wait for has its snapshot candles.
SnapshotsComplete ==
    \A t \in DOMAIN Tapes, d \in Days :
        \A k \in {NIFTY} \cup Sectors \cup (LIQUID_UNIVERSE \cap Fed) :
            Len(Tapes[t][d][k]) >= SnapshotCandles

\* No sector is listed twice.
SectorsDiffer ==
    \A i, j \in DOMAIN V2_SECTORS : V2_SECTORS[i] = V2_SECTORS[j] => i = j

=============================================================================
