------------------------------- MODULE DayPlan -------------------------------
(***************************************************************************)
(* services/strategy-engine/app/day_plan.py and app/regime_gate.py: the    *)
(* funnel of one trading day as operators on a plan record, from the       *)
(* buffered candles of every key to the trackers of the stocks worth       *)
(* watching.                                                               *)
(***************************************************************************)
EXTENDS BreakoutTracker

CONSTANTS
    NIFTY,                  \* NIFTY_50_INSTRUMENT_KEY
    V2_SECTORS,             \* the sectors, in the order of the list
    INDEX_CONSTITUENTS,     \* the stocks of each sector, in order
    Listed,                 \* the symbols of the instrument master
    Params                  \* the rules, a StrategyParams

Sectors == {V2_SECTORS[i] : i \in DOMAIN V2_SECTORS}
Stocks  == UNION {{INDEX_CONSTITUENTS[n][i] :
                     i \in DOMAIN INDEX_CONSTITUENTS[n]} : n \in Sectors}

\* params.py: moves in basis points, the VIX as it is, multiples and ratios
\* in hundredths.  (opening_range_candles is a constant of its own.)
StrategyParams ==
    [nifty_band : Nat, max_vix : Nat, min_nifty_trend : Int,
     sector_band : Nat, top_sectors : Nat, stock_min : Nat, stock_max : Nat,
     min_opening_ratio : Nat, min_breakout_ratio : Nat,
     stop_floor_atr : Nat, breakeven_rrr : Nat \cup {None}, target_rrr : Nat]

ASSUME PlanAssumption ==
    /\ INDEX_CONSTITUENTS \in [Sectors -> Seq(Stocks)]
    /\ Params \in StrategyParams
    /\ V2_SECTORS \in Seq(Sectors) \ {<<>>}
    /\ NIFTY \notin Sectors \cup Listed
    /\ Sectors \cap Listed = {}

Keys == {NIFTY} \cup Sectors \cup Listed

-----------------------------------------------------------------------------
(* regime_gate.py                                                          *)

Sign(direction) == IF direction = "LONG" THEN 1 ELSE 0 - 1

PickDirection(niftyChange) ==
    IF Abs(niftyChange) > Params.nifty_band
    THEN IF niftyChange > 0 THEN "LONG" ELSE "SHORT"
    ELSE None

\* evaluate_gate, without the wording of the reasons.
GateOk(direction, vix, trend) ==
    /\ direction # None
    /\ vix # None
    /\ vix < Params.max_vix
    /\ trend # None
    /\ Sign(direction) * trend > Params.min_nifty_trend

-----------------------------------------------------------------------------
\* The plans that watch those stocks.
Plans(watched) ==
    [buffer : [Keys -> Seq(Candles)], resolved : BOOLEAN,
     direction : Sides \cup {None}, gate_ok : BOOLEAN,
     sectors : Seq(Sectors), trackers : [watched -> Trackers]]

ASSUME NoPlanAssumption == \A watched \in SUBSET Listed : None \notin Plans(watched)

\* DayPlan.__init__
NewDayPlan ==
    [buffer |-> [k \in Keys |-> <<>>], resolved |-> FALSE, direction |-> None,
     gate_ok |-> FALSE, sectors |-> <<>>, trackers |-> <<>>]

\* The keys whose snapshot the plan waits for.
Awaited(history) ==
    {NIFTY} \cup Sectors \cup (Listed \cap DOMAIN history.stock_daily)

\* Variant: every key of the instrument master is waited for.
ReadyToResolve_AllKeys(history, buffer) ==
    \A k \in Keys : Len(buffer[k]) >= SnapshotCandles

\* _ready_to_resolve
ReadyToResolve(history, buffer) ==
    \A k \in Awaited(history) : Len(buffer[k]) >= SnapshotCandles

\* Variant: the latest candle instead of the snapshot's.
SnapshotClose_Latest(cs) == cs[Len(cs)].close

SnapshotClose(cs) == cs[SnapshotCandles].close

OpeningVolume(cs) ==
    SumFunction([i \in 1 .. SnapshotCandles |-> cs[i].volume])

\* The signed move of a key whose previous close is known.
Move(direction, cs, daily) ==
    Sign(direction) * PctChange(SnapshotClose(cs), LatestClose(daily))

\* Step 2 of _resolve: the strongest of the eligible sectors, in a stable
\* sort.
SelectedSectors(history, buffer, direction) ==
    LET strength(i) == Move(direction, buffer[V2_SECTORS[i]],
                            history.sector_daily[V2_SECTORS[i]])
        eligible == {i \in DOMAIN V2_SECTORS :
                        /\ history.sector_daily[V2_SECTORS[i]] # <<>>
                        /\ strength(i) > Params.sector_band}
        ranked == Sorted(eligible, LAMBDA i, j :
                      \/ strength(i) > strength(j)
                      \/ strength(i) = strength(j) /\ i < j)
    IN  [r \in 1 .. Min({Len(ranked), Params.top_sectors}) |->
            V2_SECTORS[ranked[r]]]

\* _qualify_stock, up to the tracker.
Qualifies(history, buffer, direction, symbol) ==
    /\ symbol \in Listed
    /\ Len(buffer[symbol]) >= SnapshotCandles
    /\ symbol \in DOMAIN history.stock_volume
    /\ history.stock_daily[symbol] # <<>>
    /\ LET move == Move(direction, buffer[symbol], history.stock_daily[symbol])
           ratio == LiveOpeningVolumeRatio(history.stock_volume[symbol],
                                           OpeningVolume(buffer[symbol]))
       IN  /\ move > 0
           /\ move >= Params.stock_min
           /\ move <= Params.stock_max
           /\ ratio # None
           /\ ratio >= Params.min_opening_ratio

\* Variant: a tracker is given the snapshot only.
Backfilled_SnapshotOnly(direction, cs) ==
    Tracked(direction, SubSeq(cs, 1, SnapshotCandles))

\* The tracker of a qualified stock has seen all that was buffered of it.
Backfilled(direction, cs) == Tracked(direction, cs)

\* _resolve
Resolve(history, plan) ==
    LET buffer == plan.buffer
        known == history.nifty_daily # <<>>
        direction ==
            IF known
            THEN PickDirection(PctChange(SnapshotClose(buffer[NIFTY]),
                                         LatestClose(history.nifty_daily)))
            ELSE None
        ok == GateOk(direction, LatestClose(history.vix_daily),
                     LatestTrendPct(history.nifty_daily))
        sectors == SelectedSectors(history, buffer, direction)
        qualified == {s \in UNION {ToSet(INDEX_CONSTITUENTS[n]) :
                                      n \in ToSet(sectors)} :
                        Qualifies(history, buffer, direction, s)}
        decided == [plan EXCEPT !.resolved = TRUE, !.direction = direction,
                                !.gate_ok = ok]
    IN  IF ok
        THEN [decided EXCEPT
                !.sectors = sectors,
                !.trackers = [s \in qualified |->
                                 Backfilled(direction, buffer[s])]]
        ELSE decided

\* feed_candle: the plan after the candle.
FeedCandle(history, plan, key, c) ==
    LET buffered == [plan EXCEPT !.buffer[key] = Append(@, c)]
    IN  IF ~plan.resolved
        THEN IF ReadyToResolve(history, buffered.buffer)
             THEN Resolve(history, buffered)
             ELSE buffered
        ELSE IF key \in DOMAIN plan.trackers
        THEN [buffered EXCEPT !.trackers[key] = OnCandle(@, c)]
        ELSE buffered

\* Variant: the breakout of a tracker is returned for every later candle.
BreakoutIn_Repeats(plan, key, c) ==
    IF plan.resolved /\ key \in DOMAIN plan.trackers
    THEN OnCandle(plan.trackers[key], c).breakout
    ELSE None

\* What feed_candle returns: the breakout the candle made of a plan.
BreakoutIn(plan, key, c) ==
    IF plan.resolved /\ key \in DOMAIN plan.trackers
    THEN IF plan.trackers[key].breakout = None
         THEN OnCandle(plan.trackers[key], c).breakout
         ELSE None
    ELSE None

=============================================================================
