---------------------------- MODULE ReferenceData ----------------------------
(***************************************************************************)
(* The reference data of services/strategy-engine: the candle cache        *)
(* (app/candle_cache.py), the history built from it (app/history.py), the  *)
(* backtest's lookups by date (app/features.py) and the live lookups at    *)
(* the end of the series (app/live_reference.py), as operators.            *)
(*                                                                         *)
(* A candle is a record of its day, the label of its slot (the HH:MM of    *)
(* its timestamp; 0 for a daily candle), high, low, close and volume.      *)
(* Percentages are whole basis points and volume ratios whole hundredths,  *)
(* rounded down.                                                           *)
(***************************************************************************)
EXTENDS Integers, Sequences, FiniteSets, SequencesExt, FiniteSetsExt, Functions

CONSTANTS
    None,               \* no such price, ratio, breakout or side
    SnapshotCandles,    \* candles of the opening snapshot: 3
    TrendWindow,        \* closes in the NIFTY trend: 20
    AtrWindow,          \* true ranges in the ATR: 14
    Lookback,           \* LOOKBACK: sessions in a volume norm: 20
    MinHistory          \* MIN_HISTORY: sessions a volume norm needs: 10

ASSUME ReferenceAssumption ==
    /\ None \notin Int
    /\ {SnapshotCandles, TrendWindow, AtrWindow, Lookback, MinHistory}
          \subseteq Nat \ {0}

Candles ==
    [day : Int, label : Int, high : Nat, low : Nat, close : Nat \ {0},
     volume : Nat]

Abs(x) == IF x < 0 THEN 0 - x ELSE x

\* The elements of S in a strict order.
Sorted(S, comesBefore(_, _)) ==
    [i \in 1 .. Cardinality(S) |->
        CHOOSE x \in S : Cardinality({y \in S : comesBefore(y, x)}) = i - 1]

\* pct_change
PctChange(current, previousClose) ==
    (10000 * (current - previousClose)) \div previousClose

-----------------------------------------------------------------------------
(* The cache: for one key and unit, chunk files that each hold the rows    *)
(* fetched for a range of days.                                            *)

\* Where f comes after g in "files.sort()".
SortsAfter(f, g) == f.to > g.to \/ (f.to = g.to /\ f.from > g.from)

SameStamp(c, d) == c.day = d.day /\ c.label = d.label

Earlier(c, d) == c.day < d.day \/ (c.day = d.day /\ c.label < d.label)

\* The files of one key and unit: none holds two rows with one timestamp.
CacheFiles(files) ==
    /\ IsFiniteSet(files)
    /\ files \subseteq [from : Int, to : Int, rows : SUBSET Candles]
    /\ \A f \in files :
          /\ IsFiniteSet(f.rows)
          /\ \A c, d \in f.rows : SameStamp(c, d) => c = d

\* read_cached: of the rows with one timestamp the one in the last chunk.
ReadCached(chunks) ==
    LET Wins(c, f) == \A g \in chunks \ {f} :
                         SortsAfter(f, g) \/ \A d \in g.rows : ~SameStamp(c, d)
    IN  Sorted(UNION {{c \in f.rows : Wins(c, f)} : f \in chunks}, Earlier)

\* group_by_day
GroupByDay(cs) ==
    [d \in {cs[i].day : i \in DOMAIN cs} |->
        LET at == Sorted({i \in DOMAIN cs : cs[i].day = d}, LAMBDA i, j : i < j)
        IN  [n \in DOMAIN at |-> cs[at[n]]]]

-----------------------------------------------------------------------------
(* What a window of candles says, whichever lookup selected it.            *)

LastRows(cs, n) == SubSeq(cs, Len(cs) - n + 1, Len(cs))

\* The last close against the mean of the closes.
Trend(rows) ==
    LET closes == SumFunction([i \in DOMAIN rows |-> rows[i].close])
    IN  (10000 * (Len(rows) * rows[Len(rows)].close - closes)) \div closes

TrueRange(r, previous) ==
    Max({r.high - r.low, Abs(r.high - previous.close),
         Abs(r.low - previous.close)})

\* The mean true range of all rows but the first, against the last close.
Atr(rows) ==
    LET ranges == [i \in 2 .. Len(rows) |-> TrueRange(rows[i], rows[i - 1])]
    IN  (10000 * SumFunction(ranges))
            \div ((Len(rows) - 1) * rows[Len(rows)].close)

\* v against the mean of volumes, a function of days.
RatioToMean(v, volumes) ==
    LET sum == SumFunction(volumes)
    IN  IF Cardinality(DOMAIN volumes) < MinHistory \/ sum = 0
        THEN None
        ELSE (100 * v * Cardinality(DOMAIN volumes)) \div sum

\* VolumeProfile.__init__: the opening volume of the days that have one.
Opening(profile) ==
    [d \in {e \in DOMAIN profile : Len(profile[e]) >= SnapshotCandles} |->
        SumFunction([i \in 1 .. SnapshotCandles |-> profile[d][i].volume])]

\* _slot_volumes, of every day that has the slot.
SlotVolumes(profile, label) ==
    LET At(d) == {i \in DOMAIN profile[d] : profile[d][i].label = label}
    IN  [d \in {e \in DOMAIN profile : At(e) # {}} |->
            profile[d][Max(At(d))].volume]

LastDays(days) == {d \in days : Cardinality({e \in days : e > d}) < Lookback}

Over(f, days) == Restrict(f, days \cap DOMAIN f)

-----------------------------------------------------------------------------
(* features.py: lookups by the date of a day that is in the series.        *)

\* DailyIndex.pos: the number of candles before the day's own.
Pos(daily, day) ==
    LET at == {i \in DOMAIN daily : daily[i].day = day}
    IN  IF at = {} THEN None ELSE Min(at) - 1

PrevClose(daily, day) ==
    LET i == Pos(daily, day)
    IN  IF i \in {None, 0} THEN None ELSE daily[i].close

TrendPct(daily, day) ==
    LET i == Pos(daily, day)
    IN  IF i \in {None, 0} \/ i < TrendWindow
        THEN None
        ELSE Trend(SubSeq(daily, i - TrendWindow + 1, i))

AtrPct(daily, day) ==
    LET i == Pos(daily, day)
    IN  IF i \in {None, 0} \/ i < AtrWindow + 1
        THEN None
        ELSE Atr(SubSeq(daily, i - AtrWindow, i))

\* _prior_days
PriorDays(profile, day) == LastDays({d \in DOMAIN profile : d < day})

OpeningRatio(profile, day) ==
    LET opening == Opening(profile)
    IN  IF day \notin DOMAIN opening
        THEN None
        ELSE RatioToMean(opening[day], Over(opening, PriorDays(profile, day)))

SlotRatio(profile, day, label) ==
    LET volumes == SlotVolumes(profile, label)
    IN  IF day \notin DOMAIN volumes
        THEN None
        ELSE RatioToMean(volumes[day], Over(volumes, PriorDays(profile, day)))

-----------------------------------------------------------------------------
(* live_reference.py: lookups at the end of the series.                    *)

\* Variant: the close before the last, as if the series ended with the day.
LatestClose_BeforeLast(daily) ==
    IF Len(daily) < 2 THEN None ELSE daily[Len(daily) - 1].close

LatestClose(daily) ==
    IF daily = <<>> THEN None ELSE daily[Len(daily)].close

LatestTrendPct(daily) ==
    IF Len(daily) < TrendWindow THEN None ELSE Trend(LastRows(daily, TrendWindow))

LatestAtrPct(daily) ==
    IF Len(daily) < AtrWindow + 1
    THEN None
    ELSE Atr(LastRows(daily, AtrWindow + 1))

LiveOpeningVolumeRatio(profile, volume) ==
    RatioToMean(volume, Over(Opening(profile), LastDays(DOMAIN profile)))

LiveSlotVolumeRatio(profile, label, volume) ==
    RatioToMean(volume, Over(SlotVolumes(profile, label),
                             LastDays(DOMAIN profile)))

=============================================================================
