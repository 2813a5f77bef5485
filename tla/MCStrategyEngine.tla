--------------------------- MODULE MCStrategyEngine ---------------------------
(***************************************************************************)
(* A small instance of StrategyEngine: NIFTY, two sectors that share INFY, *)
(* a second stock of IT and a listed stock that nobody subscribes to.      *)
(* Previous closes before day 1 are 10000, so that a price of 10120 is a   *)
(* move of 120 basis points.                                               *)
(***************************************************************************)
EXTENDS StrategyEngine

CONSTANTS BANK, IT, INFY, TCS, NEWCO

SectorList == <<BANK, IT>>
Constituents == (BANK :> <<INFY>>) @@ (IT :> <<INFY, TCS, NEWCO>>)
AllListed == {INFY, TCS, NEWCO}
Subscribed == {NIFTY, BANK, IT, INFY, TCS}

\* The defaults of params.py, with two sectors instead of three.
Rules == [nifty_band |-> 30, max_vix |-> 14, min_nifty_trend |-> 0,
          sector_band |-> 50, top_sectors |-> 2, stock_min |-> 80,
          stock_max |-> 250, min_opening_ratio |-> 100,
          min_breakout_ratio |-> 150, stop_floor_atr |-> 40,
          breakeven_rrr |-> 150, target_rrr |-> 300]

-----------------------------------------------------------------------------
Bar(h, l, c, v) == [high |-> h, low |-> l, close |-> c, volume |-> v]
Flat(c) == Bar(c, c, c, 0)

\* Daily closes of days -2, -1, 0 and a range of `spread` on each.
DailyPast(closes, spread) ==
    [i \in 1 .. 3 |-> Row(Bar(closes[i] + spread, closes[i] - spread,
                              closes[i], 0), i - 3, 0)]

\* Volume 100 in every slot of days -1 and 0.
MinutesPast ==
    [i \in 1 .. 12 |-> Row(Bar(10000, 10000, 10000, 100),
                           ((i - 1) \div 6) - 1, ((i - 1) % 6) + 1)]

Before1 ==
    [k \in Subscribed \cup {VIX} |->
        [daily |-> CASE k = VIX   -> DailyPast(<<15, 15, 12>>, 0)
                     [] k = NIFTY -> DailyPast(<<9900, 9950, 10000>>, 20)
                     [] OTHER     -> DailyPast(<<9900, 9950, 10000>>, 100),
         minutes |-> IF k \in {INFY, TCS} THEN MinutesPast ELSE <<>>]]

\* A first fetch that ended while day 0 was still trading, and a second one.
Partial(row) == IF row.day = 0 THEN [row EXCEPT !.close = 9800] ELSE row
Chunk(d, rows) == [from |-> d, to |-> 0, rows |-> rows]
Files(rows) ==
    IF rows = <<>> THEN {}
    ELSE {Chunk(0 - 2, {Partial(rows[i]) : i \in DOMAIN rows}),
          Chunk(0, {r \in ToSet(rows) : r.day = 0})}

Files1 == [k \in Subscribed \cup {VIX} |->
              [daily |-> Files(Before1[k].daily),
               minutes |-> Files(Before1[k].minutes)]]

-----------------------------------------------------------------------------
\* A rising day: INFY breaks out in slot 3, falls back, and breaks out again
\* in slot 6; TCS breaks out in slot 3; all on volume.  NIFTY then falls.
Rising ==
    (NIFTY :> <<Flat(10050), Flat(10050), Flat(9600)>>) @@
    (BANK  :> <<Flat(10060), Flat(10060)>>) @@
    (IT    :> <<Flat(10100), Flat(10100)>>) @@
    (INFY  :> <<Bar(10130, 10000, 10120, 200), Bar(10140, 10100, 10110, 100),
                Bar(10160, 10120, 10150, 200), Bar(10200, 10150, 10190, 100),
                Bar(10160, 10110, 10120, 100), Bar(10230, 10190, 10210, 300)>>) @@
    (TCS   :> <<Bar(10100, 10000, 10090, 100), Bar(10100, 10080, 10090, 100),
                Bar(10150, 10100, 10140, 150)>>) @@
    (VIX   :> <<Flat(12)>>)

\* A falling day: INFY breaks down in slot 3 without volume, TCS with it.
Falling ==
    (NIFTY :> <<Flat(9504), Flat(9500)>>) @@
    (BANK  :> <<Flat(9960)>>) @@
    (IT    :> <<Flat(9999)>>) @@
    (INFY  :> <<Bar(10200, 10080, 10090, 200), Bar(10100, 10070, 10080, 100),
                Bar(10080, 10050, 10060, 120), Bar(10060, 10000, 10010, 400)>>) @@
    (TCS   :> <<Bar(10120, 9990, 10010, 200), Bar(10010, 9990, 10000, 100),
                Bar(9990, 9950, 9960, 300)>>) @@
    (VIX   :> <<Flat(13)>>)

\* Two days of two bars; the VIX of the first closes the second.
FirstTwo(bars) == SubSeq(bars, 1, 2)
Nervous == [k \in DOMAIN Rising |->
              IF k = VIX THEN <<Flat(15)>> ELSE FirstTwo(Rising[k])]
Calm == [k \in DOMAIN Rising |->
              IF k = VIX THEN <<Flat(12)>> ELSE FirstTwo(Rising[k])]

Markets == << <<Rising, Falling>>, <<Nervous, Calm>> >>
OneRising == << <<Rising>> >>

-----------------------------------------------------------------------------
\* The theorems' hypotheses on the constants hold of this instance.
ASSUME InstanceAssumption ==
    /\ RulesLeaveRoom /\ StockPricesAreReal /\ CacheHoldsPast
    /\ SnapshotsComplete /\ SectorsDiffer /\ VIX \notin LIQUID_UNIVERSE

=============================================================================
