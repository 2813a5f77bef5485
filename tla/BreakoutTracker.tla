--------------------------- MODULE BreakoutTracker ---------------------------
(***************************************************************************)
(* services/strategy-engine/app/breakout_tracker.py: one stock's opening   *)
(* range and its first close beyond it, one candle at a time.  Prices are  *)
(* in paise.                                                               *)
(***************************************************************************)
EXTENDS ReferenceData

CONSTANT OpeningRangeCandles    \* opening_range_candles: 6

Sides == {"LONG", "SHORT"}
Ranges == [high : Int, low : Int]
Breakouts == [entry : Int, stop : Int, day : Int, label : Int, volume : Nat]

ASSUME TrackerAssumption ==
    /\ OpeningRangeCandles \in Nat \ {0}
    /\ None \notin Sides /\ None \notin Ranges /\ None \notin Breakouts

\* SL_BUFFER_PCT, 0.075 % of a price.  The stop is a float there, beyond every
\* positive price; here it is the first whole paisa at or beyond it.
Buffer(price) == (75 * price + 99999) \div 100000

Trackers ==
    [direction : Sides, opening : Seq(Candles), range : Ranges \cup {None},
     breakout : Breakouts \cup {None}]

NewTracker(direction) ==
    [direction |-> direction, opening |-> <<>>, range |-> None,
     breakout |-> None]

RangeOf(cs) ==
    [high |-> Max({cs[i].high : i \in DOMAIN cs}),
     low  |-> Min({cs[i].low : i \in DOMAIN cs})]

\* _entry_and_stop
EntryAndStop(direction, c) ==
    IF direction = "LONG"
    THEN [entry |-> c.high, stop |-> c.low - Buffer(c.low)]
    ELSE [entry |-> c.low, stop |-> c.high + Buffer(c.high)]

BreaksOut(tracker, c) ==
    IF tracker.direction = "LONG"
    THEN c.close > tracker.range.high
    ELSE c.close < tracker.range.low

BreakoutAt(tracker, c) ==
    LET prices == EntryAndStop(tracker.direction, c)
    IN  [entry |-> prices.entry, stop |-> prices.stop,
         day |-> c.day, label |-> c.label, volume |-> c.volume]

\* Variant: a tracker that has broken out looks for the next breakout.
OnCandle_BreaksOutAgain(tracker, c) ==
    IF tracker.range = None
    THEN LET opening == Append(tracker.opening, c)
         IN  [tracker EXCEPT
                !.opening = opening,
                !.range = IF Len(opening) < OpeningRangeCandles
                          THEN None ELSE RangeOf(opening)]
    ELSE [tracker EXCEPT
            !.breakout = IF BreaksOut(tracker, c)
                         THEN BreakoutAt(tracker, c) ELSE None]

\* on_candle: the tracker after the candle.
OnCandle(tracker, c) ==
    IF tracker.breakout # None THEN tracker
    ELSE IF tracker.range = None
    THEN LET opening == Append(tracker.opening, c)
         IN  [tracker EXCEPT
                !.opening = opening,
                !.range = IF Len(opening) < OpeningRangeCandles
                          THEN None ELSE RangeOf(opening)]
    ELSE [tracker EXCEPT
            !.breakout = IF BreaksOut(tracker, c)
                         THEN BreakoutAt(tracker, c) ELSE None]

\* A tracker given every candle of cs.
Tracked(direction, cs) == FoldLeft(OnCandle, NewTracker(direction), cs)

\* Variant: the stop of a narrow candle is left where it is.
ApplyAtrFloor_Off(direction, entry, stop, atr, floor) == stop

\* apply_atr_floor: atr in basis points of the price, floor in hundredths.
ApplyAtrFloor(direction, entry, stop, atr, floor) ==
    LET risk == Abs(entry - stop)
        widened == (entry * floor * atr) \div 1000000
    IN  IF atr \in {None, 0} \/ 1000000 * risk >= entry * floor * atr
        THEN stop
        ELSE IF direction = "LONG" THEN entry - widened ELSE entry + widened

=============================================================================
