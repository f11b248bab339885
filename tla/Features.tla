------------------------------- MODULE Features -------------------------------
(***************************************************************************)
(* The feature vector of features/builder.py: what it makes of the newest  *)
(* bars of NIFTY, of the newest rows the collectors left, whatever their   *)
(* age, of the last ticks, and of the outages.                             *)
(*                                                                         *)
(* A moment m holds what does not come from the collectors: m.bars, the    *)
(* bars of NIFTY, oldest first, each with its day and its bucket of the    *)
(* day; m.vixCloses, newest first; m.day and m.bucket, now; m.outage, the  *)
(* seconds of outage of the last half hour.  points are the breadths of    *)
(* the last BREADTH_THRUST_LOOKBACK_MIN minutes.                           *)
(***************************************************************************)
EXTENDS Snapshots

CONSTANTS ErLookback, SlopeLookback, SlopeMinBars,  \* TREND_ER_LOOKBACK, TREND_SS_*
          ShortBars, LongBars, MinBars,             \* VOL_RV_*_BARS
          SpreadBars,                               \* LIQ_SPREAD_LOOKBACK_BARS
          BucketBars, MinSessions,                  \* PART_BUCKET_MINUTES, PART_MIN_SESSIONS
          OpeningBars,                              \* STRUCT_ORB_MINUTES
          Slope(_),         \* of the smoothed series, a filter
          Variance(_),      \* the Yang-Zhang variance of a sequence of bars
          Momentum(_, _)    \* the return over its expected deviation

(* The fields, in the order in which the builder sets them.                *)
Fields == <<"ef", "slope", "short", "long", "ratio", "mom", "vwap", "range", "vix", "pctile", "volOfVol", "vrp",
            "orb", "prior", "spread", "imbalance", "volume", "trades", "active", "nifty", "basis", "banknifty",
            "bankBasis", "stockLong", "advancing", "volumeBreadth", "subsample", "thrust", "dispersion", "corr">>

Values(bars, key) == Present([i \in DOMAIN bars |-> bars[i][key]])
Complete(bars) == SelectSeq(bars, LAMBDA b : None \notin {b.open, b.high, b.low, b.close})
Highest(bars) == IF Values(bars, "high") = <<>> THEN None ELSE Max(ToSet(Values(bars, "high")))
Lowest(bars) == IF Values(bars, "low") = <<>> THEN None ELSE Min(ToSet(Values(bars, "low")))
Known(a, b) == IF a # None THEN a ELSE b

(* The estimators that take logarithms or a filter: when they have a       *)
(* value, and from which inputs.                                           *)
SlopePct(series, lookback) ==
    LET v == Present(series)
    IN  IF Len(v) < Max({lookback + 1, 3}) \/ Last(v) = 0 THEN None ELSE Slope(v)

(* Per-bar variance; a bar with a price that is not positive, or with its  *)
(* high below its low, does not count.                                     *)
YangZhangVariance(bars) ==
    LET rows == SelectSeq(bars, LAMBDA b : Min({b.open, b.high, b.low, b.close}) > 0 /\ b.high >= b.low)
    IN  IF Len(rows) < 3 \/ Variance(rows) <= 0 THEN None ELSE Variance(rows)

YangZhangVol(bars) ==
    LET variance == YangZhangVariance(bars) IN IF variance = None THEN None ELSE Root(variance)

VolScaledMomentum(closes, variance) ==
    LET v == Present(closes)
    IN  IF Len(v) < 2 \/ variance = None \/ v[1] <= 0 THEN None ELSE Momentum(v, variance)

(* The bars a trend and a volatility are read from.                        *)
TrendBars(m) == Newest(m.bars, Max({LongBars, ErLookback + 1, SlopeLookback + SlopeMinBars}) + 5)

(* ABOVE, BELOW or INSIDE a range, with a margin in hundredths of percent. *)
Location(price, range, margin) ==
    IF None \in {Highest(range), Lowest(range)} THEN None
    ELSE IF 10000 * price > Highest(range) * (10000 + margin) THEN "ABOVE"
    ELSE IF 10000 * price < Lowest(range) * (10000 - margin) THEN "BELOW" ELSE "INSIDE"

OrbState(bars, price) ==
    LET today == SelectSeq(bars, LAMBDA b : b.day = Last(bars).day)
    IN  IF bars = <<>> \/ price = None THEN None
        ELSE IF Len(today) < 2 THEN None ELSE Location(price, First(today, OpeningBars), 5)

PriorDayState(bars, price) ==
    LET prior == SelectSeq(bars, LAMBDA b : b.day # Last(bars).day)
    IN  IF bars = <<>> \/ price = None \/ prior = <<>> THEN None ELSE Location(price, prior, 0)

TrendAndVol(m, ticks, vixRow) ==
    LET bars == TrendBars(m)
        closes == Values(bars, "close")
        whole == Complete(bars)
        enough == Len(whole) >= MinBars
        tick == TickOf(ticks, NiftyIndex)
        price == Known(tick.ltp, IF closes = <<>> THEN None ELSE Last(closes))
        vwap == Known(tick.vwap, IF bars = <<>> THEN None ELSE Last(bars).vwap)
        high == Known(tick.day.high, Highest(bars))
        low == Known(tick.day.low, Lowest(bars))
        short == IF enough THEN YangZhangVol(Newest(whole, ShortBars)) ELSE None
        long == IF enough THEN YangZhangVol(Newest(whole, LongBars)) ELSE None
        vix == Known(TickOf(ticks, Vix).ltp, IF vixRow = None THEN None ELSE vixRow.level)
    IN  [ef |-> IF Len(closes) >= 3 THEN EfficiencyRatio(Newest(closes, ErLookback)) ELSE None,
         slope |-> IF Len(closes) >= 3 THEN SlopePct(closes, SlopeLookback) ELSE None,
         mom |-> IF enough THEN VolScaledMomentum(Newest(closes, ErLookback), YangZhangVariance(Newest(whole, ShortBars)))
                 ELSE None,
         vwap |-> VwapPosition(price, vwap, high, low), range |-> RangePosition(price, high, low),
         short |-> short, long |-> long, ratio |-> Ratio(short, long),
         vix |-> vix, pctile |-> PercentileOf(vix, m.vixCloses),
         volOfVol |-> Deviation(PctChanges(Newest(Reverse(m.vixCloses), 30))), vrp |-> VarianceRiskPremium(vix, long),
         orb |-> OrbState(bars, price), prior |-> PriorDayState(bars, price)]

(* The spread against the other bars of its session, in hundredths of      *)
(* percent of the mid, and how much more is bid than offered.              *)
Liquidity(m) ==
    LET bars == Newest(m.bars, SpreadBars)
        quoted == SelectSeq(bars, LAMBDA b : b.bid \notin {None, 0} /\ b.ask \notin {None, 0} /\ b.ask >= b.bid)
        spreads == [i \in DOMAIN quoted |-> Share(200 * (quoted[i].ask - quoted[i].bid), quoted[i].ask + quoted[i].bid)]
    IN  [spread |-> IF Len(spreads) >= 5 THEN PercentileOf(Last(spreads), Front(spreads)) ELSE None,
         imbalance |-> IF bars = <<>> \/ Last(bars).bidQty = None THEN None ELSE Ratio(Last(bars).bidQty, Last(bars).askQty)]

(* The volume of this time of day, now and the median over earlier days,   *)
(* once there are enough of them.                                          *)
VolumeOn(m, day) ==
    LET mine == SelectSeq(m.bars, LAMBDA b : b.day = day /\ b.bucket = m.bucket /\ b.volume # None)
    IN  IF mine = <<>> THEN None ELSE AddUp([i \in DOMAIN mine |-> mine[i].volume])

SeasonalVolume(m) ==
    LET days == {m.bars[i].day : i \in DOMAIN m.bars} \ {m.day}
        earlier == SortSeq(Present([k \in 1..Cardinality(days) |-> VolumeOn(m, SetToSeq(days)[k])]), <)
        n == Len(earlier)
    IN  IF VolumeOn(m, m.day) = None \/ n < MinSessions THEN None
        ELSE Ratio(VolumeOn(m, m.day),
                   IF n % 2 = 1 THEN earlier[n \div 2 + 1] ELSE (earlier[n \div 2] + earlier[n \div 2 + 1]) \div 2)

Traded(m) ==
    LET bars == Newest(m.bars, BucketBars)
        counts == SelectSeq(Values(bars, "count"), LAMBDA c : c # 0)
        before == Front(counts)
    IN  [volume |-> SeasonalVolume(m),
         trades |-> IF Len(counts) < 3 THEN None ELSE Ratio(Last(counts) * Len(before), AddUp(before))]

Participation(traded, tables) ==
    [volume |-> traded.volume, trades |-> traded.trades,
     active |-> IF tables["breadth"] = None THEN None ELSE tables["breadth"].quality]

(* The first row of an index, in the order of the table, decides.          *)
Positioning(tables) ==
    LET rows == IF tables["futures"] = None THEN <<>> ELSE tables["futures"]
        of(name) == SelectSeq(rows, LAMBDA r : r.name = name)
        stocks == SelectSeq(rows, LAMBDA r : r.name \notin {"NIFTY", "BANKNIFTY"} /\ r.quadrant \notin {"UNKNOWN", "NEUTRAL"})
        long == SelectSeq(stocks, LAMBDA r : r.quadrant \in {"LONG_BUILDUP", "SHORT_COVERING"})
        get(name, key) == IF of(name) = <<>> THEN None ELSE Head(of(name))[key]
    IN  [nifty |-> get("NIFTY", "quadrant"), banknifty |-> get("BANKNIFTY", "quadrant"),
         basis |-> get("NIFTY", "basis"), bankBasis |-> get("BANKNIFTY", "basis"),
         stockLong |-> IF stocks = <<>> THEN None ELSE Share(Len(long), Len(stocks))]

Breadths(tables, points) ==
    LET row == tables["breadth"]
        known == Present(points)
        returns == IF tables["sector"] = None THEN <<>> ELSE [i \in DOMAIN tables["sector"] |-> tables["sector"][i].chg]
        sum == AddUp([i \in DOMAIN returns |-> Size(returns[i])])
        dispersion == Deviation(returns)
    IN  [advancing |-> IF row = None THEN None ELSE row.advancing,
         volumeBreadth |-> IF row = None THEN None ELSE row.volume,
         subsample |-> row # None /\ row.subsample,
         thrust |-> IF Len(known) < 2 THEN None ELSE Last(known) - Head(known),
         dispersion |-> dispersion,
         corr |-> IF dispersion = None \/ sum = 0 THEN None ELSE Within(100 - Share(dispersion * Len(returns), sum), 0, 100)]

(* The inputs that count for the quality of the data.                      *)
QualityKeys == {"ef", "slope", "vwap", "range", "short", "long", "vix", "pctile", "spread",
                "imbalance", "volume", "nifty", "advancing"}

Blank(key) == IF key = "subsample" THEN FALSE ELSE None

(* The first so many fields are set; an exception ends the rest.  An       *)
(* outage takes up to half of the quality.                                 *)
Build(bars, tables, points, outage, built) ==
    LET part == <<bars.trend, bars.liquidity, Participation(bars.volume, tables),
                  Positioning(tables), Breadths(tables, points)>>
        keys == UNION {DOMAIN part[i] : i \in 1..5}
        of(key) == CHOOSE i \in 1..5 : key \in DOMAIN part[i]
        set == {Fields[i] : i \in 1..built}
        value(key) == IF key \in keys \cap set THEN part[of(key)][key] ELSE Blank(key)
        missing == {key \in QualityKeys : value(key) = None}
        there == Share(Cardinality(QualityKeys \ missing), Cardinality(QualityKeys))
        quality == (there * (1800 - Min({outage, 900}))) \div 1800
    IN  [key \in keys \cup {"divergence", "missing", "quality"} |->
            IF key = "missing" THEN missing ELSE IF key = "quality" THEN quality ELSE value(key)]

===============================================================================
