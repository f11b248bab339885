------------------------------ MODULE RegimeAxes ------------------------------
(***************************************************************************)
(* The six axis classifiers of market_context/regime/axes.py.  A feature   *)
(* vector is a record of the inputs one axis decides by, in percent; None  *)
(* is an input nobody could compute.  The thresholds are the defaults of   *)
(* market_context/config.py.  The score is an input here: AxisScores       *)
(* weighs it.                                                              *)
(***************************************************************************)
EXTENDS Estimators

Unknown == "UNKNOWN"
Transitioning == "TRANSITIONING"

Axes == {"trend", "volatility", "liquidity", "participation", "positioning", "breadth"}

StatesOf == [
    trend         |-> {"TRENDING_UP", "TRENDING_DOWN", "RANGE"},
    volatility    |-> {"LOW_VOL", "NORMAL_VOL", "HIGH_VOL", "PANIC"},
    liquidity     |-> {"LIQUID", "NORMAL_LIQUIDITY", "THIN", "ILLIQUID"},
    participation |-> {"HIGH_PARTICIPATION", "LOW_PARTICIPATION", "NORMAL_PARTICIPATION"},
    positioning   |-> {"LONG_BUILDUP", "SHORT_COVERING", "NEUTRAL", "LONG_LIQUIDATION",
                       "SHORT_BUILDUP"},
    breadth       |-> {"STRONG_POSITIVE", "POSITIVE", "NEUTRAL", "NEGATIVE",
                       "STRONG_NEGATIVE"}]

AtLeast(input, bar) == input # None /\ input >= bar

(* Leaving a trend needs a less efficient path than entering one.          *)
TrendState(fv, current) ==
    LET floor == IF current \in {"TRENDING_UP", "TRENDING_DOWN"} THEN 20 ELSE 35
    IN  IF fv.score = None THEN Unknown
        ELSE IF fv.er # None /\ fv.er < floor THEN "RANGE"
        ELSE IF fv.score >= 30 THEN "TRENDING_UP"
        ELSE IF fv.score <= -30 THEN "TRENDING_DOWN"
        ELSE "RANGE"

(* Mutant: it takes more to stay high than to become high.                 *)
VolatilityStateMutant(fv, current) ==
    LET high == IF current \in {"HIGH_VOL", "PANIC"} THEN 75 ELSE 60
    IN  IF fv.pctile = None THEN Unknown
        ELSE IF fv.pctile >= 95 THEN "PANIC"
        ELSE IF fv.pctile >= high THEN "HIGH_VOL"
        ELSE "NORMAL_VOL"

(* Without a percentile of the VIX the ratio of the realised volatilities  *)
(* decides; PANIC is entered and left at the same bar, HIGH and LOW not.   *)
VolatilityState(fv, current) ==
    LET high == IF current \in {"HIGH_VOL", "PANIC"} THEN 60 ELSE 75
        low == IF current = "LOW_VOL" THEN 35 ELSE 25
    IN  IF fv.pctile = None /\ fv.ratio = None THEN Unknown
        ELSE IF AtLeast(fv.pctile, 95) \/ AtLeast(fv.ratio, 200) THEN "PANIC"
        ELSE IF fv.pctile = None THEN IF fv.ratio >= 115 THEN "HIGH_VOL" ELSE "NORMAL_VOL"
        ELSE IF fv.pctile >= high THEN "HIGH_VOL"
        ELSE IF fv.pctile <= low THEN "LOW_VOL"
        ELSE "NORMAL_VOL"

LiquidityState(fv, current) ==
    LET thin == IF current \in {"THIN", "ILLIQUID"} THEN 65 ELSE 75
    IN  IF fv.spread = None THEN Unknown
        ELSE IF fv.spread >= 90 THEN "ILLIQUID"
        ELSE IF fv.spread >= thin THEN "THIN"
        ELSE IF fv.spread <= 25 THEN "LIQUID"
        ELSE "NORMAL_LIQUIDITY"

ParticipationState(fv) ==
    LET ratio == IF fv.volume # None THEN fv.volume ELSE fv.trades
    IN  IF ratio = None THEN Unknown
        ELSE IF ratio >= 130 THEN "HIGH_PARTICIPATION"
        ELSE IF ratio <= 70 THEN "LOW_PARTICIPATION"
        ELSE "NORMAL_PARTICIPATION"

(* NIFTY weighs more than BANKNIFTY, so its quadrant is the dominant one   *)
(* whenever it is known.                                                   *)
PositioningState(fv) ==
    IF fv.nifty \in StatesOf.positioning THEN fv.nifty
    ELSE IF fv.banknifty \in StatesOf.positioning THEN fv.banknifty
    ELSE Unknown

BreadthState(fv) ==
    IF fv.advancing = None THEN Unknown
    ELSE IF fv.advancing >= 70 THEN "STRONG_POSITIVE"
    ELSE IF fv.advancing >= 57 THEN "POSITIVE"
    ELSE IF fv.advancing <= 30 THEN "STRONG_NEGATIVE"
    ELSE IF fv.advancing <= 43 THEN "NEGATIVE"
    ELSE "NEUTRAL"

Classify(axis, fv, current) ==
    CASE axis = "trend" -> TrendState(fv, current)
      [] axis = "volatility" -> VolatilityState(fv, current)
      [] axis = "liquidity" -> LiquidityState(fv, current)
      [] axis = "participation" -> ParticipationState(fv)
      [] axis = "positioning" -> PositioningState(fv)
      [] axis = "breadth" -> BreadthState(fv)

===============================================================================
