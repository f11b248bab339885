------------------------------ MODULE AxisScores ------------------------------
(***************************************************************************)
(* What a reading of an axis says beyond its label: the score, the share   *)
(* of the inputs that agree, the distance from the threshold, the          *)
(* structural event (regime/axes.py), and the confidence, the direction    *)
(* and the probability of a change made of them (regime/hysteresis.py).    *)
(* Everything is in hundredths.  fv is a whole feature vector.             *)
(***************************************************************************)
EXTENDS RegimeAxes

High == {"HIGH_VOL", "PANIC"}
Rare == {"THIN", "ILLIQUID"}

QuadrantScore == [LONG_BUILDUP |-> 100, SHORT_COVERING |-> 40, NEUTRAL |-> 0, LONG_LIQUIDATION |-> -40, SHORT_BUILDUP |-> -100]
OfQuadrant(q) == IF q \in DOMAIN QuadrantScore THEN QuadrantScore[q] ELSE None

(* The efficiency of the path has no sign of its own: it takes that of the *)
(* directional inputs.                                                     *)
TrendParts(fv) ==
    LET slope == SignedNormalise(fv.slope, 50)
        mom == SignedNormalise(fv.mom, 200)
        ef == Normalise(fv.ef, 0, 100)
        leaning == AddUp(Present(<<slope, mom, fv.vwap>>))
    IN  [ef |-> IF ef # None /\ leaning < 0 THEN -ef ELSE ef, slope |-> slope, mom |-> mom, vwap |-> fv.vwap]

(* How far the book is from balanced, to either side.                      *)
Lopsided(imbalance) == IF imbalance \in {None, 0} THEN None ELSE Max({imbalance, 10000 \div imbalance})

PartsOf(axis, fv) ==
    CASE axis = "trend" -> TrendParts(fv)
      [] axis = "volatility" -> [pctile |-> Normalise(fv.pctile, 0, 100), ratio |-> Normalise(fv.ratio, 50, 200),
                                 short |-> Normalise(fv.short, 5, 45), volOfVol |-> Normalise(fv.volOfVol, 0, 1000)]
      [] axis = "liquidity" -> [spread |-> Normalise(fv.spread, 0, 100), depth |-> None,
                                imbalance |-> Normalise(Lopsided(fv.imbalance), 100, 300)]
      [] axis = "participation" -> [volume |-> Normalise(fv.volume, 0, 200), trades |-> Normalise(fv.trades, 0, 200),
                                    active |-> Normalise(fv.active, 0, 100)]
      [] axis = "positioning" -> [nifty |-> OfQuadrant(fv.nifty), banknifty |-> OfQuadrant(fv.banknifty),
                                  stockLong |-> IF fv.stockLong = None THEN None ELSE 2 * (fv.stockLong - 50)]
      [] axis = "breadth" -> [advancing |-> IF fv.advancing = None THEN None ELSE SignedNormalise(fv.advancing - 50, 30),
                              volume |-> IF fv.volumeBreadth = None THEN None ELSE SignedNormalise(fv.volumeBreadth - 50, 30),
                              thrust |-> SignedNormalise(fv.thrust, 20)]

Weights == [
    trend         |-> [ef |-> 35, slope |-> 30, mom |-> 20, vwap |-> 15],
    volatility    |-> [pctile |-> 40, ratio |-> 30, short |-> 20, volOfVol |-> 10],
    liquidity     |-> [spread |-> 50, depth |-> 30, imbalance |-> 20],
    participation |-> [volume |-> 50, trades |-> 30, active |-> 20],
    positioning   |-> [nifty |-> 60, banknifty |-> 40],
    breadth       |-> [advancing |-> 50, volume |-> 35, thrust |-> 15]]

AxisScore(axis, fv) == WeightedScore(PartsOf(axis, fv), Weights[axis])

(* What the label of an axis is decided by.                                *)
Deciding(axis, fv) ==
    CASE axis = "trend" -> [er |-> fv.ef, score |-> AxisScore(axis, fv)]
      [] axis = "volatility" -> [pctile |-> fv.pctile, ratio |-> fv.ratio]
      [] axis = "liquidity" -> [spread |-> fv.spread]
      [] axis = "participation" -> [volume |-> fv.volume, trades |-> fv.trades]
      [] axis = "positioning" -> [nifty |-> fv.nifty, banknifty |-> fv.banknifty]
      [] axis = "breadth" -> [advancing |-> fv.advancing]

Label(axis, fv, current) == Classify(axis, Deciding(axis, fv), current)

(* The share of the parts that point to the side of the label.             *)
Agreement(axis, fv, label) ==
    LET parts == PartsOf(axis, fv)
        middle == IF axis \in {"volatility", "liquidity", "participation"} THEN 50 ELSE 0
        positive == IF middle = 50 THEN label \in High \cup Rare \cup {"HIGH_PARTICIPATION"}
                    ELSE AxisScore(axis, fv) = None \/ AxisScore(axis, fv) >= 0
        there == {k \in DOMAIN parts : parts[k] # None}
        agreeing == {k \in there : parts[k] = middle \/ (parts[k] > middle) = positive}
    IN  IF there = {} THEN None ELSE Share(Cardinality(agreeing), Cardinality(there))

Distance100(value, threshold, scale) == IF value = None THEN None ELSE Within(Share(Size(value - threshold), scale), 0, 100)

(* The distance of the deciding value from the threshold it passed.        *)
TrendMargin(fv, current) ==
    LET score == AxisScore("trend", fv)
        floor == IF current \in {"TRENDING_UP", "TRENDING_DOWN"} THEN 20 ELSE 35
    IN  IF fv.ef # None /\ fv.ef < floor THEN Distance100(fv.ef, floor, 35)
        ELSE IF Size(score) >= 30 THEN Distance100(Size(score), 30, 70)
        ELSE Distance100(score, 0, 30)

VolatilityMargin(fv, current, label) ==
    IF label = "PANIC" THEN Distance100(fv.pctile, 95, 20)
    ELSE IF fv.pctile = None THEN Distance100(fv.ratio, 115, 50)
    ELSE Distance100(fv.pctile,
                     CASE label = "HIGH_VOL" -> IF current \in High THEN 60 ELSE 75
                       [] label = "LOW_VOL" -> IF current = "LOW_VOL" THEN 35 ELSE 25
                       [] OTHER -> 50, 25)

LiquidityMargin(fv, current, label) ==
    CASE label = "ILLIQUID" -> Distance100(fv.spread, 90, 15)
      [] label = "THIN" -> Distance100(fv.spread, IF current \in Rare THEN 65 ELSE 75, 20)
      [] label = "LIQUID" -> Distance100(fv.spread, 25, 20)
      [] OTHER -> Distance100(fv.spread, 50, 25)

ParticipationMargin(fv, label) ==
    LET ratio == IF fv.volume # None THEN fv.volume ELSE fv.trades
    IN  CASE label = "HIGH_PARTICIPATION" -> Distance100(ratio, 130, 60)
          [] label = "LOW_PARTICIPATION" -> Distance100(ratio, 70, 40)
          [] OTHER -> Distance100(ratio, 100, 30)

BreadthMargin(fv, label) ==
    CASE label = "STRONG_POSITIVE" -> Distance100(fv.advancing, 70, 20)
      [] label = "POSITIVE" -> Distance100(fv.advancing, 57, 15)
      [] label = "STRONG_NEGATIVE" -> Distance100(fv.advancing, 30, 20)
      [] label = "NEGATIVE" -> Distance100(fv.advancing, 43, 15)
      [] OTHER -> Distance100(fv.advancing, 50, 10)

Margin(axis, fv, current, label) ==
    CASE axis = "trend" -> TrendMargin(fv, current)
      [] axis = "volatility" -> VolatilityMargin(fv, current, label)
      [] axis = "liquidity" -> LiquidityMargin(fv, current, label)
      [] axis = "participation" -> ParticipationMargin(fv, label)
      [] axis = "positioning" -> Within(Size(AxisScore(axis, fv)), 0, 100)
      [] axis = "breadth" -> BreadthMargin(fv, label)

(* Three confirmations make a reversal; the first, a divergence of the     *)
(* breadth, is never computed.                                             *)
TrendEvent(fv, label) ==
    LET confirmations == {k \in 1..3 : CASE k = 1 -> fv.divergence \notin {None, 0}
                                         [] k = 2 -> fv.range # None /\ (fv.range > 90 \/ fv.range < 10)
                                         [] k = 3 -> fv.thrust # None /\ Size(fv.thrust) >= 10}
    IN  IF Cardinality(confirmations) = 3 THEN "REVERSAL"
        ELSE IF fv.orb = "ABOVE" /\ fv.prior \in {"ABOVE", None} /\ label = "TRENDING_UP" THEN "BREAKOUT"
        ELSE IF fv.orb = "BELOW" /\ fv.prior \in {"BELOW", None} /\ label = "TRENDING_DOWN" THEN "BREAKDOWN"
        ELSE "NONE"

-------------------------------------------------------------------------------
(* hysteresis.py.  dwell is the share of MIN_DWELL_MINUTES the label has   *)
(* been held; history the scores, oldest first, with their age in minutes. *)

ConfidenceScore(agreement, quality, dwell, margin, subsample) ==
    LET parts == [agreement |-> agreement, quality |-> quality, dwell |-> dwell, margin |-> margin]
        score == WeightedScore(parts, [agreement |-> 35, quality |-> 25, dwell |-> 20, margin |-> 20])
    IN  IF subsample THEN Min({score, 70}) ELSE score

ScoreMomentum(history) ==
    LET recent == SelectSeq(history, LAMBDA h : h.age <= 10)
        anchor == IF recent # <<>> THEN Head(recent) ELSE Head(history)
        elapsed == anchor.age - Last(history).age
    IN  IF Len(history) < 2 THEN None
        ELSE IF elapsed <= 0 THEN None ELSE Share(Last(history).score - anchor.score, 100 * elapsed)

NegativeStates == {"TRENDING_DOWN", "NEGATIVE", "STRONG_NEGATIVE", "LONG_LIQUIDATION", "SHORT_BUILDUP"}

Direction(momentum, published, current) ==
    IF momentum = None \/ published \in {Unknown, Transitioning} THEN Unknown
    ELSE IF Size(momentum) < 5 THEN "STABLE"
    ELSE IF (current \in NegativeStates) = (momentum < 0) THEN "STRENGTHENING" ELSE "WEAKENING"

TransitionProbability(momentum, margin, confidence) ==
    Within(15 + (IF momentum = None THEN 0 ELSE (30 * Min({Size(momentum), 100})) \div 100)
              + (IF margin = None THEN 0 ELSE (25 * (100 - margin)) \div 100)
              + (20 * (100 - confidence)) \div 100, 0, 100)

(* What one axis of the engine reads in one snapshot, in which the reading *)
(* prevails: RegimeEngine says when it does.                               *)
Reading(axis, fv, current, dwell, history) ==
    LET label == Label(axis, fv, current)
        blind == label = Unknown
        agreement == IF blind THEN None ELSE Agreement(axis, fv, label)
        margin == IF blind THEN None ELSE Margin(axis, fv, current, label)
        confidence == ConfidenceScore(agreement, fv.quality, dwell, margin, axis = "breadth" /\ fv.subsample)
        score == AxisScore(axis, fv)
        published == IF blind THEN current ELSE label
        momentum == ScoreMomentum(IF score = None THEN history ELSE Append(history, [age |-> 0, score |-> score]))
    IN  [label |-> label, score |-> score, confidence |-> confidence,
         direction |-> Direction(momentum, published, published),
         change |-> TransitionProbability(momentum, margin, confidence),
         event |-> IF axis = "trend" /\ ~blind THEN TrendEvent(fv, label) ELSE "NONE"]

===============================================================================
