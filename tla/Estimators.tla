------------------------------ MODULE Estimators ------------------------------
(***************************************************************************)
(* The estimators of features/estimators.py.  None is a value nobody could *)
(* compute; it is never taken for zero.  Ratios and percentages are in     *)
(* hundredths.                                                             *)
(***************************************************************************)
EXTENDS Integers, Sequences, SequencesExt, FiniteSetsExt

CONSTANT None

Present(seq) == SelectSeq(seq, LAMBDA v : v # None)
Newest(seq, n) == SubSeq(seq, IF Len(seq) > n THEN Len(seq) - n + 1 ELSE 1, Len(seq))
Size(v) == IF v < 0 THEN -v ELSE v
Within(v, lo, hi) == IF v < lo THEN lo ELSE IF v > hi THEN hi ELSE v
Share(a, b) == IF a < 0 THEN -((100 * (-a)) \div b) ELSE (100 * a) \div b
AddUp(seq) == FoldLeft(LAMBDA acc, v : acc + v, 0, seq)
Root(n) == CHOOSE r \in 0..n : r * r <= n /\ n < (r + 1) * (r + 1)

EfficiencyRatio(closes) ==
    LET v == Present(closes)
        path == AddUp([i \in 1..(Len(v) - 1) |-> Size(v[i + 1] - v[i])])
    IN  IF Len(v) < 3 \/ path = 0 THEN None ELSE Share(Size(Last(v) - v[1]), path)

(* Where the price is in the range of the day: against the VWAP, and       *)
(* against the low.                                                        *)
VwapPosition(price, vwap, high, low) ==
    IF None \in {price, vwap, high, low} \/ high <= low THEN None
    ELSE Within(Share(price - vwap, high - low), -100, 100)

RangePosition(price, high, low) ==
    IF None \in {price, high, low} \/ high <= low THEN None
    ELSE Within(Share(price - low, high - low), 0, 100)

PercentileOf(value, history) ==
    LET v == Present(history)
    IN  IF value = None \/ Len(v) < 2 THEN None
        ELSE (100 * Len(SelectSeq(v, LAMBDA x : x < value))) \div Len(v)

Deviation(values) ==
    LET v == Present(values)
        n == Len(v)
    IN  IF n < 2 THEN None
        ELSE Root((n * AddUp([i \in 1..n |-> v[i] * v[i]]) - AddUp(v) * AddUp(v)) \div (n * (n - 1)))

PctChanges(values) ==
    LET v == Present(values)
        from == SelectSeq([i \in 1..Max({Len(v) - 1, 0}) |-> i], LAMBDA i : v[i] # 0)
    IN  [k \in DOMAIN from |-> Share(v[from[k] + 1] - v[from[k]], v[from[k]])]

VarianceRiskPremium(iv, rv) == IF None \in {iv, rv} THEN None ELSE iv * iv - rv * rv

Ratio(a, b) == IF a = None \/ b \in {None, 0} THEN None ELSE Share(a, b)

(* [lo, hi] onto [0, 100], and [-scale, scale] onto [-100, 100].           *)
Normalise(value, lo, hi) == IF value = None THEN None ELSE Within(Share(value - lo, hi - lo), 0, 100)
SignedNormalise(value, scale) == IF value = None THEN None ELSE Within(Share(value, scale), -100, 100)

(* The weighted mean of the parts that are there.  Without any it is None. *)
WeightedScore(parts, weights) ==
    LET there == {k \in DOMAIN weights : parts[k] # None}
        used == MapThenSumSet(LAMBDA k : weights[k], there)
        sum == MapThenSumSet(LAMBDA k : parts[k] * weights[k], there)
    IN  IF used = 0 THEN None ELSE IF sum < 0 THEN -((-sum) \div used) ELSE sum \div used

===============================================================================
