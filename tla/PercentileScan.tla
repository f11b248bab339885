----------------------------- MODULE PercentileScan -----------------------------
(***************************************************************************)
(* The scan of the IV percentile strategy (iv_percentile_strategy.py), as  *)
(* a function of what it reads: the latest snapshot and the daily history  *)
(* of an underlying, its expiries and the chain of the one it picks.       *)
(*                                                                         *)
(* A scan ends with "none", where the code returns None, or with "raised", *)
(* where it raises; scan_all logs the latter and goes on.  The last check  *)
(* before a signal is put together calls scanner._spread_pct, which no     *)
(* class of the repository defines, so that there is no third outcome.     *)
(***************************************************************************)
EXTENDS ScanInputs

CONSTANTS
    MinHistory,             \* MIN_HISTORY_DAYS
    MaxSignals,             \* MAX_SIGNALS_PER_DAY
    MinOi, MinVolume,       \* MIN_OI, MIN_VOLUME
    MinPrice                \* MIN_OPTION_PREMIUM

(* In hundredths of a percent.                                             *)
SellZone == 8500
BuyZone == 1500
Neutral == 5000

(* The share of the history below the present value.  With too short a     *)
(* history an underlying stands in the middle.                             *)
IvPercentile(history, iv) ==
    LET known == SelectSeq(history, LAMBDA x : x > 0)
    IN  IF Len(known) < MinHistory THEN Neutral
        ELSE (10000 * Len(SelectSeq(known, LAMBDA x : x < iv))) \div Len(known)

(* The spot against the mean of its last five days, with half a percent    *)
(* of room.                                                                *)
SpotTrend(spots, spot) ==
    LET known == SelectSeq(spots, LAMBDA x : x > 0)
        last == IF Len(known) >= 5 THEN SubSeq(known, Len(known) - 4, Len(known)) ELSE known
        move == 1000 * (spot * Len(last) - SumOf(last))
    IN  IF Len(known) < 3 THEN "neutral"
        ELSE IF move > 5 * SumOf(last) THEN "up"
        ELSE IF move < -5 * SumOf(last) THEN "down" ELSE "neutral"

(* The first expiry five to fifteen days away, else the first that is not  *)
(* nearer, else the first.                                                 *)
PickExpiry(days) ==
    LET within == {i \in DOMAIN days : days[i] \in 5..15}
        later == {i \in DOMAIN days : days[i] >= 5}
    IN  IF within # {} THEN Min(within) ELSE IF later # {} THEN Min(later) ELSE 1

(* Every lookup is by the number written with its decimal point.           *)
Looked(chain, strike, side) == SideAt(chain, FloatKey(strike), side)

(* 0.20 - 0.05 is a little more than 0.15 in floating point.               *)
TargetDelta(o) == 15 < Distance(o.delta, 0) /\ Distance(o.delta, 0) <= 25

Legs(chain, side, atm) ==
    {s \in Strikes(chain) :
        /\ IF side = "ce" THEN s > atm ELSE s < atm
        /\ Has(Looked(chain, s, side))
        /\ TargetDelta(Looked(chain, s, side))}

Leg(chain, side, atm) ==
    Looked(chain, IF side = "ce" THEN Min(Legs(chain, side, atm)) ELSE Max(Legs(chain, side, atm)), side)

Tradable(o, price) == o.oi >= MinOi /\ o.volume >= MinVolume /\ price > 0 /\ price >= MinPrice

(* The strangle: the nearest legs on both sides with the delta wanted.     *)
SellSignal(chain, spot) ==
    LET atm == AtmStrike(chain, spot)
        tradable(side) == Tradable(Leg(chain, side, atm), Bid(Leg(chain, side, atm)))
    IN  IF /\ \A side \in Sides : Legs(chain, side, atm) # {}
           /\ \A side \in Sides : tradable(side)
        THEN "raised" ELSE "none"

(* The option one strike out of the money, on the side of the trend.       *)
BuySignal(chain, spot, trend) ==
    LET strikes == SortSeq(SetToSeq(Strikes(chain)), <)
        at == CHOOSE i \in DOMAIN strikes : strikes[i] = AtmStrike(chain, spot)
        side == IF trend = "up" THEN "ce" ELSE "pe"
        out == IF trend = "up" THEN Min({at + 1, Len(strikes)}) ELSE Max({at - 1, 1})
        option == Looked(chain, strikes[out], side)
    IN  IF trend # "neutral" /\ Has(option) /\ Tradable(option, Ask(option))
        THEN "raised" ELSE "none"

(* The signal a snapshot of an underlying and the answer of the broker     *)
(* lead to.                                                                *)
Signal(u, snap, percentile, answer) ==
    IF BuyZone < percentile /\ percentile < SellZone THEN "none"
    ELSE IF answer = NoAnswer \/ Kept(answer) = <<>> THEN "none"
    ELSE IF percentile >= SellZone THEN SellSignal(ToChain(answer), snap.spot)
    ELSE BuySignal(ToChain(answer), snap.spot, SpotTrend(GetSpotHistory(u.rows), snap.spot))

(* scan_underlying: u is what is known of the underlying, with a chain for *)
(* each of its expiries.  Its latest snapshot may be of any age.           *)
Looking(u, snap) ==
    IF snap = None \/ snap.iv <= 0 \/ snap.spot <= 0 THEN "none"
    ELSE Signal(u, snap, IvPercentile(GetIvHistory(u.rows), snap.iv),
                IF ExpiryList(u) = <<>> THEN NoAnswer ELSE GetOptionChain(u, PickExpiry(u.days)))

ScanUnderlying(u) == Looking(u, LatestSnapshot(u))

(* scan_all: the underlyings in turn, until enough of them have a signal.  *)
ScanAll(underlyings) ==
    FoldLeft(LAMBDA found, u :
                IF Len(found) < MaxSignals /\ ScanUnderlying(u) \notin {"none", "raised"}
                THEN Append(found, u) ELSE found,
             <<>>, underlyings)

===============================================================================
