----------------------------- MODULE DiscountScan -----------------------------
(***************************************************************************)
(* The discount scan of one underlying, as functions of its inputs: the    *)
(* market signal, the gates every option passes, its score, the ranking    *)
(* inside one underlying and the selection over all of them.               *)
(*                                                                         *)
(* Deltas and ratios are in hundredths, a spread and every score in        *)
(* hundredths of a point.  Log1p is a hundred times the natural logarithm  *)
(* of x + 1.                                                               *)
(***************************************************************************)
EXTENDS ScanInputs

CONSTANTS Log1p(_),
          MinIvRank,      \* MIN_IV_RANK
          MinDays,        \* MIN_DTE_DAYS
          MinIvSamples    \* MIN_IV_SAMPLES

----------------------------------------------------------------------------
(* The signal of the market for one underlying.                            *)

Bullish(kind) == kind \in {"long_buildup", "short_covering"}
Bearish(kind) == kind \in {"short_buildup", "long_unwinding"}

(* The trend of the put/call ratio over the last five snapshots that have  *)
(* one.                                                                    *)
Pcrs(rows) == [i \in DOMAIN rows |-> (100 * rows[i].oi["pe"]) \div rows[i].oi["ce"]]

RatioTrend(pcrs) ==
    IF pcrs = <<>> THEN "neutral"
    ELSE IF Last(pcrs) >= 105 /\ FittedSlope(pcrs) > 100 THEN "bullish"
    ELSE IF Last(pcrs) <= 95 /\ FittedSlope(pcrs) < -100 THEN "bearish"
    ELSE "neutral"

PcrTrend(u) == RatioTrend(Pcrs(SelectSeq(IntradaySnapshots(u, 5), LAMBDA s : s.oi["ce"] > 0)))

(* Where the strike of the largest open interest moved, in two snapshots.  *)
Moved(before, after) ==
    IF None \in {before, after} THEN "same"
    ELSE IF after > before THEN "up" ELSE IF after < before THEN "down" ELSE "same"

Shift(rows) ==
    [side \in Sides |-> IF Len(rows) < 2 THEN "same" ELSE Moved(rows[1].busiest[side], rows[2].busiest[side])]

(* The last snapshot has half as much volume again as the ones before it.  *)
TotalVolume(s) == s.volume["ce"] + s.volume["pe"]
PastVolumes(rows) == SelectSeq([i \in 1..(Len(rows) - 1) |-> TotalVolume(rows[i])], LAMBDA v : v > 0)

Surge(past, now) ==
    IF past = <<>> THEN [spike |-> FALSE, direction |-> "neutral"]
    ELSE [spike |-> 2 * Len(past) * TotalVolume(now) > 3 * SumOf(past),
          direction |-> IF now.volume["pe"] > now.volume["ce"] THEN "bullish"
                        ELSE IF now.volume["ce"] > now.volume["pe"] THEN "bearish" ELSE "neutral"]

Spike(rows) == IF rows = <<>> THEN [spike |-> FALSE, direction |-> "neutral"] ELSE Surge(PastVolumes(rows), Last(rows))

(* The expiry an underlying is scanned at: the first far enough, else the  *)
(* second listed; and the answer of the broker for it.                     *)
Expiry(days) ==
    LET far == {i \in DOMAIN days : days[i] >= MinDays}
    IN  IF far # {} THEN Min(far) ELSE Min({2, Len(days)})

Answer(u) == IF ExpiryList(u) = <<>> THEN NoAnswer ELSE GetOptionChain(u, Expiry(u.days))

(* What the market shows for an underlying, u: its chain, and the last two *)
(* to five snapshots of the collector.  The scan writes none of its own.   *)
MarketView(u, chain, spot) ==
    [buildup |-> DominantBuildup(chain), pcr |-> PcrTrend(u),
     shift |-> Shift(IntradaySnapshots(u, 2)), spike |-> Spike(IntradaySnapshots(u, 4)),
     nearWall |-> [side \in Sides |-> NearAWall(spot, Walls(chain, side))]]

(* The points for one direction.  leaderUp: the strike of the largest open *)
(* interest moved up, among the puts for the bulls, the calls for the      *)
(* bears; leaderDown: that of the other side moved down.                   *)
Points(buildup, strength, pcr, leaderUp, leaderDown, spike, nearWall, both) ==
    (IF buildup THEN 150 + strength ELSE 0)
  + (IF pcr THEN 125 ELSE 0)
  + (IF leaderUp THEN 75 ELSE 0) + (IF leaderDown THEN 40 ELSE 0)
  + (IF spike THEN 80 ELSE 0)
  + (IF nearWall THEN 150 ELSE 0) + (IF both THEN 200 ELSE 0)

BullPoints(m) ==
    Points(Bullish(m.buildup.kind), m.buildup.strength, m.pcr = "bullish",
           m.shift["pe"] = "up", m.shift["ce"] = "down",
           m.spike.spike /\ m.spike.direction = "bullish",
           m.nearWall["pe"], m.buildup.kind = "long_buildup" /\ m.nearWall["pe"])

BearPoints(m) ==
    Points(Bearish(m.buildup.kind), m.buildup.strength, m.pcr = "bearish",
           m.shift["ce"] = "up", m.shift["pe"] = "down",
           m.spike.spike /\ m.spike.direction = "bearish",
           m.nearWall["ce"], m.buildup.kind = "short_buildup" /\ m.nearWall["ce"])

Gap(m) == BullPoints(m) - BearPoints(m)

MarketDirection(m) == IF Gap(m) > 75 THEN "bullish" ELSE IF Gap(m) < -75 THEN "bearish" ELSE "neutral"

MarketStrength(m) ==
    IF MarketDirection(m) = "neutral" THEN "neutral"
    ELSE IF m.buildup.kind = "long_buildup" /\ m.nearWall["pe"] THEN "strong_bullish"
    ELSE IF m.buildup.kind = "short_buildup" /\ m.nearWall["ce"] THEN "strong_bearish"
    ELSE MarketDirection(m)

MarketSignal(m) ==
    [direction |-> MarketDirection(m), strength |-> MarketStrength(m),
     confidence |-> Clip(5000 + Distance(Gap(m), 0) * 18, 3500, 9500), spike |-> m.spike.spike]

----------------------------------------------------------------------------
(* Volatility against its history.                                         *)
IvRank(iv, history) ==
    IF history = <<>> \/ Max(Range(history)) = Min(Range(history)) THEN 5000
    ELSE Clip(Div(10000 * (iv - Min(Range(history))), Max(Range(history)) - Min(Range(history))), 0, 10000)

(* The mean of the realised volatilities that have enough days, weighted   *)
(* 3 : 4 : 3.                                                              *)
WeightedHv(closes) ==
    LET known == {i \in 1..3 : HistoricalVolatility(closes, HvWindows[i]) # None}
        weight(i) == IF i = 2 THEN 4 ELSE 3
    IN  IF known = {} THEN None
        ELSE MapThenSumSet(LAMBDA i : weight(i) * HistoricalVolatility(closes, HvWindows[i]), known)
               \div MapThenSumSet(weight, known)

(* A clear trend beats cheapness; neither leaves no trade.                 *)
TradeType(rank, skew, trend, delta) ==
    IF trend # "neutral" /\ 15 <= delta /\ delta <= 45 /\ (rank = None \/ rank >= 4000) THEN "directional"
    ELSE IF (rank # None /\ rank < 4000) \/ skew > 10 THEN "volatility"
    ELSE "none"

----------------------------------------------------------------------------
(* What the scan knows of one option: o is the option, c its context.      *)
AbsDelta(o) == Distance(o.delta, 0)
Spread(o) == Div(10000 * (Ask(o) - Bid(o)), Ask(o))
Skew(o, c) == IF c.deviation > 0 THEN -Div(100 * (o.iv - c.mean), c.deviation) ELSE 0
MoveRatio(c) == IF c.expectedMove > 0 THEN Div(100 * Distance(c.strike, c.spot), c.expectedMove) ELSE 0
Rank(o, c) == IF c.hasHistory THEN IvRank(o.iv, c.history) ELSE None
Kind(o, c) == TradeType(Rank(o, c), Skew(o, c), c.trend, AbsDelta(o))

Quality(o, c) ==
    Cardinality({q \in 1..5 :
        CASE q = 1 -> Skew(o, c) > 0
          [] q = 2 -> AbsDelta(o) \in 15..45
          [] q = 3 -> MoveRatio(c) <= 150
          [] q = 4 -> o.volume > 1000
          [] q = 5 -> o.oi >= 1000})

(* Everything that must hold before an option is scored.                   *)
Tradeable(o, c) ==
    /\ Has(o)
    /\ AbsDelta(o) >= 5
    /\ o.iv > 0
    /\ Ask(o) > 0
    /\ Spread(o) < 6000
    /\ c.ivStable
    /\ MoveRatio(c) <= 250
    /\ Kind(o, c) # "none"
    /\ Quality(o, c) >= 1

----------------------------------------------------------------------------
(* The score: five components weighted by the type of the trade.           *)
HvScore(o, c) ==
    IF c.hv = None \/ c.hv <= 0 THEN 5000
    ELSE Clip(5000 + Div(20000 * (c.hv - o.iv), c.hv), 0, 10000)

DeltaScore(o) ==
    IF AbsDelta(o) \in 15..40 THEN 10000
    ELSE IF AbsDelta(o) \in 10..55 THEN 7000 ELSE 2500

LiquidityScore(o) == Clip(Log1p(o.oi) * 12 + Log1p(o.volume) * 8, 0, 10000)

SkewScore(o, c) == Clip(5000 + Skew(o, c) * 8, 0, 10000)

RelevanceScore(c) ==
    LET r == MoveRatio(c)
    IN  IF r <= 100 THEN Clip(9200 - Div(Distance(r, 75) * 4200, 55), 0, 10000)
        ELSE IF r <= 150 THEN 7800 - (r - 100) * 36
        ELSE IF r <= 250 THEN 6000 - (r - 150) * 22
        ELSE 3000

BaseScore(o, c) ==
    LET w == IF Kind(o, c) = "directional"
             THEN [hv |-> 25, delta |-> 35, liquidity |-> 10, skew |-> 15, relevance |-> 25]
             ELSE [hv |-> 30, delta |-> 10, liquidity |-> 10, skew |-> 40, relevance |-> 20]
    IN  Clip((HvScore(o, c) * w.hv + DeltaScore(o) * w.delta + LiquidityScore(o) * w.liquidity
              + SkewScore(o, c) * w.skew + RelevanceScore(c) * w.relevance) \div 100, 0, 10000)

(* What the warm-up of the day says of the volatility.                     *)
ContextPoints(c) ==
    (IF c.ivChange = None THEN 0
     ELSE IF c.ivChange < -200 THEN 800 ELSE IF c.ivChange > 200 THEN -1000 ELSE 0)
  + (IF c.ivTrend # None /\ c.ivTrend < 0 THEN 800 ELSE 0)

(* Mutant: a low open interest is rewarded.                                *)
LiquidityPointsMutant(o) ==
    (IF o.volume < 200 THEN -800 ELSE IF o.volume < 500 THEN -400 ELSE IF o.volume > 1500 THEN 300 ELSE 0)
  + (IF o.oi < 1000 THEN 600 ELSE IF o.oi > 8000 THEN 300 ELSE 0)

LiquidityPoints(o) ==
    (IF o.volume < 200 THEN -800 ELSE IF o.volume < 500 THEN -400 ELSE IF o.volume > 1500 THEN 300 ELSE 0)
  + (IF o.oi < 1000 THEN -600 ELSE IF o.oi > 8000 THEN 300 ELSE 0)
  + (IF Spread(o) > 2000 THEN -Min({1200, Div((Spread(o) - 2000) * 45, 100)})
     ELSE IF Spread(o) < 800 THEN 250 ELSE 0)

DistancePoints(c) ==
    IF MoveRatio(c) > 100 THEN -Min({1500, (MoveRatio(c) - 100) * 8})
    ELSE IF MoveRatio(c) < 35 THEN -Min({800, (35 - MoveRatio(c)) * 15}) ELSE 0

(* Support of the book of open interest and of the market.                 *)
Toward(side) == IF side = "ce" THEN "bullish" ELSE "bearish"

AlignmentPoints(c) ==
    IF c.market.direction = Toward(c.side)
    THEN Clip(1000 + Div(c.market.confidence - 5000, 4), 1000, 2000)
    ELSE IF c.market.direction = "neutral" THEN 0 ELSE -1000

SupportPoints(o, c) ==
    (IF c.side = "ce" /\ c.nearPutWall THEN 1000 ELSE 0)
  + (IF c.side = "pe" /\ c.nearCallWall THEN 1000 ELSE 0)
  + (IF c.side = "ce" /\ c.buildup = "long_buildup" THEN 800 ELSE 0)
  + (IF c.side = "pe" /\ c.buildup = "short_buildup" THEN 800 ELSE 0)
  + AlignmentPoints(c)
  + (IF c.market.spike /\ c.buildup # "neutral" THEN 500 ELSE 0)
  + (IF c.market.strength = "strong_bullish" /\ c.side = "ce" THEN 600 ELSE 0)
  + (IF c.market.strength = "strong_bearish" /\ c.side = "pe" THEN 600 ELSE 0)

Score(o, c) ==
    Clip(BaseScore(o, c) + ContextPoints(c)
         + Clip(LiquidityPoints(o) + DistancePoints(c) + SupportPoints(o, c), -2500, 2500), 0, 9500)

Accepted(o, c) ==
    /\ Tradeable(o, c)
    /\ Score(o, c) >= 4000
    /\ Rank(o, c) # None => Rank(o, c) >= MinIvRank

(* The order inside one underlying; the first eight go on.                 *)
RankScore(o, c) ==
    Score(o, c) + 2 * Log1p(o.volume) + Div(3 * Log1p(o.oi), 2)
  + (IF AbsDelta(o) \in 20..40 THEN 500 ELSE 0)
  + (IF c.market.direction = Toward(c.side) THEN Clip(Div(c.market.confidence - 6000, 8), 0, 500) ELSE 0)

(* What is known of an underlying before its strikes are looked at.        *)
Findings(u, chain, spot, closes) ==
    [spot |-> spot,
     expectedMove |-> ExpectedMove(spot, AtmIv(chain, spot), u.left[Expiry(u.days)]),
     mean |-> [side \in Sides |-> MeanIv(chain, side)],
     deviation |-> [side \in Sides |-> IvDeviation(chain, side)],
     history |-> FetchHistoricalIv(u.rows), premarket |-> PremarketContext(u),
     hv |-> WeightedHv(closes), trend |-> TrendOf(closes),
     market |-> MarketSignal(MarketView(u, chain, spot)),
     walls |-> [side \in Sides |-> Walls(chain, side)]]

(* The context of the i-th strike of the chain, for one side of it.        *)
Situation(f, chain, i, side) ==
    LET strike == chain[i].key.strike
        option == chain[i][side]
    IN  [side |-> side, strike |-> strike, spot |-> f.spot, expectedMove |-> f.expectedMove,
         mean |-> f.mean[side], deviation |-> f.deviation[side],
         hasHistory |-> Len(f.history) >= MinIvSamples, history |-> f.history,
         hv |-> f.hv, trend |-> f.trend,
         ivChange |-> f.premarket.ivChange, ivTrend |-> f.premarket.ivTrend,
         market |-> f.market, buildup |-> Buildup(option),
         ivStable |-> Has(option) => IvIsStable(chain, strike, side, option.iv),
         nearCallWall |-> NearAWall(strike, f.walls["ce"]),
         nearPutWall |-> NearAWall(strike, f.walls["pe"])]

(* The options of an underlying, each in its context, that are judged.     *)
(* Without a spot price the first of them fails on a division.             *)
Options(chain, f) ==
    [n \in 1..(2 * Len(chain)) |->
        LET i == (n + 1) \div 2
            side == IF n % 2 = 1 THEN "ce" ELSE "pe"
        IN  [option |-> chain[i][side], context |-> Situation(f, chain, i, side)]]

Weighed(u, rows, closes) ==
    IF rows = NoAnswer \/ SpotOf(rows) = 0 THEN <<>>
    ELSE Options(ToChain(rows), Findings(u, ToChain(rows), SpotOf(rows), closes))

(* Those that are taken, at most eight, best first.                        *)
UpToEight(seq) == SubSeq(seq, 1, Min({8, Len(seq)}))
BestOf(all) ==
    UpToEight(SortSeq(SelectSeq(all, LAMBDA x : Accepted(x.option, x.context)),
                      LAMBDA x, y : RankScore(x.option, x.context) > RankScore(y.option, y.context)))

----------------------------------------------------------------------------
(* The trades of the day: best first, with room per symbol, per direction  *)
(* and in all.  The sort of a table may swap rows of one score.            *)
Reordered(rows, order) == [k \in DOMAIN rows |-> rows[order[k]]]
Orders(rows) == Bijection(DOMAIN rows, DOMAIN rows)

(* Mutant: the worst first.                                                *)
RankingsMutant(rows) ==
    {ranked \in {Reordered(rows, order) : order \in Orders(rows)} :
        \A i, j \in DOMAIN rows : i < j => ranked[i].score <= ranked[j].score}

Rankings(rows) ==
    {ranked \in {Reordered(rows, order) : order \in Orders(rows)} :
        \A i, j \in DOMAIN rows : i < j => ranked[i].score >= ranked[j].score}

Taken(seq, field, value) == Cardinality({i \in DOMAIN seq : seq[i][field] = value})

NoRoom(chosen, row, limit, perDirection, perSymbol) ==
    \/ Taken(chosen, "symbol", row.symbol) >= perSymbol
    \/ Taken(chosen, "type", row.type) >= perDirection
    \/ Len(chosen) >= limit

SelectTopTrades(ranked, limit, perDirection, perSymbol) ==
    LET selected[n \in 0..Len(ranked)] ==
            IF n = 0 THEN <<>>
            ELSE IF NoRoom(selected[n - 1], ranked[n], limit, perDirection, perSymbol) THEN selected[n - 1]
                 ELSE Append(selected[n - 1], ranked[n])
    IN  selected[Len(ranked)]

===============================================================================
