------------------------------ MODULE ScanInputs ------------------------------
(***************************************************************************)
(* What the scans read before they judge anything: the underlyings to scan *)
(* and the broker's keys for them, chains, daily candles, and the rows the *)
(* IV collector has left in iv_history.                                    *)
(*                                                                         *)
(* Volatilities are in hundredths of a percent, the put/call ratio in      *)
(* hundredths.  A row of iv_history has the day, the volatility and the    *)
(* spot, in the order of their ids; None where a column is NULL.           *)
(***************************************************************************)
EXTENDS OptionChain, Estimators

CONSTANTS
    Reserved, Defaults,     \* reserved_indices, DEFAULT_FNO_STOCKS
    UniverseSize,           \* LIQUID_UNIVERSE_SIZE
    Realised(_),            \* annualised deviation of the returns of some closes
    HvWindows,              \* the windows of calculate_hv_metrics
    MinCloses,              \* closes a trend takes
    FastSpan, SlowSpan      \* the spans of its averages

Div(a, b) == IF a >= 0 THEN a \div b ELSE -((-a) \div b)

-------------------------------------------------------------------------------
(* load_fno_stocks: the stocks NSE lists for futures, if they can be had,  *)
(* then the defaults, and the indices in any case; of a stock the product  *)
(* of its latest open interest and volume, where the collector has any.    *)

Listed(found) == (IF found.symbols = NoAnswer THEN <<>> ELSE found.symbols) \o Defaults
Resolved(found) == Reserved \cup ToSet(Listed(found))

LiquidityOf(traded, n) == IF n \in DOMAIN traded THEN traded[n] ELSE 0

(* The stocks, each where it is listed first, and the ones ahead of one:   *)
(* those traded more, and those traded as much and listed before it.       *)
Rankable(names) == {i \in DOMAIN names : names[i] \notin Reserved /\ \A j \in 1..(i - 1) : names[j] # names[i]}

InFront(names, traded, i) ==
    {j \in Rankable(names) :
        \/ LiquidityOf(traded, names[j]) > LiquidityOf(traded, names[i])
        \/ j < i /\ LiquidityOf(traded, names[j]) = LiquidityOf(traded, names[i])}

(* The indices, and as many of the stocks as there is room for.            *)
LiquidUniverse(names, traded) ==
    LET room == UniverseSize - Cardinality(Reserved)
    IN  Reserved \cup {names[i] : i \in {j \in Rankable(names) : Cardinality(InFront(names, traded, j)) < room}}

Universe(found) ==
    IF Cardinality(Resolved(found)) <= UniverseSize \/ DOMAIN found.traded = {} THEN Resolved(found)
    ELSE LiquidUniverse(Listed(found), found.traded)

-------------------------------------------------------------------------------
(* The adapter.  An index has its key; a stock the one of its ISIN, else   *)
(* the one the instrument database has for its symbol or for its options.  *)
UnderlyingKey(s) ==
    IF s.index # None THEN s.index
    ELSE IF s.isin # None THEN s.isin
    ELSE IF s.symbol = None THEN None
    ELSE IF s.listed # None THEN s.listed ELSE s.optioned

(* Trading days to the expiries it lists from today on, in order, and the  *)
(* chain of one of them.                                                   *)
ExpiryList(u) == IF UnderlyingKey(u.ids) = None THEN <<>> ELSE u.days
GetOptionChain(u, i) == IF UnderlyingKey(u.ids) = None THEN NoAnswer ELSE u.chains[i]

(* Closes of the daily candles, oldest first.  The first that are not      *)
(* empty are kept for the day.                                             *)
DailyCloses(u) ==
    LET dated == SelectSeq(u.candles, LAMBDA c : c.day # None)
        sorted == SortSeq(dated, LAMBDA a, b : a.day < b.day)
    IN  IF UnderlyingKey(u.ids) = None THEN <<>> ELSE [i \in DOMAIN sorted |-> sorted[i].close]

HistoricalPrices(u, kept) == IF kept # <<>> THEN kept ELSE DailyCloses(u)

(* Its volatility over a window takes one close more than the window has.  *)
HistoricalVolatility(closes, window) ==
    IF Len(closes) <= window THEN None ELSE Realised(Newest(closes, window + 1))

Average(closes, span) ==
    FoldLeft(LAMBDA avg, c : (2 * c + (span - 1) * avg) \div (span + 1), closes[1], Tail(closes))

TrendFrom(last, fast, slow) ==
    IF last > slow /\ fast > slow THEN "bullish" ELSE IF last < slow /\ fast < slow THEN "bearish" ELSE "neutral"

(* The averages to a thousandth.                                           *)
Finely(closes) == [i \in DOMAIN closes |-> 1000 * closes[i]]
TrendOf(closes) ==
    IF Len(closes) < MinCloses THEN "neutral"
    ELSE TrendFrom(1000 * Last(closes), Average(Finely(closes), FastSpan), Average(Finely(closes), SlowSpan))

-------------------------------------------------------------------------------
(* iv_history, daily rows.  A volatility is one from 1 to 200 percent.     *)

ValidIv(row) == row.iv # None /\ row.iv \in 100..20000
LastOfDay(rows) == {i \in DOMAIN rows : \A j \in DOMAIN rows : j > i => rows[j].day # rows[i].day}

(* The scanner takes the last valid row of each day ...                    *)
FetchHistoricalIv(rows) ==
    LET valid == SelectSeq(rows, ValidIv)
        days == SelectSeq([i \in DOMAIN valid |-> i], LAMBDA i : i \in LastOfDay(valid))
    IN  [k \in DOMAIN days |-> valid[days[k]].iv]

(* ... the store the last row of each day, if it is valid.                 *)
LastRows(rows) ==
    LET days == SelectSeq([i \in DOMAIN rows |-> i], LAMBDA i : i \in LastOfDay(rows))
    IN  [k \in DOMAIN days |-> rows[days[k]]]

GetIvHistory(rows) ==
    LET valid == SelectSeq(LastRows(rows), ValidIv) IN [k \in DOMAIN valid |-> valid[k].iv]

GetSpotHistory(rows) ==
    LET known == SelectSeq(LastRows(rows), LAMBDA r : r.spot # None /\ r.spot > 0)
    IN  [k \in DOMAIN known |-> known[k].spot]

-------------------------------------------------------------------------------
(* Its intraday rows: what extract_chain_metrics makes of a chain.         *)

Amount(opt, field) == IF Has(opt) THEN opt[field] ELSE 0
TotalOf(chain, side, field) == SumOf([i \in DOMAIN chain |-> Amount(chain[i][side], field)])

(* The first strike with the largest open interest.                        *)
Busiest(chain, side) ==
    LET oi(i) == Amount(chain[i][side], "oi")
        most == {i \in DOMAIN chain : oi(i) > 0 /\ \A j \in DOMAIN chain : oi(j) <= oi(i)}
    IN  IF most = {} THEN None ELSE chain[Min(most)].key.strike

(* The mean of the two volatilities at the strike nearest to the spot.     *)
Quoting(row) == {side \in Sides : Has(row[side]) /\ row[side].iv > 0}
MeanOfSides(row) ==
    IF Quoting(row) = {} THEN None
    ELSE MapThenSumSet(LAMBDA side : row[side].iv, Quoting(row)) \div Cardinality(Quoting(row))
AtmIv(chain, spot) == IF chain = <<>> THEN None ELSE MeanOfSides(chain[AtmIndex(chain, spot)])

Measured(chain, spot) ==
    [iv |-> AtmIv(chain, spot), spot |-> spot,
     oi |-> [side \in Sides |-> TotalOf(chain, side, "oi")],
     volume |-> [side \in Sides |-> TotalOf(chain, side, "volume")],
     busiest |-> [side \in Sides |-> Busiest(chain, side)]]

SnapshotOf(rows) == Measured(ToChain(rows), SpotOf(rows))

(* A chain without a volatility at the money has not been recorded.        *)
Recordings(u) == SelectSeq([i \in DOMAIN u.seen |-> SnapshotOf(u.seen[i])], LAMBDA s : s.iv # None)

(* get_bulk_latest_snapshots: the last of any day.                         *)
LastOf(recordings) == IF recordings = <<>> THEN None ELSE Last(recordings)
LatestSnapshot(u) == LastOf(Recordings(u))

(* get_intraday_snapshots: the last of today, oldest first.                *)
IntradaySnapshots(u, limit) == Newest(Recordings(u), limit)

(* The slope of the line fitted to some values, in hundredths.             *)
FittedSlope(values) ==
    LET n == Len(values)
    IN  IF n < 2 THEN 0
        ELSE Div(600 * SumOf([i \in 1..n |-> (2 * i - n - 1) * values[i]]), n * (n * n - 1))

(* build_premarket_context: the change of the volatility since the open,   *)
(* and its slope.                                                          *)
VolatilityOver(ivs) ==
    IF Len(ivs) < 2 THEN [ivChange |-> None, ivTrend |-> None]
    ELSE [ivChange |-> Last(ivs) - ivs[1], ivTrend |-> FittedSlope(ivs)]

IvsOver(rows) == [i \in DOMAIN rows |-> rows[i].iv]
PremarketContext(u) == VolatilityOver(IvsOver(IntradaySnapshots(u, 12)))

-------------------------------------------------------------------------------
(* What the scan computes of a whole chain.                                *)

IvsOf(chain, side) ==
    SelectSeq([i \in DOMAIN chain |-> Amount(chain[i][side], "iv")], LAMBDA v : v > 0)

MeanIv(chain, side) ==
    LET v == IvsOf(chain, side) IN IF v = <<>> THEN 0 ELSE SumOf(v) \div Len(v)

IvDeviation(chain, side) ==
    LET v == IvsOf(chain, side)
        n == Len(v)
    IN  IF n < 2 THEN 0
        ELSE Root((n * SumOf([i \in 1..n |-> v[i] * v[i]]) - SumOf(v) * SumOf(v)) \div (n * n))

(* The move of the spot one deviation wide until the expiry; 0 if unknown. *)
ExpectedMove(spot, iv, daysLeft) ==
    IF iv = None THEN 0
    ELSE (spot * iv * Root((10000 * Max({daysLeft, 1})) \div 365)) \div 1000000

===============================================================================
