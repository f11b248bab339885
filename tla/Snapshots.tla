------------------------------- MODULE Snapshots -------------------------------
(***************************************************************************)
(* One pass of collect/snapshots.py: what the last ticks of the planned    *)
(* instruments say of the VIX, of the futures, of the breadth and of the   *)
(* sectors.  Each collector gives the newest rows of a table, or none.     *)
(***************************************************************************)
EXTENDS SubscriptionPlan, Ticks

CONSTANTS MinPriceMove, MinOiMove,  \* POS_MIN_PRICE_CHG_PCT, POS_MIN_OI_CHG_PCT
          MinMove,                  \* BREADTH_MIN_MOVE_PCT
          MinNames, FullUniverse,   \* BREADTH_MIN_NAMES, BREADTH_FULL_UNIVERSE_MIN
          MinSectors,               \* DISPERSION_MIN_SECTORS
          TokenOf(_)                \* the order of the instrument keys

ASSUME SnapshotsAssumption ==
    {MinPriceMove, MinOiMove, MinMove, MinNames, FullUniverse, MinSectors} \subseteq Nat \ {0}

Tables == {"vix", "futures", "breadth", "sector"}

NiftyIndex == Index("NIFTY 50")
BankIndex == Index("NIFTY BANK")
Vix == Index("INDIA VIX")

NoTick == [ltp |-> None, prev |-> None, vwap |-> None, volume |-> None, oi |-> None, oiPrev |-> None,
           bid |-> None, ask |-> None, day |-> NoDay]
TickOf(ticks, i) == IF i \in DOMAIN ticks THEN ticks[i] ELSE NoTick

VixRow(ticks) ==
    LET tick == TickOf(ticks, Vix)
    IN  IF tick.ltp = None THEN None ELSE [level |-> tick.ltp, chg |-> ChgPct(tick)]

-------------------------------------------------------------------------------
(* Futures: the quadrant of price and open interest, with a dead band in   *)
(* each, and the basis against the spot.                                   *)

Quadrant(price, oi) ==
    IF None \in {price, oi} THEN "UNKNOWN"
    ELSE IF Size(price) < MinPriceMove \/ Size(oi) < MinOiMove THEN "NEUTRAL"
    ELSE IF price > 0 THEN IF oi > 0 THEN "LONG_BUILDUP" ELSE "SHORT_COVERING"
    ELSE IF oi > 0 THEN "SHORT_BUILDUP" ELSE "LONG_LIQUIDATION"

AnnualisedBasis(pct, days) == IF pct = None \/ days <= 0 THEN None ELSE (pct * 365) \div days

(* In the order in which the table returns them.                           *)
FuturesOf(plan) ==
    SortSeq(SelectSeq(Concat(plan), LAMBDA i : i.kind = "futures"), LAMBDA a, b : TokenOf(a) < TokenOf(b))

(* The spot of a stock is known only if the plan streams the stock.        *)
SpotTick(ticks, plan, future) ==
    CASE future.name = "NIFTY" -> TickOf(ticks, NiftyIndex)
      [] future.name = "BANKNIFTY" -> TickOf(ticks, BankIndex)
      [] OTHER -> IF Equity(future.name) \in ToSet(plan[3]) THEN TickOf(ticks, Equity(future.name)) ELSE NoTick

FuturesRow(ticks, plan, future, today) ==
    LET tick == TickOf(ticks, future)
    IN  [name |-> future.name, expiry |-> future.expiry,
         basis |-> AnnualisedBasis(Change(tick.ltp, SpotTick(ticks, plan, future).ltp), future.expiry - today),
         quadrant |-> Quadrant(ChgPct(tick), OiChgPct(tick))]

FuturesRows(ticks, plan, today) ==
    LET quoted == SelectSeq(FuturesOf(plan), LAMBDA f : TickOf(ticks, f).ltp # None)
    IN  IF quoted = <<>> THEN None ELSE [i \in DOMAIN quoted |-> FuturesRow(ticks, plan, quoted[i], today)]

-------------------------------------------------------------------------------
(* Breadth, against the previous close.  Without stocks in the plan there  *)
(* is no row; with too few that move there is one without a reading.       *)

Changes(ticks, plan) ==
    LET seen == {k \in DOMAIN plan[3] : ChgPct(TickOf(ticks, plan[3][k])) # None}
    IN  [k \in seen |-> [chg |-> ChgPct(TickOf(ticks, plan[3][k])), volume |-> TickOf(ticks, plan[3][k]).volume]]

VolumeOf(changes, up) ==
    MapThenSumSet(LAMBDA k : changes[k].volume,
                  {k \in DOMAIN changes : changes[k].volume # None /\ IF up THEN changes[k].chg > 0 ELSE changes[k].chg < 0})

Breadth(changes, names) ==
    LET up == Cardinality({k \in DOMAIN changes : changes[k].chg >= MinMove})
        down == Cardinality({k \in DOMAIN changes : changes[k].chg <= -MinMove})
        volume == VolumeOf(changes, TRUE) + VolumeOf(changes, FALSE)
    IN  [advancing |-> IF up + down < Max({MinNames, 1}) THEN None ELSE Share(up, up + down),
         volume |-> IF volume = 0 THEN None ELSE Share(VolumeOf(changes, TRUE), volume),
         subsample |-> names < FullUniverse,
         quality |-> Share(Cardinality(DOMAIN changes), names)]

(* Mutant: a pass with too few names that move writes no row.              *)
BreadthRowMutant(ticks, plan) ==
    LET changes == Changes(ticks, plan)
    IN  IF plan[3] = <<>> \/ Breadth(changes, Len(plan[3])).advancing = None THEN None
        ELSE Breadth(changes, Len(plan[3]))

BreadthRow(ticks, plan) ==
    IF plan[3] = <<>> THEN None ELSE Breadth(Changes(ticks, plan), Len(plan[3]))

-------------------------------------------------------------------------------
(* Sectors, the strongest first, against NIFTY.                            *)

SectorRows(ticks, plan) ==
    LET seen == SelectSeq(plan[2], LAMBDA i : ChgPct(TickOf(ticks, i)) # None)
        nifty == ChgPct(TickOf(ticks, NiftyIndex))
        row(i) == [name |-> i.name, chg |-> ChgPct(TickOf(ticks, i)),
                   strength |-> IF nifty = None THEN None ELSE ChgPct(TickOf(ticks, i)) - nifty]
        rows == [k \in DOMAIN seen |-> row(seen[k])]
    IN  IF rows = <<>> THEN None ELSE SortSeq(rows, LAMBDA a, b : a.chg > b.chg)

(* What the pass reports of the dispersion of the sectors: the deviation   *)
(* of all of them, where the feature takes them for a sample.              *)
SectorDispersion(rows) ==
    LET n == Len(rows)
        sum == AddUp([i \in 1..n |-> rows[i].chg])
        squares == AddUp([i \in 1..n |-> rows[i].chg * rows[i].chg])
    IN  IF rows = None THEN None ELSE IF n < MinSectors THEN None ELSE Root((n * squares - sum * sum) \div (n * n))

-------------------------------------------------------------------------------
(* A pass.  Each collector works on its own: without rows, or when the     *)
(* write fails, its table keeps those of an earlier pass.                  *)

CollectAll(ticks, plan, today) ==
    [vix |-> VixRow(ticks), futures |-> FuturesRows(ticks, plan, today),
     breadth |-> BreadthRow(ticks, plan), sector |-> SectorRows(ticks, plan)]

Written(rows, failing) == {t \in Tables : rows[t] # None /\ t # failing}
Stored(tables, rows, failing) ==
    [t \in Tables |-> IF t \in Written(rows, failing) THEN rows[t] ELSE tables[t]]

===============================================================================
