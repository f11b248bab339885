-------------------------------- MODULE Services --------------------------------
(***************************************************************************)
(* Services that compute, as functions of what they find: the              *)
(* market-context service plans what to stream, after finding out how many *)
(* connections its broker account allows (feed/probe.py,                   *)
(* service.build_plan), and takes a picture of the market every minute     *)
(* (MarketPicture), which the strategies read (ContextReader); the         *)
(* strategy container scans its underlyings (iv_percentile_strategy.py);   *)
(* the discount scan, run by hand, loads its universe, judges options and  *)
(* selects trades (discount.py).  These share nothing, so one behaviour    *)
(* follows one of them.  What it returned in the last step is in report,   *)
(* picture or answered.                                                    *)
(***************************************************************************)
EXTENDS MarketPicture, PercentileScan, DiscountScan, ContextReader

CONSTANTS
    ProbeMax, ProbeTtl,     \* PLAN_PROBE_MAX, PLAN_PROBE_TTL_DAYS
    MaxDay,                 \* bound: days of the planner
    Listings,               \* what the planner may find
    Securities,             \* what the strategy may find
    Candidates,             \* what the discount scan may find
    Findables,              \* what its universe may be made of
    LiquiditySteps,         \* volumes and open interests to compare with
    TradeLists,             \* what it may have to choose from, and how much of it
    NoReport

(* A ranking has every name once, no name has infinitely many futures, and *)
(* the scan takes up every option once, and selects up to 500 of them.     *)
ASSUME ServicesAssumption ==
    /\ {ProbeMax, ProbeTtl, MaxDay} \subseteq Nat
    /\ \A x \in Listings :
          /\ x.ranking \in Seq(ToSet(x.ranking)) /\ IsInjective(x.ranking)
          /\ x.master # NoMaster =>
                \A name \in ToSet(Underlyings) \cup (ToSet(x.ranking) \ NonStocks) :
                    IsFiniteSet(x.master.futures[name])
    /\ \A x \in TradeLists :
          /\ x.rows \in Seq(ToSet(x.rows)) /\ IsInjective(x.rows)
          /\ \A row \in ToSet(x.rows) : row.score \in Int
          /\ {x.perDirection, x.perSymbol} \subseteq Nat /\ x.limit \in Nat \ {0}

VARIABLES
    service,        \* the one this behaviour follows
    date,
    account,        \* connections the broker account allows
    sincePlus,      \* days since it last allowed those of Plus
    allowance,      \* the cached result of the probe, in mc_meta, and what
                    \* the last probe that wrote any of it had found
    candlesKept,    \* the closes of _daily_candle_cache
    report          \* what a service returned in the last step

plannerVars == <<account, sincePlus, allowance>>
scanVars == <<plannerVars, candlesKept>>
vars == <<service, date, scanVars, report, pictureVars, readerVars>>

(* Days are told apart as long as a cached result may be used.             *)
LongAgo == ProbeTtl + 1

Init ==
    /\ service \in {"planner", "picture", "reader", "strategy", "discount"}
    /\ date = 0 /\ candlesKept = <<>> /\ PictureInit
    /\ ReaderInit /\ (service # "reader" => database = "absent")
    /\ account \in IF service = "planner" THEN {Standard, Plus} ELSE {Plus}
    /\ sincePlus = IF account = Plus THEN 0 ELSE LongAgo
    /\ allowance = [value |-> NotProbed, at |-> NotProbed, found |-> NotProbed]
    /\ report = NoReport

(* The candles are kept for the day.                                       *)
DayPasses ==
    /\ service \in {"planner", "discount"}
    /\ date < MaxDay /\ date' = date + 1
    /\ candlesKept' = <<>>
    /\ report' = NoReport
    /\ sincePlus' = IF account = Plus THEN 0 ELSE Least(sincePlus + 1, LongAgo)
    /\ UNCHANGED <<service, account, allowance, pictureVars, readerVars>>

(* The broker account is upgraded or downgraded.                           *)
ChangeAccount ==
    /\ service = "planner"
    /\ account' \in {Standard, Plus} \ {account}
    /\ sincePlus' = 0
    /\ report' = NoReport
    /\ UNCHANGED <<service, date, allowance, candlesKept, pictureVars, readerVars>>

-------------------------------------------------------------------------------
(* detect_connections: the configured plan, or a recent probe, or a probe  *)
(* now.                                                                    *)

(* Mutant: a cached result never expires.                                  *)
RecentMutant == NotProbed \notin {allowance.value, allowance.at}

Recent == IF NotProbed \in {allowance.value, allowance.at} THEN FALSE ELSE date - allowance.at <= ProbeTtl

(* The probe counts the sockets it can hold open at once.  It stops at the *)
(* first that does not come up, whatever the reason, and without a client  *)
(* it assumes one.                                                         *)
Probed(opened) == IF Most(opened, 1) > 1 THEN Plus ELSE Standard

(* The two entries of the cache are written one by one; set_meta keeps a   *)
(* failure to itself, so that each may be written without the other.       *)
Cache(value) ==
    \E written \in SUBSET {"value", "at"} :
        allowance' = [value |-> IF "value" \in written THEN value ELSE allowance.value,
                      at    |-> IF "at" \in written THEN date ELSE allowance.at,
                      found |-> IF written # {} THEN value ELSE allowance.found]

(* What is in the cache may not be readable.                               *)
Detect(detected) ==
    \/ /\ PlanTier # "auto"
       /\ detected = (IF PlanTier = "plus" THEN Plus ELSE Standard) /\ UNCHANGED allowance
    \/ PlanTier = "auto" /\ Recent /\ detected = allowance.value /\ UNCHANGED allowance
    \/ /\ PlanTier = "auto"
       /\ \E opened \in 0..Least(ProbeMax, account) : detected = Probed(opened)
       /\ Cache(detected)

Planned ==
    [x \in Listings |-> [detected \in {Standard, Plus} |-> [day \in 0..MaxDay |->
        BuildPlan(x.master, x.ranking, detected, day)]]]

(* build_plan of the service, at its start and once a day.  The requests   *)
(* are those of the other containers.                                      *)
PlanSubscriptions ==
    /\ service = "planner"
    /\ \E detected \in {Standard, Plus} :
          /\ Detect(detected)
          /\ \E x \in Listings :
                LET plan == Planned[x][detected][date]
                IN  report' = [kind |-> "plan", detected |-> detected, listing |-> x,
                               plan |-> plan, active |-> ActiveRows(plan),
                               carried |-> DesiredState(plan, x.requests)]
    /\ UNCHANGED <<service, date, account, sincePlus, candlesKept, pictureVars, readerVars>>

-------------------------------------------------------------------------------
(* The other two keep nothing from one scan to the next.                   *)

Scanned == [u \in Securities |-> [outcome |-> ScanUnderlying(u), signals |-> ScanAll(<<u>>)]]

ScanSecurities ==
    /\ service = "strategy"
    /\ \E u \in Securities :
          report' = [kind |-> "security", security |-> u, outcome |-> Scanned[u].outcome,
                     signals |-> Scanned[u].signals]
    /\ UNCHANGED <<service, date, scanVars, pictureVars, readerVars>>

(* With the candles the broker gives now, or those kept from before.       *)
Series == {<<>>} \cup {DailyCloses(u) : u \in Candidates}
Judged == [u \in Candidates |-> [closes \in Series |-> Weighed(u, Answer(u), closes)]]
Discounted == [u \in Candidates |-> [closes \in Series |-> BestOf(Judged[u][closes])]]

JudgeOptions ==
    /\ service = "discount"
    /\ \E u \in Candidates :
          LET closes == HistoricalPrices(u, candlesKept)
          IN  /\ report' = [kind |-> "options", u |-> u, closes |-> closes, found |-> Discounted[u][closes]]
              /\ candlesKept' = closes
    /\ UNCHANGED <<service, date, plannerVars, pictureVars, readerVars>>

(* Every option and every context the scan judges is made of numbers, and  *)
(* so are the liquidities its universe is trimmed by.                      *)
Quoted == [last : Int, bid : Int, ask : Int, oi : Nat, volume : Nat, iv : Int, delta : Int]

Measurable(c) ==
    /\ {c.strike, c.spot, c.expectedMove, c.mean, c.deviation, c.market.confidence} \subseteq Int
    /\ {c.hv, c.ivChange, c.ivTrend} \subseteq Int \cup {None}

ASSUME ScanAssumption ==
    /\ NoOption \notin Quoted /\ MinIvRank \in Int /\ LiquiditySteps \subseteq Nat
    /\ \A u \in Candidates : \A closes \in Series :
          \A i \in DOMAIN Judged[u][closes] :
              LET x == Judged[u][closes][i]
              IN  x.option \in Quoted \cup {NoOption} /\ Measurable(x.context)
    /\ UniverseSize \in Nat /\ IsFiniteSet(Reserved) /\ Defaults \in Seq(ToSet(Defaults))
    /\ \A found \in Findables :
          /\ DOMAIN found = {"symbols", "traded"}
          /\ found.symbols # NoAnswer => found.symbols \in Seq(ToSet(found.symbols))
          /\ found.traded \in [DOMAIN found.traded -> Nat]

Universes == [found \in Findables |-> Universe(found)]

LoadUniverse ==
    /\ service = "discount"
    /\ \E found \in Findables :
          report' = [kind |-> "universe", found |-> found, names |-> Universes[found]]
    /\ UNCHANGED <<service, date, scanVars, pictureVars, readerVars>>

Ranked == [x \in TradeLists |-> Rankings(x.rows)]

SelectTrades ==
    /\ service = "discount"
    /\ \E x \in TradeLists : \E ranked \in Ranked[x] :
          report' = [kind |-> "trades", rows |-> x.rows, limit |-> x.limit,
                     perSymbol |-> x.perSymbol, perDirection |-> x.perDirection,
                     chosen |-> SelectTopTrades(ranked, x.limit, x.perDirection, x.perSymbol)]
    /\ UNCHANGED <<service, date, scanVars, pictureVars, readerVars>>

(* The market-context service, minute by minute and night by night.        *)

Snapshot ==
    /\ service = "picture"
    /\ TakePicture(date)
    /\ UNCHANGED <<service, date, scanVars, report, readerVars>>

Minute ==
    /\ service = "picture"
    /\ MinutePasses
    /\ UNCHANGED <<service, date, scanVars, report, readerVars>>

Night ==
    /\ service = "picture"
    /\ date < MaxNight /\ date' = date + 1
    /\ NightPasses
    /\ UNCHANGED <<service, scanVars, report, readerVars>>

(* The reader of the context.                                              *)

Keeping == service = "reader" /\ Keep /\ UNCHANGED <<service, date, scanVars, report, pictureVars>>
Getting == service = "reader" /\ Get /\ UNCHANGED <<service, date, scanVars, report, pictureVars>>
Waiting == service = "reader" /\ TimePasses /\ UNCHANGED <<service, date, scanVars, report, pictureVars>>

Next ==
    \/ Keeping \/ Getting \/ Waiting
    \/ Snapshot \/ Minute \/ Night
    \/ DayPasses \/ ChangeAccount
    \/ PlanSubscriptions \/ ScanSecurities \/ LoadUniverse \/ JudgeOptions
    \/ SelectTrades

Spec == Init /\ [][Next]_vars

-------------------------------------------------------------------------------
(* Properties.                                                             *)

Reported(kind) == report # NoReport /\ report.kind = kind

(* The plan takes no more than the allowance unless nothing but tier 1 is  *)
(* left.  Stocks and futures are the most liquid ones: with room to spare  *)
(* all of them that exist, and never one instead of a more liquid one.     *)
(* Futures give way after the stocks, and sectors last.                    *)
PlanFitsTheBudget ==
    Reported("plan") /\ report.listing.master # NoMaster =>
        LET plan == report.plan
            budget == Budget(report.detected)
            liquid == Filter(report.listing.ranking, ToSet(report.listing.ranking) \ NonStocks)
            stocks == EquityKeys(report.listing.master, First(liquid, budget.tier3))
            futures == StockFutures(report.listing.master, First(liquid, budget.tier4), date)
            sectors == ResolveIndices(report.listing.master, SectorIndices)
            cut(tier, wanted) == Len(plan[tier]) < Len(wanted)
        IN  /\ Total(plan) > budget.capacity => \A t \in 2..4 : plan[t] = <<>>
            /\ IsPrefix(plan[3], stocks) /\ IsPrefix(plan[4], futures)
            /\ cut(3, stocks) => Total(plan) >= budget.capacity
            /\ cut(4, futures) => Total(plan) >= budget.capacity /\ plan[3] = <<>>
            /\ cut(2, First(sectors, budget.tier2)) =>
                   Total(plan) >= budget.capacity /\ plan[3] = <<>> /\ plan[4] = <<>>

(* A plan that counts on the connections of Plus was measured on an        *)
(* account that had them no longer ago than a measurement is trusted.      *)
(* The exception is a cache whose two entries come from two probes: the    *)
(* last one found otherwise, but could write its date alone (probe.py:189) *)
(* and so renewed the measurement of an earlier one.                       *)
AllowanceIsRecent ==
    Reported("plan") /\ PlanTier = "auto" /\ report.detected = Plus =>
        sincePlus <= ProbeTtl \/ allowance.value # allowance.found

(* Nothing about an option that makes it easier to trade lowers its score  *)
(* or its rank, or keeps it out: not more volume, not more open interest,  *)
(* not a higher bid up to the ask.  Nor does it take a stock out of the    *)
(* universe that it is traded more.                                        *)
MoreLiquid(o) ==
    {[o EXCEPT !.volume = v] : v \in {w \in LiquiditySteps : w > o.volume}}
    \cup {[o EXCEPT !.oi = v] : v \in {w \in LiquiditySteps : w > o.oi}}
    \cup {[o EXCEPT !.bid = Bid(o) + 1] : q \in {x \in {0} : 0 < Bid(o) /\ Bid(o) < Ask(o)}}

RisesFor ==
    [u \in Candidates |-> [closes \in Series |->
        \A i \in DOMAIN Judged[u][closes] :
            LET o == Judged[u][closes][i].option
                c == Judged[u][closes][i].context
            IN  Accepted(o, c) =>
                    \A better \in MoreLiquid(o) :
                        Accepted(better, c) /\ Score(better, c) >= Score(o, c) /\ RankScore(better, c) >= RankScore(o, c)]]

StaysListed ==
    [found \in Findables |->
        \A n \in DOMAIN found.traded : \A v \in LiquiditySteps :
            n \in Universes[found] /\ v > found.traded[n] =>
                n \in Universe([found EXCEPT !.traded[n] = v])]

ScoreRisesWithLiquidity ==
    /\ Reported("options") => RisesFor[report.u][report.closes]
    /\ Reported("universe") => StaysListed[report.found]

(* The trades that are chosen respect the limits, and one that is left out *)
(* is left out for chosen ones that score no less and take its place: of   *)
(* its symbol, of its direction or of the day.                             *)
TopTradesAreBest ==
    Reported("trades") =>
        LET chosen == ToSet(report.chosen)
            before(row) == {c \in chosen : c.score >= row.score}
        IN  /\ Cardinality(chosen) <= report.limit
            /\ \A row \in ToSet(report.rows) \ chosen :
                   \/ Cardinality(before(row)) = report.limit
                   \/ Cardinality({c \in before(row) : c.symbol = row.symbol}) = report.perSymbol
                   \/ Cardinality({c \in before(row) : c.type = row.type}) = report.perDirection

===============================================================================
