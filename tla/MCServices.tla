------------------------------ MODULE MCServices ------------------------------
(***************************************************************************)
(* A few days with an account that is upgraded and downgraded, and samples *)
(* of what the services may find; two threads that read the context.       *)
(***************************************************************************)
EXTENDS Services, TLC

CONSTANTS broken, noPicture, noOption, noStrike, noAnswer, none,
          noMaster, notProbed, noReport, nobody, t1, t2

MCCallers == {t1, t2}
Symmetric == Permutations(MCCallers)

-------------------------------------------------------------------------------
(* The instrument master: one with futures that expire today, some with    *)
(* fewer sectors, and none at all.  The ranking begins with an index.      *)
(* Tier 1 takes more than is set aside for it: one connection loses all    *)
(* stocks but keeps a future, or loses futures and keeps sectors, or has   *)
(* room for nothing but tier 1; two lose some stocks, or all and some      *)
(* futures.                                                                *)

MCTier1Indices == <<"NIFTY 50", "NIFTY BANK", "INDIA VIX">>
MCSectorIndices == <<"IT", "BANK", "AUTO", "RENAMED">>
MCUnderlyings == <<"NIFTY", "BANKNIFTY">>
MCNonStocks == {"NIFTY", "BANKNIFTY"}

Stocks == {"A", "B", "C", "D"}
Indices == {"NIFTY 50", "INDIA VIX", "IT", "BANK", "AUTO"}
Master(indices, banks, days) ==
    [indices |-> indices, equities |-> Stocks \ {"C"},
     futures |-> [n \in Stocks \cup MCNonStocks |->
         CASE n = "NIFTY" -> {0, 1, 30} [] n = "BANKNIFTY" -> banks [] n = "B" -> {} [] OTHER -> days]]

Listing(master, ranking) == [master |-> master, ranking |-> ranking, requests |-> {Future("D", 30), Equity("A")}]

MCListings ==
    {Listing(noMaster, <<"NIFTY", "A">>), Listing(Master(Indices, {}, {0}), <<>>),
     Listing(Master(Indices, {}, {0, 30}), <<"NIFTY", "A", "B", "C", "D">>),
     Listing(Master(Indices \ {"BANK", "AUTO"}, {}, {0}), <<"BANKNIFTY", "D", "NIFTY", "A", "B">>),
     Listing(Master(Indices \ {"AUTO"}, {}, {30}), <<"A", "D">>),
     Listing(Master(Indices, {1, 30}, {0, 30}), <<"A", "NIFTY", "B", "D">>),
     Listing(Master(Indices \cup {"NIFTY BANK"}, {1, 30}, {0, 30}), <<"D", "A", "C">>)}

-------------------------------------------------------------------------------
(* Chains.  A strike is in half rupees: 202 is 101 rupees, 203 is 101.50.  *)

Option(last, bid, ask, oi, volume, iv, delta) ==
    [last |-> last, bid |-> bid, ask |-> ask, oi |-> oi, volume |-> volume, iv |-> iv, delta |-> delta]

Row(strike, spot, ce, pe) == [strike |-> strike, spot |-> spot, ce |-> ce, pe |-> pe]

Cheap == Option(100, 98, 100, 3000, 600, 1400, 20)
Dear == Option(100, 98, 100, 9000, 2000, 2600, 30)
Quiet == Option(100, 70, 100, 400, 100, 1400, 20)
Dead == Option(0, 0, 0, 0, 0, 0, 0)
Put(o) == [o EXCEPT !.delta = -@]

Whole == <<Row(196, 200, Dear, Put(Cheap)), Row(200, 200, Dear, Put(Dear)), Row(204, 0, Cheap, Put(Quiet))>>
Odd == <<Row(197, 201, Dear, Put(Cheap)), Row(201, 201, Dear, Put(Dear)), Row(205, 201, Cheap, Put(Dead))>>
Patchy == <<Row(noStrike, 200, Cheap, Cheap), Row(201, 0, Quiet, noOption), Row(203, 200, noOption, Put(Cheap))>>

Histories == {<<>>, <<1000, 0, 1200, 1300>>, <<2000, 2000, 2000>>}
Calendars == {<<<<>>, <<>>>>, <<<<2>>, <<Whole>>>>, <<<<3, 7>>, <<Patchy, Odd>>>>, <<<<6, 20>>, <<noAnswer, Whole>>>>,
              <<<<6>>, <<Whole>>>>}

(* What the broker knows of an underlying.                                 *)
Ids(index, isin, symbol, listed, optioned) ==
    [index |-> index, isin |-> isin, symbol |-> symbol, listed |-> listed, optioned |-> optioned]
Identified == {Ids("index", none, none, none, none), Ids(none, "isin", "A", none, none), Ids(none, none, "A", "share", none),
               Ids(none, none, "A", none, "option"), Ids(none, none, "A", none, none), Ids(none, none, none, none, none)}
UsualIds == Ids("index", none, none, none, none)

(* IvRow rows.  The last row of the second day is not valid.               *)
IvRow(day, iv, spot) == [day |-> day, iv |-> iv, spot |-> spot]
Rows(history, spots) ==
    [i \in DOMAIN history |-> IvRow(i, history[i], IF i \in DOMAIN spots THEN spots[i] ELSE none)]
Twice == <<IvRow(1, 900, 190), IvRow(1, 1000, 190), IvRow(2, 1100, 191), IvRow(2, none, 0), IvRow(3, 1200, 190),
           IvRow(4, 1300, 190), IvRow(5, 1250, none)>>

(* One input varied at a time, from a usual one.                           *)
Recorded(iv, spot) == <<Whole, <<Row(198, spot, [Cheap EXCEPT !.iv = iv], noOption), Row(220, spot, Dear, Put(Dear))>>>>
Security == [seen |-> Recorded(1500, 200), rows |-> Twice, days |-> <<6>>, chains |-> <<Whole>>, ids |-> UsualIds]

MCSecurities ==
    {[Security EXCEPT !.seen = Recorded(iv, 200), !.days = c[1], !.chains = c[2]] : iv \in {900, 1250, 1500}, c \in Calendars}
    \cup {[Security EXCEPT !.seen = seen] : seen \in {<<>>, Recorded(0, 200), Recorded(1500, 0), <<<<>>, Patchy>>}}
    \cup {[Security EXCEPT !.ids = ids] : ids \in Identified}
    \cup {[Security EXCEPT !.seen = Recorded(iv, 200), !.rows = Rows(h, <<190, 0, 191>>)] : iv \in {900, 1500}, h \in Histories}
    \cup {[Security EXCEPT !.seen = Recorded(900, 200), !.chains = <<Odd>>, !.rows = Rows(<<1000, 1100, 1200, 1300, 1400, 1500>>, spots)] :
             spots \in {<<>>, <<190, 0, 191, 190, 190, 190>>, <<210, 211, 210>>}}

(* The chains of the day so far, and candles of a month.                   *)
Growing(n) == [i \in DOMAIN Whole |-> [Whole[i] EXCEPT !.pe.volume = n * @, !.pe.oi = n * @, !.ce.iv = @ - 100 * n,
                                                      !.spot = IF @ = 0 THEN 0 ELSE @ - n]]
Turned == <<Row(196, 200, Put(Cheap), Dear), Row(200, 200, Dear, Dear), Row(204, 200, Dear, Put(Dear))>>
Unsold(o) == [o EXCEPT !.last = 0]
Capped == <<Row(188, 200, Unsold(Cheap), Unsold(Put(Dear))), Row(200, 200, Unsold(Dear), Unsold(Put(Cheap))),
            Row(204, 200, Unsold(Cheap), Unsold(Put(Cheap)))>>
Candles(from, rise) ==
    <<[day |-> none, close |-> 1]>> \o [i \in 1..22 |-> [day |-> 23 - i, close |-> from + (rise * (23 - i)) + (i % 3)]]

Candidate == [days |-> <<6>>, left |-> <<8>>, chains |-> <<Whole>>, rows |-> Twice, seen |-> <<Growing(1), Growing(2), Growing(3)>>,
              candles |-> Candles(180, 1), ids |-> UsualIds]

MCCandidates ==
    {[Candidate EXCEPT !.days = c[1], !.left = [i \in DOMAIN c[1] |-> c[1][i] + 2], !.chains = c[2]] : c \in Calendars}
    \cup {[Candidate EXCEPT !.rows = Rows(h, <<>>), !.candles = <<>>] : h \in Histories}
    \cup {[Candidate EXCEPT !.candles = Candles(240, -1)], [Candidate EXCEPT !.candles = SubSeq(Candles(200, 0), 1, 8)],
          [Candidate EXCEPT !.seen = <<>>], [Candidate EXCEPT !.seen = <<Growing(4), Growing(2), Growing(1)>>],
          [Candidate EXCEPT !.seen = <<Growing(1), Growing(1), Growing(9)>>],
          [Candidate EXCEPT !.chains = <<Capped>>, !.seen = <<Growing(3), Growing(2), Growing(1)>>, !.candles = Candles(240, -1)],
          [Candidate EXCEPT !.seen = <<Turned, Whole, Turned, Odd, Patchy>>], [Candidate EXCEPT !.ids = Ids(none, none, "A", none, none)]}

MCHvWindows == <<5, 20, 60>>
MCRealised(closes) == 500 + 100 * SumOf([i \in 1..(Len(closes) - 1) |-> Distance(closes[i], closes[i + 1])])

(* A liquidity is open interest times volume.                              *)
MCReserved == {"NIFTY", "BANKNIFTY"}
MCDefaults == <<"A", "NIFTY", "E">>
MCFindables ==
    {[symbols |-> symbols, traded |-> traded] :
        symbols \in {noAnswer, <<>>, <<"A", "C">>, <<"B", "C", "D">>},
        traded \in {<<>>, [n \in {"A", "B", "NIFTY"} |-> IF n = "B" THEN 700 ELSE 100],
                    [n \in {"C", "D", "E"} |-> 300]}}

Trade(symbol, type, strike, score) == [symbol |-> symbol, type |-> type, strike |-> strike, score |-> score]
MCTradeLists ==
    {[rows |-> rows, limit |-> limit, perDirection |-> d, perSymbol |-> 1] :
        rows \in {<<Trade("A", "CALL", 1, 5), Trade("A", "PUT", 1, 7), Trade("B", "CALL", 1, 6), Trade("C", "CALL", 1, 8)>>,
                  <<Trade("A", "CALL", 1, 5), Trade("A", "CALL", 2, 5), Trade("B", "CALL", 1, 5), Trade("C", "PUT", 1, 4),
                    Trade("B", "PUT", 2, 9)>>},
        limit \in 1..3, d \in 1..2}

MCLiquiditySteps == {100, 300, 700, 1200, 2000, 9000}

(* The natural logarithm of x + 1 in hundredths, at the values above.      *)
MCLog1p(x) ==
    CASE x = 0 -> 0 [] x = 100 -> 462 [] x = 300 -> 571 [] x = 400 -> 599 [] x = 600 -> 640
      [] x = 700 -> 655 [] x = 1200 -> 709 [] x = 2000 -> 760 [] x = 3000 -> 801 [] x = 9000 -> 910

-------------------------------------------------------------------------------
(* Frames, by instrument, and bars of NIFTY.  The stocks rise, fall, or    *)
(* stand still; the next future of NIFTY comes before the near one.        *)

Leaf(name, value) == [name |-> name, value |-> value]
Candle(interval, o, h, l, c) == [interval |-> interval, open |-> o, high |-> h, low |-> l, close |-> c]
Ltpc(ltp, cp) == [leaves |-> <<Leaf("ltp", ltp), Leaf("cp", cp)>>, quotes |-> <<>>, candles |-> <<>>]
Full(ltp, cp, oi, poi) ==
    [leaves |-> <<Leaf("ltp", ltp), Leaf("cp", cp), Leaf("atp", 1000), Leaf("vtt", none), Leaf("vtt", 50), Leaf("oi", oi), Leaf("poi", poi)>>,
     quotes |-> <<<<>>, <<[bid |-> ltp - 1, ask |-> ltp + 1]>>>>,
     candles |-> <<Candle("1m", ltp, ltp, ltp, ltp), Candle("1d", 1000, 1012, 990, none)>>]
Rest(price) == [leaves |-> <<Leaf("last_price", none), Leaf("volume", 70)>>, quotes |-> <<>>,
                candles |-> <<Candle("plain", 1000, price + 5, 995, price)>>]

WholePlan == BuildPlan(Master(Indices, {}, {0, 30}), <<"NIFTY", "A", "B", "D">>, Plus, 0)
NoPlan == <<<<>>, <<>>, <<>>, <<>>>>

Feed(index, a, b, d, oi) ==
    [i \in Keys(WholePlan) |->
        CASE i.kind = "futures" -> Full(index + i.expiry, 1000, oi, 1000)
          [] i = Vix -> Ltpc(index \div 50, 20)
          [] i = Equity("A") -> Ltpc(a, 1000) [] i = Equity("B") -> Ltpc(b, 1000) [] i = Equity("D") -> Ltpc(d, 1000)
          [] i.name = "IT" -> Ltpc(a, 1000) [] i.name = "AUTO" -> broken
          [] OTHER -> Full(index, 1000, 0, 0)]

Rising == Feed(1010, 1010, 1012, 1001, 1100)
Falling == Feed(990, 985, 990, 1005, 900)
Still == [i \in {Equity("A"), Equity("B"), Index("BANK")} |-> Ltpc(IF i.name = "A" THEN 1010 ELSE 1001, 1000)]
Restored == [i \in {NiftyIndex, Vix, Equity("A")} |-> Rest(IF i = Vix THEN 25 ELSE 1003)]

Bar(day, bucket, close, spread, volume) ==
    [day |-> day, bucket |-> bucket, open |-> close - 1, high |-> close + 2, low |-> close - 2, close |-> close,
     vwap |-> 1000, bid |-> close, ask |-> close + spread, bidQty |-> 40, askQty |-> 20, count |-> 10 * spread, volume |-> volume]

Early == <<Bar(-2, 1, 1000, 1, 100), Bar(-1, 1, 1001, 2, 120)>>
UpBars == Early \o <<Bar(0, 1, 1002, 1, 80), Bar(0, 1, 1004, 2, 90), Bar(0, 1, 1007, 3, 60), Bar(0, 1, 1010, 4, 70)>>
DownBars == <<Bar(-1, 1, 1001, 2, 120), Bar(0, 1, 1000, 3, none), Bar(0, 1, 997, 2, 10), Bar(0, 1, 993, 1, 20),
              Bar(0, 1, 990, 2, 5), [Bar(0, 2, 985, 1, 10) EXCEPT !.open = none, !.bidQty = none]>>

Moment == [frames |-> Rising, plan |-> WholePlan, bars |-> UpBars, vixCloses |-> <<19, 18, 0, 15, 21>>, day |-> 0, bucket |-> 1,
           outage |-> 0, held |-> [axis \in Axes |-> Unknown], dwell |-> 100, history |-> <<>>]

Held == [trend |-> "TRENDING_DOWN", volatility |-> "HIGH_VOL", liquidity |-> "THIN", participation |-> Unknown,
         positioning |-> "SHORT_BUILDUP", breadth |-> "NEGATIVE"]

MCMoments ==
    [rising   |-> Moment,
     falling  |-> [Moment EXCEPT !.frames = Falling, !.bars = DownBars, !.held = Held, !.outage = 600,
                                 !.history = <<[age |-> 12, score |-> 50], [age |-> 4, score |-> 10]>>],
     still    |-> [Moment EXCEPT !.frames = Still, !.vixCloses = <<>>, !.bars = Early, !.outage = 1500],
     restored |-> [Moment EXCEPT !.frames = Restored, !.bars = UpBars, !.dwell = 40],
     empty    |-> [Moment EXCEPT !.frames = <<>>, !.plan = NoPlan, !.bars = <<>>]]

MCTokenOf(i) == 100 - i.expiry + IF i.name = "NIFTY" THEN 0 ELSE 100
MCSlope(v) == Change(Last(v), v[Len(v) - 2])
MCVariance(bars) == AddUp([i \in DOMAIN bars |-> (bars[i].high - bars[i].low) * (bars[i].high - bars[i].low)])
MCMomentum(v, variance) == Share(Last(v) - v[1], 1 + Root(variance))

===============================================================================
