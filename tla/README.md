# A TLA+ verification of the paper-trading platform

The repository is an intraday options platform that trades on paper. Strategies
scan option chains and emit signals; an order manager gates and books them into
a SQLite book; a monitor re-prices the open positions and closes them at their
stops, their targets, on risk signals or at the end of the day. Around it run
collectors of market data and a WebSocket feed. Four services
(`docker-compose.yml`) share the databases in `data/`.

This directory holds the specifications of that program, the TLC runs that
check them and the proofs that TLAPS checks.

## 1. The system

| part | code | state | hard behaviour |
|---|---|---|---|
| exit engine | `paper_trader.py` 59-328 | the record of one trade | ratcheting stops, both directions, gaps through a level |
| paper book | `paper_trader.py` 332-513 | table `paper_trades` | read by two threads and several services, written a row at a time |
| signal policy | `paper_policy.py` | none | enforced at the INSERT |
| entry gates | `order_manager.py` 508-833 | none, reads the book | counts that go stale before the booking; gates that raise pass everything |
| market gates | `pre_market_gate.py`, `breadth.py`, `entry_gate.py` | none, read the databases | missing data, thresholds, modes that are switched while a batch passes |
| order manager | `order_manager.py`, `paper_trader.py` 845-1393 | two "done today" markers, in memory | scan thread against monitor thread, spreads of two legs, partial failures, restarts |
| percentile strategy | `iv_percentile_strategy.py`, `iv_percentile_runner.py` | none | rows of any age, lookups that miss, failures that are swallowed |
| discount scan | `discount.py`, `upstox_adapter.py` | candles of the day | a dozen thresholds added up, lists cut at caps |
| feed client | `market_context/feed/client.py` | streamer, events, subscriptions, gap id | four kinds of threads, late callbacks, silent connections |
| tick cache, resync | `feed/cache.py`, `feed/resync.py` | last ticks, open and finished bars | flush against new frames, volume baselines across an outage |
| claims and live quotes | `market_context/store.py` 685-774, `__init__.py` | tables, a cache per process | requests and releases of several containers, answers of any age |
| subscription plan | `feed/subscription.py`, `feed/probe.py` | rows of the plan, the measured allowance | which tiers are dropped at the limit, a stale measurement |
| market-context service | `market_context/service.py` | plan of the day, the feed client | session roll-over, failing plans, shutdown, a damaged file |
| snapshots and features | `collect/snapshots.py`, `features/` | tables of the newest rows | missing inputs, rows of an earlier pass or day |
| regime engine | `market_context/regime/` | per axis: label, candidate, confirmations, dwell | flapping inputs, UNKNOWN readings, restarts |
| read API | `market_context/__init__.py` | a cached context | two variables read without the lock |
| broker tokens | `upstox_token_manager.py` | token file, lock file | several processes, lock-free fast path, a torn file |
| settings | `settings_store.py`, `settings_routes.py`, `docker_control.py` | table, a 30 s cache per process | stale flags, reads that fail, restarted containers |
| IV collector | `collectors/iv_collector_service.py`, `collectors/iv_store.py` | "done today" markers, rows | restarts during the day's phases, late files, lapsed contracts |
| other collectors | `collectors/bhav_*`, `deals_*`, `vix_*` | tables with unique keys | files that appear late or never |
| dashboard | `dashboard_app.py` | none | presentation |

How they interact. The order manager calls the exit engine on copies of book
rows and the gates on candidate lists; the gates read the book, the rows of the
IV collector and the switches of the settings page. Booking a trade writes a
claim for its quote, closing one releases it; the feed client's reconcile picks
claims up on the service's tick, the service writes the last tick of each, and
the monitor reads it back. The feed writes ticks to the cache; the service
flushes bars from it, takes snapshots of it, and makes features and regime
labels of both, which the strategies read through a cached call. The IV
collector is the only writer of the volatility history that the scans rank an
option against. All containers share one broker token. `main.py`, which starts
the order manager's two threads, is not in the repository; the comment at
`paper_trader.py:402` ("Accessed from both the scan thread (booking) and the
monitor thread") is what the model's two threads follow. `hedge.py`, which finds
hedge legs, and `composite_scanner`, which the entry gate reads, are absent as
well: what they return is a choice of the environment.

What makes each part correct:

* exit engine: an exit exactly when a level is crossed, a stop that only
  tightens, a result that matches the reason;
* book: one entry per trade, closed once, never rewritten;
* order manager: caps that hold in the book and not only at the gate, no hedge
  leg without its primary, spreads closed whole, a square-off that leaves
  nothing open, no endless pass;
* gates: a switch that is on keeps out what its gate rejects, while the gate works;
* feed client: one connection, no lost wake-up, outages on record, requests
  served, a silent feed given up, a stop that ends it;
* cache: no minute lost or written twice, volumes blind for one bar a break only;
* quotes: claims that stay as long as their trade, answers that are recent, a
  feed that comes back after midnight;
* regime: no change of label without its confirmations and dwell, the label of
  the day kept over restarts, no chatter in a still market;
* snapshots: what is read is that of the last count;
* plan: no more than the allowance, and the most liquid names within it;
* tokens: one login per day whatever starts at once, and a token for everyone;
* collector: closing volatilities in the daily rows, nothing of the day
  forgotten over restarts, no lapsed contract swept;
* scans: a better traded option or stock is never worse off, the best trades
  are the ones selected.

## 2. Modules

| module | what it is |
|---|---|
| `ExitEngine` | `apply_tick`, `_apply_trailing`, `apply_combo_tick`, `_book`, `_finalize` as operators on trade records |
| `PaperTrade` | one trade under every sequence of ticks and square-offs; `MCPaperTrade` gives it plans and a premium grid |
| `TradeLedger` | abstract specification: a ledger that grows, each entry closed once |
| `PaperBook` | the table and its queries, as operators on a sequence of rows (extends `ExitEngine`) |
| `EntryGates` | the five gates as filters of a candidate list over the rows (extends `PaperBook`) |
| `OrderManager` | the two threads over the book (extends `EntryGates`); refines `TradeLedger` |
| `FeedClient` | the WebSocket client and its threads |
| `TickCache` | the bars of one instrument between frames, flush, outage and resync |
| `LiveQuotes` | the way of one quote: claim, plan, subscription, live row, cached answer |
| `SteadyLabel` | abstract specification: a label that is held for its dwell |
| `RegimeAxes`, `RegimeEngine` | the six classifiers, and tracker, engine and rows of one axis; refines `SteadyLabel` |
| `IVCollector` | the loop of the collector, its phases, passes and downloads |
| `UpstoxToken` | the processes around the token file and its lock |
| `Settings` | the flags, their caches and the settings page with its docker commands |
| `MarketGates`, `GateSwitches` | the judgements of the three market gates, and batches that pass them under switched modes (extends both) |
| `SubscriptionPlan` | the plan of the day with its tiers and its capacity |
| `OptionChain`, `ScanInputs` | the chain of the adapter; universe, keys, candles, histories and snapshots the scans read |
| `PercentileScan`, `DiscountScan` | the two scans as functions of those inputs |
| `Ticks`, `Snapshots` | the normaliser of frames; the four collectors of a pass |
| `Estimators`, `Features`, `AxisScores` | the estimators, the feature vector, and score, confidence and direction of an axis |
| `MarketPicture` | the passes of a session: snapshots, features, readings (extends these) |
| `ContextReader` | the cached read of the context by several threads, over a file that may be damaged and replaced |
| `Services` | one behaviour for each service that computes: planner, picture, reader, strategy, discount scan |
| `PaperTradingProofs` | theorems about one trade (`PaperTrade`) and about the book under the two threads (`OrderManager`) |
| `FeedClientProofs`, `TickCacheProofs`, `LiveQuotesProofs`, `RegimeProofs`, `IVCollectorProofs` | theorems about the module of the same name |
| `SharedStateProofs` | theorems about what several processes share: the token file (`UpstoxToken`) and the switches of the gates (`GateSwitches`) |
| `ServicesProofs` | theorems about `Services`: reader, allowance, plan, universe, scores, selection, picture |
| `MCOrderManager`, `MCFeedClient`, `MCRegime`, `MCIVCollector`, `MCUpstoxToken`, `MCGates`, `MCServices` | small instances for TLC; `TickCache` and `LiveQuotes` need none but a cfg |

Operators named `...Mutant` are deliberately wrong forms of the definition that
follows them, used to see that a property notices.

### Exit engine and one trade

A trade is a record with the columns that `new_trade_runtime` initialises.
Premiums are integers, percentages are integers out of 100 and divisions round
down, where the code uses floats. The code closes in one piece, so the quantity
is 1 or 0; slippage and fees are one constant. `ApplyTick` follows `apply_tick`:
mark, trail, stop, target, square-off, with the fill at the worse of level and
premium for a stop and at the level for a target.

### Order manager

`rows` is the table and survives a crash; so do the live-quote requests `live`.
Everything else is memory. `sub` is the scan thread: which path a submission
takes (a batch, one external signal, a primary with its hedge leg, the two legs
of a strangle), its remaining candidates and where it stands: lockout, quality
gates, concentration, exposure, booking, subscription. `trk` is the monitor
thread: a pass begins by reading the open rows into copies with a quote each (or
none), then goes through spread exits, leg exits, the daily-loss flatten, and the
two risk exits, each of which reads the rows afresh. Closing changes a copy, and
a separate step (`Save`) writes the row, so that a crash, a failing save and
every step of the other thread can fall in between. Checking and inserting a row
is one step, because only the scan thread inserts and no column that the checks
read is ever updated.

What the quality gates think of a candidate is a free choice here (a set of
candidates they accept), made once per submission, and `GateSwitches` has their
judgements; what the gates do with the verdict in `off`, `soft` and `hard` mode
is the code's. A gate that raises passes its candidates through (`Raised`,
`GateFails`, `LockoutFails`). What the risk exits read is a free choice for each
position, since the code reads anew for each. A quote is any premium or none.
Warnings that change nothing (`_check_position_risks`) are left out, and signals
are allowlisted ones.

### Gates and settings

`MarketGates` has the verdict of each gate on one candidate as an operator over
what it finds in the databases. `Settings` is the flags table, the cache of each
container (value and remaining life) and the reads that are under way: a read
that misses the cache looks into the table in one step and fills the cache in
another, and the page may write in between. `GateSwitches` lets a trader take a
batch candidate by candidate: the pre-market gate resolves its mode at each of
them, the breadth gate once, the entry gate from the environment. Each of the
three may raise (`PreMarketRaises`, `BreadthGateRaises`, `EntryGateRaises`: the
count of the open trades, the judgement of any candidate) and then hands on the
batch as it came, the pre-market gate with those it had rejected already;
`batch.raised` says so. Sold legs, and rows that are flagged to skip it, pass the
pre-market gate unseen; nothing in the repository sets that flag. A batch sees
one state of the market, and a read does not last beyond a tick of the clock.

### Feed client

`feed` is the position of `_run_forever` and `_connect_once`; `sockets` are the
websockets the process has, each with its network state, the desired state its
open callback was created with, what it carries, and the callbacks that are
still to run; `watch` and `svc` are the watchdog and the service thread. The
register of outages is split where the code is: a check of `_gap_id`, then the
INSERT and the store of the id; the UPDATE, then the reset of the id. Callbacks
of an abandoned socket stay pending and work on whatever streamer is current, and
so does what a reconcile sends that was worked out before a reconnect: `crossed`
remembers that something of either kind has reached the current connection.
The delays of the backoff are left out, the resync is in `TickCache`, and so is
what a frame contains: `wire` says whether the last tier-1 frame is missing,
fresh or older than the timeout. Writes to the register do not fail in the
checked run.

### Tick cache

A frame is known by the cumulative volume it carries, a bar by its minute and
the volume made of the difference of two frames, or `Unknown`. The websocket
threads fold frames in, also late ones of an abandoned socket; frames without a
price or a volume are left out, and the instrument is one that is traded. The
service reads the clock, flushes the bars that are over (`Flush` with the clock
of an earlier step) and writes them; after an outage longer than the threshold
the feed thread restores the baseline and the missing minutes in steps of their
own. Restarts lose the memory, an orderly shutdown flushes it, a new day resets
the volume of the exchange.

### Live quotes

One contract. `book` has the trades, `claims` the table of requests by owner,
and the service keeps its plan, its client and what it has subscribed. Times are
ages: of the last tick, of the live row, of each cached answer. The calls of the
trading process are the steps of its two threads: claim after the INSERT,
release after the close, and a read that looks at the cache before the row.

### Regime engine

The six axes share nothing but the row of a snapshot, so one behaviour follows
one axis. A reading is a feature vector of a small set on both sides of every
threshold; what the classifier makes of it is the code's (`RegimeAxes`). The
tracker keeps the last readings, the candidate and the dwell, counted in minutes
up to `MinDwell`. Reads, classifiers and writes may fail, the process may be
restarted, features may fail before any tracker sees a reading, and a night may
pass, over which the process keeps its trackers and a new one starts cold.
`SteadyLabel` promises the dwell; it is implemented through the label and its
credit.

### IV collector

The clock stops at the times the code names (`hhmm`); slots of the session are
at least a quarter of an hour apart, so that each has one pass. A pass works
symbol by symbol and may end a slot later than it began, but on its own day. The
rows are those of the current date, with the contract and the time of each
snapshot. The expiry lists are cached as the scanner caches them: one shared
cache, emptied when a scanner is constructed on a new day. Chains, lists,
downloads, promotions and the process itself may fail, within `MaxFaults`.

### Tokens

A day is two slots, before and after three in the morning. The file is missing,
empty (while it is being written), torn for a reader, or holds the token of a
slot. A process reads without the lock, then takes the lock, reads again, logs in
and writes; every step may fail or be its last, and death releases the lock.
Each process comes back for the token again and again.

### What the services compute

Planner, picture, strategy and discount scan compute a result from what they
find. Their modules are operators, and `Services` applies them to samples
(`MCServices`): in each step a service takes one of its samples, and `report` or
`picture` says what it made of it. The functions are tabulated over the samples.
Numbers are scaled integers: strikes in half rupees (so that one with a decimal
point exists), volatilities, ratios and scores in hundredths, logarithms and
deviations as constant operators with values at the sampled points.

The planner lives several days with an account that is upgraded and downgraded;
the probe counts the sockets that come up and caches the result in two writes,
value and date. `store.set_meta` swallows its errors (`store.py:508-519`), so
that each write may be missing alone, and a read that fails starts a new probe.
The picture takes a pass a minute over frames of a rising, falling, still,
restored or empty market; the rows of an earlier pass stay where a collector
finds nothing or fails, and stay over night. The feature builder keeps the
fields it has set when a part of it raises: `built` says how many it comes to.
The discount scan keeps the candles of the day. It is dormant in
`docker-compose.yml` and run by hand; the snapshots it reads are those of the
collector. The percentile scan is the one strategy that runs. Its selection
sorts a table by score, and the sort of a table is not stable: `Rankings` has
every order it may leave, and the service picks one.

`ContextReader` is a machine of its own: the service creates, writes, loses and
replaces the file; two threads go through `get()` a step at a time, the unlocked
read of the cached context and of its time included.

## 3. Runs

| run | module, cfg | question | bounds | distinct states |
|---|---|---|---|---|
| `exit_engine` | `MCPaperTrade` | can any premium sequence fool the exit engine? | two long plans and a short one, 22 premiums that land on, between and beyond all levels | 463 |
| `booking` | `MCOrderManager`, `MCBooking` | do the caps hold in the book on every path? | batches of two and three, single signals and spreads, hard gates, three rows | 2.1 M |
| `tracking` | `MCOrderManager`, `MCTracking` | are spreads and square-offs handled whole? | one spread, all exits on, three premiums, restarts, two days | 2.3 M |
| `progress` | `MCOrderManager`, `MCFailures` | do passes and submissions end whatever fails? does the book refine `TradeLedger`? | one row, all gates hard, gates and saves raise, restarts, two days | 0.1 M |
| `feed` | `MCFeedClient` | do the four threads of the feed agree? | two sockets, two modes, requests that come and go, two events of the outside world | 1.0 M |
| `bars` | `TickCache` | is every minute written once, with its volume? | four minutes, two faults, one unit traded | 0.4 M |
| `quotes` | `LiveQuotes` | does an open trade keep its quote, and is the quote recent? | two trades on one contract, two faults, ages to two | 0.5 M |
| `regime` | `MCRegime` | are labels steady, over restarts too? | readings on both sides of every bar and band, two faults, dwell 2, 2 of 3 confirmations | 0.2 M |
| `collectors` | `MCIVCollector` | is the day of the collector complete and its history one of closing volatilities? | an index and a stock, two expiries, six ways of publishing, two days, one fault | 2.1 M |
| `tokens` | `MCUpstoxToken` | one login, and a token for everyone? | three processes, two nights, two faults in each slot | 13 k |
| `gates` | `MCGates` | does a switch that is on hold? | one container, two switches, two operations at the page, gates that raise, markets on both sides of every threshold | 3.8 M |
| `services` | `MCServices` | what do the five services make of what they find? | five days of the planner, two days of pictures with one failure, four times of the reader with one damage | 0.5 M |

Each bound is there for its interesting case.

* `booking` needs a batch longer than the caps it meets (two per direction, two
  per symbol, three open, a premium of 70) and a second path that repeats a
  contract; three rows reach every cap.
* `tracking` needs a premium beyond the stop, one between the levels and one
  beyond the target on each leg, so that the spread, one leg, or nothing wants to
  exit; two rows make one spread and the second day leaves stragglers for the
  square-off.
* `progress` has one row because a liveness check walks the graph several times;
  a longer list only repeats its steps.
* `feed` has two sockets because an abandoned one and a current one are all that
  one callback can confuse, and `MaxEvents = 2` lets any two of a lost
  connection, a silence, a withdrawn request, a failing send, a change of the
  session and a stop meet. Failing handshakes (a wait that times out), failing
  subscriptions in the open callback and new requests are not counted, so that a
  request can be made, withdrawn and made again around a loss: what a reconcile
  that is overtaken by the reconnect needs to do harm.
* `bars` needs one minute before a break, one or two inside it and one after it,
  and a second break while the first is being repaired.
* `quotes` needs two owners of one contract, one of which lets go, and ages one
  beyond each limit.
* `regime` needs a dwell longer than one minute and a window longer than the
  confirmations, so that a candidate can be interrupted and resumed.
* `collectors` has a contract that lapses between its two days and files that
  appear in time, late and never; one fault is a crash with a restart at any
  later time, or one failing call.
* `tokens` has three processes because one holds the lock, one waits and one
  reads; the last slot lasts for ever.
* `gates` has two operations so that a switch is turned on and something else
  happens to it or to its container; `Ttl = 2` ticks are the time a cached value
  lives.
* `services`: the allowance has six keys on a connection and up to two
  connections, and the samples are such that tier 3, then tier 4, then tier 2 of
  some plan is cut in part, and that tier 1 alone is too much; `ProbeTtl` is shorter
  than the days; the inputs vary one at a time around a usual one, on both sides
  of the thresholds they meet. `ContextReader` has two threads with an interleaving
  of every step, an age limit of one and a clock that reaches beyond the limit
  and the life of the cache together. Its threads are alike, and the run uses the
  symmetry; it checks no liveness.

`MaxRows`, `MaxDay`, `MaxEvents`, `MaxGaps`, `MaxMinute`, `MaxTraded`,
`MaxFaults`, `MaxOps`, `MaxNight`, `MaxFailures`, `MaxClock` and `MaxDamages` are
bounds of the models, not of the code; beyond `MaxGaps` open rows of the register
are not told apart.

Deadlock is not checked for `OrderManager`, `FeedClient`, `TickCache` and
`IVCollector`: with all rows used and the last day over nothing has to happen, a
stopped client rests, and the clock of the others stops at its bound. The other
runs check it.

### Fairness

`OrderManager`: weak fairness of each thread's next step. The operating system
schedules a thread that has work, and no step waits for another thread. Nothing
obliges a strategy to submit, the scheduler to start a pass or the clock to move.

`FeedClient`: weak fairness of the feed thread, the watchdog and the service
thread, all loops with bounded waits (`_backoff`, `WS_CONNECT_TIMEOUT_SEC`, the
5 s tick), and of the websocket threads together: the library brings a
handshake to an end and delivers callbacks. A lost connection, a frame, a
request or a stop never has to happen.

`RegimeEngine`, `TickCache`, `LiveQuotes`: weak fairness of the clock and of the
service's loop, which sleeps for 5 s and catches what an iteration raises. Frames,
connections and failures are free.

`UpstoxToken`: weak fairness of the clock and of each process's next step.
Nothing is assumed about who gets the lock: whoever waits while another logs in
finds its token, on the path without the lock or after it.

`IVCollector`, `Services`, `GateSwitches`: none; they have safety properties only.

### What the properties say

* `OneTradePerContract`, `CapsHold`: the rules of the day hold in the table,
  although gates look first and book later, on several paths, and the monitor
  closes meanwhile.
* `HedgeHasPrimary`: no sold leg of a spread is booked before its primary.
* `RiskExitTakesBothLegs`, `SquareOffClosesAll`: at the end of a phase the table
  agrees with what the phase set out to do.
* `BookIsLedger`: the refinement of `TradeLedger`, as a temporal property.
* `PassEnds`, `SubmissionEnds`: liveness of the two threads.
* `OneConnection`, `OutageIsRecorded`, `NoLostWakeUp`: safety of the feed.
  `RequestsAreServed`: once the connection is stable, everything wanted is
  carried, unless something meant for an earlier connection has reached this one
  (`crossed`); without that exception TLC finds the behaviour described below.
  `SilenceEndsTheWait`, `StopEndsTheLoop`: the thread does not sleep
  through a silent feed or a stop.
* `NoBarIsLost`, `WrittenBarsAreFinal`, `NoBarWaitsForever`: a minute that was
  seen is written, by whoever comes first, once, and does not stay in memory.
  `OneBlindBarPerBreak`: after a break the volume is unknown in one bar only,
  also without a resync, where three texts expect more.
* `ClaimsAreKept`: whatever other trades and processes do, an open trade keeps
  its claim. `QuoteIsRecent`: no answer is older than its limit and the life of
  the cache together. `FeedSurvivesMidnight`: a feed stopped for a new session
  comes back, also when the plan fails at first.
* `LabelIsSteady`: the refinement of `SteadyLabel`. `RestartKeepsTheLabelOfTheDay`,
  `Settles`: restarts adopt what consumers see, and a still market does not
  chatter, also on a threshold.
* `DailyIsLast`, `DayIsComplete`, `LiveContracts`: the history is one of closing
  volatilities, nothing of the day is forgotten but by a failure that was its
  last word, and no sweep asks for a contract that lapsed before its day.
* `LoginsAreShared`, `EveryoneGetsAToken`: safety and liveness of the token.
* `HardGateHolds`: once a switch has been on `hard` for the life of a cached
  value and its reads have not failed, nothing passes that its gate rejects,
  unless the gate raises: then it hands on exactly what came to it, which is what
  the code promises (fail-open, with an alert) and no protection.
* `PlanFitsTheBudget`, `AllowanceIsRecent`: what is in the plan and what is left
  out of it, and how old the measurement is that it counts on. The second excepts
  a measurement that was dated anew by a later probe that could not write its
  own value.
* `ScoreRisesWithLiquidity`: no measure of liquidity makes an option or a stock
  worse off. `TopTradesAreBest`: the limits hold, and what is left out is left
  out for enough others that score no less, whatever becomes of ties.
* `BreadthIsOfTheLastCount`: what the classifier says of breadth is that of the
  stocks when they were last counted, which is now unless the plan streams none
  or the row could not be written; and it says nothing when too few moved. What
  is published is the tracker's affair (`LabelIsSteady`): it holds its label when
  the classifier says nothing.
* `ContextIsRecent`: what a strategy gets was no older than the age limit and
  the life of the cache together, but for a thread that was overtaken.

### Where the code and its texts differ

Modelling met places where a reader of the texts would expect something else.
The actions follow the code, and the checked properties do not depend on them,
or say so.

Order manager and book

* The docstring at `paper_trader.py:1287` has the legs of a spread "enter and
  exit TOGETHER"; a spread of which one leg has no quote is skipped by the
  spread exits and its quoted leg is judged on its own levels (line 1321).
* An open sold leg is marked with the sign of a bought one
  (`order_manager.py:199`, against the comment at line 180), and the two risk
  exits compute its profit likewise (line 912), so that a written option far
  ahead is not protected as a winner.
* The daily-loss lockout is computed afresh on each submission, so a marked
  loss that recovers lifts it (line 254), while `daily_loss_config.py:5` speaks
  of the rest of the session. Its "done today" marker is set before the first
  position is closed (line 312).
* The base count of the direction cap includes booked sold legs (line 631),
  against the comment at line 640. Hedge legs of a batch are inserted behind the
  exposure gate (`paper_trader.py:1046`) and not counted by its cap on legs; the
  `booking` run books spreads through `submit_with_hedge`, whose hedge leg
  passes the gate. With the default of one trade per symbol and day that leg, and
  the second of a strangle, are refused.
* `open_trade` requests the live quote after its INSERT (`paper_trader.py:1235`);
  a trade closed in between leaves its request, and requests never expire.
* `place_bracket_order` has no caller. Its result says that the emergency sell
  was done also when it failed, a stop order whose answer was lost stays pending
  after the sell, and an exception after the BUY leaves the position naked
  (`order_manager.py:151`).

Gates and settings

* `PMG_GATE_MODE` at the settings page has no effect in a container whose
  environment says `off`: `order_manager.py:527` tests the module constant only,
  against "Settings-DB override wins" in `pre_market_gate.py:152`.
* All three gates are fail-open by intent (`order_manager.py:521`), and the
  pre-market gate more than its docstring says ("passes candidates through
  unchanged"): an exception on any candidate brings back those it has rejected
  already, in `hard` mode too (`order_manager.py:591-594`; likewise 811-814 and
  830-833). `HardGateHolds` says what then passes; it does not say that it is
  acceptable.
* A read of the settings that fails caches the environment's value or the default
  for the life of an entry. `HardGateHolds` excludes such reads.
* `breadth.compute` uses the latest day that has spots, possibly yesterday's; the
  put/call ratio of the pre-market gate has no age limit.
* `set_flag` does not validate numbers, and the docker command stops at the first
  unknown name. The alert matrix and the kill switch are written by the page and
  read by nobody; a missing row of the matrix would suppress its alert.

Feed, cache, quotes

* A stop while the client is being authorised leaves a socket open (against
  `client.py:3`), and a late close callback ends the next connection (against
  the comment at `client.py:165`): it works on whatever streamer is current.
* A handshake that completes after its timeout runs `_on_open` against the next
  streamer and declares it open while it is still dialling (`LateOpen = TRUE`;
  the checked run has it `FALSE`).
* `_on_open` sends every mode group "never an incremental diff, so dynamic
  requests from other containers survive a reconnect" (`client.py:361-363`, and
  likewise 217-219), and yet a request can be lost for as long as a connection
  lasts. It is made and withdrawn, and a reconcile works out that it has to be
  dropped; it is made again, the connection
  breaks, and the client dials with it; the reconcile now unsubscribes it on the
  new streamer (`client.py:257-262`), and `_on_open` books it as subscribed all
  the same (374-386), so that no later reconcile sends it. `RequestsAreServed`
  excepts such a connection.
* Three texts expect that after a long outage without a resync every bar of the
  rest of the session has no volume: `resync.py:13-17`, the docstring of
  `_close_gap` and its warning (`client.py:441-443`, 466-467), and that of `seed`
  (`cache.py:170-171`). The code does better: the first frame sets the baseline
  (`_last_vtt` in `update`), so one bar per break is blind and no more, resync or
  not. That is what `OneBlindBarPerBreak` states and `BlindBars` proves, against
  these texts and with the comment at `cache.py:121`.
* The feed thread and the watchdog can each insert a gap row; only one id is
  kept and the other row never ends, so its duration, and that of any outage
  still open, never reaches `recent_gap_seconds`.
* On Plus the plan is sized for five connections, but the client opens one
  streamer with all keys. On Standard it uses exactly the limit of keys, and the
  requests of the other containers come on top.
* A live row is stamped with the time of the loop (`service.py:287`), so a feed
  that is dead but connected keeps its rows fresh, against `__init__.py:289`;
  `cache.last` has no age, and the snapshots use it too.
* A flush that fails has taken its bars out of memory (`cache.py:247`); a flush
  that read the clock before midnight may write the bar that is still open; a
  late frame restores the volume of before the outage; the backfill may write the
  minute that is under way, and the bar that is observed later is then ignored.
* With no plan the log promises a retry "at the next session" that does not come
  (`service.py:322`).

Plan and probe

* A probe that fails once is cached as Standard for a week, and a downgrade is
  noticed only after that (`AllowanceIsRecent` is about the other direction of
  the same cache: how old a measurement of Plus may be).
* The result is reused until it expires (`probe.py:20`), but it may outlive that:
  value and date are two writes whose errors are swallowed (`probe.py:189-190`,
  `store.py:508-519`). When the first fails and the second does not, an old "Plus"
  has a new date and is trusted for another week after the downgrade.
  `AllowanceIsRecent` excepts this case and no other.
* An empty plan is not persisted, so the rows of the day before stay active. The
  comment at `subscription.py:145` ("same names") fails when tier 3 is the
  shorter one.

Regime, features, snapshots

* The comment in `hysteresis.py` denies dwell credit during UNKNOWN readings, but
  the dwell is the age of the label. Confidence does not collapse while the label
  is TRANSITIONING, as its docstring says, because it ignores the state.
* `builder.py:14` says a low data quality "caps confidence"; it is one weight of
  four. The newest rows of VIX, futures, sectors and breadth are read without an
  age check (`builder.py:473`), so that breadth stays what it was when a row
  cannot be written or the plan streams no stocks, and a quadrant `UNKNOWN`
  counts as present, so inputs that are missing are not all listed.
* A REVERSAL cannot occur: it needs three confirmations and the divergence of the
  breadth is never computed. The depth part is always missing. An unknown
  efficiency counts as efficient. Which NIFTY future decides depends on the order
  of the instrument keys.
* TRANSITIONING is published for all axes, and a warm start adopts it. A process
  that lives over midnight keeps its trackers.

Reader and file

* `get()` reads the cached context and then its time without the lock; a thread
  that is overtaken in between returns a context of any age (`__init__.py:248`
  against guarantee 4, line 21). `ContextIsRecent` excludes such threads.
* Damage of the file is noticed at the next start only, and the alert about it
  comes back every hour of a day although it is keyed by the day.

Tokens

* Between midnight and three no token is fresh, so every container that asks logs
  in, against `upstox_token_manager.py:51`; `LoginsAreShared` is about the time
  after three. A login that straddles three o'clock is stamped after it. The save
  is not atomic, and its failure is swallowed.

IV collector

* `_collect_one` counts rows that were refused or are duplicates as saved; the
  bhavcopy's save returns a count also when its commit failed. An empty list of
  expiries is cached for the day, also after a failure. A daily row is lost if
  its promotion fails once or no process runs between the close and midnight.
  Only the day of the week is checked, so holidays produce rows, and the downloads
  and the term structure run on weekends as well. A chain without a volatility at
  the money is not recorded.
* `discount.py:457` says the trim of the universe is the discount scan's only;
  the collector and the percentile runner use the trimmed list, and a stock
  outside gets no further snapshot, so that its liquidity stays as it was.

Scans

* `iv_percentile_strategy.py` (223, 224, 341) calls `scanner._spread_pct`, which
  no class defines. The exception is caught in `scan_all`, so the one strategy
  that runs never signals: `ScanUnderlying` has no outcome but "none" and
  "raised".
* Strikes are looked up as `str(float)` ("24500.0") but filed as "24500"; only
  strikes with a fraction are found. `is_iv_stable` finds no neighbour at a whole
  strike and says yes.
* The adapter supplies no previous open interest and no previous close, so every
  option with open interest is a long build-up. `expired_options_data` does not
  exist on it.
* The percentile scan reads the latest snapshot of any age, stops at its first
  three signals before anything is ranked, and buys on a flat history. Its limit
  "per day" is per scan, because the runner ends after a pass and is restarted.
* `iv_store` takes the last row of a day only if it is valid; the discount scan
  the last valid row. A volatility over a window needs one close more than the
  window.
* The weights of a directional score add up to 1.10. The selection takes one
  trade when its limit is zero. A chain without a spot has price 0.0, passes the
  test for `None`, and fails on a division.
* The docker file says `discount_config.py` was deleted; it is there.

## 4. Proofs

A run decides a property on one small instance; a theorem holds for every value
of the constants that their assumptions allow: any number of trades, sockets,
processes, symbols, days and faults, any caps, plans, premiums, readings, chains
and rankings. Every safety property that a run checks is stated by a theorem
below.

| module | theorem | states | hypotheses |
|---|---|---|---|
| `PaperTradingProofs` (one trade) | `TradeInvariance`, `TradeTypeCorrect`, `ClosedIsFinal` | its `TradeInv`, the type, a closed trade never changes | |
| | `OpenLiesBetweenLevels`, `ArmedStopIsTight`, `BookingIsExact`, `StopsOnlyTighten` | `OpenBetweenLevels`, `ArmedStopFollowsPeak`, `BookedMatchesReason`, `StopOnlyTightens` | |
| (order manager) | `Invariance`, `TypeCorrect` | `IInv`, `TypeOK` | |
| | `SquareOffIsComplete` | `SquareOffClosesAll` | |
| | `BookImplementsLedger` | `BookIsLedger` (refinement) | |
| | `NoUpdateIsLost` | `CopiesAreSaved` | saves succeed |
| | `RiskExitsAreWhole` | `RiskExitTakesBothLegs` | saves succeed |
| | `ContractsTradedOnce` | `OneTradePerContract` | no hedge legs in batches |
| | `CapsAreKept` | `CapsHold` | no hedge legs in batches, no gate raises |
| | `SymbolsAreCapped` | the cap on a symbol, in `CapsHold` | no hedge legs in batches |
| | `HedgesHavePrimaries` | `HedgeHasPrimary` | `OnlyBuyers` |
| `FeedClientProofs` | `Invariance`, `TypeCorrect` | `IInv`, `TypeOK` | |
| | `AtMostOneSocket`, `WakeUpsArrive` | `OneConnection`, `NoLostWakeUp` | |
| | `OutagesRecorded` | `OutageIsRecorded` | |
| `TickCacheProofs` | `Invariance`, `TypeCorrect`, `BlindBars` | `IInv`, `TypeOK`, `OneBlindBarPerBreak` | |
| | `BarsKept`, `WrittenOnce` | `NoBarIsLost`, `WrittenBarsAreFinal` | |
| `LiveQuotesProofs` | `Invariance`, `TypeCorrect`, `QuotesAreRecent`, `ClaimsKept` | `IInv`, `TypeOK`, `QuoteIsRecent`, `ClaimsAreKept` | |
| `RegimeProofs` | `Invariance`, `TypeCorrect` | `IInv`, `TypeOK` | |
| | `EngineIsSteady` | `LabelIsSteady` (refinement) | |
| | `RestartIsWarm` | `RestartKeepsTheLabelOfTheDay` | |
| `IVCollectorProofs` | `Invariance`, `ContractsAreLive`, `DailyRowsAreLast`, `DaysAreComplete` | `IInv`, `LiveContracts`, `DailyIsLast`, `DayIsComplete` | |
| `SharedStateProofs` | `TokenInvariance`, `LoginsShared` | its invariant, `LoginsAreShared` | |
| | `SwitchesHold`, `HardGatesHold` | its invariant, `HardGateHolds` | |
| `ServicesProofs` | `ContextsAreRecent` | `ContextIsRecent` | `Ttl > 0` |
| | `AllowancesAreRecent` | `AllowanceIsRecent` | `Standard <= 1` |
| | `PlansFit` | `PlanFitsTheBudget` | |
| | `TopTradesChosen` | `TopTradesAreBest` | |
| | `BreadthsAreOfTheLastCount` | `BreadthIsOfTheLastCount` | |
| | `ScoresRise` | `ScoreRisesWithLiquidity` | `LogRises` |

None of the properties is inductive as it stands. For every machine an invariant
joins the type with what each position of each thread knows; one lemma per
action shows that the step keeps it, one conjunct at a time; the theorems follow
by temporal logic. What makes each of them go through:

**One trade.** `WholeWhileOpen` (an open trade holds all of its quantity and has
booked nothing) and `LevelsOrdered` (the stop never lies beyond the target) join
the three safety properties. `TrailingEffect` says the ratchet only tightens the
stop, stays within the target and reaches the giveback level; `CloseWhole` says
what an exit books; `LevelsEffect` goes through the branches of `CheckLevels`.
That the quantity is whole while the trade is open is what makes an exit book
exactly the points of its fill.

**Order manager.** The book (`BookInv`), the scan thread (`SubInv`) and the
monitor (`MonitorInv`) are kept by the steps of the two threads and of the world
(`ScanKeeps`, `MonitorKeeps`, `ClockKeeps`). A step of the scan thread disturbs
the monitor only by appending rows, and ids above those the monitor has read;
a step of the monitor disturbs the scan thread only by closing rows. The core of
`MonitorInv` is `CopyInv`: what is still on the monitor's list is open and equal
to its row, what waits to be saved is a successor of its row, and, while saves
succeed or the pass still goes through its levels, all other copies equal their
rows. From it come the square-off (`PhaseInv`: under a square-off a copy off the
list is closed), the refinement (`Save` writes a closed successor over an open
entry, so a close in the table is a close of the ledger, and everything else an
opening or a stutter), and `NoUpdateIsLost`.

`RiskExitsAreWhole` needs `PartnerInv` and `WholeSpreads`: while a risk exit goes
through its list, the legs of a spread are both open, or both closed, or the
partner of the closed one is next. The partner of a leg on the list is fresh and
open because a spread has exactly two legs (`ComboPairs`), so nothing else can
have closed it.

`CapsAreKept` is about a count that is taken once, at the gate, and used over a
whole batch. The invariant is `RoomInv`: once a gate has counted, the book has
room for *all* the candidates that are still waiting. A booking takes one of
them and uses its room; a closing only makes room (`ShrinkingKeepsCaps`); a gate
selects some of its candidates, each once (`Selection`), and what it keeps fits
(`KeptSoFar`, with the sums of `Total` and `PremiumOf` compared by partial sums).
The cap on a symbol is tested with each INSERT, so that it holds also when gates
raise (`SymbolsAreCapped`).

`HedgesHavePrimaries` needs `Covered`: whatever sold leg a submission still has
in its hands, its bought leg is already in the table under the same combo, or is
ahead of it in the same submission. The combo of a submission is not used up by
another one, because only the scan thread inserts.

**Feed client.** `LoneInv`, the only socket alive is that of the current
streamer, is stronger than `OneConnection`, which holds during a stop too.
`WakeInv` says why a thread on a connection is never forgotten: the connection
lives, the event is set, or a callback that sets it is still pending on the
socket. `GapInv` relates the id to the register position by position, because the
INSERT and the reset of the id are separate steps of different threads.

**Tick cache.** `BlindInv` counts the minutes whose volume is unknown or will be
when their bar is written, one for a baseline that is missing, and one for a late
frame of before the break, against the breaks so far; each action moves a unit
between these accounts, and only a break adds one. `OrderInv` has the volumes in
the order of their minutes, which is what makes a difference of two frames usable.

**Live quotes.** `AgeInv`: a quote that is kept is older than its answer by what
the age limit allowed and no more. `ReleaseInv`: a trade has a call to
`unsubscribe` under way only when it is closed.

**Regime.** The tracker is typed as a whole, its memory is shorter than the
window, and a process that has not started warm has forgotten its label
(`ColdInv`). Each classifier answers with a state of its axis or nothing. The
simulation maps each step of the engine to a step of `SteadyLabel` or a stutter;
a restart drops the label together with its credit.

**IV collector.** `AnswersInv`: a list of expiries that is cached is that of a
day since the scanner was constructed. `ResetInv`: a new day finds the loop
asleep. `DailyInv`, `EodInv`, `DownloadInv`: what a marker of the day means for
the rows and the files. They hold at every position of the loop, so that a
restart can fall anywhere.

**Token file.** `LoginInv`: a process that logs in has seen, under the lock,
that the file holds no token of today, and none has appeared since. `CountInv`:
a login that no fault accounts for has left its token in the file or is about
to.

**Gate switches.** For a cached value that says something else than `hard` while
the row says `hard`: what it has left to live and the time since the switch (or
since the last read that failed) make no more than a whole life (`EntryInv`), and
a value on its way into the cache was read since the last tick (`ReadInv`). So a
switch that is settled for a whole life has no such value left. `PassKeepsGood`
has what a batch leaves behind: a recursive function of its positions, whose
existence is shown by counting up. While the pre-market gate has a batch it has
not raised, so what it has kept so far grew candidate by candidate (`SwitchTypes`);
a gate that raises is a case of its own.

**Context reader.** `CacheInv`: the cached context is no older than allowed at
the time it is cached with, although context and time are two variables that are
written one after the other; so is a copy that a thread has taken without the
lock, unless the context got a new time since. Whoever loads or stamps holds the
lock (`HolderInv`), so that the two writes of one thread are not mixed with those
of another, and no thread looks before it asked (`TimesInv`).

**Allowance.** A cached measurement of Plus is at least as old as the time the
account has been without Plus, or the last probe found something else than what is
cached. Caching takes two writes. When the second fails, a new value keeps an old
date, which only makes it expire sooner; when the first does, an old value gets a
new date, and then what was found and what is cached differ, unless they happened
to agree, in which case the date is right.

**Plan.** The tiers are lists of rows, which the trims shorten from the end. The
proof is arithmetic on their lengths: each trim takes what is over, as far as its
tier goes. That the liquid stocks are the first ones of the ranking although
more are fetched and then filtered needs counting: what is kept and what is left
out add up to the rows looked at, and no more are left out than there are names
that are no stocks, since a ranking has each name once. The filters are recursive
functions, whose existence is shown by counting up.

**Selection.** A row that is left out met a selection in which some limit was
reached by rows ranked before it. These are all in the selection still at the
end, and none scores less. The counts that reached the limit then have not grown
since, because the limits hold at every step (`LeftOutForBetter`). No step needs
to know how ties were ordered.

**Breadth.** The newest row counts the frames of the moment `counted`: a pass that
counts stocks and writes its row becomes that moment, and any other leaves row and
moment alone. What a vector says of advancing stocks is the share in the
row or nothing, and a share of 57 or more, or of 43 or less, leaves the side that
more stocks moved to no choice (`LabelLeans`).

**Scores.** A better quote of an option leaves its volatility, its delta and its
ask as they were, so every part of the score is equal (`OthersEqual`) but three:
its points for volume, open interest and spread, its liquidity component, and its
quality. Each rises (`PointsRise`, `LiquidityScoreRises`, `QualityRises`), and
sums, divisions that round toward zero and clips keep the order (`DivRises`,
`ClipRises`), so the penalty for a spread can never outweigh what a higher bid
gains. For the universe: a stock that is traded more has no stocks in front of it
that were not there before (`TradedMoreStays`).

### Assumptions and hypotheses

The constants have named assumptions in the modules that declare them, and TLC
evaluates them in every run: bounds are naturals, prices positive, modes one of
three, the parties finite sets that do not overlap with the values that stand for
nothing. These say more than a type:

* `PaperTradeAssumption`: a plan has its stop and its target on opposite sides of
  its entry, as the strategies compute them.
* `SpreadsAreDebitSpreads`: `submit_with_hedge` is called with a bought primary
  and a sold leg of one underlying, as its docstring has it.
* `FeedClientAssumption`: a plan and a set of requests ask for one mode per
  instrument, since both are dictionaries by instrument key.
* `SomethingIsListed`: some expiry is not before the last day of the model.
* `ServicesAssumption`: a ranking names a stock once (`instruments.py:303` groups
  its rows by the symbol), a name has finitely many futures, the rows of a
  selection are different options, and its limit is at least one (500 by default).
* `MarketPictureAssumption`: a plan lists its stocks, and a collected row of the
  breadth is told apart from none.
* `ScanAssumption`: the quotes, levels and volatilities that the scan judges are
  numbers, volumes and open interests natural ones, and the rows of a strike that
  lack a contract are told apart from quotes. It speaks of the contexts the scan
  arrives at, since sums and fits over lists are out of the prover's sight; TLC
  evaluates it for the samples.

Six theorems of the order manager have hypotheses. They are the limits of what
the code promises, and each holds in the run that checks the property:

* *Saves succeed* (`SaveMayFail = FALSE`). A `save_runtime` that raises ends the
  pass in the middle of a spread.
* *No hedge legs in batches* (`HedgeBatch = FALSE`). `process_signals` inserts the
  hedge leg straight through `open_trade`, past `has_trade_today`, the caps and the
  gates (`paper_trader.py:1044`), so neither property holds of such batches.
* *No gate raises* (`GateMayFail = FALSE`). A gate that raises passes its
  candidates through (`order_manager.py:591`).
* `OnlyBuyers`: every candidate of a batch or an external signal is bought and
  there are no strangles. The two legs of a strangle, and a seller's signal, are
  sold with nothing to hedge them, on purpose.

TLC finds the property violated in an instance without the hypothesis: `CapsHold`
when gates may raise and when batches carry hedge legs, `OneTradePerContract` when
two spreads of a batch share their sold leg, `RiskExitTakesBothLegs` when a save
may fail.

Three theorems about services have one each:

* `Ttl > 0`: a cached context lives for some time (`GET_CACHE_TTL_SEC` is 10).
  With a life of zero the bound, which is strict, would be the greatest age
  itself, and a context of just that age is available.
* `Standard <= 1`: an account without Plus has one connection
  (`WS_CONNECTIONS_STANDARD`, `config.py:160`), and the probe takes more than one
  for Plus.
* `LogRises`: the logarithm of a natural number, as the score rounds it, is a
  number and does not fall.

### What stays with TLC

* Liveness under fairness (`PassEnds`, `SubmissionEnds`, `SilenceEndsTheWait`,
  `RequestsAreServed`, `StopEndsTheLoop`, `NoBarWaitsForever`,
  `FeedSurvivesMidnight`, `Settles`, `EveryoneGetsAToken`), which the prover does
  not handle.
* What the estimators compute: trends, volatilities and sums over lists are
  folds, and what a fold computes for every list is an induction over data. The
  theorems about the picture and the scan hold whatever they compute, so far as it
  is numbers.

## 5. Not modelled

* `place_bracket_order`, `refresh`, `invalidate`, the age limit of a single call,
  the alert matrix and the kill switch: nothing in the repository calls or reads
  them.
* Retries, rate limits and delays; the batching of REST calls; pruning of old
  rows; the heartbeat; alerts and reports; the skew table; the cache of expired
  options; greeks; the z-score; costs beyond a constant.
* The signal policy (a membership test), strike selection, the loaders of the
  scrip master, the dashboard and the Dhan token: pure functions, batch imports,
  presentation, and a token nothing that runs reads.
* The texts and plans attached to an opportunity or a close.
* `old/`: superseded code that no service uses.

PROJECT.json says for each part what is modelled and what is left out.

## 6. Plan

The safety of every component that trades, collects, connects or computes is
proved. What is left, the most valuable first:

1. Weaker hypotheses where the code allows them: the caps of a gate that works,
   while another one raises (`GateMayFail` is one constant for all of them).
2. The signal policy and strike selection as operators in front of the order
   manager, so that `OnlyBuyers` follows from the strategies in use instead of
   being assumed.
3. The resync together with the feed client: `TickCache` leaves open when its
   outages begin, which `FeedClient` knows.
