------------------------------ MODULE LiveQuotes ------------------------------
(***************************************************************************)
(* The way of a live quote, for one option contract.  The trading process  *)
(* asks for it when it opens a trade and releases it when it closes one    *)
(* (paper_trader.py), the market-context service subscribes the contract,  *)
(* writes the last tick into mc_live_quotes (service.py, store.py), and    *)
(* the monitor reads it back through the cache of get_quote                *)
(* (market_context/__init__.py).  The client of FeedClient is reduced to   *)
(* a connection that is up or down.  Times are ages, in ticks of a clock.  *)
(***************************************************************************)
EXTENDS Integers, FiniteSets

CONSTANTS
    Trades,         \* trades on the contract, of one session or of several
    None,
    Stale,          \* QUOTE_STALE_SEC
    Ttl,            \* GET_CACHE_TTL_SEC
    MaxFaults       \* bound: failures and crashes

ASSUME LiveQuotesAssumption ==
    /\ None \notin Nat
    /\ {Stale, Ttl, MaxFaults} \subseteq Nat

VARIABLES
    book,           \* the trades in paper_trades
    calls,          \* what the trading process still has to ask for
    cache,          \* _quote_cache
    reader,         \* how long get_quote has been waiting for its row
    claims,         \* owners of active rows in mc_subscription_requests
    row,            \* age of the row in mc_live_quotes
    svc,            \* where the service loop is
    plan, newDay,   \* the plan has instruments; it is yesterday's
    feed, carried,  \* the client, and whether it carries the contract
    last,           \* the tick cache has a tick of the contract
    faults

trader == <<book, calls, cache, reader>>
service == <<svc, plan, newDay, feed, carried, last>>
vars == <<trader, claims, row, service, faults>>

(* Ages are told apart as long as an answer may be that old, or be used.   *)
Old == Stale + Ttl
Older(age, cap) == IF age \in 0..(cap - 1) THEN age + 1 ELSE age

Init ==
    /\ book = [t \in Trades |-> "new"] /\ calls = [t \in Trades |-> {}]
    /\ cache = None /\ reader = None
    /\ claims = {} /\ row = None
    /\ svc = "start" /\ plan = FALSE /\ newDay = FALSE
    /\ feed = "none" /\ carried = FALSE /\ last = FALSE
    /\ faults = 0

Fault == faults < MaxFaults /\ faults' = faults + 1

-------------------------------------------------------------------------------
(* The trading process: a trade is in the book before its quote is asked   *)
(* for, and out of it before the quote is released.  Scan and monitor run  *)
(* on threads of their own.                                                *)

OpenTrade(t) ==
    /\ book[t] = "new"
    /\ book' = [book EXCEPT ![t] = "open"]
    /\ calls' = [calls EXCEPT ![t] = {"subscribe"}]
    /\ UNCHANGED <<cache, reader, claims, row, service, faults>>

CloseTrade(t) ==
    /\ book[t] = "open"
    /\ book' = [book EXCEPT ![t] = "closed"]
    /\ calls' = [calls EXCEPT ![t] = @ \cup {"unsubscribe"}]
    /\ UNCHANGED <<cache, reader, claims, row, service, faults>>

Called(t, call) ==
    /\ call \in calls[t]
    /\ calls' = [calls EXCEPT ![t] = @ \ {call}]
    /\ UNCHANGED <<book, cache, reader, row, service>>

Subscribe(t) ==
    /\ Called(t, "subscribe")
    /\ claims' = claims \cup {t}
    /\ UNCHANGED faults

(* Mutant: the contract is released, not the claim of one owner.           *)
UnsubscribeMutant(t) ==
    /\ Called(t, "unsubscribe")
    /\ claims' = {}
    /\ UNCHANGED faults

Unsubscribe(t) ==
    /\ Called(t, "unsubscribe")
    /\ claims' = claims \ {t}
    /\ UNCHANGED faults

(* No instrument key, or no write: the call is not made again.             *)
CallFails(t) ==
    /\ \E call \in calls[t] : Called(t, call)
    /\ Fault
    /\ UNCHANGED claims

-------------------------------------------------------------------------------
(* get_quote, as the monitor calls it for an open trade.                   *)

Monitoring == \E t \in Trades : book[t] = "open"

(* An answer that is young enough is given again, and stays as it is.      *)
Cached == cache # None /\ cache.at < Ttl

CacheMiss ==
    /\ reader = None /\ Monitoring /\ ~Cached
    /\ reader' = 0
    /\ UNCHANGED <<book, calls, cache, claims, row, service, faults>>

(* The answer is kept, also when it is None, and counts from the time of   *)
(* the question.                                                           *)
Answer(quote) ==
    /\ reader # None
    /\ cache' = [quote |-> quote, at |-> reader]
    /\ reader' = None
    /\ UNCHANGED <<book, calls, claims, row, service>>

(* Mutant: the row is taken whatever its age.                              *)
LoadQuoteMutant == Answer(row) /\ UNCHANGED faults

LoadQuote ==
    /\ Answer(IF row \in 0..Stale THEN row ELSE None)
    /\ UNCHANGED faults

LoadFails == Fault /\ Answer(None)

TraderCrashes ==
    /\ Fault
    /\ calls' = [t \in Trades |-> {}]
    /\ cache' = None /\ reader' = None
    /\ UNCHANGED <<book, claims, row, service>>

-------------------------------------------------------------------------------
(* The market-context service.                                             *)

(* run: a service that starts with an empty plan has no feed.              *)
StartService ==
    /\ svc = "start"
    /\ plan' \in BOOLEAN /\ newDay' = FALSE
    /\ feed' = IF plan' THEN "down" ELSE "none"
    /\ svc' = "loop"
    /\ UNCHANGED <<trader, claims, row, carried, last, faults>>

MidnightPasses ==
    /\ svc = "loop" /\ ~newDay
    /\ newDay' = TRUE
    /\ UNCHANGED <<trader, claims, row, svc, plan, feed, carried, last, faults>>

(* _maybe_rebuild_plan: a feed that there is is stopped, and started anew  *)
(* on the new plan.  The tick cache is kept.                               *)
RebuildPlan ==
    /\ svc = "loop" /\ newDay
    /\ plan' \in BOOLEAN /\ newDay' = FALSE
    /\ feed' = IF feed = "none" THEN "none" ELSE "down"
    /\ carried' = FALSE
    /\ UNCHANGED <<trader, claims, row, svc, last, faults>>

(* Mutant: the day is noted before the plan is built.                      *)
RebuildFailsMutant ==
    /\ svc = "loop" /\ newDay
    /\ Fault
    /\ newDay' = FALSE
    /\ feed' = IF feed = "none" THEN "none" ELSE "stopped"
    /\ carried' = FALSE
    /\ UNCHANGED <<trader, claims, row, svc, plan, last>>

(* An exception leaves the feed stopped until the next iteration.          *)
RebuildFails ==
    /\ svc = "loop" /\ newDay
    /\ Fault
    /\ feed' = IF feed = "none" THEN "none" ELSE "stopped"
    /\ carried' = FALSE
    /\ UNCHANGED <<trader, claims, row, svc, plan, newDay, last>>

(* An iteration: reconcile works on a connection that is up, and           *)
(* _flush_live_quotes stamps the last tick with the time of the loop, also *)
(* when the connection is down or the tick is of an earlier claim.         *)
Reconcile == carried' = IF feed = "up" THEN claims # {} ELSE carried

FlushLiveQuotes ==
    row' = IF claims # {} /\ last THEN 0 ELSE row

Iterate == svc = "loop" /\ ~newDay /\ UNCHANGED <<trader, claims, svc, plan, newDay, feed, last>>

Tick == Iterate /\ Reconcile /\ FlushLiveQuotes /\ UNCHANGED faults

(* Either may fail alone.                                                  *)
TickFails ==
    /\ Iterate
    /\ Fault
    /\ \/ Reconcile /\ UNCHANGED row
       \/ FlushLiveQuotes /\ UNCHANGED carried

ServiceCrashes ==
    /\ svc # "start"
    /\ Fault
    /\ svc' = "start" /\ plan' = FALSE /\ newDay' = FALSE
    /\ feed' = "none" /\ carried' = FALSE /\ last' = FALSE
    /\ UNCHANGED <<trader, claims, row>>

-------------------------------------------------------------------------------
(* The connection.  What is claimed when it opens is subscribed.           *)

Connect ==
    /\ feed = "down" /\ (plan \/ claims # {})
    /\ feed' = "up" /\ carried' = (claims # {})
    /\ UNCHANGED <<trader, claims, row, svc, plan, newDay, last, faults>>

LoseConnection ==
    /\ feed = "up"
    /\ Fault
    /\ feed' = "down" /\ carried' = FALSE
    /\ UNCHANGED <<trader, claims, row, svc, plan, newDay, last>>

TickArrives ==
    /\ feed = "up" /\ carried
    /\ last' = TRUE
    /\ UNCHANGED <<trader, claims, row, svc, plan, newDay, feed, carried, faults>>

TimePasses ==
    /\ reader' = Older(reader, Ttl) /\ row' = Older(row, Old)
    /\ cache' = IF cache = None THEN None
                ELSE [quote |-> Older(cache.quote, Old), at |-> Older(cache.at, Ttl)]
    /\ UNCHANGED <<book, calls, claims, svc, plan, newDay, feed, carried, last, faults>>

-------------------------------------------------------------------------------

Loop == StartService \/ RebuildPlan \/ Tick

Next ==
    \/ \E t \in Trades :
          OpenTrade(t) \/ CloseTrade(t) \/ Subscribe(t) \/ Unsubscribe(t) \/ CallFails(t)
    \/ CacheMiss \/ LoadQuote \/ LoadFails \/ TraderCrashes
    \/ Loop \/ MidnightPasses \/ RebuildFails \/ TickFails
    \/ ServiceCrashes
    \/ Connect \/ LoseConnection \/ TickArrives
    \/ TimePasses

(* The service comes round to its next iteration, and time passes.         *)
Spec == Init /\ [][Next]_vars /\ WF_vars(Loop) /\ WF_vars(TimePasses)

-------------------------------------------------------------------------------

Quote == (0..Old) \cup {None}

TypeOK ==
    /\ book \in [Trades -> {"new", "open", "closed"}]
    /\ calls \in [Trades -> SUBSET {"subscribe", "unsubscribe"}]
    /\ cache \in [quote : Quote, at : 0..Ttl] \cup {None}
    /\ reader \in 0..Ttl \cup {None}
    /\ row \in Quote
    /\ claims \subseteq Trades
    /\ svc \in {"start", "loop"}
    /\ {plan, newDay, last} \subseteq BOOLEAN
    /\ feed \in {"none", "stopped", "down", "up"} /\ carried \in BOOLEAN
    /\ (carried => feed = "up")
    /\ faults \in 0..MaxFaults

(* Neither the age check of the load nor the caches let through a row that *)
(* was written longer ago than both allow together (get_quote, "None when  *)
(* unavailable/stale").                                                    *)
QuoteIsRecent == Cached /\ cache.quote # None => cache.quote < Stale + Ttl

(* Whatever other trades, threads and processes do, the claim of an open   *)
(* trade stays until it is closed (release_subscription, "Other owners'    *)
(* claims are untouched").                                                 *)
ClaimsAreKept ==
    [][\A t \in claims : book[t] = "open" => t \in claims']_vars

(* A feed that was stopped for the new session is started again, also when *)
(* the first attempts to build the plan have failed (_maybe_rebuild_plan). *)
FeedSurvivesMidnight == (feed = "stopped") ~> (feed # "stopped")

===============================================================================
