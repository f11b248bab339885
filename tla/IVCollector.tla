----------------------------- MODULE IVCollector -----------------------------
(* The IV collector: one loop that sweeps the option chains of all symbols    *)
(* through the session, promotes the last snapshot of each symbol to the      *)
(* daily row the percentile strategy reads, and runs the scheduled downloads  *)
(* (deals, VIX, bhavcopy).  Its markers live in memory; the rows live in the  *)
(* shared database, of which the model keeps the rows of the current date.    *)
EXTENDS Integers, FiniteSets

CONSTANTS Indices,     \* symbols with an expiry calendar of their own
          Stocks,      \* symbols sharing the monthly calendar
          Expiries,    \* the days on which some contract expires
          MinDays,     \* days to expiry a tracked contract should have
          Publications,  \* ways a day's files may appear: file -> time or None
          MaxDay,      \* days explored
          MaxFaults,   \* crashes and failing calls explored
          None

Symbols == Indices \cup Stocks

ASSUME SymbolsAreApart == Indices \cap Stocks = {} /\ IsFiniteSet(Symbols)
ASSUME ExpiriesAreDays == Expiries \subseteq Nat /\ IsFiniteSet(Expiries)
ASSUME BoundsAreNaturals == MinDays \in Nat \ {0} /\ MaxDay \in Nat \ {0} /\ MaxFaults \in Nat
ASSUME NoneIsApart == None \notin Nat

(* On every day the exchange lists a contract that has not lapsed.            *)
ASSUME SomethingIsListed == \E e \in Expiries : e >= MaxDay

(* The clock stops at the times the code names; hh:mm is written hhmm.        *)
WarmupStart == 915
WarmupEnd   == 950
IntradayEnd == 1530
EodReport   == 1535
Times == {0, WarmupStart, WarmupEnd, 1035, 1200, 1500, IntradayEnd, EodReport,
          1545, 1830, 1900, 2030, 2200}
LastTime == 2200
NextTime(t) == CHOOSE u \in Times : u > t /\ \A v \in Times : v > t => u <= v

(* What each scheduled time runs, and what a starting process catches up.     *)
Job(t) == CASE t \in {950, 1200, 1500}   -> "term"
            [] t \in {1035, 1545}        -> "deals"
            [] t = 1830                  -> "vix"
            [] t \in {1900, 2030, 2200}  -> "bhav"
Scheduled == {950, 1035, 1200, 1500, 1545, 1830, 1900, 2030, 2200}
CatchUp   == {1035, 1830, 1900}

Downloads == {"deals", "vix", "bhav"}
Reports   == Downloads \cup {"daily"}
Files     == {"block", "bulk", "vix", "bhav"}
FilesOf   == [deals |-> {"block", "bulk"}, vix |-> {"vix"}, bhav |-> {"bhav"}]
LastRun   == [deals |-> 1545, vix |-> 1830, bhav |-> 2200]

ASSUME FilesHaveTimes == Publications \subseteq [Files -> Times \cup {None}]

VARIABLES
  day, clock, weekend,   \* the calendar
  last,       \* symbol -> label of its last intraday row of the day
  daily,      \* symbol -> label the daily row of the day was copied from
  term,       \* <<symbol, expiry>> pairs in the term structure of the day
  published,  \* file -> time the exchange publishes it, of the day
  saved,      \* files of the day that are in the database
  report,     \* outcome last reported for each download and for the promotion
  pc,         \* what the process is doing
  queue,      \* symbols the running pass still has to visit
  label,      \* timestamp label of the running pass
  expiry,     \* _expiry_cache: symbol -> expiry tracked
  shared,     \* _expiry_cache["_nse_fno"]
  lists,      \* _all_expiries_cache: calendar -> expiries
  answers,    \* expiries in the scanner's shared state: symbol -> broker's list
  scannerDay, \* the day that shared state is of
  lastPass,   \* _intraday_last_pass
  eodSent, resetDay,
  pending,    \* scheduled times that are due
  slept,      \* whether the loop has gone to sleep since the clock moved
  faults

calendar == <<day, clock, weekend>>
rows     == <<last, daily, term>>
files    == <<published, saved, report>>
pass     == <<pc, queue, label>>
source   == <<answers, scannerDay>>
caches   == <<expiry, shared, lists, source>>
markers  == <<lastPass, eodSent, resetDay>>
vars == <<calendar, rows, files, pass, caches, markers, pending, slept, faults>>

NoRow == [s \in Symbols |-> None]

(* The expiries a broker lists: those that have not passed.                   *)
Listed == {e \in Expiries : e >= day}
Earliest(S) == CHOOSE e \in S : \A f \in S : e <= f

(* get_expiry_list of the scanner: an answer is kept in the state all scanner *)
(* objects share, which is emptied only when an object is made on a new day.  *)
ExpiryList(s) == IF answers[s] = None THEN Listed ELSE answers[s]

(* An expiry is a trading day; the days before it all count. *)
TradingDays(e) == IF e < day THEN 0 ELSE e - day + 1

(* _resolve_expiry: the first expiry far enough away, else the second one, or *)
(* the only one.                                                              *)
Chosen(s) ==
  LET far == {e \in ExpiryList(s) : TradingDays(e) >= MinDays}
      later == ExpiryList(s) \ {Earliest(ExpiryList(s))}
  IN IF far # {} THEN Earliest(far)
     ELSE IF later # {} THEN Earliest(later) ELSE Earliest(ExpiryList(s))

Calendar(s) == IF s \in Stocks THEN "_nse_fno_all" ELSE s
Calendars   == {"_nse_fno_all"} \cup Indices

Loop == pc = "loop"
Up   == pc # "down"

(* The sole budget of the environment: a crash or a failing call.             *)
Fault == faults < MaxFaults /\ faults' = faults + 1

-----------------------------------------------------------------------------
Init ==
  /\ day = 1 /\ clock = 0 /\ weekend = FALSE
  /\ last = NoRow /\ daily = NoRow /\ term = {}
  /\ published \in Publications
  /\ saved = {}
  /\ report = [j \in Reports |-> None]
  /\ pc = "loop" /\ queue = {} /\ label = None
  /\ expiry = NoRow /\ shared = None /\ lists = [c \in Calendars |-> None]
  /\ answers = NoRow /\ scannerDay = day
  /\ lastPass = None /\ eodSent = FALSE /\ resetDay = day
  /\ pending = {} /\ slept = FALSE /\ faults = 0

-----------------------------------------------------------------------------
(* Scheduled downloads: run_pending, and the catch-up of a starting process.  *)

Due(t) == Loop /\ t \in pending /\ \A u \in pending : t <= u

Available(j) == {f \in FilesOf[j] : published[f] # None /\ published[f] <= clock}

(* The rows of everything published; rows already there are skipped, and a    *)
(* bhavcopy without its delivery columns is left to a later time.             *)
Download(j) ==
  /\ saved' = saved \cup Available(j)
  /\ report' = [report EXCEPT ![j] =
                  IF j = "bhav" /\ Available(j) = {} THEN "not ready" ELSE "saved"]
  /\ UNCHANGED <<published, faults>>

DownloadFails(j) ==
  /\ Fault
  /\ report' = [report EXCEPT ![j] = "failed"]
  /\ UNCHANGED <<published, saved>>

(* _already_saved: a bhavcopy in the database is not fetched again.           *)
AlreadySaved(j) == j = "bhav" /\ "bhav" \in saved

RunDownload(t) ==
  /\ Due(t) /\ Job(t) \in Downloads
  /\ pending' = pending \ {t}
  /\ IF AlreadySaved(Job(t)) THEN UNCHANGED <<files, faults>>
     ELSE Download(Job(t)) \/ DownloadFails(Job(t))
  /\ UNCHANGED <<calendar, rows, pass, caches, markers, slept>>

(* _refresh_scanner: a new scanner object, which sees the date.               *)
NewScanner ==
  /\ scannerDay' = day
  /\ answers' = IF scannerDay = day THEN answers ELSE NoRow

StartTerm(t) ==
  /\ Due(t) /\ Job(t) = "term"
  /\ pending' = pending \ {t}
  /\ pc' = "term" /\ queue' = Symbols /\ label' = clock
  /\ NewScanner
  /\ UNCHANGED <<calendar, rows, files, expiry, shared, lists, markers, slept, faults>>

-----------------------------------------------------------------------------
(* Expiries.  A list that failed is not cached by _resolve_expiry; the list   *)
(* of the term structure is cached whatever it is.                            *)

Tracked(s) == IF s \in Stocks /\ shared # None THEN shared ELSE expiry[s]

Answered(s) == answers' = [answers EXCEPT ![s] = ExpiryList(s)]

Resolve(s) ==
  /\ ExpiryList(s) # {} /\ Answered(s)
  /\ expiry' = [expiry EXCEPT ![s] = Chosen(s)]
  /\ shared' = IF s \in Stocks THEN Chosen(s) ELSE shared

NoAnswer(s) == answers[s] = None /\ Fault /\ UNCHANGED answers

Unresolved(s) ==
  /\ NoAnswer(s) \/ (ExpiryList(s) = {} /\ Answered(s) /\ UNCHANGED faults)
  /\ UNCHANGED <<expiry, shared>>

(* save_snapshot: the row with the largest id is the one with the last label, *)
(* since a label the symbol already has is dropped by the database.           *)
SaveSnapshotMutant(s, l) ==
  /\ last' = [last EXCEPT ![s] = l]
  /\ daily' = [daily EXCEPT ![s] = IF @ = None THEN l ELSE @]
  /\ UNCHANGED term
SaveSnapshot(s, l) == last' = [last EXCEPT ![s] = l] /\ UNCHANGED <<daily, term>>

(* The chain of the contract, after its retries, and an IV in the band that   *)
(* the store accepts; or neither.                                             *)
Fetched(s, l) ==
  \/ SaveSnapshot(s, l) /\ UNCHANGED faults
  \/ Fault /\ UNCHANGED rows

(* _collect_one: the expiry, the chain, the snapshot.                         *)
CollectOne(s, l) ==
  \/ /\ Tracked(s) # None /\ UNCHANGED <<expiry, shared, answers>>
     /\ Fetched(s, l)
  \/ /\ Tracked(s) = None /\ Resolve(s)
     /\ Fetched(s, l)
  \/ /\ Tracked(s) = None /\ Unresolved(s)
     /\ UNCHANGED rows

(* _collect_term_structure_one for every other expiry; some may fail.         *)
SaveTerm(s, others) ==
  /\ UNCHANGED <<last, daily>>
  /\ \/ term' = term \cup {<<s, e>> : e \in others} /\ UNCHANGED faults
     \/ Fault /\ \E got \in SUBSET others :
          term' = term \cup {<<s, e>> : e \in got}

(* _get_all_expiries: a list that failed is cached as an empty one.           *)
AllExpiries(s, all) ==
  LET cached == lists[Calendar(s)]
  IN /\ lists' = [lists EXCEPT ![Calendar(s)] = all]
     /\ \/ cached # None /\ all = cached /\ UNCHANGED answers
        \/ cached = None /\ all = ExpiryList(s) /\ Answered(s)
        \/ cached = None /\ answers[s] = None /\ all = {} /\ UNCHANGED answers

(* The others than the current expiry, which is looked up under the symbol's  *)
(* own key alone: while it is unknown, the others are all of them.            *)
TermOne(s) ==
  \E all \in {ExpiryList(s), {}, lists[Calendar(s)]} \ {None} :
    \/ /\ expiry[s] # None /\ UNCHANGED <<expiry, shared>>
       /\ AllExpiries(s, all) /\ SaveTerm(s, all \ {expiry[s]})
    \/ /\ expiry[s] = None /\ Resolve(s)
       /\ all = (IF lists[Calendar(s)] = None THEN ExpiryList(s) ELSE lists[Calendar(s)])
       /\ lists' = [lists EXCEPT ![Calendar(s)] = all]
       /\ SaveTerm(s, all \ {Chosen(s)})
    \/ /\ expiry[s] = None /\ UNCHANGED <<expiry, shared>>
       /\ IF ExpiryList(s) = {} THEN UNCHANGED faults ELSE answers[s] = None /\ Fault
       /\ AllExpiries(s, all)
       /\ UNCHANGED <<last, daily>>
       /\ term' = term \cup {<<s, e>> : e \in all}

-----------------------------------------------------------------------------
(* The passes: one symbol after the other, each step as long as it takes.     *)

Visit(s) == s \in queue /\ queue' = queue \ {s}

PassEnds ==
  /\ pc' = "loop" /\ queue' = {} /\ label' = None
  /\ UNCHANGED <<calendar, rows, files, caches, markers, pending, slept, faults>>

WarmupVisits(s) ==
  /\ pc = "warmup" /\ clock < WarmupEnd /\ Visit(s)
  /\ CollectOne(s, clock)
  /\ UNCHANGED <<calendar, files, lists, scannerDay, markers, pending, slept, pc, label>>

IntradayVisits(s) ==
  /\ pc = "intraday" /\ clock < IntradayEnd /\ Visit(s)
  /\ CollectOne(s, label)
  /\ UNCHANGED <<calendar, files, lists, scannerDay, markers, pending, slept, pc, label>>

TermVisits(s) ==
  /\ pc = "term" /\ Visit(s)
  /\ TermOne(s)
  /\ UNCHANGED <<calendar, files, scannerDay, markers, pending, slept, pc, label>>

WarmupEnds   == pc = "warmup" /\ (queue = {} \/ clock >= WarmupEnd) /\ PassEnds
IntradayEnds == pc = "intraday" /\ (queue = {} \/ clock >= IntradayEnd) /\ PassEnds
TermEnds     == pc = "term" /\ queue = {} /\ PassEnds

-----------------------------------------------------------------------------
(* One iteration of the loop, once nothing is due.                            *)

Iterate == Loop /\ pending = {}

Today == Iterate /\ resetDay = day

DailyResetMutant ==
  /\ Iterate /\ resetDay # day
  /\ resetDay' = day /\ eodSent' = FALSE
  /\ UNCHANGED <<calendar, rows, files, pass, caches, lastPass, pending, slept, faults>>
DailyReset ==
  /\ Iterate /\ resetDay # day
  /\ resetDay' = day /\ eodSent' = FALSE
  /\ expiry' = NoRow /\ shared' = None /\ lists' = [c \in Calendars |-> None]
  /\ UNCHANGED <<calendar, rows, files, pass, source, lastPass, pending, slept, faults>>

Sleep ==
  /\ slept' = TRUE
  /\ UNCHANGED <<calendar, rows, files, pass, caches, eodSent, resetDay, pending, faults>>

IdleMorning ==
  /\ Today /\ (weekend \/ clock < WarmupStart)
  /\ Sleep /\ UNCHANGED lastPass

StartWarmup ==
  /\ Today /\ ~weekend /\ clock \in WarmupStart..(WarmupEnd - 1)
  /\ pc' = "warmup" /\ queue' = Symbols
  /\ UNCHANGED <<calendar, rows, files, label, caches, markers, pending, slept, faults>>

InSession == Today /\ ~weekend /\ clock \in WarmupEnd..(IntradayEnd - 1)

StartIntraday ==
  /\ InSession /\ lastPass # clock
  /\ pc' = "intraday" /\ queue' = Symbols /\ label' = clock
  /\ lastPass' = clock
  /\ NewScanner
  /\ UNCHANGED <<calendar, rows, files, expiry, shared, lists, eodSent, resetDay, pending, slept, faults>>

BetweenPasses ==
  /\ InSession /\ lastPass = clock
  /\ Sleep /\ UNCHANGED lastPass

AfterSession == Today /\ ~weekend /\ clock >= IntradayEnd

IdleEvening ==
  /\ AfterSession /\ (eodSent \/ clock < EodReport)
  /\ Sleep /\ lastPass' = None

(* promote_daily_from_last_intraday: symbols that have their daily row are    *)
(* skipped; an exception inserts nothing and is only logged.                  *)
Promote ==
  /\ daily' = [s \in Symbols |-> IF daily[s] = None THEN last[s] ELSE daily[s]]
  /\ report' = [report EXCEPT !["daily"] = "saved"]
  /\ UNCHANGED faults
PromoteFails ==
  /\ Fault
  /\ report' = [report EXCEPT !["daily"] = "failed"]
  /\ UNCHANGED daily

EndOfDay ==
  /\ AfterSession /\ ~eodSent /\ clock >= EodReport
  /\ Promote \/ PromoteFails
  /\ eodSent' = TRUE /\ lastPass' = None /\ slept' = TRUE
  /\ UNCHANGED <<calendar, last, term, published, saved, pass, caches, resetDay, pending>>

-----------------------------------------------------------------------------
(* The exchange, the process manager and the clock.                           *)

Crash ==
  /\ Up /\ Fault
  /\ pc' = "down" /\ queue' = {} /\ label' = None /\ pending' = {}
  /\ UNCHANGED <<calendar, rows, files, caches, markers, slept>>

StartMutant ==
  /\ pc = "down" /\ pc' = "loop"
  /\ expiry' = NoRow /\ shared' = None /\ lists' = [c \in Calendars |-> None]
  /\ answers' = NoRow /\ scannerDay' = day
  /\ lastPass' = None /\ eodSent' = FALSE /\ resetDay' = day
  /\ slept' = FALSE
  /\ UNCHANGED <<calendar, rows, files, queue, label, pending, faults>>
Start ==
  /\ pc = "down" /\ pc' = "loop"
  /\ expiry' = NoRow /\ shared' = None /\ lists' = [c \in Calendars |-> None]
  /\ answers' = NoRow /\ scannerDay' = day
  /\ lastPass' = None /\ eodSent' = FALSE /\ resetDay' = day
  /\ pending' = {t \in CatchUp : t <= clock}
  /\ slept' = FALSE
  /\ UNCHANGED <<calendar, rows, files, queue, label, faults>>

(* The loop wakes before the clock reaches its next time; a pass takes as     *)
(* long as it takes, but ends on its day.                                     *)
MayWait == pc = "down" \/ (Loop /\ slept) \/ pc \in {"warmup", "intraday", "term"}

TimePasses ==
  /\ MayWait /\ clock < LastTime
  /\ clock' = NextTime(clock)
  /\ pending' = IF Up THEN pending \cup ({clock'} \cap Scheduled) ELSE {}
  /\ slept' = FALSE
  /\ UNCHANGED <<day, weekend, rows, files, pass, caches, markers, faults>>

Midnight ==
  /\ clock = LastTime /\ day < MaxDay
  /\ pc = "down" \/ (Loop /\ pending = {} /\ slept)
  /\ day' = day + 1 /\ clock' = 0 /\ weekend' \in BOOLEAN
  /\ last' = NoRow /\ daily' = NoRow /\ term' = {}
  /\ published' \in Publications
  /\ saved' = {} /\ report' = [j \in Reports |-> None]
  /\ slept' = FALSE
  /\ UNCHANGED <<pass, caches, markers, pending, faults>>

Process ==
  \/ \E t \in Scheduled : RunDownload(t) \/ StartTerm(t)
  \/ \E s \in Symbols : WarmupVisits(s) \/ IntradayVisits(s) \/ TermVisits(s)
  \/ WarmupEnds \/ IntradayEnds \/ TermEnds
  \/ DailyReset \/ IdleMorning \/ StartWarmup \/ StartIntraday
  \/ BetweenPasses \/ IdleEvening \/ EndOfDay

Environment ==
  \/ Crash \/ Start \/ TimePasses \/ Midnight

Next == Process \/ Environment

Spec == Init /\ [][Next]_vars

-----------------------------------------------------------------------------
(* No sweep of a day asks for a contract that lapsed before it, although the  *)
(* first sweep still works from the list the broker gave the day before       *)
(* (_resolve_expiry, run_warmup_pass, _ensure_runtime_state; review §2.3).    *)
LiveContracts ==
  resetDay = day =>
    /\ \A s \in Symbols : expiry[s] \in Listed \cup {None}
    /\ shared \in Listed \cup {None}
    /\ \A c \in Calendars : lists[c] # None => lists[c] \subseteq Listed

TypeOK ==
  /\ day \in 1..MaxDay /\ clock \in Times /\ weekend \in BOOLEAN
  /\ last \in [Symbols -> Times \cup {None}] /\ daily \in [Symbols -> Times \cup {None}]
  /\ term \subseteq Symbols \X Expiries
  /\ published \in [Files -> Times \cup {None}] /\ saved \subseteq Files
  /\ report \in [Reports -> {"saved", "not ready", "failed", None}]
  /\ pc \in {"loop", "warmup", "intraday", "term", "down"}
  /\ queue \subseteq Symbols /\ label \in Times \cup {None}
  /\ answers \in [Symbols -> (SUBSET Expiries) \cup {None}] /\ scannerDay \in 1..day
  /\ lastPass \in Times \cup {None} /\ eodSent \in BOOLEAN /\ resetDay \in 1..day
  /\ pending \subseteq Times /\ slept \in BOOLEAN /\ faults \in 0..MaxFaults

(* A daily row is the copy of the last snapshot its symbol gets that day,     *)
(* whatever restarts, late passes and repeated reports happen: the history    *)
(* behind the percentile is one of closing volatilities, not opening ones     *)
(* (promote_daily_from_last_intraday).                                        *)
DailyIsLast == \A s \in Symbols : daily[s] # None => daily[s] = last[s]

(* When the date changes under a running collector, every symbol seen that    *)
(* day has its daily row, and every file published by the last time its       *)
(* download is scheduled is in the database, unless the collector's last word *)
(* on it was a failure: restarts are caught up and late files are retried.    *)
Promoted == \A s \in Symbols : last[s] # None => daily[s] # None
Downloaded(j) ==
  \A f \in FilesOf[j] :
    published[f] # None /\ published[f] <= LastRun[j] => f \in saved
DayIsComplete ==
  [][day' # day /\ Up =>
       /\ Promoted \/ report["daily"] = "failed"
       /\ \A j \in Downloads : Downloaded(j) \/ report[j] = "failed"]_vars
=============================================================================
