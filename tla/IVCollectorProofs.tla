-------------------------- MODULE IVCollectorProofs --------------------------
(* Proofs about the IV collector, for every set of symbols, every calendar of *)
(* expiries, and every way the files of a day may appear.                     *)
EXTENDS IVCollector, FiniteSetTheorems, WellFoundedInduction, TLAPS

(* What is kept in memory has the type of what it is copied from.             *)
CacheType ==
  /\ expiry \in [Symbols -> Expiries \cup {None}] /\ shared \in Expiries \cup {None}
  /\ lists \in [Calendars -> (SUBSET Expiries) \cup {None}]

(* A list the scanners share is the one of a day since the last emptying, and *)
(* the scanner is at most a day old until the first job of the day runs.      *)
AnswersInv ==
  \A s \in Symbols : answers[s] # None =>
    \E d \in scannerDay..day : answers[s] = {e \in Expiries : e >= d}
ScannerInv ==
  Up => /\ day - 1 <= scannerDay
        /\ scannerDay # day => pc \in {"loop", "warmup"} /\ (clock < 950 \/ 950 \in pending)

(* A new day finds the loop asleep, and the markers are reset before it does  *)
(* anything else.                                                             *)
ResetInv ==
  Up /\ resetDay # day => Loop /\ clock = 0 /\ pending = {} /\ ~slept

(* Nothing is collected once a daily row exists, nor on a weekend.            *)
DailyInv ==
  \A s \in Symbols : daily[s] # None => daily[s] = last[s] /\ clock >= EodReport
WeekendInv ==
  weekend => last = NoRow /\ pc \notin {"warmup", "intraday"}

(* The loop does not sleep in the evening before it has promoted the rows.    *)
SleptInv ==
  Up /\ slept /\ ~weekend /\ clock >= EodReport => eodSent
EodInv ==
  Up /\ eodSent /\ resetDay = day =>
    clock >= EodReport /\ (Promoted \/ report["daily"] = "failed")

(* From its last time on a download has what was published, or has failed,    *)
(* or is still due.                                                           *)
DownloadInv ==
  Up => \A j \in Downloads : clock >= LastRun[j] =>
    \/ Downloaded(j) \/ report[j] = "failed"
    \/ \E t \in pending : Job(t) = j

IInv == /\ TypeOK /\ CacheType
        /\ AnswersInv /\ ScannerInv /\ ResetInv /\ LiveContracts
        /\ DailyInv /\ WeekendInv /\ SleptInv /\ EodInv /\ DownloadInv

-----------------------------------------------------------------------------
(* Least elements: of a list of expiries, and of the times still to come.     *)

LEMMA LeastExists ==
  ASSUME NEW S, S \subseteq Nat, S # {}
  PROVE  \E x \in S : \A y \in S : x <= y
<1>1. \E x \in S : \A y \in S : ~(<<y, x>> \in OpToRel(<, Nat))
  BY NatLessThanWellFounded, WFMin
<1>2. \A x, y \in S : y < x => <<y, x>> \in OpToRel(<, Nat)
  BY Zenon DEF OpToRel
<1>3. \E x \in S : \A y \in S : ~(y < x)
  BY <1>1, <1>2, Zenon
<1> QED
  BY <1>3

LEMMA EarliestIsLeast ==
  ASSUME NEW S, S \subseteq Nat, S # {}
  PROVE  Earliest(S) \in S /\ \A y \in S : Earliest(S) <= y
BY LeastExists DEF Earliest

LEMMA TimesAreNaturals == Times \subseteq Nat /\ Scheduled \subseteq Times /\ CatchUp \subseteq Times
BY DEF Times, Scheduled, CatchUp, WarmupStart, WarmupEnd, IntradayEnd, EodReport

LEMMA NextTimeIsNext ==
  ASSUME NEW t \in Times, t < LastTime
  PROVE  /\ NextTime(t) \in Times /\ NextTime(t) > t
         /\ \A v \in Times : v > t => NextTime(t) <= v
<1> DEFINE later == {u \in Times : u > t}
<1>1. later \subseteq Nat /\ LastTime \in later
  BY DEF Times, LastTime, WarmupStart, WarmupEnd, IntradayEnd, EodReport
<1>2. \E u \in later : \A v \in later : u <= v
  <2> HIDE DEF later
  <2> QED
    BY <1>1, LeastExists
<1>3. \E u \in Times : u > t /\ \A v \in Times : v > t => u <= v
  BY <1>2
<1> QED
  BY <1>3 DEF NextTime

(* A sweep tracks a live contract although the list may be a day old: only    *)
(* the first of a list of the day before can have lapsed.                     *)
LEMMA ChosenIsListed ==
  ASSUME NEW s, day \in 1..MaxDay, NEW d \in Nat, d \in {day - 1, day},
         ExpiryList(s) = {e \in Expiries : e >= d}
  PROVE  Chosen(s) \in Listed
<1> DEFINE list == ExpiryList(s)
           far == {e \in list : TradingDays(e) >= MinDays}
           later == list \ {Earliest(list)}
<1>1. PICK e \in Expiries : e >= MaxDay
  BY SomethingIsListed
<1>2. /\ Expiries \subseteq Nat /\ day \in Nat /\ MaxDay \in Nat /\ MinDays \in Nat /\ MinDays > 0
      /\ day <= MaxDay
  BY ExpiriesAreDays, BoundsAreNaturals
<1>3. /\ list \subseteq Nat /\ e \in list /\ list \subseteq Expiries
      /\ \A f \in list : f >= day \/ f = day - 1
  <2>1. e \in Nat /\ e >= d
    BY <1>1, <1>2
  <2>2. list = {f \in Expiries : f >= d}
    OBVIOUS
  <2> HIDE DEF list
  <2>3. list \subseteq Expiries /\ e \in list
    BY <2>1, <2>2
  <2>4. ASSUME NEW f \in list PROVE f >= day \/ f = day - 1
    <3>1. f \in Nat /\ f >= d
      BY <1>2, <2>2
    <3> QED
      BY <1>2, <3>1
  <2> QED
    BY <1>2, <2>3, <2>4
<1>4. Earliest(list) \in list /\ \A y \in list : Earliest(list) <= y
  <2> HIDE DEF list
  <2> QED
    BY <1>3, EarliestIsLeast
<1> HIDE DEF list
<1>5. CASE far # {}
  <2>1. far \subseteq Nat
    BY <1>3
  <2>2. Earliest(far) \in far
    <3> HIDE DEF far
    <3> QED
      BY <1>5, <2>1, EarliestIsLeast
  <2>3. \A f \in far : f \in Listed
    BY <1>2, <1>3 DEF TradingDays, Listed
  <2>4. Chosen(s) = Earliest(far)
    BY <1>5 DEF Chosen, list
  <2> QED
    BY <2>2, <2>3, <2>4
<1>6. CASE far = {} /\ later # {}
  <2>1. later \subseteq Nat
    BY <1>3
  <2>2. Earliest(later) \in later
    <3> HIDE DEF later
    <3> QED
      BY <1>6, <2>1, EarliestIsLeast
  <2>3. ASSUME NEW f \in later PROVE f \in Listed
    <3>1. f \in list /\ f # Earliest(list) /\ Earliest(list) \in list
      BY <1>4
    <3>2. f \in Nat /\ f \in Expiries /\ Earliest(list) <= f /\ Earliest(list) \in Nat
      BY <1>3, <1>4, <3>1
    <3>3. (f >= day \/ f = day - 1) /\ (Earliest(list) >= day \/ Earliest(list) = day - 1)
      BY <1>3, <3>1
    <3>4. f >= day
      BY <1>2, <3>1, <3>2, <3>3
    <3> QED
      BY <3>2, <3>4 DEF Listed
  <2>4. Chosen(s) = Earliest(later)
    BY <1>6 DEF Chosen, list
  <2> QED
    BY <2>2, <2>3, <2>4
<1>7. CASE far = {} /\ later = {}
  <2>1. Earliest(list) = e
    BY <1>3, <1>7
  <2>2. Chosen(s) = e
    BY <1>7, <2>1 DEF Chosen, list
  <2> QED
    BY <1>1, <1>2, <2>2 DEF Listed
<1> QED
  BY <1>5, <1>6, <1>7

-----------------------------------------------------------------------------
(* The visits of a pass.                                                      *)

Contract == Expiries \cup {None}
AnswersType == [Symbols -> (SUBSET Expiries) \cup {None}]

(* A sweep caches only live contracts, whatever the age of the list.          *)
LEMMA ResolvedIsListed ==
  ASSUME IInv, Up, NEW s \in Symbols
  PROVE  /\ Chosen(s) \in Listed /\ ExpiryList(s) \in SUBSET Expiries
         /\ scannerDay = day => ExpiryList(s) = Listed
         /\ \E d \in scannerDay..day : ExpiryList(s) = {e \in Expiries : e >= d}
<1>1. /\ day \in 1..MaxDay /\ scannerDay \in 1..day /\ MaxDay \in Nat
      /\ day - 1 <= scannerDay
  BY BoundsAreNaturals DEF IInv, TypeOK, ScannerInv
<1>2. PICK d \in scannerDay..day : ExpiryList(s) = {e \in Expiries : e >= d}
  <2>1. CASE answers[s] = None
    BY <1>1, <2>1 DEF ExpiryList, Listed
  <2>2. CASE answers[s] # None
    BY <2>2 DEF IInv, AnswersInv, ExpiryList
  <2> QED
    BY <2>1, <2>2
<1>3. d \in Nat /\ d \in {day - 1, day} /\ (scannerDay = day => d = day)
  BY <1>1, <1>2
<1>4. Chosen(s) \in Listed
  BY <1>1, <1>2, <1>3, ChosenIsListed
<1> QED
  BY <1>2, <1>3, <1>4 DEF Listed

(* What a visit may do to what the sweeps share.                              *)
Visited(s) ==
  /\ expiry' \in {expiry, [expiry EXCEPT ![s] = Chosen(s)]}
  /\ shared' \in {shared, Chosen(s)}
  /\ answers' \in {answers, [answers EXCEPT ![s] = ExpiryList(s)]}
  /\ faults' = faults \/ Fault

LEMMA CollectEffect ==
  ASSUME NEW s \in Symbols, NEW l, CollectOne(s, l)
  PROVE  /\ Visited(s) /\ UNCHANGED <<daily, term>>
         /\ last' \in {last, [last EXCEPT ![s] = l]}
<1>1. ASSUME Fetched(s, l)
      PROVE  /\ UNCHANGED <<daily, term>> /\ (faults' = faults \/ Fault)
             /\ last' \in {last, [last EXCEPT ![s] = l]}
  BY <1>1 DEF Fetched, SaveSnapshot, rows
<1>2. CASE UNCHANGED <<expiry, shared, answers>> /\ Fetched(s, l)
  BY <1>1, <1>2 DEF Visited
<1>3. CASE Resolve(s) /\ Fetched(s, l)
  BY <1>1, <1>3 DEF Resolve, Answered, Visited
<1>4. CASE Unresolved(s) /\ UNCHANGED rows
  BY <1>4 DEF Unresolved, NoAnswer, Answered, rows, Visited
<1> QED
  BY <1>2, <1>3, <1>4 DEF CollectOne

LEMMA TermEffect ==
  ASSUME NEW s \in Symbols, TermOne(s)
  PROVE  /\ Visited(s) /\ UNCHANGED <<last, daily>>
         /\ \E all \in {ExpiryList(s), {}, lists[Calendar(s)]} \ {None} :
              /\ lists' = [lists EXCEPT ![Calendar(s)] = all]
              /\ term' \subseteq term \cup {<<s, e>> : e \in all}
<1>1. PICK all \in {ExpiryList(s), {}, lists[Calendar(s)]} \ {None} :
    \/ /\ expiry[s] # None /\ UNCHANGED <<expiry, shared>>
       /\ AllExpiries(s, all) /\ SaveTerm(s, all \ {expiry[s]})
    \/ /\ expiry[s] = None /\ Resolve(s)
       /\ all = (IF lists[Calendar(s)] = None THEN ExpiryList(s) ELSE lists[Calendar(s)])
       /\ lists' = [lists EXCEPT ![Calendar(s)] = all]
       /\ SaveTerm(s, all \ {Chosen(s)})
    \/ /\ expiry[s] = None /\ UNCHANGED <<expiry, shared>>
       /\ IF ExpiryList(s) = {} THEN UNCHANGED faults ELSE answers[s] = None /\ Fault
       /\ AllExpiries(s, all)
       /\ UNCHANGED <<last, daily>>
       /\ term' = term \cup {<<s, e>> : e \in all}
  BY DEF TermOne
<1>2. ASSUME NEW some, SaveTerm(s, some)
      PROVE  /\ UNCHANGED <<last, daily>> /\ (faults' = faults \/ Fault)
             /\ term' \subseteq term \cup {<<s, e>> : e \in some}
  BY <1>2 DEF SaveTerm
<1>3. ASSUME AllExpiries(s, all)
      PROVE  /\ lists' = [lists EXCEPT ![Calendar(s)] = all]
             /\ answers' \in {answers, [answers EXCEPT ![s] = ExpiryList(s)]}
  BY <1>3 DEF AllExpiries, Answered
<1>4. CASE expiry[s] # None /\ UNCHANGED <<expiry, shared>>
           /\ AllExpiries(s, all) /\ SaveTerm(s, all \ {expiry[s]})
  <2>1. term' \subseteq term \cup {<<s, e>> : e \in all \ {expiry[s]}}
    BY <1>2, <1>4
  <2> QED
    BY <1>2, <1>3, <1>4, <2>1 DEF Visited
<1>5. CASE Resolve(s) /\ lists' = [lists EXCEPT ![Calendar(s)] = all]
           /\ SaveTerm(s, all \ {Chosen(s)})
  <2>1. term' \subseteq term \cup {<<s, e>> : e \in all \ {Chosen(s)}}
    BY <1>2, <1>5
  <2> QED
    BY <1>2, <1>5, <2>1 DEF Visited, Resolve, Answered
<1>6. CASE UNCHANGED <<expiry, shared>>
       /\ (IF ExpiryList(s) = {} THEN UNCHANGED faults ELSE answers[s] = None /\ Fault)
       /\ AllExpiries(s, all)
       /\ UNCHANGED <<last, daily>>
       /\ term' = term \cup {<<s, e>> : e \in all}
  BY <1>3, <1>6 DEF Visited
<1> QED
  BY <1>1, <1>4, <1>5, <1>6

PassVisits(s) == WarmupVisits(s) \/ IntradayVisits(s) \/ TermVisits(s)

(* A visit of any pass: a live contract, a list of the day, an early row.     *)
LEMMA VisitEffect ==
  ASSUME IInv, NEW s \in Symbols, PassVisits(s)
  PROVE  /\ UNCHANGED <<day, clock, weekend, daily, published, saved, report, pc, label,
                        scannerDay, lastPass, eodSent, resetDay, pending, slept>>
         /\ Up /\ ~Loop /\ resetDay = day /\ queue' \subseteq Symbols
         /\ faults' \in 0..MaxFaults
         /\ last' = last \/ (~weekend /\ clock < IntradayEnd)
         /\ last' \in [Symbols -> Times \cup {None}]
         /\ expiry' \in [Symbols -> Contract] /\ shared' \in Contract
         /\ answers' \in AnswersType
         /\ \A t \in Symbols : answers'[t] = answers[t] \/ answers'[t] = ExpiryList(t)
         /\ \A t \in Symbols : expiry'[t] \in Listed \cup {None}
         /\ shared' \in Listed \cup {None}
<1>1. /\ expiry \in [Symbols -> Contract] /\ shared \in Contract /\ answers \in AnswersType
      /\ last \in [Symbols -> Times \cup {None}] /\ queue \subseteq Symbols
      /\ clock \in Times /\ label \in Times \cup {None}
      /\ faults \in 0..MaxFaults /\ MaxFaults \in Nat
  BY BoundsAreNaturals DEF IInv, TypeOK, CacheType, Contract, AnswersType
<1>2. Up /\ ~Loop /\ resetDay = day
  BY DEF PassVisits, WarmupVisits, IntradayVisits, TermVisits, Up, Loop, IInv, ResetInv
<1>3. /\ \A t \in Symbols : expiry[t] \in Listed \cup {None}
      /\ shared \in Listed \cup {None}
  BY <1>2 DEF IInv, LiveContracts
<1>4. Chosen(s) \in Listed /\ ExpiryList(s) \in SUBSET Expiries /\ Chosen(s) \in Contract
  BY <1>2, ResolvedIsListed DEF Contract, Listed
<1>5. UNCHANGED <<day, clock, weekend, daily, published, saved, report, pc, label,
                  scannerDay, lastPass, eodSent, resetDay, pending, slept>>
  BY CollectEffect, TermEffect
     DEF PassVisits, WarmupVisits, IntradayVisits, TermVisits, calendar, files, markers
<1>6. Visited(s) /\ queue' \subseteq Symbols
  BY <1>1, CollectEffect, TermEffect DEF PassVisits, WarmupVisits, IntradayVisits, TermVisits, Visit
<1>7. \/ last' = last
      \/ /\ ~weekend /\ clock < IntradayEnd
         /\ last' \in {[last EXCEPT ![s] = clock], [last EXCEPT ![s] = label]}
  <2>1. CASE WarmupVisits(s) \/ IntradayVisits(s)
    <3>1. ~weekend /\ clock < IntradayEnd
      BY <1>1, <2>1 DEF WarmupVisits, IntradayVisits, IInv, WeekendInv, Times,
                        IntradayEnd, WarmupEnd, WarmupStart, EodReport
    <3>2. last' \in {last, [last EXCEPT ![s] = clock], [last EXCEPT ![s] = label]}
      BY <2>1, CollectEffect DEF WarmupVisits, IntradayVisits
    <3> QED
      BY <3>1, <3>2
  <2>2. CASE TermVisits(s)
    BY <2>2, TermEffect DEF TermVisits
  <2> QED
    BY <2>1, <2>2 DEF PassVisits
<1>8. last' \in [Symbols -> Times \cup {None}]
  BY <1>1, <1>7
<1>9. faults' \in 0..MaxFaults
  BY <1>1, <1>6 DEF Visited, Fault
<1>10. expiry' \in [Symbols -> Contract] /\ shared' \in Contract /\ answers' \in AnswersType
  BY <1>1, <1>4, <1>6 DEF Visited, AnswersType
<1>11. /\ \A t \in Symbols : answers'[t] = answers[t] \/ answers'[t] = ExpiryList(t)
       /\ \A t \in Symbols : expiry'[t] \in Listed \cup {None}
       /\ shared' \in Listed \cup {None}
  BY <1>1, <1>3, <1>4, <1>6 DEF Visited, AnswersType
<1> QED
  BY <1>2, <1>5, <1>6, <1>7, <1>8, <1>9, <1>10, <1>11

(* The lists and the term structure hold live contracts of the calendars.     *)
LEMMA VisitedLists ==
  ASSUME IInv, NEW s \in Symbols, PassVisits(s)
  PROVE  /\ lists' \in [Calendars -> (SUBSET Expiries) \cup {None}]
         /\ term' \subseteq Symbols \X Expiries
         /\ \A c \in Calendars : lists'[c] # None => lists'[c] \subseteq Listed
<1>1. /\ lists \in [Calendars -> (SUBSET Expiries) \cup {None}] /\ term \subseteq Symbols \X Expiries
  BY DEF IInv, TypeOK, CacheType
<1>2. Up /\ resetDay = day
  BY VisitEffect
<1>3. \A c \in Calendars : lists[c] # None => lists[c] \subseteq Listed
  BY <1>2 DEF IInv, LiveContracts
<1>4. Calendar(s) \in Calendars
  BY DEF Calendar, Calendars, Symbols
<1>5. CASE WarmupVisits(s) \/ IntradayVisits(s)
  <2>1. lists' = lists /\ term' = term
    BY <1>5, CollectEffect DEF WarmupVisits, IntradayVisits
  <2> QED
    BY <1>1, <1>3, <2>1
<1>6. CASE TermVisits(s)
  <2>1. ExpiryList(s) = Listed /\ Listed \in SUBSET Expiries
    BY <1>2, <1>6, ResolvedIsListed DEF TermVisits, IInv, ScannerInv, Listed
  <2>2. PICK all \in {ExpiryList(s), {}, lists[Calendar(s)]} \ {None} :
              /\ lists' = [lists EXCEPT ![Calendar(s)] = all]
              /\ term' \subseteq term \cup {<<s, e>> : e \in all}
    BY <1>6, TermEffect DEF TermVisits
  <2>3. all \subseteq Listed /\ all \in SUBSET Expiries
    BY <1>1, <1>3, <1>4, <2>1, <2>2
  <2>4. term' \subseteq Symbols \X Expiries
    BY <1>1, <2>2, <2>3
  <2>5. lists' \in [Calendars -> (SUBSET Expiries) \cup {None}]
    BY <1>1, <1>4, <2>2, <2>3
  <2>6. \A c \in Calendars : lists'[c] # None => lists'[c] \subseteq Listed
    BY <1>1, <1>3, <1>4, <2>2, <2>3
  <2> QED
    BY <2>4, <2>5, <2>6
<1> QED
  BY <1>5, <1>6 DEF PassVisits

-----------------------------------------------------------------------------
(* The other steps, each by what it changes.                                  *)

Ends == WarmupEnds \/ IntradayEnds \/ TermEnds
Starts == StartWarmup \/ StartIntraday \/ \E t \in Scheduled : StartTerm(t)
Idles == IdleMorning \/ BetweenPasses \/ IdleEvening
Runs == \E t \in Scheduled : RunDownload(t)

LEMMA StepCases ==
  ASSUME [Next]_vars
  PROVE  \/ \E s \in Symbols : PassVisits(s)
         \/ Ends \/ Starts \/ Idles \/ Runs \/ DailyReset \/ EndOfDay
         \/ Crash \/ Start \/ TimePasses \/ Midnight \/ UNCHANGED vars
BY DEF Next, Process, Environment, PassVisits, Ends, Starts, Idles, Runs

(* The calendar moves with the clock alone.                                   *)
LEMMA CalendarEffect ==
  ASSUME IInv, [Next]_vars
  PROVE  /\ day' \in 1..MaxDay /\ clock' \in Times /\ weekend' \in BOOLEAN
         /\ \/ UNCHANGED <<day, clock, weekend>>
            \/ TimePasses /\ clock' = NextTime(clock) /\ UNCHANGED <<day, weekend>>
            \/ Midnight /\ clock' = 0 /\ day' = day + 1
<1>1. /\ day \in 1..MaxDay /\ clock \in Times /\ weekend \in BOOLEAN /\ MaxDay \in Nat
  BY BoundsAreNaturals DEF IInv, TypeOK
<1>2. CASE TimePasses
  <2>1. NextTime(clock) \in Times
    BY <1>1, <1>2, NextTimeIsNext DEF TimePasses
  <2> QED
    BY <1>1, <1>2, <2>1, Zenon DEF TimePasses
<1>3. CASE Midnight
  <2>1. day' \in 1..MaxDay /\ clock' \in Times
    BY <1>1, <1>3 DEF Midnight, Times
  <2> QED
    BY <1>3, <2>1, Zenon DEF Midnight
<1>4. CASE Ends \/ Starts \/ Idles \/ Runs \/ DailyReset \/ EndOfDay \/ Crash \/ Start \/ UNCHANGED vars
  <2>1. UNCHANGED <<day, clock, weekend>>
    BY <1>4 DEF Ends, WarmupEnds, IntradayEnds, TermEnds, PassEnds, Starts, StartWarmup, StartIntraday,
         StartTerm, Idles, IdleMorning, BetweenPasses, IdleEvening, Sleep, Runs, RunDownload,
         DailyReset, EndOfDay, Crash, Start, vars, calendar
  <2> QED
    BY <1>1, <2>1, Zenon
<1>5. ASSUME NEW s \in Symbols, PassVisits(s) PROVE UNCHANGED <<day, clock, weekend>>
  BY <1>5, VisitEffect
<1> QED
  BY <1>1, <1>2, <1>3, <1>4, <1>5, StepCases, Zenon

LEMMA RowsEffect ==
  ASSUME IInv, [Next]_vars
  PROVE  /\ last' \in [Symbols -> Times \cup {None}] /\ daily' \in [Symbols -> Times \cup {None}]
         /\ \/ UNCHANGED <<last, daily>>
            \/ daily' = daily /\ ~weekend /\ clock < IntradayEnd /\ UNCHANGED <<clock, weekend>>
            \/ EndOfDay /\ Promote /\ last' = last
            \/ last' = NoRow /\ daily' = NoRow /\ Midnight
<1>1. last \in [Symbols -> Times \cup {None}] /\ daily \in [Symbols -> Times \cup {None}]
  BY DEF IInv, TypeOK
<1>2. ASSUME NEW s \in Symbols, PassVisits(s)
      PROVE  /\ last' \in [Symbols -> Times \cup {None}] /\ daily' = daily
             /\ UNCHANGED last \/ (~weekend /\ clock < IntradayEnd /\ UNCHANGED <<clock, weekend>>)
  BY <1>2, VisitEffect
<1>3. CASE EndOfDay
  <2>1. last' = last /\ (Promote \/ daily' = daily)
    BY <1>3 DEF EndOfDay, PromoteFails
  <2>2. daily' \in [Symbols -> Times \cup {None}]
    BY <1>1, <2>1 DEF Promote
  <2> QED
    BY <1>1, <1>3, <2>1, <2>2
<1>4. CASE Midnight
  BY <1>4 DEF Midnight, NoRow
<1>5. CASE Ends \/ Starts \/ Idles \/ Runs \/ DailyReset \/ Crash \/ Start \/ TimePasses \/ UNCHANGED vars
  <2>1. UNCHANGED <<last, daily>>
    BY <1>5 DEF Ends, WarmupEnds, IntradayEnds, TermEnds, PassEnds, Starts, StartWarmup, StartIntraday,
         StartTerm, Idles, IdleMorning, BetweenPasses, IdleEvening, Sleep, Runs, RunDownload,
         DailyReset, Crash, Start, TimePasses, vars, rows
  <2> QED
    BY <1>1, <2>1
<1> QED
  BY <1>1, <1>2, <1>3, <1>4, <1>5, StepCases

Outcomes == {"saved", "not ready", "failed", None}

LEMMA FilesEffect ==
  ASSUME IInv, [Next]_vars
  PROVE  /\ published' \in [Files -> Times \cup {None}] /\ saved' \subseteq Files
         /\ report' \in [Reports -> Outcomes]
<1>1. /\ published \in [Files -> Times \cup {None}] /\ saved \subseteq Files
      /\ report \in [Reports -> Outcomes]
  BY DEF IInv, TypeOK, Outcomes
<1>2. \A j \in Downloads : Available(j) \subseteq Files /\ j \in Reports
  BY DEF Available, FilesOf, Files, Downloads, Reports
<1>3. CASE Runs
  <2>1. PICK t \in Scheduled : RunDownload(t)
    BY <1>3 DEF Runs
  <2>2. /\ published' = published
        /\ saved' \in {saved, saved \cup Available(Job(t))}
        /\ \/ report' = report
           \/ \E outcome \in Outcomes : report' = [report EXCEPT ![Job(t)] = outcome]
    BY <2>1 DEF RunDownload, files, Download, DownloadFails, Outcomes
  <2> QED
    BY <1>1, <1>2, <2>1, <2>2 DEF RunDownload
<1>4. CASE EndOfDay
  <2>1. /\ UNCHANGED <<published, saved>>
        /\ \E outcome \in Outcomes : report' = [report EXCEPT !["daily"] = outcome]
    BY <1>4 DEF EndOfDay, Promote, PromoteFails, Outcomes
  <2> QED
    BY <1>1, <2>1
<1>5. CASE Midnight
  BY <1>5, FilesHaveTimes DEF Midnight, Outcomes
<1>6. CASE Ends \/ Starts \/ Idles \/ DailyReset \/ Crash \/ Start \/ TimePasses \/ UNCHANGED vars
  <2>1. UNCHANGED <<published, saved, report>>
    BY <1>6 DEF Ends, WarmupEnds, IntradayEnds, TermEnds, PassEnds, Starts, StartWarmup, StartIntraday,
         StartTerm, Idles, IdleMorning, BetweenPasses, IdleEvening, Sleep, DailyReset, Crash, Start,
         TimePasses, vars, files
  <2> QED
    BY <1>1, <2>1
<1>7. ASSUME NEW s \in Symbols, PassVisits(s) PROVE UNCHANGED <<published, saved, report>>
  BY <1>7, VisitEffect
<1> QED
  BY <1>1, <1>3, <1>4, <1>5, <1>6, <1>7, StepCases

Places == {"loop", "warmup", "intraday", "term", "down"}

LEMMA PassEffect ==
  ASSUME IInv, [Next]_vars
  PROVE  /\ pc' \in Places /\ queue' \subseteq Symbols /\ label' \in Times \cup {None}
         /\ faults' \in 0..MaxFaults
<1>1. /\ pc \in Places /\ queue \subseteq Symbols /\ label \in Times \cup {None}
      /\ faults \in 0..MaxFaults /\ clock \in Times /\ MaxFaults \in Nat
  BY BoundsAreNaturals DEF IInv, TypeOK, Places
<1>2. CASE Ends \/ Starts \/ Idles \/ DailyReset \/ Start \/ TimePasses \/ Midnight \/ UNCHANGED vars
  <2>1. /\ \/ UNCHANGED <<pc, queue, label>>
           \/ pc' \in Places /\ queue' \in {queue, {}, Symbols} /\ label' \in {label, None, clock}
        /\ faults' = faults
    BY <1>2 DEF Ends, WarmupEnds, IntradayEnds, TermEnds, PassEnds, Starts, StartWarmup, StartIntraday,
         StartTerm, Idles, IdleMorning, BetweenPasses, IdleEvening, Sleep, DailyReset, Start,
         TimePasses, Midnight, vars, pass, Places
  <2> QED
    BY <1>1, <2>1
<1>3. CASE Runs \/ EndOfDay \/ Crash
  <2>1. /\ \/ UNCHANGED <<pc, queue, label>>
           \/ pc' \in Places /\ queue' = {} /\ label' = None
        /\ faults' = faults \/ Fault
    BY <1>3 DEF Runs, RunDownload, Download, DownloadFails, EndOfDay, Promote, PromoteFails, Crash,
                pass, Places
  <2> QED
    BY <1>1, <2>1 DEF Fault
<1>4. ASSUME NEW s \in Symbols, PassVisits(s)
      PROVE  /\ UNCHANGED <<pc, label>> /\ queue' \subseteq Symbols /\ faults' \in 0..MaxFaults
  BY <1>4, VisitEffect
<1> QED
  BY <1>1, <1>2, <1>3, <1>4, StepCases

LEMMA MarkersEffect ==
  ASSUME IInv, [Next]_vars
  PROVE  /\ lastPass' \in Times \cup {None} /\ resetDay' \in 1..day'
         /\ eodSent' \in BOOLEAN /\ slept' \in BOOLEAN
         /\ pending' \subseteq Times
<1>1. /\ lastPass \in Times \cup {None} /\ resetDay \in 1..day /\ clock \in Times
      /\ eodSent \in BOOLEAN /\ slept \in BOOLEAN /\ pending \subseteq Times
      /\ day \in 1..MaxDay /\ MaxDay \in Nat
  BY BoundsAreNaturals DEF IInv, TypeOK
<1>2. \/ UNCHANGED <<day, resetDay>>
      \/ day' = day /\ resetDay' = day
      \/ day' = day + 1 /\ resetDay' = resetDay
      \/ \E s \in Symbols : PassVisits(s)
  BY StepCases DEF Ends, WarmupEnds, IntradayEnds, TermEnds, PassEnds, Starts, StartWarmup, StartIntraday,
         StartTerm, Idles, IdleMorning, BetweenPasses, IdleEvening, Sleep, Runs, RunDownload, DailyReset,
         EndOfDay, Crash, Start, TimePasses, Midnight, vars, markers, calendar
<1>3. /\ lastPass' = lastPass \/ lastPass' \in {None, clock}
      /\ eodSent' = eodSent \/ eodSent' = TRUE \/ eodSent' = FALSE
      /\ slept' = slept \/ slept' = TRUE \/ slept' = FALSE
  BY StepCases, VisitEffect
     DEF Ends, WarmupEnds, IntradayEnds, TermEnds, PassEnds, Starts, StartWarmup, StartIntraday,
         StartTerm, Idles, IdleMorning, BetweenPasses, IdleEvening, Sleep, Runs, RunDownload, DailyReset,
         EndOfDay, Crash, Start, TimePasses, Midnight, vars, markers
<1>4. \/ pending' \subseteq pending
      \/ pending' \subseteq pending \cup Scheduled
      \/ pending' \subseteq CatchUp
      \/ \E s \in Symbols : PassVisits(s)
  BY StepCases
     DEF Ends, WarmupEnds, IntradayEnds, TermEnds, PassEnds, Starts, StartWarmup, StartIntraday,
         StartTerm, Idles, IdleMorning, BetweenPasses, IdleEvening, Sleep, Runs, RunDownload, DailyReset,
         EndOfDay, Crash, Start, TimePasses, Midnight, vars
<1>5. Scheduled \subseteq Times /\ CatchUp \subseteq Times
  BY DEF Scheduled, CatchUp, Times, WarmupStart, WarmupEnd, IntradayEnd, EodReport
<1>6. resetDay' \in 1..day'
  BY <1>1, <1>2, VisitEffect
<1>7. lastPass' \in Times \cup {None} /\ pending' \subseteq Times
  BY <1>1, <1>3, <1>4, <1>5, VisitEffect
<1> QED
  BY <1>1, <1>3, <1>6, <1>7, Zenon

-----------------------------------------------------------------------------
(* The caches.                                                                *)

(* Outside the visits they are only emptied, and a new scanner only when the  *)
(* date has changed.                                                          *)
LEMMA OtherCaches ==
  ASSUME [Next]_vars, \A s \in Symbols : ~PassVisits(s)
  PROVE  /\ \/ UNCHANGED <<expiry, shared, lists>>
            \/ expiry' = NoRow /\ shared' = None /\ lists' = [c \in Calendars |-> None]
         /\ \/ UNCHANGED <<answers, scannerDay>>
            \/ NewScanner /\ day' = day
            \/ answers' = NoRow /\ scannerDay' = day /\ day' = day
         /\ \/ UNCHANGED <<day, resetDay>>
            \/ day' = day + 1 /\ resetDay' = resetDay
            \/ expiry' = NoRow /\ shared' = None /\ lists' = [c \in Calendars |-> None]
<1>1. CASE Ends \/ Idles \/ Runs \/ EndOfDay \/ Crash \/ TimePasses \/ Midnight \/ UNCHANGED vars
  BY <1>1 DEF Ends, WarmupEnds, IntradayEnds, TermEnds, PassEnds, Idles, IdleMorning, BetweenPasses,
         IdleEvening, Sleep, Runs, RunDownload, EndOfDay, Crash, TimePasses, Midnight, vars,
         caches, source, markers, calendar
<1>2. CASE Starts \/ DailyReset \/ Start
  BY <1>2 DEF Starts, StartWarmup, StartIntraday, StartTerm, DailyReset, Start, caches, source, markers,
              calendar
<1> QED
  BY <1>1, <1>2, StepCases

LEMMA CacheEffect ==
  ASSUME IInv, [Next]_vars
  PROVE  /\ CacheType' /\ LiveContracts'
         /\ answers' \in AnswersType /\ scannerDay' \in 1..day'
         /\ AnswersInv'
         /\ term' \subseteq Symbols \X Expiries
<1>1. /\ expiry \in [Symbols -> Contract] /\ shared \in Contract /\ answers \in AnswersType
      /\ lists \in [Calendars -> (SUBSET Expiries) \cup {None}] /\ term \subseteq Symbols \X Expiries
      /\ scannerDay \in 1..day /\ resetDay \in 1..day /\ day \in 1..MaxDay /\ MaxDay \in Nat
  BY BoundsAreNaturals DEF IInv, TypeOK, CacheType, Contract, AnswersType
<1>2. ASSUME NEW s \in Symbols, PassVisits(s)
      PROVE  /\ CacheType' /\ LiveContracts'
             /\ answers' \in AnswersType /\ scannerDay' \in 1..day'
             /\ AnswersInv'
             /\ term' \subseteq Symbols \X Expiries
  <2>1. UNCHANGED <<day, scannerDay>> /\ Up
    BY <1>2, VisitEffect
  <2>2. /\ expiry' \in [Symbols -> Contract] /\ shared' \in Contract /\ answers' \in AnswersType
        /\ \A t \in Symbols : expiry'[t] \in Listed \cup {None}
        /\ shared' \in Listed \cup {None}
    BY <1>2, VisitEffect
  <2>3. /\ lists' \in [Calendars -> (SUBSET Expiries) \cup {None}]
        /\ term' \subseteq Symbols \X Expiries
        /\ \A c \in Calendars : lists'[c] # None => lists'[c] \subseteq Listed
    BY <1>2, VisitedLists
  <2>4. Listed' = Listed
    BY <2>1 DEF Listed
  <2>5. LiveContracts'
    BY <2>2, <2>3, <2>4 DEF LiveContracts
  <2>6. ASSUME NEW t \in Symbols, answers'[t] # None
        PROVE  \E d \in scannerDay..day : answers'[t] = {e \in Expiries : e >= d}
    <3>1. answers'[t] = answers[t] \/ answers'[t] = ExpiryList(t)
      BY <1>2, VisitEffect
    <3> QED
      BY <2>1, <2>6, <3>1, ResolvedIsListed DEF IInv, AnswersInv
  <2>7. AnswersInv'
    BY <2>1, <2>6 DEF AnswersInv
  <2> QED
    BY <1>1, <2>1, <2>2, <2>3, <2>5, <2>7 DEF CacheType, Contract
<1>3. CASE \A s \in Symbols : ~PassVisits(s)
  <2>1. /\ expiry' \in [Symbols -> Contract] /\ shared' \in Contract
        /\ lists' \in [Calendars -> (SUBSET Expiries) \cup {None}]
    <3>1. CASE UNCHANGED <<expiry, shared, lists>>
      BY <1>1, <3>1
    <3>2. CASE expiry' = NoRow /\ shared' = None /\ lists' = [c \in Calendars |-> None]
      BY <3>2 DEF NoRow, Contract
    <3> QED
      BY <1>3, <3>1, <3>2, OtherCaches
  <2>2. day' \in {day, day + 1} /\ day' \in Nat
    BY <1>1, CalendarEffect
  <2>3. answers' \in AnswersType /\ scannerDay' \in 1..day'
    BY <1>1, <1>3, <2>2, OtherCaches DEF NewScanner, NoRow, AnswersType
  <2>4. ASSUME NEW t \in Symbols, answers'[t] # None
        PROVE  \E d \in scannerDay'..day' : answers'[t] = {e \in Expiries : e >= d}
    <3>1. answers'[t] = answers[t] /\ scannerDay' = scannerDay
      BY <1>3, <2>4, OtherCaches DEF NewScanner, NoRow
    <3>2. PICK d \in scannerDay..day : answers[t] = {e \in Expiries : e >= d}
      BY <2>4, <3>1 DEF IInv, AnswersInv
    <3>3. d \in scannerDay'..day'
      BY <1>1, <2>2, <3>1
    <3> QED
      BY <3>1, <3>2, <3>3
  <2>5. AnswersInv'
    BY <2>4 DEF AnswersInv
  <2>6. LiveContracts'
    <3>1. CASE UNCHANGED <<day, resetDay, expiry, shared, lists>>
      BY <3>1 DEF IInv, LiveContracts, Listed
    <3>2. CASE day' = day + 1 /\ resetDay' = resetDay
      BY <1>1, <3>2 DEF LiveContracts
    <3>3. CASE expiry' = NoRow /\ shared' = None /\ lists' = [c \in Calendars |-> None]
      BY <3>3 DEF LiveContracts, NoRow
    <3> QED
      BY <1>3, <3>1, <3>2, <3>3, OtherCaches
  <2>7. term' \subseteq Symbols \X Expiries
    <3>1. term' = term \/ term' = {}
      BY <1>3, StepCases DEF Ends, WarmupEnds, IntradayEnds, TermEnds, PassEnds, Starts, StartWarmup,
         StartIntraday, StartTerm, Idles, IdleMorning, BetweenPasses, IdleEvening, Sleep, Runs,
         RunDownload, DailyReset, EndOfDay, Crash, Start, TimePasses, Midnight, vars, rows
    <3> QED
      BY <1>1, <3>1
  <2> QED
    BY <2>1, <2>3, <2>5, <2>6, <2>7 DEF CacheType, Contract
<1> QED
  BY <1>2, <1>3

-----------------------------------------------------------------------------
(* The day.                                                                   *)

(* The job of ten to ten makes a scanner of the day.                          *)
LEMMA ScannerEffect ==
  ASSUME IInv, [Next]_vars
  PROVE  ScannerInv'
<1>1. /\ day \in 1..MaxDay /\ MaxDay \in Nat /\ scannerDay \in 1..day /\ clock \in Times
      /\ Up => /\ day - 1 <= scannerDay
               /\ scannerDay # day => pc \in {"loop", "warmup"} /\ (clock < 950 \/ 950 \in pending)
      /\ pc \in Places
  BY BoundsAreNaturals DEF IInv, TypeOK, ScannerInv, Places
<1>2. CASE Starts \/ Start
  <2>1. UNCHANGED <<day, clock>> /\ pc' # "down"
    BY <1>2 DEF Starts, StartWarmup, StartIntraday, StartTerm, Start, calendar
  <2>2. \/ scannerDay' = day
        \/ pc = "loop" /\ scannerDay' = scannerDay /\ pc' = "warmup" /\ pending' = pending
    BY <1>2 DEF Starts, StartWarmup, StartIntraday, StartTerm, Start, NewScanner, caches, source,
                Today, Iterate, Loop
  <2> QED
    BY <1>1, <2>1, <2>2 DEF ScannerInv, Up
<1>3. CASE Ends \/ Idles \/ DailyReset \/ EndOfDay \/ UNCHANGED vars
  <2>1. /\ UNCHANGED <<day, clock, scannerDay, pending>>
        /\ pc # "down" \/ pc' = "down"
        /\ pc' = pc \/ pc' = "loop"
    BY <1>3 DEF Ends, WarmupEnds, IntradayEnds, TermEnds, PassEnds, Idles, IdleMorning, BetweenPasses,
         IdleEvening, Sleep, DailyReset, EndOfDay, vars, calendar, caches, source, pass
  <2> QED
    BY <1>1, <2>1 DEF ScannerInv, Up
<1>4. CASE Runs
  <2>1. PICK t \in Scheduled : RunDownload(t)
    BY <1>4 DEF Runs
  <2>2. t # 950
    BY <2>1 DEF RunDownload, Job, Downloads
  <2>3. UNCHANGED <<day, clock, scannerDay, pc>> /\ pending' = pending \ {t}
    BY <2>1 DEF RunDownload, calendar, caches, source, pass
  <2> QED
    BY <1>1, <2>2, <2>3 DEF ScannerInv, Up
<1>5. CASE Crash
  BY <1>5 DEF Crash, ScannerInv, Up
<1>6. CASE TimePasses
  <2>1. /\ UNCHANGED <<day, scannerDay, pc>> /\ clock < LastTime /\ clock' = NextTime(clock)
        /\ Up => pending' = pending \cup ({clock'} \cap Scheduled)
    BY <1>6 DEF TimePasses, caches, source, pass
  <2>2. 950 \in Times /\ 950 \in Scheduled
    BY DEF Times, Scheduled, WarmupEnd
  <2>3. clock < 950 => clock' <= 950
    BY <1>1, <2>1, <2>2, NextTimeIsNext
  <2>4. clock' \in Int
    BY <1>1, <2>1, NextTimeIsNext DEF Times, LastTime, WarmupStart, WarmupEnd, IntradayEnd, EodReport
  <2>5. clock < 950 => clock' < 950 \/ clock' = 950
    BY <2>3, <2>4
  <2> QED
    BY <1>1, <2>1, <2>2, <2>5 DEF ScannerInv, Up
<1>7. CASE Midnight
  <2>1. /\ day' = day + 1 /\ clock' = 0 /\ clock = 2200 /\ UNCHANGED <<scannerDay, pc, pending>>
        /\ Up => pc = "loop" /\ pending = {}
    BY <1>7 DEF Midnight, LastTime, caches, source, pass, Loop, Up
  <2> QED
    BY <1>1, <2>1 DEF ScannerInv, Up
<1>8. ASSUME NEW s \in Symbols, PassVisits(s) PROVE ScannerInv'
  <2>1. UNCHANGED <<day, clock, scannerDay, pc, pending>>
    BY <1>8, VisitEffect
  <2> QED
    BY <1>1, <2>1 DEF ScannerInv, Up
<1> QED
  BY <1>2, <1>3, <1>4, <1>5, <1>6, <1>7, <1>8, StepCases

(* Nothing happens on a new day before the markers are reset.                 *)
LEMMA ResetEffect ==
  ASSUME IInv, [Next]_vars
  PROVE  ResetInv'
<1>1. /\ Up /\ resetDay # day => Loop /\ clock = 0 /\ pending = {} /\ ~slept
  BY DEF IInv, ResetInv
<1>2. CASE Ends \/ Starts \/ Idles \/ Runs \/ EndOfDay \/ TimePasses
  <2>1. UNCHANGED <<day, resetDay>>
    BY <1>2 DEF Ends, WarmupEnds, IntradayEnds, TermEnds, PassEnds, Starts, StartWarmup,
         StartIntraday, StartTerm, Idles, IdleMorning, BetweenPasses, IdleEvening, Sleep, Runs,
         RunDownload, EndOfDay, TimePasses, calendar, markers
  <2>2. \/ resetDay = day \/ pending # {} \/ slept \/ ~Loop
        \/ ~Up /\ pc' = pc
    BY <1>2 DEF Ends, WarmupEnds, IntradayEnds, TermEnds, PassEnds, Starts, StartWarmup,
         StartIntraday, StartTerm, Idles, IdleMorning, BetweenPasses, IdleEvening, Runs,
         RunDownload, EndOfDay, AfterSession, InSession, TimePasses, Today, Due, MayWait, pass, Up, Loop
  <2>3. Up \/ ~Up'
    BY <1>2 DEF Ends, WarmupEnds, IntradayEnds, TermEnds, Starts, StartWarmup,
         StartIntraday, StartTerm, Idles, IdleMorning, BetweenPasses, IdleEvening, Runs,
         RunDownload, EndOfDay, AfterSession, InSession, TimePasses, Today, Iterate, Due, pass, Up, Loop
  <2> QED
    BY <1>1, <2>1, <2>2, <2>3, Zenon DEF ResetInv
<1>3. CASE DailyReset \/ Start
  <2>1. resetDay' = day'
    BY <1>3 DEF DailyReset, Start, calendar
  <2> QED
    BY <2>1 DEF ResetInv
<1>4. CASE Crash
  BY <1>4 DEF Crash, ResetInv, Up
<1>5. CASE Midnight
  <2>1. /\ clock' = 0 /\ slept' = FALSE /\ UNCHANGED <<pc, pending>>
        /\ Up => Loop /\ pending = {}
    BY <1>5 DEF Midnight, pass, Up
  <2> QED
    BY <2>1 DEF ResetInv, Up, Loop
<1>6. CASE UNCHANGED vars
  <2>1. UNCHANGED <<day, clock, resetDay, pc, pending, slept>>
    BY <1>6 DEF vars, calendar, markers, pass
  <2> QED
    BY <1>1, <2>1 DEF ResetInv, Up, Loop
<1>7. ASSUME NEW s \in Symbols, PassVisits(s) PROVE ResetInv'
  <2>1. UNCHANGED <<day, resetDay>> /\ resetDay = day
    BY <1>7, VisitEffect
  <2> QED
    BY <2>1 DEF ResetInv
<1> QED
  BY <1>2, <1>3, <1>4, <1>5, <1>6, <1>7, StepCases

LEMMA DailyEffect ==
  ASSUME IInv, [Next]_vars
  PROVE  DailyInv'
<1>1. /\ last \in [Symbols -> Times \cup {None}] /\ daily \in [Symbols -> Times \cup {None}]
      /\ clock \in Times /\ clock' \in Times
      /\ \A s \in Symbols : daily[s] # None => daily[s] = last[s] /\ clock >= EodReport
  BY CalendarEffect DEF IInv, TypeOK, DailyInv
<1>2. Times \subseteq Nat /\ EodReport = 1535 /\ IntradayEnd = 1530
  BY DEF Times, WarmupStart, WarmupEnd, IntradayEnd, EodReport
<1>3. CASE UNCHANGED <<last, daily>> /\ ~Midnight
  <2>1. clock' >= clock
    <3>1. clock' = clock \/ (clock < LastTime /\ clock' = NextTime(clock))
      BY <1>3, CalendarEffect DEF TimePasses
    <3>2. clock < LastTime => NextTime(clock) > clock
      BY <1>1, NextTimeIsNext
    <3> QED
      BY <1>1, <1>2, <3>1, <3>2
  <2>2. clock >= EodReport => clock' >= EodReport
    BY <1>1, <1>2, <2>1
  <2> QED
    BY <1>1, <1>3, <2>2 DEF DailyInv
<1>4. CASE daily' = daily /\ clock < IntradayEnd
  <2>1. \A s \in Symbols : daily[s] = None
    BY <1>1, <1>2, <1>4
  <2> QED
    BY <1>4, <2>1 DEF DailyInv
<1>5. CASE EndOfDay /\ Promote /\ last' = last
  <2>1. clock >= EodReport /\ clock' = clock
    BY <1>5 DEF EndOfDay, calendar
  <2>2. daily' = [s \in Symbols |-> IF daily[s] = None THEN last[s] ELSE daily[s]]
    BY <1>5 DEF Promote
  <2> QED
    BY <1>1, <1>5, <2>1, <2>2 DEF DailyInv
<1>6. CASE Midnight
  BY <1>6 DEF Midnight, NoRow, DailyInv
<1> QED
  BY <1>3, <1>4, <1>5, <1>6, RowsEffect

LEMMA WeekendEffect ==
  ASSUME IInv, [Next]_vars
  PROVE  WeekendInv'
<1>1. weekend => last = NoRow /\ pc \notin {"warmup", "intraday"}
  BY DEF IInv, WeekendInv
<1>2. CASE Midnight
  <2>1. last' = NoRow /\ pc' = pc /\ pc \in {"down", "loop"}
    BY <1>2 DEF Midnight, pass, Loop
  <2> QED
    BY <2>1 DEF WeekendInv
<1>3. CASE ~Midnight
  <2>1. weekend' = weekend
    BY <1>3, CalendarEffect
  <2>2. weekend => last' = last \/ last' = NoRow
    BY RowsEffect
  <2>3. weekend => pc' \in {pc, "loop", "term", "down"}
    <3>1. CASE Ends \/ Starts \/ Idles \/ Runs \/ DailyReset \/ EndOfDay \/ Crash \/ Start
               \/ TimePasses \/ UNCHANGED vars
      BY <3>1 DEF Ends, WarmupEnds, IntradayEnds, TermEnds, PassEnds, Starts, StartWarmup,
         StartIntraday, InSession, StartTerm, Idles, IdleMorning, BetweenPasses, IdleEvening, Sleep,
         Runs, RunDownload, DailyReset, EndOfDay, Crash, Start, TimePasses, vars, pass
    <3>2. ASSUME NEW s \in Symbols, PassVisits(s) PROVE pc' = pc
      BY <3>2, VisitEffect
    <3> QED
      BY <1>3, <3>1, <3>2, StepCases
  <2> QED
    BY <1>1, <2>1, <2>2, <2>3 DEF WeekendInv
<1> QED
  BY <1>2, <1>3

(* Whoever goes to sleep in the evening has sent the report of the day.       *)
LEMMA SleptEffect ==
  ASSUME IInv, [Next]_vars
  PROVE  SleptInv'
<1>1. /\ Up /\ slept /\ ~weekend /\ clock >= EodReport => eodSent
      /\ Up /\ resetDay # day => ~slept
      /\ clock \in Nat
  <2>1. clock \in Times
    BY DEF IInv, TypeOK
  <2>2. clock \in Nat
    BY <2>1 DEF Times, WarmupStart, WarmupEnd, IntradayEnd, EodReport
  <2> QED
    BY <2>2, Zenon DEF IInv, SleptInv, ResetInv
<1>2. CASE TimePasses \/ Midnight \/ Start
  <2>1. slept' = FALSE
    BY <1>2 DEF TimePasses, Midnight, Start
  <2> QED
    BY <2>1 DEF SleptInv
<1>3. CASE Idles
  <2>1. UNCHANGED <<clock, weekend, eodSent>>
    BY <1>3 DEF Idles, IdleMorning, BetweenPasses, IdleEvening, Sleep, calendar
  <2>2. weekend \/ clock < EodReport \/ eodSent
    BY <1>1, <1>3 DEF Idles, IdleMorning, BetweenPasses, IdleEvening, InSession,
                      WarmupStart, WarmupEnd, IntradayEnd, EodReport
  <2> QED
    BY <1>1, <2>1, <2>2 DEF SleptInv, EodReport
<1>4. CASE EndOfDay
  BY <1>4 DEF EndOfDay, SleptInv
<1>5. CASE Ends \/ Starts \/ Runs \/ DailyReset \/ Crash \/ UNCHANGED vars
  <2>1. UNCHANGED <<clock, weekend, slept>>
    BY <1>5 DEF Ends, WarmupEnds, IntradayEnds, TermEnds, PassEnds, Starts, StartWarmup, StartIntraday,
         StartTerm, Runs, RunDownload, DailyReset, Crash, vars, calendar
  <2>2. eodSent' = eodSent \/ DailyReset
    BY <1>5 DEF Ends, WarmupEnds, IntradayEnds, TermEnds, PassEnds, Starts, StartWarmup, StartIntraday,
         StartTerm, Runs, RunDownload, Crash, vars, markers
  <2>3. DailyReset => Up /\ resetDay # day
    BY DEF DailyReset, Iterate, Loop, Up
  <2>4. Up' => Up
    BY <1>5 DEF Ends, WarmupEnds, IntradayEnds, TermEnds, PassEnds, Starts, StartWarmup, StartIntraday,
         InSession, Today, Iterate, StartTerm, Due, Loop, Runs, RunDownload, DailyReset, Crash, vars, pass, Up
  <2> QED
    BY <1>1, <2>1, <2>2, <2>3, <2>4 DEF SleptInv
<1>6. ASSUME NEW s \in Symbols, PassVisits(s) PROVE SleptInv'
  <2>1. UNCHANGED <<clock, weekend, slept, eodSent, pc>>
    BY <1>6, VisitEffect
  <2> QED
    BY <1>1, <2>1 DEF SleptInv, Up
<1> QED
  BY <1>2, <1>3, <1>4, <1>5, <1>6, StepCases

(* Only the promotion speaks of the daily rows.                               *)
LEMMA DailyReport ==
  ASSUME IInv, [Next]_vars
  PROVE  report'["daily"] = report["daily"] \/ EndOfDay \/ Midnight
<1>1. report \in [Reports -> Outcomes]
  BY DEF IInv, TypeOK, Outcomes
<1>2. CASE Runs
  <2>1. PICK t \in Scheduled : RunDownload(t)
    BY <1>2 DEF Runs
  <2>2. Job(t) # "daily"
    BY <2>1 DEF RunDownload, Downloads
  <2>3. report' = report \/ \E outcome : report' = [report EXCEPT ![Job(t)] = outcome]
    BY <2>1 DEF RunDownload, files, Download, DownloadFails
  <2> QED
    BY <1>1, <2>2, <2>3 DEF Reports
<1>3. CASE Ends \/ Starts \/ Idles \/ DailyReset \/ Crash \/ Start \/ TimePasses \/ UNCHANGED vars
  BY <1>3 DEF Ends, WarmupEnds, IntradayEnds, TermEnds, PassEnds, Starts, StartWarmup, StartIntraday,
         StartTerm, Idles, IdleMorning, BetweenPasses, IdleEvening, Sleep, DailyReset, Crash, Start,
         TimePasses, vars, files
<1>4. ASSUME NEW s \in Symbols, PassVisits(s) PROVE report' = report
  BY <1>4, VisitEffect
<1> QED
  BY <1>2, <1>3, <1>4, StepCases

LEMMA EodEffect ==
  ASSUME IInv, [Next]_vars
  PROVE  EodInv'
<1>1. /\ Up /\ eodSent /\ resetDay = day =>
           clock >= EodReport /\ (Promoted \/ report["daily"] = "failed")
      /\ clock \in Times /\ day \in 1..MaxDay /\ MaxDay \in Nat /\ resetDay \in 1..day
      /\ report \in [Reports -> Outcomes]
      /\ last \in [Symbols -> Times \cup {None}] /\ daily \in [Symbols -> Times \cup {None}]
  BY BoundsAreNaturals DEF IInv, EodInv, TypeOK, Outcomes
<1>2. Times \subseteq Nat /\ EodReport = 1535 /\ IntradayEnd = 1530
  BY DEF Times, WarmupStart, WarmupEnd, IntradayEnd, EodReport
<1>3. CASE EndOfDay
  <2>1. clock >= EodReport /\ clock' = clock /\ last' = last
    BY <1>3 DEF EndOfDay, calendar
  <2>2. CASE Promote
    <3>1. daily' = [s \in Symbols |-> IF daily[s] = None THEN last[s] ELSE daily[s]]
      BY <2>2 DEF Promote
    <3>2. Promoted'
      BY <2>1, <3>1 DEF Promoted
    <3> QED
      BY <2>1, <3>2 DEF EodInv
  <2>3. CASE PromoteFails
    <3>1. report'["daily"] = "failed"
      BY <1>1, <2>3 DEF PromoteFails, Reports
    <3> QED
      BY <2>1, <3>1 DEF EodInv
  <2> QED
    BY <1>3, <2>2, <2>3 DEF EndOfDay
<1>4. CASE DailyReset \/ Start
  <2>1. eodSent' = FALSE
    BY <1>4 DEF DailyReset, Start
  <2> QED
    BY <2>1 DEF EodInv
<1>5. CASE Midnight
  <2>1. day' = day + 1 /\ resetDay' = resetDay
    BY <1>5 DEF Midnight, markers
  <2> QED
    BY <1>1, <2>1 DEF EodInv
<1>6. CASE /\ UNCHANGED <<day, eodSent, resetDay>> /\ (Up' => Up)
           /\ ~EndOfDay /\ ~Midnight
  <2>1. report'["daily"] = report["daily"]
    BY <1>6, DailyReport
  <2>2. clock' = clock \/ (clock < LastTime /\ clock' = NextTime(clock))
    BY <1>6, CalendarEffect DEF TimePasses
  <2>3. clock' >= clock /\ clock' \in Nat
    <3>1. clock < LastTime => NextTime(clock) > clock /\ NextTime(clock) \in Times
      BY <1>1, NextTimeIsNext
    <3>2. clock \in Nat /\ clock' \in Nat
      BY <1>1, TimesAreNaturals, CalendarEffect
    <3> QED
      BY <2>2, <3>1, <3>2
  <2>4. UNCHANGED <<last, daily>> \/ clock < IntradayEnd
    BY <1>6, RowsEffect
  <2>5. UNCHANGED <<last, daily>> => (Promoted => Promoted')
    BY DEF Promoted
  <2> QED
    BY <1>1, <1>2, <1>6, <2>1, <2>3, <2>4, <2>5 DEF EodInv
<1>7. CASE Ends \/ Starts \/ Idles \/ Runs \/ Crash \/ TimePasses \/ UNCHANGED vars
  <2>1. UNCHANGED <<day, eodSent, resetDay>>
    BY <1>7 DEF Ends, WarmupEnds, IntradayEnds, TermEnds, PassEnds, Starts, StartWarmup, StartIntraday,
         StartTerm, Idles, IdleMorning, BetweenPasses, IdleEvening, Sleep, Runs, RunDownload, Crash,
         TimePasses, vars, calendar, markers
  <2>2. Up' => Up
    BY <1>7 DEF Ends, WarmupEnds, IntradayEnds, TermEnds, PassEnds, Starts, StartWarmup, StartIntraday,
         InSession, AfterSession, Today, Iterate, StartTerm, Due, Loop, Idles, IdleMorning, BetweenPasses,
         IdleEvening, Runs, RunDownload, Crash, TimePasses, vars, pass, Up
  <2> QED
    BY <1>3, <1>5, <1>6, <2>1, <2>2
<1>8. ASSUME NEW s \in Symbols, PassVisits(s) PROVE EodInv'
  <2>1. UNCHANGED <<day, eodSent, resetDay, pc>>
    BY <1>8, VisitEffect
  <2> QED
    BY <1>3, <1>5, <1>6, <2>1 DEF Up
<1> QED
  BY <1>3, <1>4, <1>5, <1>7, <1>8, StepCases

(* Every download has its last time among the scheduled ones, and a starting  *)
(* process catches it up.                                                     *)
LEMMA LastRuns ==
  ASSUME NEW j \in Downloads
  PROVE  /\ LastRun[j] \in Scheduled /\ LastRun[j] \in Times /\ Job(LastRun[j]) = j
         /\ \E t \in CatchUp : t <= LastRun[j] /\ Job(t) = j
<1>1. CASE j = "deals"
  <2>1. LastRun[j] = 1545 /\ Job(1545) = "deals" /\ Job(1035) = "deals"
    BY <1>1 DEF LastRun, Job
  <2> QED
    BY <1>1, <2>1 DEF Scheduled, CatchUp, Times
<1>2. CASE j = "vix"
  <2>1. LastRun[j] = 1830 /\ Job(1830) = "vix"
    BY <1>2 DEF LastRun, Job
  <2> QED
    BY <1>2, <2>1 DEF Scheduled, CatchUp, Times
<1>3. CASE j = "bhav"
  <2>1. LastRun[j] = 2200 /\ Job(2200) = "bhav" /\ Job(1900) = "bhav"
    BY <1>3 DEF LastRun, Job
  <2> QED
    BY <1>3, <2>1 DEF Scheduled, CatchUp, Times
<1> QED
  BY <1>1, <1>2, <1>3 DEF Downloads

(* A run gets what is published, or says that it has failed.                  *)
LEMMA RunEffect ==
  ASSUME IInv, NEW t \in Scheduled, RunDownload(t), NEW j \in Downloads
  PROVE  /\ UNCHANGED <<published, clock, pc>> /\ pending' = pending \ {t}
         /\ Downloaded(j) => Downloaded(j)'
         /\ j # Job(t) => report'[j] = report[j]
         /\ j = Job(t) /\ clock >= LastRun[j] => Downloaded(j)' \/ report'[j] = "failed"
<1>1. /\ report \in [Reports -> Outcomes] /\ j \in Reports /\ clock \in Int
      /\ published \in [Files -> Times \cup {None}]
      /\ LastRun[j] \in Int /\ Times \subseteq Int /\ FilesOf[j] \subseteq Files
  <2>1. /\ report \in [Reports -> Outcomes] /\ clock \in Times
        /\ published \in [Files -> Times \cup {None}]
    BY DEF IInv, TypeOK, Outcomes
  <2>2. j \in Reports /\ FilesOf[j] \subseteq Files
    BY DEF Downloads, Reports, FilesOf, Files
  <2> QED
    BY <2>1, <2>2, LastRuns, TimesAreNaturals
<1>2. UNCHANGED <<published, clock, pc>> /\ pending' = pending \ {t} /\ saved \subseteq saved'
  BY DEF RunDownload, files, Download, DownloadFails, calendar, pass
<1>3. Downloaded(j) => Downloaded(j)'
  BY <1>2 DEF Downloaded
<1>4. j # Job(t) => report'[j] = report[j]
  BY <1>1 DEF RunDownload, files, Download, DownloadFails
<1>5. ASSUME j = Job(t), clock >= LastRun[j]
      PROVE  Downloaded(j)' \/ report'[j] = "failed"
  <2>1. CASE AlreadySaved(j)
    <3>1. "bhav" \in saved' /\ FilesOf[j] = {"bhav"}
      BY <1>2, <2>1 DEF AlreadySaved, FilesOf
    <3> QED
      BY <3>1 DEF Downloaded, FilesOf
  <2>2. CASE Download(j)
    <3>1. saved' = saved \cup Available(j)
      BY <2>2 DEF Download
    <3>2. ASSUME NEW f \in FilesOf[j], published[f] # None, published[f] <= LastRun[j]
          PROVE  f \in Available(j)
      <4>1. published[f] \in Int
        BY <1>1, <3>2
      <4>2. published[f] <= clock
        BY <1>1, <1>5, <3>2, <4>1
      <4> QED
        BY <3>2, <4>2 DEF Available
    <3> QED
      BY <1>2, <3>1, <3>2 DEF Downloaded
  <2>3. CASE DownloadFails(j)
    BY <1>1, <2>3 DEF DownloadFails
  <2> QED
    BY <1>5, <2>1, <2>2, <2>3 DEF RunDownload
<1> QED
  BY <1>2, <1>3, <1>4, <1>5

LEMMA DownloadEffect ==
  ASSUME IInv, [Next]_vars
  PROVE  DownloadInv'
<1> SUFFICES ASSUME Up', NEW j \in Downloads, clock' >= LastRun[j]
             PROVE  \/ Downloaded(j)' \/ report'[j] = "failed"
                    \/ \E t \in pending' : Job(t) = j
  BY DEF DownloadInv
<1>1. /\ clock \in Times /\ clock' \in Times /\ Times \subseteq Nat
      /\ LastRun[j] \in Times /\ LastRun[j] \in Scheduled /\ Job(LastRun[j]) = j
      /\ report \in [Reports -> Outcomes] /\ j \in Reports /\ j # "daily"
  <2>1. report \in [Reports -> Outcomes] /\ clock \in Times
    BY DEF IInv, TypeOK, Outcomes
  <2>2. j \in Reports /\ j # "daily"
    BY DEF Downloads, Reports
  <2> QED
    BY <2>1, <2>2, LastRuns, CalendarEffect, TimesAreNaturals
<1>2. Up /\ clock >= LastRun[j] =>
         Downloaded(j) \/ report[j] = "failed" \/ \E t \in pending : Job(t) = j
  BY DEF IInv, DownloadInv
<1>3. CASE /\ Up /\ pending \subseteq pending' /\ UNCHANGED <<clock, published, saved>>
           /\ report'[j] = report[j]
  BY <1>2, <1>3 DEF Downloaded
<1>4. CASE Runs
  <2>1. PICK t \in Scheduled : RunDownload(t)
    BY <1>4 DEF Runs
  <2>2. /\ UNCHANGED <<clock, pc>> /\ pending' = pending \ {t}
        /\ Downloaded(j) => Downloaded(j)'
        /\ j # Job(t) => report'[j] = report[j]
        /\ j = Job(t) /\ clock >= LastRun[j] => Downloaded(j)' \/ report'[j] = "failed"
    BY <2>1, RunEffect
  <2>3. Up /\ clock >= LastRun[j]
    BY <2>2 DEF Up
  <2>4. CASE j = Job(t)
    BY <2>2, <2>3, <2>4
  <2>5. CASE j # Job(t)
    <3>1. CASE \E u \in pending : Job(u) = j
      BY <2>2, <2>5, <3>1
    <3> QED
      BY <1>2, <2>2, <2>3, <2>5, <3>1
  <2> QED
    BY <2>4, <2>5
<1>5. CASE EndOfDay
  <2>1. UNCHANGED <<clock, published, saved, pending>> /\ Up
    BY <1>5 DEF EndOfDay, AfterSession, Today, Iterate, Loop, Up, calendar
  <2>2. report'[j] = report[j]
    BY <1>1, <1>5 DEF EndOfDay, Promote, PromoteFails
  <2> QED
    BY <1>3, <2>1, <2>2
<1>6. CASE Start
  <2>1. clock' = clock /\ pending' = {t \in CatchUp : t <= clock}
    BY <1>6 DEF Start, calendar
  <2>2. PICK t \in CatchUp : t <= LastRun[j] /\ Job(t) = j
    BY LastRuns
  <2>3. t \in Nat /\ clock \in Nat /\ LastRun[j] \in Nat
    BY <1>1, TimesAreNaturals
  <2>4. t <= clock
    BY <2>1, <2>2, <2>3
  <2> QED
    BY <2>1, <2>2, <2>4
<1>7. CASE TimePasses
  <2>1. /\ Up /\ pending' = pending \cup ({clock'} \cap Scheduled)
        /\ clock < LastTime /\ clock' = NextTime(clock) /\ UNCHANGED <<published, saved, report>>
    BY <1>7 DEF TimePasses, pass, files, Up
  <2>2. CASE clock >= LastRun[j]
    BY <1>2, <2>1, <2>2 DEF Downloaded
  <2>3. CASE ~(clock >= LastRun[j])
    <3>1. LastRun[j] > clock => NextTime(clock) <= LastRun[j]
      BY <1>1, <2>1, NextTimeIsNext
    <3>2. clock \in Nat /\ clock' \in Nat /\ LastRun[j] \in Nat
      BY <1>1
    <3>3. clock' = LastRun[j]
      BY <2>1, <2>3, <3>1, <3>2
    <3> QED
      BY <1>1, <2>1, <3>3
  <2> QED
    BY <2>2, <2>3
<1>8. CASE Midnight
  <2>1. clock' = 0
    BY <1>8 DEF Midnight
  <2>2. LastRun[j] > 0 /\ LastRun[j] \in Nat
    BY DEF LastRun, Downloads
  <2> QED
    BY <2>1, <2>2
<1>9. CASE Ends \/ Idles \/ DailyReset \/ UNCHANGED vars
  <2>1. UNCHANGED <<clock, pending, published, saved, report>> /\ Up
    BY <1>9 DEF Ends, WarmupEnds, IntradayEnds, TermEnds, PassEnds, Idles, IdleMorning, BetweenPasses,
         InSession, IdleEvening, AfterSession, Today, Iterate, Loop, Sleep, DailyReset, vars, calendar,
         files, pass, Up
  <2> QED
    BY <1>3, <2>1
<1>10. CASE Starts
  <2>1. /\ UNCHANGED <<clock, published, saved, report>> /\ Up
        /\ \/ pending' = pending
           \/ \E t \in Scheduled : Job(t) = "term" /\ pending' = pending \ {t}
    BY <1>10 DEF Starts, StartWarmup, StartIntraday, InSession, Today, Iterate, Loop, StartTerm, Due,
                 calendar, files, Up
  <2>2. j # "term"
    BY DEF Downloads
  <2>3. \A u \in pending : Job(u) = j => u \in pending'
    BY <2>1, <2>2
  <2> QED
    BY <1>2, <2>1, <2>3 DEF Downloaded
<1>11. CASE Crash
  BY <1>11 DEF Crash, Up
<1>12. ASSUME NEW s \in Symbols, PassVisits(s)
       PROVE  /\ Up /\ pending' = pending /\ UNCHANGED <<clock, published, saved, report>>
  BY <1>12, VisitEffect
<1> QED
  BY <1>3, <1>4, <1>5, <1>6, <1>7, <1>8, <1>9, <1>10, <1>11, <1>12, StepCases

LEMMA InitInvariant == Init => IInv
<1> SUFFICES ASSUME Init PROVE IInv
  OBVIOUS
<1>1. 1 \in 1..MaxDay /\ 0 \in 0..MaxFaults
  BY BoundsAreNaturals
<1>2. TypeOK
  <2>1. /\ day \in 1..MaxDay /\ clock \in Times /\ published \in [Files -> Times \cup {None}]
        /\ scannerDay \in 1..day /\ resetDay \in 1..day
        /\ last \in [Symbols -> Times \cup {None}] /\ daily \in [Symbols -> Times \cup {None}]
        /\ report \in [Reports -> {"saved", "not ready", "failed", None}]
        /\ answers \in [Symbols -> (SUBSET Expiries) \cup {None}]
    BY <1>1, FilesHaveTimes DEF Init, Times, NoRow
  <2>2. weekend \in BOOLEAN /\ eodSent \in BOOLEAN /\ slept \in BOOLEAN
    BY Zenon DEF Init
  <2> QED
    BY <1>1, <2>1, <2>2, Zenon DEF Init, TypeOK
<1>3. CacheType
  BY DEF Init, CacheType, NoRow
<1>4. AnswersInv /\ LiveContracts /\ DailyInv
  BY DEF Init, AnswersInv, LiveContracts, DailyInv, NoRow
<1>5. ScannerInv
  BY DEF Init, ScannerInv
<1>6. ResetInv /\ WeekendInv /\ SleptInv /\ EodInv
  BY Zenon DEF Init, ResetInv, WeekendInv, SleptInv, EodInv
<1>7. DownloadInv
  <2>1. \A j \in Downloads : LastRun[j] > 0 /\ LastRun[j] \in Int
    BY DEF LastRun, Downloads
  <2> QED
    BY <2>1 DEF Init, DownloadInv
<1> QED
  BY <1>2, <1>3, <1>4, <1>5, <1>6, <1>7 DEF IInv

-----------------------------------------------------------------------------

LEMMA NextInvariant ==
  ASSUME IInv, [Next]_vars
  PROVE  IInv'
<1>1. TypeOK'
  <2>1. /\ day' \in 1..MaxDay /\ clock' \in Times /\ weekend' \in BOOLEAN
    BY CalendarEffect
  <2>2. last' \in [Symbols -> Times \cup {None}] /\ daily' \in [Symbols -> Times \cup {None}]
    BY RowsEffect
  <2>3. /\ term' \subseteq Symbols \X Expiries /\ scannerDay' \in 1..day'
        /\ answers' \in [Symbols -> (SUBSET Expiries) \cup {None}]
    BY CacheEffect DEF AnswersType
  <2>4. /\ published' \in [Files -> Times \cup {None}] /\ saved' \subseteq Files
        /\ report' \in [Reports -> {"saved", "not ready", "failed", None}]
    BY FilesEffect DEF Outcomes
  <2>5. /\ pc' \in {"loop", "warmup", "intraday", "term", "down"}
        /\ queue' \subseteq Symbols /\ label' \in Times \cup {None} /\ faults' \in 0..MaxFaults
    BY PassEffect DEF Places
  <2>6. /\ lastPass' \in Times \cup {None} /\ resetDay' \in 1..day'
        /\ eodSent' \in BOOLEAN /\ slept' \in BOOLEAN /\ pending' \subseteq Times
    BY MarkersEffect
  <2> QED
    BY <2>1, <2>2, <2>3, <2>4, <2>5, <2>6, Zenon DEF TypeOK
<1> QED
  BY <1>1, CacheEffect, ScannerEffect, ResetEffect, DailyEffect, WeekendEffect, SleptEffect,
     EodEffect, DownloadEffect DEF IInv

(* Every behaviour keeps the invariant.                                       *)
THEOREM Invariance == Spec => []IInv
BY InitInvariant, NextInvariant, PTL DEF Spec

(* Whatever the calendar of expiries, no sweep of a day asks for a contract   *)
(* that has lapsed (_resolve_expiry, _ensure_runtime_state).                  *)
THEOREM ContractsAreLive == Spec => []LiveContracts
<1>1. IInv => LiveContracts
  BY DEF IInv
<1> QED
  BY <1>1, Invariance, PTL

(* A daily row is the copy of the last snapshot of its symbol that day        *)
(* (promote_daily_from_last_intraday).                                        *)
THEOREM DailyRowsAreLast == Spec => []DailyIsLast
<1>1. IInv => DailyIsLast
  BY DEF IInv, DailyInv, DailyIsLast
<1> QED
  BY <1>1, Invariance, PTL

(* The date never changes under a running collector before the symbols seen   *)
(* have their daily row and the published files are in the database, unless   *)
(* its last word was a failure (run_pending, the catch-up of main).           *)
THEOREM DaysAreComplete == Spec => DayIsComplete
<1> DEFINE Complete ==
      day' # day /\ Up =>
        /\ Promoted \/ report["daily"] = "failed"
        /\ \A j \in Downloads : Downloaded(j) \/ report[j] = "failed"
<1>1. ASSUME IInv, [Next]_vars PROVE [Complete]_vars
  <2> SUFFICES ASSUME day' # day, Up
               PROVE  /\ Promoted \/ report["daily"] = "failed"
                      /\ \A j \in Downloads : Downloaded(j) \/ report[j] = "failed"
    OBVIOUS
  <2>1. Midnight
    BY <1>1, CalendarEffect
  <2>2. clock = 2200 /\ pending = {} /\ slept /\ Loop
    BY <2>1 DEF Midnight, LastTime, Up
  <2>3. resetDay = day
    BY <1>1, <2>2 DEF IInv, ResetInv
  <2>4. Promoted \/ report["daily"] = "failed"
    <3>1. CASE weekend
      <4>1. last = NoRow
        BY <1>1, <3>1 DEF IInv, WeekendInv
      <4> QED
        BY <4>1 DEF Promoted, NoRow
    <3>2. CASE ~weekend
      <4>1. eodSent
        BY <1>1, <2>2, <3>2 DEF IInv, SleptInv, EodReport
      <4> QED
        BY <1>1, <2>3, <4>1 DEF IInv, EodInv
    <3> QED
      BY <3>1, <3>2
  <2>5. ASSUME NEW j \in Downloads PROVE Downloaded(j) \/ report[j] = "failed"
    <3>1. clock >= LastRun[j]
      BY <2>2 DEF LastRun, Downloads
    <3> QED
      BY <1>1, <2>2, <3>1 DEF IInv, DownloadInv
  <2> QED
    BY <2>4, <2>5
<1> QED
  BY <1>1, Invariance, PTL DEF Spec, DayIsComplete

=============================================================================
