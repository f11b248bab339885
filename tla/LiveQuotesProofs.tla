--------------------------- MODULE LiveQuotesProofs ---------------------------
(***************************************************************************)
(* Proofs about the live quote of one contract, for every set of trades    *)
(* and every pair of age limits.                                           *)
(***************************************************************************)
EXTENDS LiveQuotes, TLAPS

(* Quotes and the answers that keep them age together, except that each    *)
(* age is told apart only so far: a kept quote is older than its answer by *)
(* what the load allowed and no more.                                      *)
AgeInv == cache # None /\ cache.quote # None => cache.quote <= Stale + cache.at

(* A trade gives its quote up only when it is out of the book.             *)
ReleaseInv == \A t \in Trades : "unsubscribe" \in calls[t] => book[t] = "closed"

(* A service that has not been started has no connection.                  *)
StartInv == svc = "start" => feed = "none"

IInv == TypeOK /\ AgeInv /\ ReleaseInv /\ StartInv

-------------------------------------------------------------------------------

(* Ageing keeps an age within its cap, and nothing at nothing.             *)
LEMMA OlderType ==
    ASSUME NEW cap \in Nat, NEW age \in 0..cap \cup {None}
    PROVE  /\ Older(age, cap) \in 0..cap \cup {None}
           /\ Older(age, cap) = None <=> age = None
           /\ age # None => Older(age, cap) = IF age < cap THEN age + 1 ELSE age
<1>1. None \notin Nat
  BY LiveQuotesAssumption
<1>2. CASE age = None
  BY <1>1, <1>2 DEF Older
<1>3. CASE age \in 0..cap
  BY <1>1, <1>3 DEF Older
<1> QED
  BY <1>2, <1>3

LEMMA InitInvariant == Init => IInv
<1> SUFFICES ASSUME Init PROVE IInv
  OBVIOUS
<1>1. AgeInv /\ ReleaseInv /\ StartInv
  BY DEF Init, AgeInv, ReleaseInv, StartInv
<1>2. {plan, newDay, last} \subseteq BOOLEAN /\ carried \in BOOLEAN /\ ~carried
  BY Zenon DEF Init
<1>3. faults \in 0..MaxFaults
  BY LiveQuotesAssumption DEF Init
<1>4. TypeOK
  BY <1>2, <1>3 DEF Init, TypeOK, Quote
<1> QED
  BY <1>1, <1>4 DEF IInv

LEMMA TraderEffect ==
    ASSUME IInv,
           \/ \E t \in Trades :
                 OpenTrade(t) \/ CloseTrade(t) \/ Subscribe(t) \/ Unsubscribe(t) \/ CallFails(t)
           \/ CacheMiss \/ LoadQuote \/ LoadFails \/ TraderCrashes
    PROVE  IInv'
<1> DEFINE Kept == TypeOK' /\ AgeInv' /\ ReleaseInv'
<1> USE LiveQuotesAssumption DEF IInv
<1>1. ASSUME \E t \in Trades :
             OpenTrade(t) \/ CloseTrade(t) \/ Subscribe(t) \/ Unsubscribe(t) \/ CallFails(t)
      PROVE  Kept
  <2>1. TypeOK'
    BY <1>1 DEF TypeOK, OpenTrade, CloseTrade, Subscribe, Unsubscribe, CallFails, Called, Fault,
                service
  <2>2. ReleaseInv'
    BY <1>1 DEF TypeOK, ReleaseInv, OpenTrade, CloseTrade, Subscribe, Unsubscribe, CallFails,
                Called
  <2>3. AgeInv'
    BY <1>1 DEF AgeInv, OpenTrade, CloseTrade, Subscribe, Unsubscribe, CallFails, Called
  <2> QED
    BY <2>1, <2>2, <2>3
<1>2. ASSUME CacheMiss PROVE Kept
  BY <1>2 DEF CacheMiss, TypeOK, ReleaseInv, AgeInv, service
<1>3. ASSUME NEW quote, Answer(quote), quote \in 0..Stale \cup {None},
             UNCHANGED faults \/ Fault
      PROVE  Kept
  <2>1. cache' = [quote |-> quote, at |-> reader] /\ reader \in 0..Ttl
    BY <1>3 DEF Answer, TypeOK
  <2>2. quote \in Quote
    BY <1>3 DEF Quote, Old
  <2>3. TypeOK'
    BY <1>3, <2>1, <2>2 DEF Answer, TypeOK, Fault, service
  <2>4. AgeInv'
    BY <1>3, <2>1 DEF AgeInv
  <2>5. ReleaseInv'
    BY <1>3 DEF Answer, ReleaseInv
  <2> QED
    BY <2>3, <2>4, <2>5
<1>4. ASSUME LoadQuote \/ LoadFails PROVE Kept
  BY <1>3, <1>4 DEF LoadQuote, LoadFails
<1>5. ASSUME TraderCrashes PROVE Kept
  BY <1>5 DEF TraderCrashes, TypeOK, ReleaseInv, AgeInv, service, Fault
<1>6. StartInv'
  BY DEF StartInv, service, OpenTrade, CloseTrade, Subscribe, Unsubscribe, CallFails, Called,
         CacheMiss, LoadQuote, LoadFails, Answer, TraderCrashes
<1> QED
  BY <1>1, <1>2, <1>4, <1>5, <1>6

LEMMA ServiceEffect ==
    ASSUME IInv,
           \/ Loop \/ MidnightPasses \/ RebuildFails \/ TickFails \/ ServiceCrashes
           \/ Connect \/ LoseConnection \/ TickArrives
    PROVE  IInv'
<1>1. UNCHANGED <<trader, claims>>
  BY DEF Loop, StartService, RebuildPlan, Tick, MidnightPasses, RebuildFails, TickFails,
         ServiceCrashes, Connect, LoseConnection, TickArrives, Iterate
<1>2. row' \in Quote
  BY LiveQuotesAssumption DEF Loop, StartService, RebuildPlan, Tick, MidnightPasses, RebuildFails, TickFails, Iterate,
         ServiceCrashes, Connect, LoseConnection, TickArrives, FlushLiveQuotes, IInv, TypeOK,
         Quote, Old
<1>3. /\ svc' \in {"start", "loop"} /\ feed' \in {"none", "stopped", "down", "up"}
      /\ faults' \in 0..MaxFaults
  BY LiveQuotesAssumption DEF Loop, StartService, RebuildPlan, Tick, MidnightPasses, RebuildFails, TickFails, Iterate,
         ServiceCrashes, Connect, LoseConnection, TickArrives, IInv, TypeOK, Fault
<1>4. plan' \in BOOLEAN /\ newDay' \in BOOLEAN /\ last' \in BOOLEAN /\ carried' \in BOOLEAN
  <2>1. plan \in BOOLEAN /\ newDay \in BOOLEAN /\ last \in BOOLEAN /\ carried \in BOOLEAN
    BY Zenon DEF IInv, TypeOK
  <2> QED
    <3>1. CASE Loop \/ TickFails
      <4>1. CASE StartService \/ RebuildPlan
        BY <2>1, <4>1, Zenon DEF StartService, RebuildPlan
      <4>2. CASE Tick \/ TickFails
        <5>1. plan' = plan /\ newDay' = newDay /\ last' = last
          BY <4>2, Zenon DEF Tick, TickFails, Iterate
        <5>2. carried' = carried \/ carried' = (claims # {})
          BY <4>2, Zenon DEF Tick, TickFails, Reconcile
        <5> QED
          BY <2>1, <5>1, <5>2, Zenon
      <4> QED
        BY <3>1, <4>1, <4>2 DEF Loop
    <3>2. CASE MidnightPasses \/ RebuildFails \/ ServiceCrashes
      BY <2>1, <3>2, Zenon DEF MidnightPasses, RebuildFails, ServiceCrashes
    <3>3. CASE Connect \/ LoseConnection \/ TickArrives
      BY <2>1, <3>3, Zenon DEF Connect, LoseConnection, TickArrives
    <3> QED
      BY <3>1, <3>2, <3>3
<1>5. carried' => feed' = "up"
  <2>1. carried => feed = "up"
    BY DEF IInv, TypeOK
  <2>2. CASE StartService
    <3>1. feed = "none"
      BY <2>2 DEF StartService, IInv, StartInv
    <3> QED
      BY <2>1, <2>2, <3>1, Zenon DEF StartService
  <2>3. CASE RebuildPlan \/ RebuildFails \/ ServiceCrashes \/ LoseConnection
    BY <2>3, Zenon DEF RebuildPlan, RebuildFails, ServiceCrashes, LoseConnection
  <2>4. CASE Tick \/ TickFails
    <3>1. feed' = feed /\ (carried' = carried \/ carried' = IF feed = "up" THEN claims # {} ELSE carried)
      BY <2>4, Zenon DEF Tick, TickFails, Iterate, Reconcile
    <3> QED
      BY <2>1, <3>1, Zenon
  <2>5. CASE MidnightPasses \/ Connect \/ TickArrives
    BY <2>1, <2>5, Zenon DEF MidnightPasses, Connect, TickArrives
  <2> QED
    BY <2>2, <2>3, <2>4, <2>5 DEF Loop
<1>6. TypeOK'
  BY <1>1, <1>2, <1>3, <1>4, <1>5 DEF IInv, TypeOK, trader
<1>7. StartInv'
  BY DEF Loop, StartService, RebuildPlan, Tick, MidnightPasses, RebuildFails, TickFails,
         ServiceCrashes, Connect, LoseConnection, TickArrives, Iterate, IInv, StartInv
<1> QED
  BY <1>1, <1>6, <1>7 DEF IInv, AgeInv, ReleaseInv, trader

LEMMA AgeingEffect == IInv /\ TimePasses => IInv'
<1> SUFFICES ASSUME IInv, TimePasses PROVE IInv'
  OBVIOUS
<1> USE LiveQuotesAssumption DEF IInv
<1>1. /\ reader \in 0..Ttl \cup {None} /\ row \in 0..Old \cup {None} /\ Old \in Nat
      /\ cache # None => cache \in [quote : 0..Old \cup {None}, at : 0..Ttl]
  BY DEF TypeOK, Quote, Old
<1>2. reader' \in 0..Ttl \cup {None} /\ row' \in 0..Old \cup {None}
  BY <1>1, OlderType DEF TimePasses
<1>3. CASE cache = None
  BY <1>1, <1>2, <1>3 DEF TimePasses, TypeOK, AgeInv, ReleaseInv, StartInv, Quote
<1>4. CASE cache # None
  <2> DEFINE q == cache.quote
             a == cache.at
  <2>1. q \in 0..Old \cup {None} /\ a \in 0..Ttl /\ a # None
    BY <1>1, <1>4
  <2>2. cache' = [quote |-> Older(q, Old), at |-> Older(a, Ttl)]
    BY <1>4 DEF TimePasses
  <2>3. /\ Older(q, Old) \in 0..Old \cup {None}
        /\ Older(q, Old) = None <=> q = None
        /\ q # None => Older(q, Old) = IF q < Old THEN q + 1 ELSE q
    BY <1>1, <2>1, OlderType
  <2>4. Older(a, Ttl) \in 0..Ttl /\ Older(a, Ttl) = IF a < Ttl THEN a + 1 ELSE a
    BY <2>1, OlderType
  <2>5. q # None => q <= Stale + a
    BY <1>4 DEF AgeInv
  <2> HIDE DEF q, a
  <2>6. q # None => Older(q, Old) <= Stale + Older(a, Ttl)
    BY <2>1, <2>3, <2>4, <2>5 DEF Old
  <2>7. AgeInv'
    BY <2>2, <2>3, <2>6 DEF AgeInv
  <2>8. cache' \in [quote : Quote, at : 0..Ttl]
    BY <2>2, <2>3, <2>4 DEF Quote
  <2>9. TypeOK'
    BY <1>2, <2>8 DEF TimePasses, TypeOK, Quote
  <2> QED
    BY <2>7, <2>9 DEF TimePasses, ReleaseInv, StartInv
<1> QED
  BY <1>3, <1>4

LEMMA NextEffect == IInv /\ [Next]_vars => IInv'
<1>1. ASSUME IInv, UNCHANGED vars PROVE IInv'
  BY <1>1 DEF IInv, TypeOK, AgeInv, ReleaseInv, StartInv, vars, trader, service
<1> QED
  BY <1>1, TraderEffect, ServiceEffect, AgeingEffect DEF Next

THEOREM Invariance == Spec => []IInv
BY InitInvariant, NextEffect, PTL DEF Spec

(* The variables of the quote keep their types, and only a connection that *)
(* is up carries the contract.                                             *)
THEOREM TypeCorrect == Spec => []TypeOK
BY Invariance, PTL DEF IInv

(* The monitor never prices a trade from a row that was older than         *)
(* QUOTE_STALE_SEC and GET_CACHE_TTL_SEC together, whatever the two are:   *)
(* also an answer that took long counts from the time of its question.     *)
THEOREM QuotesAreRecent == Spec => []QuoteIsRecent
<1>1. IInv => QuoteIsRecent
  <2> SUFFICES ASSUME IInv, Cached, cache.quote # None
               PROVE  cache.quote < Stale + Ttl
    BY DEF QuoteIsRecent
  <2>1. cache \in [quote : (0..Old) \cup {None}, at : 0..Ttl]
    BY DEF IInv, TypeOK, Cached, Quote
  <2>2. cache.quote \in Nat /\ cache.at \in Nat
    BY <2>1
  <2>3. cache.quote <= Stale + cache.at /\ cache.at < Ttl
    BY DEF IInv, AgeInv, Cached
  <2> QED
    BY <2>2, <2>3, LiveQuotesAssumption
<1> QED
  BY <1>1, Invariance, PTL

(* However many trades, of however many sessions, share a contract, the    *)
(* claim of an open one is not lost to another's release.                  *)
THEOREM ClaimsKept == Spec => ClaimsAreKept
<1> DEFINE Kept == \A t \in claims : book[t] = "open" => t \in claims'
<1>1. IInv /\ [Next]_vars => [Kept]_vars
  <2> SUFFICES ASSUME IInv, Next, NEW t \in claims, book[t] = "open"
               PROVE  t \in claims'
    OBVIOUS
  <2>1. CASE \E u \in Trades : Unsubscribe(u)
    <3>1. PICK u \in Trades : Unsubscribe(u)
      BY <2>1
    <3>2. book[u] = "closed" /\ claims' = claims \ {u}
      BY <3>1 DEF Unsubscribe, Called, IInv, ReleaseInv
    <3> QED
      BY <3>2
  <2>2. CASE ~\E u \in Trades : Unsubscribe(u)
    <3>1. claims' = claims \/ \E u \in Trades : claims' = claims \cup {u}
      BY <2>2 DEF Next, OpenTrade, CloseTrade, Subscribe, CallFails, CacheMiss, LoadQuote,
                  LoadFails, Answer, TraderCrashes, Loop, StartService, RebuildPlan, Tick,
                  TickFails, Iterate, MidnightPasses, RebuildFails, ServiceCrashes, Connect,
                  LoseConnection, TickArrives, TimePasses
    <3> QED
      BY <3>1
  <2> QED
    BY <2>1, <2>2
<1> QED
  BY <1>1, Invariance, PTL DEF Spec, ClaimsAreKept

===============================================================================
