----------------------------- MODULE ServicesProofs -----------------------------
(***************************************************************************)
(* Proofs about the services: the context that a strategy's threads read   *)
(* through one cache, for any number of threads; the allowance of the      *)
(* planner, for every sequence of days, upgrades and failing probes; its   *)
(* plan, for every scrip master and ranking; the trades the discount scan  *)
(* selects, for every list and limits; the breadth that the picture of the *)
(* market shows, for every frame and failing write; and the scores of      *)
(* options, for every chain and history.                                   *)
(***************************************************************************)
EXTENDS Services, TLAPS, FiniteSetTheorems, WellFoundedInduction

(***************************************************************************)
(* The reader of the context.                                              *)
(***************************************************************************)

Steps == {"idle", "checking", "locking", "loading", "stamping"}
Row == [ts : Int, axes : BOOLEAN]
Context == [ts : Int, available : BOOLEAN]
Caller == [step : Steps, asked : Int, looked : Int, copy : Context, overtaken : BOOLEAN]

(* The variables of the cache and the positions of the threads keep their  *)
(* types.                                                                  *)
ReaderTypes ==
    /\ clock \in Nat /\ newestRow \in Row
    /\ cached \in Context /\ cachedAt \in Int
    /\ holder \in Callers \cup {Nobody}
    /\ caller \in [Callers -> Caller]
    /\ answered \in [context : Context, asked : Int, overtaken : BOOLEAN]

(* Who loads or stamps holds the lock.                                     *)
Busy == {"loading", "stamping"}
HolderInv == \A t \in Callers : caller[t].step \in Busy => holder = t

(* A thread asked before it looked, and the time of the cache is the one   *)
(* at which some thread looked.                                            *)
TimesInv ==
    /\ cachedAt <= clock
    /\ \A t \in Callers :
          /\ caller[t].asked <= clock
          /\ caller[t].step \in Busy =>
                caller[t].asked <= caller[t].looked /\ cachedAt <= caller[t].looked /\ caller[t].looked <= clock

(* A context is no older than allowed at the time it is cached with: the   *)
(* one in the cache at the old time and, once it is replaced, at the new   *)
(* one; the copies threads have taken, unless another context got the time *)
(* they will look at.                                                      *)
Young(context, time) == context.available => time - context.ts <= MaxAge
CacheInv ==
    /\ Young(cached, cachedAt)
    /\ \A t \in Callers :
          /\ caller[t].step = "stamping" => Young(cached, caller[t].looked)
          /\ caller[t].step = "checking" /\ ~caller[t].overtaken => Young(caller[t].copy, cachedAt)

(* The bound itself is part of the invariant: an answer is gone with the   *)
(* next step.                                                              *)
ReaderInv == ReaderTypes /\ HolderInv /\ TimesInv /\ CacheInv /\ ContextIsRecent

(* Nothing is cached, and so nothing is old.                               *)
LEMMA ReaderStarts == ReaderInit /\ Ttl > 0 => ReaderInv
<1> SUFFICES ASSUME ReaderInit, Ttl > 0 PROVE ReaderInv
  OBVIOUS
<1> USE ContextReaderAssumption DEF ReaderInit, Idle, NotAnswered, NoContext, NoRow, NeverCached
<1>1. ReaderTypes
  BY DEF ReaderTypes, Row, Context, Caller, Steps
<1>2. HolderInv /\ TimesInv /\ CacheInv /\ ContextIsRecent
  BY DEF HolderInv, TimesInv, CacheInv, Young, ContextIsRecent, Busy
<1> QED
  BY <1>1, <1>2 DEF ReaderInv

-------------------------------------------------------------------------------

(* What the service does to its file changes nothing of the cache.         *)
LEMMA KeeperEffect ==
    ASSUME ReaderInv, Ttl > 0, Keep \/ TimePasses
    PROVE  ReaderInv'
<1> USE ContextReaderAssumption DEF ReaderInv
<1>1. /\ UNCHANGED <<cached, cachedAt, holder, caller>> /\ answered' = NotAnswered
      /\ clock' \in Nat /\ clock <= clock'
  BY DEF Keep, TimePasses, ReaderTypes
<1>2. newestRow' \in Row
  <2>1. newestRow \in Row /\ clock \in Int
    BY DEF ReaderTypes
  <2>2. \A known \in BOOLEAN : [ts |-> clock, axes |-> known] \in Row /\ NoRow \in Row
    BY <2>1 DEF Row, NoRow
  <2>3. newestRow' \in {newestRow, NoRow} \/ \E known \in BOOLEAN : newestRow' = [ts |-> clock, axes |-> known]
    BY DEF Keep, TimePasses, ApplySchema, Quarantine, KeeperDies, Publish, Open, Damage
  <2> QED
    BY <2>1, <2>2, <2>3, Zenon
<1>3. ReaderTypes'
  BY <1>1, <1>2 DEF ReaderTypes, NotAnswered, NoContext, Context
<1>4. HolderInv' /\ CacheInv'
  BY <1>1 DEF HolderInv, CacheInv, Young
<1>5. TimesInv'
  BY <1>1 DEF TimesInv, ReaderTypes, Caller
<1>6. ContextIsRecent'
  BY <1>1 DEF ContextIsRecent, NotAnswered, NoContext
<1> QED
  BY <1>3, <1>4, <1>5, <1>6

(* A row that is loaded is no older than allowed.                          *)
LEMMA LoadedIsYoung ==
    ASSUME ReaderTypes
    PROVE  Loaded \in Context /\ Young(Loaded, clock)
<1>1. NeutralContext \in Context /\ Young(NeutralContext, clock)
  BY DEF NeutralContext, Context, Young
<1>2. LatestRegimeRow \in Row /\ clock \in Int /\ MaxAge \in Int
  BY ContextReaderAssumption DEF ReaderTypes, LatestRegimeRow, NoRow, Row
<1>3. ASSUME NEW row \in Row
      PROVE  BuildContext(row) \in Context /\ Young(BuildContext(row), clock)
  <2>1. row.ts \in Int /\ row.axes \in BOOLEAN
    BY DEF Row
  <2>2. [ts |-> row.ts, available |-> row.axes] \in Context
    BY <2>1 DEF Context
  <2> QED
    BY <1>1, <1>2, <2>1, <2>2 DEF BuildContext, Young
<1> QED
  BY <1>1, <1>2, <1>3 DEF Loaded

(* A step that concerns one thread leaves the others as they are.          *)
LEMMA OneCaller ==
    ASSUME ReaderTypes, NEW t \in Callers, NEW c \in Caller, caller' = [caller EXCEPT ![t] = c]
    PROVE  /\ caller' \in [Callers -> Caller] /\ caller'[t] = c
           /\ \A u \in Callers : u # t => caller'[u] = caller[u]
BY DEF ReaderTypes

(* What a thread that starts over, asks or looks has in hand.              *)
LEMMA CallerTypes ==
    /\ Idle \in Caller /\ NoContext \in Context
    /\ \A c \in Caller :
          /\ c.step \in Steps /\ c.asked \in Int /\ c.looked \in Int /\ c.copy \in Context
          /\ c.overtaken \in BOOLEAN
    /\ \A c \in Context : c.ts \in Int /\ c.available \in BOOLEAN
    /\ ~NoContext.available
BY DEF Idle, NoContext, Caller, Context, Steps

(* What every step of a thread shows of the other threads.                 *)
LEMMA OthersStay ==
    ASSUME ReaderInv, NEW t \in Callers, NEW c \in Caller, caller' = [caller EXCEPT ![t] = c],
           UNCHANGED <<clock, newestRow, cached, cachedAt>>,
           holder' \in Callers \cup {Nobody}, answered' \in [context : Context, asked : Int, overtaken : BOOLEAN],
           c.step \in Busy => holder' = t, \A u \in Callers : u # t /\ holder = u => holder' = u,
           c.asked <= clock,
           c.step \in Busy => c.asked <= c.looked /\ cachedAt <= c.looked /\ c.looked <= clock,
           c.step = "stamping" => Young(cached, c.looked),
           c.step = "checking" /\ ~c.overtaken => Young(c.copy, cachedAt)
    PROVE  ReaderTypes' /\ HolderInv' /\ TimesInv' /\ CacheInv'
<1>1. /\ caller' \in [Callers -> Caller] /\ caller'[t] = c
      /\ \A u \in Callers : u # t => caller'[u] = caller[u]
  BY OneCaller DEF ReaderInv
<1>2. ReaderTypes'
  BY <1>1 DEF ReaderInv, ReaderTypes
<1>3. HolderInv'
  BY <1>1 DEF ReaderInv, HolderInv
<1>4. TimesInv'
  BY <1>1 DEF ReaderInv, TimesInv
<1>5. CacheInv'
  BY <1>1 DEF ReaderInv, CacheInv, Young
<1> QED
  BY <1>2, <1>3, <1>4, <1>5

(* A call takes a copy of what is cached, which is young for the time it   *)
(* is cached with.                                                         *)
LEMMA CallEffect ==
    ASSUME ReaderInv, NEW t \in Callers, Call(t), UNCHANGED <<clock, newestRow>>
    PROVE  ReaderTypes' /\ HolderInv' /\ TimesInv' /\ CacheInv' /\ ContextIsRecent'
<1> DEFINE s == IF cached = NoContext THEN "locking" ELSE "checking"
           c == [Idle EXCEPT !.step = s, !.asked = clock, !.copy = cached]
<1>1. clock \in Int /\ cached \in Context /\ Young(cached, cachedAt) /\ holder \in Callers \cup {Nobody}
  BY DEF ReaderInv, ReaderTypes, CacheInv
<1>2. c \in Caller /\ c.step \notin Busy /\ c.step # "stamping" /\ c.asked = clock /\ c.copy = cached
  <2>1. s \in {"locking", "checking"}
    OBVIOUS
  <2>2. c \in Caller
    <3>1. Idle \in Caller /\ s \in Steps
      BY <2>1, CallerTypes DEF Steps
    <3> HIDE DEF s
    <3> QED
      BY <1>1, <3>1 DEF Caller
  <2> HIDE DEF s
  <2>3. c.step = s /\ c.asked = clock /\ c.copy = cached
    BY DEF Idle
  <2> QED
    BY <2>1, <2>2, <2>3 DEF Busy
<1>3. caller' = [caller EXCEPT ![t] = c]
  BY Zenon DEF Call
<1>4. answered' = NotAnswered /\ UNCHANGED <<cached, cachedAt, holder>>
  BY DEF Call
<1>5. answered' \in [context : Context, asked : Int, overtaken : BOOLEAN] /\ ContextIsRecent'
  BY <1>4, CallerTypes DEF NotAnswered, ContextIsRecent
<1> HIDE DEF c
<1>6. Young(c.copy, cachedAt) /\ c.asked <= clock
  BY <1>1, <1>2 DEF Young
<1> QED
  BY <1>1, <1>2, <1>3, <1>4, <1>5, <1>6, OthersStay

(* A copy that is returned without the lock is young for the time it is    *)
(* compared with, unless the thread was overtaken between the two.         *)
LEMMA CheckEffect ==
    ASSUME ReaderInv, NEW t \in Callers, Check(t), UNCHANGED <<clock, newestRow>>
    PROVE  ReaderTypes' /\ HolderInv' /\ TimesInv' /\ CacheInv' /\ ContextIsRecent'
<1>1. /\ caller[t] \in Caller /\ caller[t].step = "checking" /\ caller[t].asked <= clock
      /\ holder \in Callers \cup {Nobody} /\ clock \in Int /\ 0 <= clock
      /\ UNCHANGED <<cached, cachedAt, holder>>
  BY DEF Check, ReaderInv, ReaderTypes, TimesInv, Return, Goes
<1>2. CASE caller[t].asked - cachedAt < Ttl /\ Return(t, caller[t].copy)
  <2>1. Idle \in Caller /\ Idle.step = "idle" /\ Idle.asked = 0
    BY CallerTypes DEF Idle
  <2>2. answered' \in [context : Context, asked : Int, overtaken : BOOLEAN]
    BY <1>1, <1>2, CallerTypes DEF Return
  <2>3. ContextIsRecent'
    <3>1. /\ ~caller[t].overtaken => Young(caller[t].copy, cachedAt)
          /\ cachedAt \in Int /\ {Ttl, MaxAge} \subseteq Nat
      BY <1>1, ContextReaderAssumption DEF ReaderInv, CacheInv, ReaderTypes
    <3> QED
      BY <1>1, <1>2, <3>1, CallerTypes DEF Return, ContextIsRecent, Young
  <2> QED
    BY <1>1, <1>2, <2>1, <2>2, <2>3, OthersStay DEF Return, Busy
<1>3. CASE Goes(t, "checking", "locking")
  <2> DEFINE c == [caller[t] EXCEPT !.step = "locking"]
  <2>1. c \in Caller /\ c.step = "locking" /\ c.asked = caller[t].asked
    BY <1>1 DEF Caller, Steps
  <2>2. caller' = [caller EXCEPT ![t] = c] /\ answered' = NotAnswered
    BY <1>3 DEF Goes
  <2>3. answered' \in [context : Context, asked : Int, overtaken : BOOLEAN] /\ ContextIsRecent'
    BY <2>2, CallerTypes DEF NotAnswered, ContextIsRecent
  <2> HIDE DEF c
  <2> QED
    BY <1>1, <2>1, <2>2, <2>3, OthersStay DEF Busy
<1> QED
  BY <1>2, <1>3 DEF Check

(* Under the lock both variables belong together, or the thread looks and  *)
(* loads.                                                                  *)
LEMMA RecheckEffect ==
    ASSUME ReaderInv, NEW t \in Callers, Recheck(t), UNCHANGED <<clock, newestRow>>
    PROVE  ReaderTypes' /\ HolderInv' /\ TimesInv' /\ CacheInv' /\ ContextIsRecent'
<1>1. /\ caller[t] \in Caller /\ caller[t].step = "locking" /\ caller[t].asked <= clock
      /\ holder = Nobody /\ Nobody \notin Callers /\ clock \in Int /\ 0 <= clock
      /\ cachedAt \in Int /\ cachedAt <= clock /\ cached \in Context /\ Young(cached, cachedAt)
      /\ {Ttl, MaxAge} \subseteq Nat /\ UNCHANGED <<cached, cachedAt>>
  BY ContextReaderAssumption DEF Recheck, ReaderInv, ReaderTypes, TimesInv, CacheInv
<1>2. CASE clock - cachedAt < Ttl /\ Return(t, cached) /\ UNCHANGED holder
  <2>1. Idle \in Caller /\ Idle.step = "idle" /\ Idle.asked = 0
    BY CallerTypes DEF Idle
  <2>2. answered' \in [context : Context, asked : Int, overtaken : BOOLEAN]
    BY <1>1, <1>2, CallerTypes DEF Return
  <2>3. ContextIsRecent'
    BY <1>1, <1>2, CallerTypes DEF Return, ContextIsRecent, Young
  <2> QED
    BY <1>1, <1>2, <2>1, <2>2, <2>3, OthersStay DEF Return, Busy
<1>3. CASE /\ caller' = [caller EXCEPT ![t].step = "loading", ![t].looked = clock]
           /\ holder' = t /\ answered' = NotAnswered
  <2> DEFINE c == [caller[t] EXCEPT !.step = "loading", !.looked = clock]
  <2>1. c \in Caller /\ c.step = "loading" /\ c.asked = caller[t].asked /\ c.looked = clock
    BY <1>1 DEF Caller, Steps
  <2>2. caller' = [caller EXCEPT ![t] = c]
    BY <1>3 DEF ReaderInv, ReaderTypes
  <2>3. answered' \in [context : Context, asked : Int, overtaken : BOOLEAN] /\ ContextIsRecent'
    BY <1>3, CallerTypes DEF NotAnswered, ContextIsRecent
  <2> HIDE DEF c
  <2>4. c.asked <= clock /\ c.asked <= c.looked /\ cachedAt <= c.looked /\ c.looked <= clock
    BY <1>1, <2>1
  <2>5. holder' \in Callers \cup {Nobody} /\ \A u \in Callers : u # t /\ holder = u => holder' = u
    BY <1>1, <1>3
  <2>6. c.step # "stamping" /\ c.step # "checking"
    BY <2>1
  <2> QED
    BY <1>1, <1>3, <2>1, <2>2, <2>3, <2>4, <2>5, <2>6, OthersStay
<1> QED
  BY <1>2, <1>3 DEF Recheck

(* The thread that loads is the only one under the lock.                   *)
LEMMA LoadEffect ==
    ASSUME ReaderInv, NEW t \in Callers, Load(t), UNCHANGED <<clock, newestRow>>
    PROVE  ReaderTypes' /\ HolderInv' /\ TimesInv' /\ CacheInv' /\ ContextIsRecent'
<1> DEFINE c == [caller[t] EXCEPT !.step = "stamping"]
<1>1. /\ caller[t] \in Caller /\ caller[t].step = "loading" /\ holder = t /\ clock \in Int
      /\ cachedAt \in Int /\ UNCHANGED <<clock, newestRow, cachedAt, holder>> /\ cached' = Loaded
      /\ cachedAt <= caller[t].looked /\ caller[t].looked <= clock /\ caller[t].asked <= clock
      /\ caller[t].asked <= caller[t].looked
  BY DEF Load, Goes, ReaderInv, ReaderTypes, HolderInv, TimesInv, Busy
<1>2. c \in Caller /\ c.step = "stamping" /\ c.asked = caller[t].asked /\ c.looked = caller[t].looked
  BY <1>1 DEF Caller, Steps
<1>3. caller' = [caller EXCEPT ![t] = c] /\ answered' = NotAnswered
  BY DEF Load, Goes
<1> HIDE DEF c
<1>4. /\ caller' \in [Callers -> Caller] /\ caller'[t] = c
      /\ \A u \in Callers : u # t => caller'[u] = caller[u]
  BY <1>2, <1>3, OneCaller DEF ReaderInv
<1>5. cached' \in Context /\ Young(cached', clock)
  BY <1>1, LoadedIsYoung DEF ReaderInv
<1>6. answered' \in [context : Context, asked : Int, overtaken : BOOLEAN] /\ ContextIsRecent'
  BY <1>3, CallerTypes DEF NotAnswered, ContextIsRecent
<1>7. ReaderTypes'
  BY <1>1, <1>4, <1>5, <1>6 DEF ReaderInv, ReaderTypes
<1>8. HolderInv' /\ TimesInv'
  BY <1>1, <1>2, <1>4 DEF ReaderInv, HolderInv, TimesInv, Busy
<1>9. CacheInv'
  <2>1. caller[t].looked \in Int /\ cached'.ts \in Int /\ MaxAge \in Int
    BY <1>1, <1>5, CallerTypes, ContextReaderAssumption
  <2>2. Young(cached', cachedAt) /\ Young(cached', caller[t].looked)
    BY <1>1, <1>5, <2>1 DEF Young
  <2>3. \A u \in Callers : u # t => caller'[u].step # "stamping"
    BY <1>1, <1>4 DEF ReaderInv, HolderInv, Busy
  <2>4. \A u \in Callers : u # t /\ caller'[u].step = "checking" /\ ~caller'[u].overtaken => Young(caller'[u].copy, cachedAt)
    BY <1>4 DEF ReaderInv, CacheInv
  <2> QED
    BY <1>1, <1>2, <1>4, <2>2, <2>3, <2>4 DEF CacheInv, Young
<1> QED
  BY <1>6, <1>7, <1>8, <1>9

(* The new context gets the time at which its thread looked; who has a     *)
(* copy of the old one in hand is overtaken.                               *)
LEMMA StampEffect ==
    ASSUME ReaderInv, Ttl > 0, NEW t \in Callers, Stamp(t), UNCHANGED <<clock, newestRow>>
    PROVE  ReaderTypes' /\ HolderInv' /\ TimesInv' /\ CacheInv' /\ ContextIsRecent'
<1> DEFINE Late(u) == [caller[u] EXCEPT !.overtaken = @ \/ caller[u].step = "checking"]
<1>1. /\ caller \in [Callers -> Caller] /\ clock \in Int /\ 0 <= clock /\ cached \in Context
      /\ caller[t] \in Caller /\ caller[t].step = "stamping" /\ holder = t
      /\ cachedAt' = caller[t].looked /\ UNCHANGED <<clock, newestRow, cached>> /\ holder' = Nobody
      /\ caller[t].looked <= clock /\ caller[t].asked <= caller[t].looked
      /\ Young(cached, caller[t].looked) /\ {Ttl, MaxAge} \subseteq Nat
  BY ContextReaderAssumption DEF Stamp, ReaderInv, ReaderTypes, HolderInv, TimesInv, CacheInv, Busy
<1>2. /\ DOMAIN caller' = Callers /\ caller' = [u \in Callers |-> caller'[u]]
      /\ caller'[t] = Idle /\ \A u \in Callers : u # t => caller'[u] = Late(u)
  BY DEF Stamp
<1>3. \A u \in Callers :
         /\ Late(u) \in Caller /\ Late(u).step = caller[u].step /\ Late(u).asked = caller[u].asked
         /\ Late(u).step = "checking" => Late(u).overtaken
  <2> TAKE u \in Callers
  <2>1. caller[u] \in Caller /\ (caller[u].overtaken \/ caller[u].step = "checking") \in BOOLEAN
    BY <1>1
  <2>2. Late(u) = [step |-> caller[u].step, asked |-> caller[u].asked, looked |-> caller[u].looked,
                   copy |-> caller[u].copy, overtaken |-> caller[u].overtaken \/ caller[u].step = "checking"]
    BY <2>1 DEF Caller
  <2> QED
    BY <2>1, <2>2, CallerTypes DEF Caller
<1> HIDE DEF Late
<1>4. caller' \in [Callers -> Caller]
  <2>1. \A u \in Callers : caller'[u] \in Caller
    BY <1>2, <1>3, CallerTypes
  <2> QED
    BY <1>2, <2>1
<1>5. ReaderTypes'
  <2>1. answered' \in [context : Context, asked : Int, overtaken : BOOLEAN]
    BY <1>1, CallerTypes DEF Stamp
  <2>2. caller[t].looked \in Int
    BY <1>1, CallerTypes
  <2> QED
    BY <1>1, <1>4, <2>1, <2>2 DEF ReaderInv, ReaderTypes
<1>6. \A u \in Callers : caller'[u].step \notin Busy
  BY <1>1, <1>2, <1>3 DEF ReaderInv, HolderInv, Busy, Idle
<1>7. HolderInv' /\ TimesInv'
  <2>1. \A u \in Callers : caller'[u].asked <= clock
    BY <1>1, <1>2, <1>3 DEF ReaderInv, TimesInv, Idle
  <2> QED
    BY <1>1, <1>6, <2>1 DEF HolderInv, TimesInv
<1>8. CacheInv'
  <2>1. \A u \in Callers : caller'[u].step = "checking" => caller'[u].overtaken
    BY <1>2, <1>3 DEF Idle
  <2> QED
    BY <1>1, <1>6, <2>1 DEF CacheInv, Young, Busy
<1>9. ContextIsRecent'
  BY <1>1, CallerTypes DEF Stamp, ContextIsRecent, Young
<1> QED
  BY <1>5, <1>7, <1>8, <1>9

(* The steps of the other services leave the reader alone.                 *)
LEMMA ReaderEffect == ASSUME Ttl > 0, ReaderInv, [Next]_vars PROVE ReaderInv'
<1>1. CASE UNCHANGED readerVars
  BY <1>1 DEF ReaderInv, ReaderTypes, HolderInv, TimesInv, CacheInv, Young, ContextIsRecent, readerVars
<1>2. CASE Keeping \/ Waiting
  BY <1>2, KeeperEffect DEF Keeping, Waiting
<1>3. CASE Getting
  BY <1>3, CallEffect, CheckEffect, RecheckEffect, LoadEffect, StampEffect DEF Getting, Get, ReaderInv
<1>4. UNCHANGED readerVars \/ Keeping \/ Waiting \/ Getting
  BY DEF Next, vars, Snapshot, Minute, Night, DayPasses, ChangeAccount, PlanSubscriptions,
         ScanSecurities, LoadUniverse, JudgeOptions, SelectTrades
<1> QED
  BY <1>1, <1>2, <1>3, <1>4

(* Whatever the threads, the service and its file do, and however their    *)
(* steps interleave, a context that get() calls available was younger than *)
(* the greatest age and a life of the cache together when it was asked     *)
(* for, unless the thread was overtaken.  A life of zero would let a       *)
(* thread return what it was given at the very bound.                      *)
THEOREM ContextsAreRecent == ASSUME Ttl > 0 PROVE Spec => []ContextIsRecent
<1>1. Init => ReaderInv
  BY ReaderStarts DEF Init
<1>2. ReaderInv /\ [Next]_vars => ReaderInv'
  BY ReaderEffect
<1>3. ReaderInv => ContextIsRecent
  BY DEF ReaderInv
<1> QED
  BY <1>1, <1>2, <1>3, PTL DEF Spec

(***************************************************************************)
(* The allowance of the planner.                                           *)
(***************************************************************************)

(* An allowance of Plus that the last probe found was measured on the      *)
(* account no longer ago than its age says, and an account that has Plus   *)
(* has it now.                                                             *)
AllowanceInv ==
    /\ date \in Nat /\ account \in {Standard, Plus} /\ sincePlus \in Int
    /\ account = Plus => sincePlus = 0
    /\ allowance \in [value : {NotProbed, Standard, Plus}, at : Int \cup {NotProbed}, found : {NotProbed, Standard, Plus}]
    /\ allowance.at # NotProbed => allowance.at <= date
    /\ allowance.value = Plus /\ allowance.value = allowance.found /\ allowance.at # NotProbed =>
          sincePlus <= date - allowance.at
    /\ AllowanceIsRecent

(* What the allowance needs to know of the constants.                      *)
LEMMA PlannerConstants ==
    /\ ProbeMax \in Nat /\ ProbeTtl \in Nat /\ MaxDay \in Nat
    /\ Standard \in Nat /\ Plus \in Nat /\ Standard < Plus
    /\ PlanTier \in {"auto", "standard", "plus"}
    /\ NotProbed \notin Nat
BY SubscriptionPlanAssumption, ServicesAssumption

(* Nothing was measured.                                                   *)
LEMMA AllowanceStarts == Init => AllowanceInv
<1> SUFFICES ASSUME Init PROVE AllowanceInv
  OBVIOUS
<1> USE PlannerConstants DEF Init
<1>1. account \in {Standard, Plus} /\ sincePlus \in Int /\ (account = Plus => sincePlus = 0)
  BY DEF LongAgo
<1>2. AllowanceIsRecent
  BY DEF AllowanceIsRecent, Reported
<1> QED
  BY <1>1, <1>2 DEF AllowanceInv

(* A day more, and a change of the account, age a measurement by no less   *)
(* than they age the account's Plus.                                       *)
LEMMA AllowanceAges ==
    ASSUME AllowanceInv, DayPasses \/ ChangeAccount
    PROVE  AllowanceInv'
<1> USE PlannerConstants DEF AllowanceInv
<1>1. date' \in Nat /\ date <= date' /\ allowance' = allowance /\ report' = NoReport
  BY DEF DayPasses, ChangeAccount
<1>2. account' \in {Standard, Plus} /\ sincePlus' \in Int /\ (account' = Plus => sincePlus' = 0)
  BY DEF DayPasses, ChangeAccount, Least, LongAgo
<1>3. ASSUME allowance.value = Plus, allowance.value = allowance.found, allowance.at # NotProbed
      PROVE  sincePlus' <= date' - allowance.at
  <2>1. allowance.at \in Int /\ allowance.at <= date /\ sincePlus <= date - allowance.at
    BY <1>3
  <2>2. CASE ChangeAccount
    BY <2>1, <2>2 DEF ChangeAccount
  <2>3. CASE DayPasses
    <3>1. sincePlus' <= sincePlus + 1 /\ date' = date + 1
      BY <2>3 DEF DayPasses, Least, LongAgo
    <3>2. sincePlus \in Int /\ sincePlus' \in Int /\ date \in Int
      BY <1>2
    <3> HIDE PlannerConstants DEF AllowanceInv
    <3> QED
      BY <2>1, <3>1, <3>2
  <2> QED
    BY <2>2, <2>3
<1>4. AllowanceIsRecent'
  BY <1>1 DEF AllowanceIsRecent, Reported
<1>5. allowance'.at # NotProbed => allowance'.at <= date'
  BY <1>1
<1> QED
  BY <1>1, <1>2, <1>3, <1>4, <1>5

(* A probe finds Plus only on an account that has it now.                  *)
LEMMA ProbeFindsPlus ==
    ASSUME Standard <= 1, AllowanceInv, NEW opened \in 0..Least(ProbeMax, account), Probed(opened) = Plus
    PROVE  account = Plus
<1>1. ProbeMax \in Nat /\ Standard \in Nat /\ Plus \in Nat /\ Standard < Plus /\ account \in {Standard, Plus}
  BY PlannerConstants DEF AllowanceInv
<1>2. opened <= account
  BY <1>1 DEF Least
<1>3. opened > 1
  BY <1>1, <1>2 DEF Probed, Most
<1> QED
  BY <1>1, <1>2, <1>3

(* Whichever entries a probe writes, what it found is new.                 *)
LEMMA CacheEffect ==
    ASSUME AllowanceInv, NEW detected \in {Standard, Plus}, Cache(detected), detected = Plus => sincePlus = 0,
           UNCHANGED <<date, account, sincePlus>>
    PROVE  /\ allowance' \in [value : {NotProbed, Standard, Plus}, at : Int \cup {NotProbed},
                              found : {NotProbed, Standard, Plus}]
           /\ allowance'.at # NotProbed => allowance'.at <= date
           /\ allowance'.value = Plus /\ allowance'.value = allowance'.found /\ allowance'.at # NotProbed =>
                 sincePlus <= date - allowance'.at
<1>1. PICK written \in SUBSET {"value", "at"} :
         allowance' = [value |-> IF "value" \in written THEN detected ELSE allowance.value,
                       at    |-> IF "at" \in written THEN date ELSE allowance.at,
                       found |-> IF written # {} THEN detected ELSE allowance.found]
  BY DEF Cache
<1>2. /\ date \in Int /\ sincePlus \in Int
      /\ allowance \in [value : {NotProbed, Standard, Plus}, at : Int \cup {NotProbed}, found : {NotProbed, Standard, Plus}]
      /\ allowance.at # NotProbed => allowance.at <= date
  BY DEF AllowanceInv
<1>3. CASE written = {}
  <2>1. allowance' = allowance
    BY <1>1, <1>2, <1>3
  <2> QED
    BY <2>1 DEF AllowanceInv
<1>4. CASE written # {}
  <2>1. /\ allowance'.found = detected
        /\ allowance'.at \in {date, allowance.at}
        /\ allowance'.value \in {detected, allowance.value}
        /\ allowance' \in [value : {NotProbed, Standard, Plus}, at : Int \cup {NotProbed}, found : {NotProbed, Standard, Plus}]
    BY <1>1, <1>2, <1>4
  <2>2. allowance'.at # NotProbed => allowance'.at \in Int /\ allowance'.at <= date
    BY <1>2, <2>1
  <2>3. allowance'.value = Plus /\ allowance'.value = allowance'.found => sincePlus = 0
    BY <2>1
  <2> QED
    BY <1>2, <2>1, <2>2, <2>3
<1> QED
  BY <1>3, <1>4

(* A plan uses the measurement of a probe now or of one that is still      *)
(* trusted.                                                                *)
LEMMA PlannerEffect ==
    ASSUME Standard <= 1, AllowanceInv, PlanSubscriptions
    PROVE  AllowanceInv'
<1>1. PICK detected \in {Standard, Plus} :
         /\ Detect(detected)
         /\ report' # NoReport => report'.detected = detected
         /\ UNCHANGED <<date, account, sincePlus>>
  BY DEF PlanSubscriptions
<1>2. /\ Standard \in Nat /\ Plus \in Nat /\ Standard < Plus /\ account \in {Standard, Plus} /\ date \in Nat
      /\ sincePlus \in Int /\ ProbeTtl \in Nat
  BY PlannerConstants DEF AllowanceInv
<1>3. CASE PlanTier # "auto"
  BY <1>1, <1>3 DEF Detect, AllowanceInv, AllowanceIsRecent
<1>4. CASE PlanTier = "auto" /\ Recent /\ detected = allowance.value /\ UNCHANGED allowance
  <2>1. /\ allowance.value # NotProbed /\ allowance.at # NotProbed /\ allowance.at \in Int
        /\ date - allowance.at <= ProbeTtl /\ detected = allowance.value /\ allowance' = allowance
    BY <1>4 DEF AllowanceInv, Recent
  <2>2. detected = Plus => sincePlus <= ProbeTtl \/ allowance.value # allowance.found
    BY <1>2, <2>1 DEF AllowanceInv
  <2>3. AllowanceIsRecent'
    BY <1>1, <2>1, <2>2 DEF AllowanceIsRecent, Reported
  <2> QED
    BY <1>1, <2>1, <2>3 DEF AllowanceInv
<1>5. CASE /\ PlanTier = "auto"
           /\ \E opened \in 0..Least(ProbeMax, account) : detected = Probed(opened)
           /\ Cache(detected)
  <2>1. detected = Plus => account = Plus
    BY <1>5, ProbeFindsPlus
  <2>2. detected = Plus => sincePlus = 0
    BY <2>1 DEF AllowanceInv
  <2>3. AllowanceIsRecent'
    BY <1>1, <1>2, <2>2 DEF AllowanceIsRecent, Reported
  <2>4. /\ allowance' \in [value : {NotProbed, Standard, Plus}, at : Int \cup {NotProbed},
                           found : {NotProbed, Standard, Plus}]
        /\ allowance'.at # NotProbed => allowance'.at <= date
        /\ allowance'.value = Plus /\ allowance'.value = allowance'.found /\ allowance'.at # NotProbed =>
              sincePlus <= date - allowance'.at
    BY <1>1, <1>5, <2>2, CacheEffect
  <2> QED
    BY <1>1, <2>3, <2>4 DEF AllowanceInv
<1> QED
  BY <1>1, <1>3, <1>4, <1>5 DEF Detect

(* Every step keeps the invariant.                                         *)
LEMMA AllowanceEffect ==
    ASSUME Standard <= 1, AllowanceInv, [Next]_vars
    PROVE  AllowanceInv'
<1>1. CASE DayPasses \/ ChangeAccount
  BY <1>1, AllowanceAges
<1>2. CASE PlanSubscriptions
  BY <1>2, PlannerEffect
<1>3. CASE ~(DayPasses \/ ChangeAccount \/ PlanSubscriptions)
  <2>1. /\ UNCHANGED <<account, sincePlus, allowance>> /\ date' \in Nat /\ date <= date'
        /\ report' = report \/ report'.kind # "plan"
    BY <1>3 DEF AllowanceInv, Next, vars, scanVars, plannerVars, Snapshot, Minute, Night, Keeping, Getting, Waiting,
                ScanSecurities, LoadUniverse, JudgeOptions, SelectTrades
  <2>2. AllowanceIsRecent'
    BY <2>1 DEF AllowanceInv, AllowanceIsRecent, Reported
  <2>3. /\ allowance.at # NotProbed => allowance.at <= date'
        /\ allowance.value = Plus /\ allowance.value = allowance.found /\ allowance.at # NotProbed =>
              sincePlus <= date' - allowance.at
    <3>1. /\ date \in Int /\ date' \in Int /\ date <= date' /\ sincePlus \in Int
          /\ allowance.at # NotProbed => allowance.at \in Int
      BY <2>1 DEF AllowanceInv
    <3> QED
      BY <3>1 DEF AllowanceInv
  <2> QED
    BY <2>1, <2>2, <2>3 DEF AllowanceInv
<1> QED
  BY <1>1, <1>2, <1>3

(* For every life of a measurement, all upgrades, downgrades and probes    *)
(* that stop early, and whichever reads and writes of the cache fail, no   *)
(* plan counts on connections of Plus that the account lost longer ago     *)
(* than a measurement is trusted, unless the date of the cache was written *)
(* by a probe that found otherwise and whose own result was not.  The      *)
(* account of one connection must not pass for Plus: the probe takes more  *)
(* than one for it.                                                        *)
THEOREM AllowancesAreRecent == ASSUME Standard <= 1 PROVE Spec => []AllowanceIsRecent
<1>1. AllowanceInv /\ [Next]_vars => AllowanceInv'
  BY AllowanceEffect
<1>2. AllowanceInv => AllowanceIsRecent
  BY DEF AllowanceInv
<1> QED
  BY AllowanceStarts, <1>1, <1>2, PTL DEF Spec

(***************************************************************************)
(* The plan of the day.                                                    *)
(***************************************************************************)

(* Induction up to a bound, about the numbers that have a property.        *)
LEMMA CountUp ==
    ASSUME NEW bound \in Nat, NEW S, 0 \in S,
           \A n \in 1..bound : n - 1 \in S => n \in S
    PROVE  \A n \in 0..bound : n \in S
<1>1. SUFFICES ASSUME 0..bound \ S # {} PROVE FALSE
  OBVIOUS
<1>2. PICK n \in 0..bound \ S : \A m \in 0..bound \ S : ~(m < n)
  <2>1. 0..bound \ S \subseteq Nat
    OBVIOUS
  <2>2. \E n \in 0..bound \ S : \A m \in 0..bound \ S : ~(<<m, n>> \in OpToRel(<, Nat))
    BY <1>1, <2>1, NatLessThanWellFounded, WFMin
  <2>3. \A m, n \in 0..bound \ S : m < n => <<m, n>> \in OpToRel(<, Nat)
    BY <2>1, Zenon DEF OpToRel
  <2> QED
    BY <2>2, <2>3, Zenon
<1>3. n \in 1..bound /\ n - 1 \in 0..bound /\ n - 1 < n
  BY <1>2
<1> QED
  BY <1>2, <1>3

(* What comes of a value that N functions are applied to, one by one.      *)
Stages(N, X, a, g, f) ==
    /\ f \in [0..N -> X] /\ f[0] = a
    /\ \A n \in 1..N : f[n] = g[n][f[n - 1]]

(* It exists.                                                              *)
LEMMA StagesExist ==
    ASSUME NEW N \in Nat, NEW X, NEW a \in X, NEW g \in [1..N -> [X -> X]]
    PROVE  \E f : Stages(N, X, a, g, f)
<1> DEFINE S == {n \in 0..N : \E f : Stages(n, X, a, g, f)}
<1>1. 0 \in S
  <2> DEFINE f == [m \in 0..0 |-> a]
  <2>1. Stages(0, X, a, g, f)
    BY DEF Stages
  <2> HIDE DEF f
  <2> QED
    BY <2>1
<1>2. ASSUME NEW n \in 1..N, n - 1 \in S PROVE n \in S
  <2>1. PICK f : Stages(n - 1, X, a, g, f)
    BY <1>2
  <2> DEFINE next == [m \in 0..n |-> IF m = n THEN g[n][f[n - 1]] ELSE f[m]]
  <2>2. g[n][f[n - 1]] \in X
    BY <2>1 DEF Stages
  <2>3. next \in [0..n -> X] /\ next[0] = a
    BY <2>1, <2>2 DEF Stages
  <2>4. ASSUME NEW m \in 1..n
        PROVE  next[m] = g[m][next[m - 1]]
    <3>1. m - 1 \in 0..n /\ m \in 0..n /\ m - 1 # n
      OBVIOUS
    <3>2. next[m - 1] = f[m - 1]
      BY <3>1
    <3>3. CASE m = n
      BY <3>1, <3>2, <3>3
    <3>4. CASE m # n
      <4>1. m \in 1..(n - 1) /\ next[m] = f[m]
        BY <3>1, <3>4
      <4> HIDE DEF next
      <4> QED
        BY <3>2, <4>1, <2>1 DEF Stages
    <3> QED
      BY <3>3, <3>4
  <2>5. Stages(n, X, a, g, next)
    <3> HIDE DEF next
    <3> QED
      BY <2>3, <2>4 DEF Stages
  <2> HIDE DEF next
  <2> QED
    BY <2>5
<1>3. N \in S
  <2> HIDE DEF S
  <2>1. \A n \in 1..N : n - 1 \in S => n \in S
    BY <1>2
  <2>2. \A n \in 0..N : n \in S
    BY <1>1, <2>1, CountUp
  <2> QED
    BY <2>2
<1> QED
  BY <1>3

-------------------------------------------------------------------------------

(* kept[n] is what is in keep of the first n of a sequence.                *)
Keeps(seq, keep, kept) ==
    /\ kept \in [0..Len(seq) -> Seq(keep)] /\ kept[0] = <<>>
    /\ \A n \in 1..Len(seq) :
          kept[n] = IF seq[n] \in keep THEN Append(kept[n - 1], seq[n]) ELSE kept[n - 1]

(* Filter takes the last of them.                                          *)
LEMMA FilterKeeps ==
    ASSUME NEW S, NEW seq \in Seq(S), NEW keep
    PROVE  \E kept : Keeps(seq, keep, kept) /\ Filter(seq, keep) = kept[Len(seq)]
<1> DEFINE N == Len(seq)
           X == Seq(keep)
           Rule(kept) ==
             [n \in 0..Len(seq) |->
                IF n = 0 THEN <<>>
                ELSE IF seq[n] \in keep THEN Append(kept[n - 1], seq[n]) ELSE kept[n - 1]]
           chosen == CHOOSE kept : kept = Rule(kept)
           g == [n \in 1..N |-> [s \in X |-> IF seq[n] \in keep THEN Append(s, seq[n]) ELSE s]]
<1>1. Filter(seq, keep) = chosen[N]
  BY DEF Filter
<1>2. N \in Nat /\ <<>> \in X /\ g \in [1..N -> [X -> X]]
  OBVIOUS
<1>3. PICK f : Stages(N, X, <<>>, g, f)
  <2> HIDE DEF g, X, N
  <2> QED
    BY <1>2, StagesExist
<1>4. f \in [0..N -> X]
  BY <1>3 DEF Stages
<1>5. \A n \in 1..N : f[n] = IF seq[n] \in keep THEN Append(f[n - 1], seq[n]) ELSE f[n - 1]
  <2> TAKE n \in 1..N
  <2>1. n - 1 \in 0..N /\ f[n] = g[n][f[n - 1]]
    <3> HIDE DEF g, X
    <3> QED
      BY <1>2, <1>3 DEF Stages
  <2>2. f[n - 1] \in X
    BY <1>4, <2>1
  <2>3. g[n] = [s \in X |-> IF seq[n] \in keep THEN Append(s, seq[n]) ELSE s]
    OBVIOUS
  <2>4. g[n][f[n - 1]] = IF seq[n] \in keep THEN Append(f[n - 1], seq[n]) ELSE f[n - 1]
    BY <2>2, <2>3, Zenon
  <2> QED
    BY <2>1, <2>4
<1>6. f = Rule(f)
  <2>1. f = [n \in 0..N |-> f[n]] /\ f[0] = <<>>
    BY <1>3 DEF Stages
  <2>2. ASSUME NEW n \in 0..N PROVE f[n] = Rule(f)[n]
    <3>1. CASE n = 0
      BY <2>1, <3>1
    <3>2. CASE n # 0
      <4>1. n \in 1..N
        BY <3>2
      <4> QED
        BY <4>1, <3>2, <1>5
    <3> QED
      BY <3>1, <3>2
  <2>3. Rule(f) = [n \in 0..N |-> Rule(f)[n]]
    OBVIOUS
  <2> HIDE DEF Rule
  <2> QED
    BY <2>1, <2>2, <2>3, Zenon
<1>7. chosen = Rule(chosen)
  <2> HIDE DEF Rule
  <2> QED
    BY <1>6
<1> HIDE DEF chosen
<1>8. \A n \in 0..N : chosen[n] = IF n = 0 THEN <<>> ELSE IF seq[n] \in keep THEN Append(chosen[n - 1], seq[n]) ELSE chosen[n - 1]
  BY <1>7
<1>9. \A n \in 0..N : chosen[n] \in X
  <2> DEFINE S0 == {n \in 0..N : chosen[n] \in X}
  <2>1. 0 \in S0
    <3>1. 0 \in 0..N /\ chosen[0] = <<>>
      BY <1>2, <1>8
    <3> QED
      BY <1>2, <3>1
  <2>2. ASSUME NEW n \in 1..N, n - 1 \in S0 PROVE n \in S0
    <3>1. n \in 0..N /\ n # 0 /\ chosen[n - 1] \in X
      BY <2>2
    <3>2. chosen[n] = IF seq[n] \in keep THEN Append(chosen[n - 1], seq[n]) ELSE chosen[n - 1]
      BY <3>1, <1>8
    <3>3. chosen[n] \in X
      BY <3>1, <3>2
    <3> QED
      BY <3>1, <3>3
  <2> HIDE DEF S0
  <2>3. \A n \in 0..N : n \in S0
    BY <1>2, <2>1, <2>2, CountUp
  <2> QED
    BY <2>3 DEF S0
<1>10. chosen = [n \in 0..N |-> chosen[n]]
  <2>1. DOMAIN Rule(chosen) = 0..N /\ Rule(chosen) = [n \in 0..N |-> Rule(chosen)[n]]
    OBVIOUS
  <2> QED
    BY <1>7, <2>1, Zenon
<1>11. Keeps(seq, keep, chosen)
  <2>1. chosen \in [0..N -> X]
    BY <1>9, <1>10
  <2>2. chosen[0] = <<>>
    BY <1>2, <1>8
  <2>3. \A n \in 1..N :
           chosen[n] = IF seq[n] \in keep THEN Append(chosen[n - 1], seq[n]) ELSE chosen[n - 1]
    BY <1>8
  <2> QED
    BY <2>1, <2>2, <2>3 DEF Keeps
<1> QED
  BY <1>1, <1>11

(* There is but one way to keep.                                           *)
LEMMA KeepsOnce ==
    ASSUME NEW S, NEW s \in Seq(S), NEW t \in Seq(S), NEW keep, NEW a, NEW b,
           Keeps(s, keep, a), Keeps(t, keep, b),
           Len(s) <= Len(t), \A i \in 1..Len(s) : s[i] = t[i]
    PROVE  \A n \in 0..Len(s) : a[n] = b[n]
<1> DEFINE A == {n \in 0..Len(s) : a[n] = b[n]}
<1>1. 0 \in A
  BY DEF Keeps
<1>2. \A n \in 1..Len(s) : n - 1 \in A => n \in A
  <2> SUFFICES ASSUME NEW n \in 1..Len(s), n - 1 \in A PROVE n \in A
    OBVIOUS
  <2>1. s[n] = t[n] /\ n \in 1..Len(t) /\ a[n - 1] = b[n - 1]
    OBVIOUS
  <2>2. a[n] = b[n]
    BY <2>1, Zenon DEF Keeps
  <2> QED
    BY <2>2
<1> HIDE DEF A
<1>3. \A n \in 0..Len(s) : n \in A
  <2>1. Len(s) \in Nat
    OBVIOUS
  <2> QED
    BY <1>1, <1>2, <2>1, CountUp
<1> QED
  BY <1>3 DEF A

(* What is kept of fewer is the beginning of what is kept of more.         *)
LEMMA KeepsBeginning ==
    ASSUME NEW S, NEW seq \in Seq(S), NEW keep, NEW kept, Keeps(seq, keep, kept),
           NEW m \in 0..Len(seq)
    PROVE  \A n \in m..Len(seq) :
              Len(kept[m]) <= Len(kept[n]) /\ \A i \in 1..Len(kept[m]) : kept[n][i] = kept[m][i]
<1> DEFINE Begins(n) == Len(kept[m]) <= Len(kept[n]) /\ \A i \in 1..Len(kept[m]) : kept[n][i] = kept[m][i]
           A == {n \in 0..Len(seq) : n >= m => Begins(n)}
<1>1. kept[m] \in Seq(keep) /\ Len(kept[m]) \in Nat /\ Len(seq) \in Nat
  BY DEF Keeps
<1>2. 0 \in A
  BY <1>1
<1>3. ASSUME NEW n \in 1..Len(seq), n - 1 \in A PROVE n \in A
  <2>1. CASE n <= m
    BY <1>1, <2>1
  <2>2. CASE n > m
    <3>1. Begins(n - 1)
      BY <1>3, <2>2
    <3>2. kept[n - 1] \in Seq(keep)
      BY DEF Keeps
    <3>3. kept[n] = IF seq[n] \in keep THEN Append(kept[n - 1], seq[n]) ELSE kept[n - 1]
      BY DEF Keeps
    <3>4. CASE seq[n] \in keep
      <4>1. Len(kept[n]) = Len(kept[n - 1]) + 1 /\ \A i \in 1..Len(kept[n - 1]) : kept[n][i] = kept[n - 1][i]
        BY <3>2, <3>3, <3>4
      <4>2. Len(kept[n - 1]) \in Nat
        BY <3>2
      <4>3. Begins(n)
        BY <1>1, <3>1, <4>1, <4>2
      <4> QED
        BY <4>3
    <3>5. CASE seq[n] \notin keep
      <4>1. Begins(n)
        BY <3>1, <3>3, <3>5
      <4> QED
        BY <4>1
    <3> QED
      BY <3>4, <3>5
  <2> QED
    BY <2>1, <2>2
<1>4. \A n \in 0..Len(seq) : n \in A
  <2>1. \A n \in 1..Len(seq) : n - 1 \in A => n \in A
    BY <1>3
  <2> HIDE DEF A
  <2> QED
    BY <1>1, <1>2, <2>1, CountUp
<1> QED
  BY <1>1, <1>4

(* What is kept and what is left out of the first n are n together.        *)
LEMMA KeptAndLeft ==
    ASSUME NEW S, NEW seq \in Seq(S), NEW keep, NEW kept, Keeps(seq, keep, kept)
    PROVE  \A n \in 0..Len(seq) :
              LET left == {i \in 1..n : seq[i] \notin keep}
              IN  IsFiniteSet(left) /\ Cardinality(left) \in Nat /\ Len(kept[n]) + Cardinality(left) = n
<1> DEFINE Left(n) == {i \in 1..n : seq[i] \notin keep}
           A == {n \in 0..Len(seq) : IsFiniteSet(Left(n)) /\ Cardinality(Left(n)) \in Nat /\ Len(kept[n]) + Cardinality(Left(n)) = n}
<1>1. Len(seq) \in Nat
  OBVIOUS
<1>2. 0 \in A
  <2>1. Left(0) = {} /\ Len(kept[0]) = 0
    BY DEF Keeps
  <2> HIDE DEF Left
  <2> QED
    BY <2>1, <1>1, FS_EmptySet
<1>3. ASSUME NEW n \in 1..Len(seq), n - 1 \in A PROVE n \in A
  <2>1. kept[n - 1] \in Seq(keep) /\ Len(kept[n - 1]) \in Nat
    BY DEF Keeps
  <2>2. kept[n] = IF seq[n] \in keep THEN Append(kept[n - 1], seq[n]) ELSE kept[n - 1]
    BY DEF Keeps
  <2>3. CASE seq[n] \in keep
    <3>1. Left(n) = Left(n - 1)
      BY <2>3
    <3>2. Len(kept[n]) = Len(kept[n - 1]) + 1
      BY <2>1, <2>2, <2>3
    <3> HIDE DEF Left
    <3> QED
      BY <1>3, <3>1, <3>2, <2>1
  <2>4. CASE seq[n] \notin keep
    <3>1. Left(n) = Left(n - 1) \cup {n} /\ n \notin Left(n - 1)
      BY <2>4
    <3> HIDE DEF Left
    <3>2. IsFiniteSet(Left(n)) /\ Cardinality(Left(n)) = Cardinality(Left(n - 1)) + 1
      BY <1>3, <3>1, FS_AddElement
    <3>3. Len(kept[n]) = Len(kept[n - 1])
      BY <2>2, <2>4
    <3>4. /\ Cardinality(Left(n - 1)) \in Nat /\ Len(kept[n - 1]) + Cardinality(Left(n - 1)) = n - 1
          /\ n \in 0..Len(seq)
      BY <1>3
    <3> QED
      BY <3>2, <3>3, <3>4, <2>1
  <2> QED
    BY <2>3, <2>4
<1>4. \A n \in 0..Len(seq) : n \in A
  <2>1. \A n \in 1..Len(seq) : n - 1 \in A => n \in A
    BY <1>3
  <2> HIDE DEF A
  <2> QED
    BY <1>1, <1>2, <2>1, CountUp
<1> QED
  BY <1>4

-------------------------------------------------------------------------------

(* The first n of a sequence.                                              *)
LEMMA FirstOf ==
    ASSUME NEW S, NEW seq \in Seq(S), NEW n \in Nat
    PROVE  /\ First(seq, n) \in Seq(S) /\ Len(First(seq, n)) = Least(n, Len(seq))
           /\ Len(First(seq, n)) \in Nat /\ Len(First(seq, n)) <= n /\ Len(First(seq, n)) <= Len(seq)
           /\ \A i \in 1..Len(First(seq, n)) : First(seq, n)[i] = seq[i]
BY DEF First, Least

(* Sequences of the same elements are the same.                            *)
LEMMA SameElements ==
    ASSUME NEW S, NEW s \in Seq(S), NEW t \in Seq(S), Len(s) = Len(t),
           \A i \in 1..Len(s) : s[i] = t[i]
    PROVE  s = t
OBVIOUS

(* To fetch as many rows more as there are indices is enough.  A ranking   *)
(* that names each of them once loses no stock that belongs to the first.  *)
LEMMA MostLiquid ==
    ASSUME NEW S, NEW ranking \in Seq(S), IsInjective(ranking), NEW limit \in Nat, NEW few \in 0..limit
    PROVE  LET liquid == Filter(ranking, ToSet(ranking) \ NonStocks)
           IN  /\ liquid \in Seq(ToSet(ranking) \ NonStocks)
               /\ LiquidSymbols(ranking, limit) \in Seq(ToSet(ranking) \ NonStocks)
               /\ First(LiquidSymbols(ranking, limit), few) = First(liquid, few)
<1> DEFINE keep == ToSet(ranking) \ NonStocks
           more == Cardinality(NonStocks)
           rows == First(ranking, limit + more)
           m == Len(rows)
           liquid == Filter(ranking, keep)
           fetched == Filter(rows, keep)
           chosen == LiquidSymbols(ranking, limit)
<1> HIDE DEF keep
<1>1. IsFiniteSet(NonStocks) /\ more \in Nat
  BY SubscriptionPlanAssumption, FS_CardinalityType
<1>2. /\ rows \in Seq(S) /\ m \in 0..Len(ranking) /\ m = Least(limit + more, Len(ranking))
      /\ \A i \in 1..m : rows[i] = ranking[i]
  <2> HIDE DEF more, rows
  <2>1. limit + more \in Nat
    BY <1>1
  <2> QED
    BY <2>1, FirstOf DEF rows
<1> HIDE DEF rows
<1>3. PICK all : Keeps(ranking, keep, all) /\ liquid = all[Len(ranking)]
  BY FilterKeeps
<1>4. PICK kept : Keeps(rows, keep, kept) /\ fetched = kept[m]
  BY <1>2, FilterKeeps
<1>5. kept[m] = all[m]
  <2>1. \A n \in 0..m : kept[n] = all[n]
    BY <1>2, <1>3, <1>4, KeepsOnce
  <2> QED
    BY <1>2, <2>1
<1>6. /\ liquid \in Seq(keep) /\ fetched \in Seq(keep)
      /\ Len(liquid) \in Nat /\ Len(fetched) \in Nat
  <2>1. all[Len(ranking)] \in Seq(keep) /\ kept[m] \in Seq(keep)
    <3>1. Len(ranking) \in Nat /\ m \in Nat
      BY <1>2
    <3>2. all \in [0..Len(ranking) -> Seq(keep)] /\ kept \in [0..m -> Seq(keep)]
      BY <1>3, <1>4 DEF Keeps
    <3> QED
      BY <3>1, <3>2
  <2> HIDE DEF liquid, fetched
  <2> QED
    BY <1>3, <1>4, <2>1
<1>7. Len(fetched) <= Len(liquid) /\ \A i \in 1..Len(fetched) : liquid[i] = fetched[i]
  <2>1. Len(all[m]) <= Len(all[Len(ranking)]) /\ \A i \in 1..Len(all[m]) : all[Len(ranking)][i] = all[m][i]
    <3>1. Len(ranking) \in m..Len(ranking)
      BY <1>2
    <3> HIDE DEF m, liquid, fetched, chosen
    <3>2. \A k \in 0..Len(ranking) : \A n \in k..Len(ranking) :
             Len(all[k]) <= Len(all[n]) /\ \A i \in 1..Len(all[k]) : all[n][i] = all[k][i]
      BY <1>3, KeepsBeginning
    <3> QED
      BY <1>2, <3>1, <3>2
  <2> HIDE DEF liquid, fetched
  <2> QED
    BY <1>3, <1>4, <1>5, <2>1
<1>8. fetched = liquid \/ limit <= Len(fetched)
  <2>1. CASE m = Len(ranking)
    <3> HIDE DEF liquid, fetched
    <3> QED
      BY <1>3, <1>4, <1>5, <2>1
  <2>2. CASE m # Len(ranking)
    <3> DEFINE left == {i \in 1..m : ranking[i] \notin keep}
               name == [i \in left |-> ranking[i]]
    <3>1. m = limit + more
      BY <1>1, <1>2, <2>2 DEF Least
    <3>2. IsFiniteSet(left) /\ Cardinality(left) \in Nat /\ Len(all[m]) + Cardinality(left) = m
      BY <1>2, <1>3, KeptAndLeft
    <3>3. \A i \in 1..m : ranking[i] \in ToSet(ranking) /\ i \in DOMAIN ranking
      BY <1>2 DEF ToSet
    <3>4. name \in Injection(left, NonStocks)
      <4>1. name \in [left -> NonStocks]
        BY <3>3 DEF keep
      <4>2. IsInjective(name)
        BY <3>3 DEF IsInjective
      <4> QED
        BY <4>1, <4>2 DEF Injection
    <3>5. Cardinality(left) <= more
      <4> HIDE DEF left, name
      <4> QED
        BY <1>1, <3>4, FS_Injection
    <3> HIDE DEF left, more, liquid, fetched, m
    <3> QED
      BY <1>1, <1>4, <1>5, <1>6, <3>1, <3>2, <3>5
  <2> QED
    BY <2>1, <2>2
<1>9. chosen = First(fetched, limit)
  BY DEF LiquidSymbols, rows, keep
<1> HIDE DEF liquid, fetched, chosen
<1>10. /\ chosen \in Seq(keep) /\ Len(chosen) = Least(limit, Len(fetched))
       /\ \A i \in 1..Len(chosen) : chosen[i] = fetched[i]
  BY <1>6, <1>9, FirstOf
<1>11. First(chosen, few) = First(liquid, few)
  <2> DEFINE a == First(chosen, few)
             b == First(liquid, few)
  <2>1. a \in Seq(keep) /\ Len(a) = Least(few, Len(chosen)) /\ \A i \in 1..Len(a) : a[i] = chosen[i]
    BY <1>10, FirstOf
  <2>2. b \in Seq(keep) /\ Len(b) = Least(few, Len(liquid)) /\ \A i \in 1..Len(b) : b[i] = liquid[i]
    BY <1>6, FirstOf
  <2>3. Len(a) = Len(b) /\ Len(a) <= Len(chosen) /\ Len(chosen) <= Len(fetched) /\ Len(a) \in Nat /\ Len(chosen) \in Nat
    <3> HIDE DEF a, b
    <3> QED
      BY <1>6, <1>7, <1>8, <1>10, <2>1, <2>2 DEF Least
  <2> HIDE DEF a, b
  <2>4. \A i \in 1..Len(a) : a[i] = b[i]
    <3> TAKE i \in 1..Len(a)
    <3>1. i \in 1..Len(b) /\ i \in 1..Len(chosen) /\ i \in 1..Len(fetched)
      BY <1>6, <2>3
    <3> QED
      BY <1>7, <1>10, <2>1, <2>2, <3>1
  <2>5. a = b
    BY <2>1, <2>2, <2>3, <2>4, SameElements
  <2> QED
    BY <2>5 DEF a, b
<1> QED
  BY <1>6, <1>10, <1>11 DEF keep, liquid, chosen

-------------------------------------------------------------------------------

(* Lists one after the other are a list.                                   *)
LEMMA ConcatType ==
    ASSUME NEW S, NEW N \in Nat, NEW seqs \in [1..N -> Seq(S)]
    PROVE  Concat(seqs) \in Seq(S)
<1> DEFINE X == Seq(S)
           Rule(joined) == [n \in 0..Len(seqs) |-> IF n = 0 THEN <<>> ELSE joined[n - 1] \o seqs[n]]
           chosen == CHOOSE joined : joined = Rule(joined)
           g == [n \in 1..N |-> [s \in X |-> s \o seqs[n]]]
<1>1. Concat(seqs) = chosen[N] /\ Len(seqs) = N
  BY DEF Concat
<1>2. <<>> \in X /\ g \in [1..N -> [X -> X]]
  OBVIOUS
<1>3. PICK f : Stages(N, X, <<>>, g, f)
  <2> HIDE DEF g, X
  <2> QED
    BY <1>2, StagesExist
<1>4. f \in [0..N -> X] /\ f[0] = <<>>
  BY <1>3 DEF Stages
<1>5. \A n \in 1..N : f[n] = f[n - 1] \o seqs[n]
  <2> TAKE n \in 1..N
  <2>1. n - 1 \in 0..N /\ f[n] = g[n][f[n - 1]]
    <3> HIDE DEF g, X
    <3> QED
      BY <1>3 DEF Stages
  <2>2. f[n - 1] \in X
    BY <1>4, <2>1
  <2>3. g[n] = [s \in X |-> s \o seqs[n]]
    OBVIOUS
  <2>4. g[n][f[n - 1]] = f[n - 1] \o seqs[n]
    BY <2>2, <2>3, Zenon
  <2> QED
    BY <2>1, <2>4
<1>6. f = Rule(f)
  <2>1. f = [n \in 0..N |-> f[n]]
    BY <1>4
  <2>2. ASSUME NEW n \in 0..N PROVE f[n] = Rule(f)[n]
    <3>1. CASE n = 0
      BY <1>1, <1>4, <3>1
    <3>2. CASE n # 0
      <4>1. n \in 1..N
        BY <3>2
      <4> QED
        BY <1>1, <4>1, <3>2, <1>5
    <3> QED
      BY <3>1, <3>2
  <2>3. Rule(f) = [n \in 0..N |-> Rule(f)[n]]
    BY <1>1
  <2> HIDE DEF Rule
  <2> QED
    BY <2>1, <2>2, <2>3, Zenon
<1>7. chosen = Rule(chosen)
  <2> HIDE DEF Rule
  <2> QED
    BY <1>6
<1> HIDE DEF chosen
<1>8. \A n \in 0..N : chosen[n] = IF n = 0 THEN <<>> ELSE chosen[n - 1] \o seqs[n]
  BY <1>1, <1>7
<1> DEFINE A == {n \in 0..N : chosen[n] \in X}
<1>9. 0 \in A
  <2>1. 0 \in 0..N /\ chosen[0] = <<>>
    BY <1>8
  <2> QED
    BY <1>2, <2>1
<1>10. ASSUME NEW n \in 1..N, n - 1 \in A PROVE n \in A
  <2>1. n \in 0..N /\ n # 0 /\ chosen[n - 1] \in X /\ seqs[n] \in X
    BY <1>10
  <2>2. chosen[n] = chosen[n - 1] \o seqs[n]
    BY <2>1, <1>8
  <2>3. chosen[n] \in X
    BY <2>1, <2>2
  <2> QED
    BY <2>1, <2>3
<1>11. \A n \in 0..N : n \in A
  <2>1. \A n \in 1..N : n - 1 \in A => n \in A
    BY <1>10
  <2> HIDE DEF A
  <2> QED
    BY <1>9, <2>1, CountUp
<1>12. N \in 0..N
  OBVIOUS
<1> QED
  BY <1>1, <1>11, <1>12

(* Indices, equities and chains of futures are lists.                      *)
LEMMA NamesResolve ==
    ASSUME NEW S, NEW names \in Seq(S), NEW master
    PROVE  /\ \E I : ResolveIndices(master, names) \in Seq(I)
           /\ \E I : EquityKeys(master, names) \in Seq(I)
<1>1. ASSUME NEW keep PROVE Filter(names, keep) \in Seq(keep)
  <2>1. PICK kept : Keeps(names, keep, kept) /\ Filter(names, keep) = kept[Len(names)]
    BY FilterKeeps
  <2>2. Len(names) \in Nat /\ kept \in [0..Len(names) -> Seq(keep)]
    BY <2>1 DEF Keeps
  <2> QED
    BY <2>1, <2>2
<1>2. ASSUME NEW T, NEW listed \in Seq(T)
      PROVE  /\ [i \in DOMAIN listed |-> Index(listed[i])] \in Seq({Index(n) : n \in T})
             /\ [i \in DOMAIN listed |-> Equity(listed[i])] \in Seq({Equity(n) : n \in T})
  OBVIOUS
<1>3. <<>> \in Seq({})
  OBVIOUS
<1>4. \E I : ResolveIndices(master, names) \in Seq(I)
  <2> DEFINE listed == Filter(names, master.indices)
  <2>1. listed \in Seq(master.indices)
    BY <1>1
  <2> HIDE DEF listed
  <2>2. [i \in DOMAIN listed |-> Index(listed[i])] \in Seq({Index(n) : n \in master.indices})
    BY <2>1, <1>2
  <2>3. ResolveIndices(master, names) \in {<<>>, [i \in DOMAIN listed |-> Index(listed[i])]}
    BY DEF ResolveIndices, listed
  <2> QED
    BY <1>3, <2>2, <2>3
<1>5. \E I : EquityKeys(master, names) \in Seq(I)
  <2> DEFINE listed == Filter(names, master.equities)
  <2>1. listed \in Seq(master.equities)
    BY <1>1
  <2> HIDE DEF listed
  <2>2. [i \in DOMAIN listed |-> Equity(listed[i])] \in Seq({Equity(n) : n \in master.equities})
    BY <2>1, <1>2
  <2>3. EquityKeys(master, names) \in {<<>>, [i \in DOMAIN listed |-> Equity(listed[i])]}
    BY DEF EquityKeys, listed
  <2> QED
    BY <1>3, <2>2, <2>3
<1> QED
  BY <1>4, <1>5

LEMMA ChainType ==
    ASSUME NEW master, master # NoMaster, NEW name, IsFiniteSet(master.futures[name]),
           NEW count \in Nat, NEW today
    PROVE  \E I : FuturesChain(master, name, count, today) \in Seq(I)
<1> DEFINE open == {day \in master.futures[name] : day >= today}
           n == Least(count, Cardinality(open))
           chain == [i \in 1..n |-> Future(name, Nth(open, i))]
           I == {Future(name, Nth(open, i)) : i \in 1..n}
<1>1. Cardinality(open) \in Nat
  BY FS_Subset, FS_CardinalityType
<1>2. n \in Nat
  BY <1>1 DEF Least
<1>3. FuturesChain(master, name, count, today) = chain
  BY DEF FuturesChain
<1> HIDE DEF open, n
<1>4. chain \in Seq(I)
  BY <1>2
<1> QED
  BY <1>3, <1>4

(* So are chains one after the other.                                      *)
LEMMA ChainsJoin ==
    ASSUME NEW N \in Nat, NEW seqs, seqs = [i \in 1..N |-> seqs[i]],
           \A i \in 1..N : \E I : seqs[i] \in Seq(I)
    PROVE  \E I : Concat(seqs) \in Seq(I)
<1> DEFINE All == UNION {ToSet(seqs[i]) : i \in 1..N}
<1>1. ASSUME NEW i \in 1..N PROVE seqs[i] \in Seq(All)
  <2>1. PICK I : seqs[i] \in Seq(I)
    OBVIOUS
  <2>2. ASSUME NEW k \in 1..Len(seqs[i]) PROVE seqs[i][k] \in All
    <3>1. seqs[i][k] \in ToSet(seqs[i])
      BY <2>1 DEF ToSet
    <3> QED
      BY <3>1
  <2> HIDE DEF All
  <2> QED
    BY <2>1, <2>2
<1> HIDE DEF All
<1>2. seqs \in [1..N -> Seq(All)]
  BY <1>1
<1> QED
  BY <1>2, ConcatType

-------------------------------------------------------------------------------

(* A tier that is trimmed.                                                 *)
LEMMA TrimOf ==
    ASSUME NEW S, NEW plan \in [1..4 -> Seq(S)], NEW tier \in 1..4, NEW limit \in Nat
    PROVE  LET trimmed == Trim(plan, tier, limit)
               n == Len(plan[tier])
               kept == n - Least(Most(Total(plan) - limit, 0), n)
           IN  /\ trimmed \in [1..4 -> Seq(S)] /\ kept \in 0..n
               /\ trimmed[tier] = First(plan[tier], kept) /\ Len(trimmed[tier]) = kept
               /\ \A t \in 1..4 : t # tier => trimmed[t] = plan[t]
<1> DEFINE n == Len(plan[tier])
           kept == n - Least(Most(Total(plan) - limit, 0), n)
<1>1. n \in Nat /\ Total(plan) \in Nat
  BY DEF Total
<1>2. kept \in 0..n
  BY <1>1 DEF Least, Most
<1>3. Trim(plan, tier, limit) = [plan EXCEPT ![tier] = First(@, kept)]
  BY DEF Trim
<1> HIDE DEF kept
<1>4. First(plan[tier], kept) \in Seq(S) /\ Len(First(plan[tier], kept)) = kept
  BY <1>1, <1>2, FirstOf DEF Least
<1> QED
  BY <1>2, <1>3, <1>4 DEF kept

(* Lengths n of the tiers that give way to a limit, the third before the   *)
(* fourth before the second, and what they add up to each time.            *)
GiveWay(n, m, sums, limit) ==
    /\ sums[3] = n[1] + n[2] + n[3] + n[4] /\ m[3] = n[3] - Least(Most(sums[3] - limit, 0), n[3])
    /\ sums[4] = n[1] + n[2] + m[3] + n[4] /\ m[4] = n[4] - Least(Most(sums[4] - limit, 0), n[4])
    /\ sums[2] = n[1] + n[2] + m[3] + m[4] /\ m[2] = n[2] - Least(Most(sums[2] - limit, 0), n[2])
    /\ sums[1] = n[1] + m[2] + m[3] + m[4]

LEMMA WhoGivesWay ==
    ASSUME NEW n \in [1..4 -> Nat], NEW m, NEW sums, NEW limit \in Nat, GiveWay(n, m, sums, limit)
    PROVE  /\ sums[1] > limit => \A t \in 2..4 : m[t] = 0
           /\ m[3] < n[3] => sums[1] >= limit
           /\ m[4] < n[4] => sums[1] >= limit /\ m[3] = 0
           /\ m[2] < n[2] => sums[1] >= limit /\ m[3] = 0 /\ m[4] = 0
BY DEF GiveWay, Least, Most

(* What a plan keeps of each tier, and at what size it loses some of it.   *)
LEMMA EnforcedPlan ==
    ASSUME NEW S, NEW plan \in [1..4 -> Seq(S)], NEW limit \in Nat
    PROVE  LET p == EnforceCapacity(plan, limit)
               cut(t) == Len(p[t]) < Len(plan[t])
           IN  /\ \A t \in 2..4 : IsPrefix(p[t], plan[t])
               /\ Total(p) > limit => \A t \in 2..4 : p[t] = <<>>
               /\ cut(3) => Total(p) >= limit
               /\ cut(4) => Total(p) >= limit /\ p[3] = <<>>
               /\ cut(2) => Total(p) >= limit /\ p[3] = <<>> /\ p[4] = <<>>
<1> DEFINE p3 == Trim(plan, 3, limit)
           p4 == Trim(p3, 4, limit)
           p == Trim(p4, 2, limit)
           n == [t \in 1..4 |-> Len(plan[t])]
           m == [t \in 1..4 |-> Len(p[t])]
           Cut(seq, k) == Len(seq) - Least(Most(k - limit, 0), Len(seq))
<1>1. EnforceCapacity(plan, limit) = p
  BY DEF EnforceCapacity
<1>2. /\ p3 \in [1..4 -> Seq(S)]
      /\ Len(p3[3]) = Cut(plan[3], Total(plan)) /\ Len(p3[3]) \in 0..Len(plan[3])
      /\ p3[3] = First(plan[3], Len(p3[3]))
      /\ p3[1] = plan[1] /\ p3[2] = plan[2] /\ p3[4] = plan[4]
  <2> HIDE DEF p3
  <2> QED
    BY TrimOf DEF p3
<1> HIDE DEF p3
<1>3. /\ p4 \in [1..4 -> Seq(S)]
      /\ Len(p4[4]) = Cut(plan[4], Total(p3)) /\ Len(p4[4]) \in 0..Len(plan[4])
      /\ p4[4] = First(plan[4], Len(p4[4]))
      /\ p4[1] = plan[1] /\ p4[2] = plan[2] /\ p4[3] = p3[3]
  <2> HIDE DEF p4
  <2> QED
    BY <1>2, TrimOf DEF p4
<1> HIDE DEF p4
<1>4. /\ p \in [1..4 -> Seq(S)]
      /\ Len(p[2]) = Cut(plan[2], Total(p4)) /\ Len(p[2]) \in 0..Len(plan[2])
      /\ p[2] = First(plan[2], Len(p[2]))
      /\ p[1] = plan[1] /\ p[3] = p3[3] /\ p[4] = p4[4]
  <2> HIDE DEF p
  <2> QED
    BY <1>3, TrimOf DEF p
<1> HIDE DEF p
<1>5. \A t \in 2..4 :
         /\ p[t] \in Seq(S) /\ p[t] = First(plan[t], Len(p[t])) /\ Len(p[t]) \in 0..Len(plan[t])
         /\ Len(p[t]) = 0 => p[t] = <<>>
  BY <1>2, <1>3, <1>4
<1>6. /\ n \in [1..4 -> Nat] /\ Total(p) = m[1] + m[2] + m[3] + m[4]
      /\ \A t \in 1..4 : n[t] = Len(plan[t]) /\ m[t] = Len(p[t])
  BY DEF Total
<1> DEFINE sums == <<Total(p), Total(p4), Total(plan), Total(p3)>>
<1>7. GiveWay(n, m, sums, limit)
  <2>1. Total(plan) = n[1] + n[2] + n[3] + n[4]
    BY DEF Total
  <2>2. Total(p3) = n[1] + n[2] + m[3] + n[4]
    BY <1>2, <1>4 DEF Total
  <2>3. Total(p4) = n[1] + n[2] + m[3] + m[4]
    <3>1. n[1] = Len(p4[1]) /\ n[2] = Len(p4[2]) /\ m[3] = Len(p4[3]) /\ m[4] = Len(p4[4])
      BY <1>3, <1>4, <1>6
    <3> HIDE DEF n, m
    <3> QED
      BY <3>1 DEF Total
  <2>4. m[1] = n[1]
    BY <1>4, <1>6
  <2>5. m[3] = n[3] - Least(Most(Total(plan) - limit, 0), n[3])
    BY <1>2, <1>4, <1>6
  <2>6. m[4] = n[4] - Least(Most(Total(p3) - limit, 0), n[4])
    BY <1>3, <1>4, <1>6
  <2>7. m[2] = n[2] - Least(Most(Total(p4) - limit, 0), n[2])
    BY <1>4, <1>6
  <2>8. sums[1] = Total(p) /\ sums[2] = Total(p4) /\ sums[3] = Total(plan) /\ sums[4] = Total(p3)
    OBVIOUS
  <2> HIDE DEF n, m, sums
  <2> QED
    BY <1>6, <2>1, <2>2, <2>3, <2>4, <2>5, <2>6, <2>7, <2>8, Zenon DEF GiveWay
<1>8. \A t \in 2..4 : IsPrefix(p[t], plan[t])
  <2> TAKE t \in 2..4
  <2>1. Least(Len(p[t]), Len(plan[t])) = Len(p[t]) /\ Len(p[t]) <= Len(plan[t])
    BY <1>5 DEF Least
  <2>2. p[t] = SubSeq(plan[t], 1, Len(p[t]))
    BY <1>5, <2>1 DEF First
  <2>3. SubSeq(p[t], 1, Len(p[t])) = p[t]
    BY <1>5
  <2> QED
    BY <2>1, <2>2, <2>3 DEF IsPrefix
<1>9. /\ Total(p) > limit => \A t \in 2..4 : m[t] = 0
      /\ m[3] < n[3] => Total(p) >= limit
      /\ m[4] < n[4] => Total(p) >= limit /\ m[3] = 0
      /\ m[2] < n[2] => Total(p) >= limit /\ m[3] = 0 /\ m[4] = 0
  <2>1. sums[1] = Total(p)
    OBVIOUS
  <2> HIDE DEF n, m, sums
  <2> QED
    BY <1>6, <1>7, <2>1, WhoGivesWay
<1> HIDE DEF n, m
<1>10. \A t \in 2..4 : t \in 1..4 /\ t \in {2, 3, 4}
  OBVIOUS
<1>11. 2 \in 2..4 /\ 3 \in 2..4 /\ 4 \in 2..4
  OBVIOUS
<1> QED
  BY <1>1, <1>5, <1>6, <1>8, <1>9, <1>10, <1>11

(* What PlanFitsTheBudget says of one plan.                                *)
Fits(plan, master, ranking, detected, today) ==
    LET budget == Budget(detected)
        liquid == Filter(ranking, ToSet(ranking) \ NonStocks)
        stocks == EquityKeys(master, First(liquid, budget.tier3))
        futures == StockFutures(master, First(liquid, budget.tier4), today)
        sectors == ResolveIndices(master, SectorIndices)
        cut(tier, wanted) == Len(plan[tier]) < Len(wanted)
    IN  /\ Total(plan) > budget.capacity => \A t \in 2..4 : plan[t] = <<>>
        /\ IsPrefix(plan[3], stocks) /\ IsPrefix(plan[4], futures)
        /\ cut(3, stocks) => Total(plan) >= budget.capacity
        /\ cut(4, futures) => Total(plan) >= budget.capacity /\ plan[3] = <<>>
        /\ cut(2, First(sectors, budget.tier2)) =>
               Total(plan) >= budget.capacity /\ plan[3] = <<>> /\ plan[4] = <<>>

(* The plan of a day takes of each tier what the budget, the master and    *)
(* the ranking allow, and gives way to the capacity from its end.          *)
LEMMA PlanOfTheDay ==
    ASSUME NEW master, master # NoMaster, NEW S, NEW ranking \in Seq(S), IsInjective(ranking),
           \A name \in ToSet(Underlyings) \cup (ToSet(ranking) \ NonStocks) : IsFiniteSet(master.futures[name]),
           NEW detected \in Nat, NEW today
    PROVE  Fits(BuildPlan(master, ranking, detected, today), master, ranking, detected, today)
<1> DEFINE budget == Budget(detected)
           keep == ToSet(ranking) \ NonStocks
           liquid == Filter(ranking, keep)
           limit == Most(budget.tier3, budget.tier4)
           ranked == LiquidSymbols(ranking, limit)
           indices == ResolveIndices(master, Tier1Indices)
           contracts == Concat([i \in DOMAIN Underlyings |-> FuturesChain(master, Underlyings[i], 2, today)])
           sectors == ResolveIndices(master, SectorIndices)
           stocks == EquityKeys(master, First(liquid, budget.tier3))
           futures == StockFutures(master, First(liquid, budget.tier4), today)
           first == indices \o contracts
           second == First(sectors, budget.tier2)
           tiers == <<first, second, stocks, futures>>
<1>1. budget.tier2 \in Nat /\ budget.tier3 \in Nat /\ budget.tier4 \in Nat /\ budget.capacity \in Nat
  <2>1. Connections(detected) \in Nat
    BY SubscriptionPlanAssumption DEF Connections
  <2>2. Most(Connections(detected), 1) \in Nat
    BY <2>1 DEF Most
  <2>3. Most(Connections(detected), 1) * KeysPerConnection \in Nat
    BY <2>2, SubscriptionPlanAssumption
  <2> DEFINE capacity == Most(Connections(detected), 1) * KeysPerConnection
  <2> HIDE DEF capacity
  <2> DEFINE plus == Broker(detected) = "plus"
             remaining == Most(capacity - Tier1Keys - Tier2Keys, 0)
             most4 == IF plus THEN PlusFutures ELSE StandardFutures
             most3 == IF plus THEN PlusStocks ELSE StandardStocks
             tier4 == Least(most4, remaining)
             tier3 == Least(most3, remaining - tier4)
  <2>4. budget = [capacity |-> capacity, tier2 |-> Tier2Keys, tier4 |-> tier4, tier3 |-> tier3]
    BY DEF Budget, capacity
  <2>5. capacity \in Nat /\ Tier2Keys \in Nat /\ most4 \in Nat /\ most3 \in Nat
    BY <2>3, SubscriptionPlanAssumption DEF capacity
  <2>6. remaining \in Nat
    BY <2>5, SubscriptionPlanAssumption DEF Most
  <2> HIDE DEF remaining, most3, most4
  <2>7. tier4 \in Nat /\ tier3 \in Nat
    BY <2>5, <2>6 DEF Least
  <2> QED
    BY <2>4, <2>5, <2>7
<1>2. limit \in Nat /\ budget.tier3 \in 0..limit /\ budget.tier4 \in 0..limit
  BY <1>1 DEF Most
<1>3. /\ liquid \in Seq(keep)
      /\ First(ranked, budget.tier3) = First(liquid, budget.tier3)
      /\ First(ranked, budget.tier4) = First(liquid, budget.tier4)
  <2> HIDE DEF budget, limit
  <2> QED
    BY <1>2, MostLiquid
<1>4. BuildPlan(master, ranking, detected, today) = EnforceCapacity(tiers, budget.capacity)
  BY <1>3 DEF BuildPlan
<1> HIDE DEF budget, liquid, ranked, limit
<1>5. First(liquid, budget.tier3) \in Seq(keep) /\ First(liquid, budget.tier4) \in Seq(keep)
  BY <1>1, <1>3, FirstOf
<1>6. \E I : indices \in Seq(I)
  BY SubscriptionPlanAssumption, NamesResolve
<1>7. \E I : sectors \in Seq(I)
  BY SubscriptionPlanAssumption, NamesResolve
<1>8. \E I : second \in Seq(I)
  BY <1>1, <1>7, FirstOf
<1>9. \E I : stocks \in Seq(I)
  BY <1>5, NamesResolve
<1>10. \E I : contracts \in Seq(I)
  <2> DEFINE chains == [i \in DOMAIN Underlyings |-> FuturesChain(master, Underlyings[i], 2, today)]
  <2>1. Underlyings \in Seq(ToSet(Underlyings)) /\ DOMAIN Underlyings = 1..Len(Underlyings) /\ Len(Underlyings) \in Nat
    BY SubscriptionPlanAssumption
  <2>2. \A i \in 1..Len(Underlyings) : \E I : FuturesChain(master, Underlyings[i], 2, today) \in Seq(I)
    <3> TAKE i \in 1..Len(Underlyings)
    <3>1. IsFiniteSet(master.futures[Underlyings[i]])
      BY <2>1
    <3> QED
      BY <3>1, ChainType
  <2>3. \A i \in 1..Len(Underlyings) : \E I : chains[i] \in Seq(I)
    BY <2>1, <2>2
  <2>4. chains = [i \in 1..Len(Underlyings) |-> chains[i]]
    BY <2>1
  <2> HIDE DEF chains
  <2>5. \E I : Concat(chains) \in Seq(I)
    BY <2>1, <2>3, <2>4, ChainsJoin
  <2> QED
    BY <2>5 DEF chains
<1>11. \E I : futures \in Seq(I)
  <2> DEFINE names == First(liquid, budget.tier4)
             chains == [i \in DOMAIN names |-> FuturesChain(master, names[i], 1, today)]
  <2> HIDE DEF names
  <2>1. names \in Seq(keep) /\ DOMAIN names = 1..Len(names) /\ Len(names) \in Nat
    BY <1>5 DEF names
  <2>2. \A i \in 1..Len(names) : \E I : FuturesChain(master, names[i], 1, today) \in Seq(I)
    <3> TAKE i \in 1..Len(names)
    <3>1. IsFiniteSet(master.futures[names[i]])
      BY <2>1
    <3> QED
      BY <3>1, ChainType
  <2>3. \A i \in 1..Len(names) : \E I : chains[i] \in Seq(I)
    BY <2>1, <2>2
  <2>4. chains = [i \in 1..Len(names) |-> chains[i]]
    BY <2>1
  <2> HIDE DEF chains
  <2>5. \E I : Concat(chains) \in Seq(I)
    BY <2>1, <2>3, <2>4, ChainsJoin
  <2> QED
    BY <2>5 DEF chains, names, StockFutures
<1> HIDE DEF indices, contracts, second, stocks, futures
<1>12. PICK I1, I2, I3, I4, I5 :
          indices \in Seq(I1) /\ contracts \in Seq(I2) /\ second \in Seq(I3) /\ stocks \in Seq(I4) /\ futures \in Seq(I5)
  BY <1>6, <1>8, <1>9, <1>10, <1>11
<1> DEFINE All == I1 \cup I2 \cup I3 \cup I4 \cup I5
<1>13. /\ indices \in Seq(All) /\ contracts \in Seq(All) /\ second \in Seq(All)
       /\ stocks \in Seq(All) /\ futures \in Seq(All)
  BY <1>12
<1> HIDE DEF All
<1>14. tiers \in [1..4 -> Seq(All)] /\ tiers[2] = second /\ tiers[3] = stocks /\ tiers[4] = futures
  <2>1. first \in Seq(All)
    BY <1>13
  <2> HIDE DEF first
  <2> QED
    BY <1>13, <2>1
<1> HIDE DEF tiers
<1>15. LET p == EnforceCapacity(tiers, budget.capacity)
           cut(t) == Len(p[t]) < Len(tiers[t])
       IN  /\ \A t \in 2..4 : IsPrefix(p[t], tiers[t])
           /\ Total(p) > budget.capacity => \A t \in 2..4 : p[t] = <<>>
           /\ cut(3) => Total(p) >= budget.capacity
           /\ cut(4) => Total(p) >= budget.capacity /\ p[3] = <<>>
           /\ cut(2) => Total(p) >= budget.capacity /\ p[3] = <<>> /\ p[4] = <<>>
  BY <1>1, <1>14, EnforcedPlan
<1>16. 3 \in 2..4 /\ 4 \in 2..4
  OBVIOUS
<1> QED
  BY <1>4, <1>14, <1>15, <1>16 DEF Fits, budget, liquid, stocks, futures, second

-------------------------------------------------------------------------------

(* The plan that is reported is the one of today.                          *)
PlanInv ==
    /\ service = "planner" => date \in 0..MaxDay
    /\ Reported("plan") => service = "planner"
    /\ PlanFitsTheBudget

(* No plan is reported.                                                    *)
LEMMA PlanStarts == Init => PlanInv
<1> SUFFICES ASSUME Init PROVE PlanInv
  OBVIOUS
<1>1. ~Reported("plan") /\ date = 0 /\ MaxDay \in Nat
  BY ServicesAssumption DEF Init, Reported
<1> QED
  BY <1>1 DEF PlanInv, PlanFitsTheBudget

(* A new plan.                                                             *)
LEMMA PlanMade ==
    ASSUME PlanInv, PlanSubscriptions
    PROVE  PlanInv'
<1>1. service = "planner" /\ date \in 0..MaxDay /\ UNCHANGED <<service, date>>
  BY DEF PlanInv, PlanSubscriptions
<1>2. PICK detected \in {Standard, Plus}, x \in Listings :
         /\ report'.detected = detected /\ report'.listing = x
         /\ report'.plan = Planned[x][detected][date]
  BY DEF PlanSubscriptions
<1>3. Planned[x][detected][date] = BuildPlan(x.master, x.ranking, detected, date)
  BY <1>1, <1>2 DEF Planned
<1>4. /\ x.ranking \in Seq(ToSet(x.ranking)) /\ IsInjective(x.ranking)
      /\ x.master # NoMaster =>
            \A name \in ToSet(Underlyings) \cup (ToSet(x.ranking) \ NonStocks) :
                IsFiniteSet(x.master.futures[name])
  BY ServicesAssumption
<1>5. detected \in Nat
  BY SubscriptionPlanAssumption
<1>6. PlanFitsTheBudget'
  <2>1. CASE x.master = NoMaster
    BY <1>2, <2>1 DEF PlanFitsTheBudget
  <2>2. CASE x.master # NoMaster
    <3>1. Fits(BuildPlan(x.master, x.ranking, detected, date), x.master, x.ranking, detected, date)
      BY <1>4, <1>5, <2>2, PlanOfTheDay
    <3>2. Fits(report'.plan, report'.listing.master, report'.listing.ranking, report'.detected, date')
      BY <1>1, <1>2, <1>3, <3>1, Zenon
    <3> QED
      BY <3>2 DEF PlanFitsTheBudget, Fits
  <2> QED
    BY <2>1, <2>2
<1> QED
  BY <1>1, <1>6 DEF PlanInv

(* Nothing else makes one, and no day passes while it is reported.         *)
LEMMA PlanStays ==
    ASSUME PlanInv, [Next]_vars, ~PlanSubscriptions
    PROVE  PlanInv'
<1>1. CASE DayPasses \/ ChangeAccount
  <2>1. ~Reported("plan")' /\ service' = service /\ (service = "planner" => date' \in 0..MaxDay)
    BY <1>1, ServicesAssumption DEF DayPasses, ChangeAccount, Reported, PlanInv
  <2> QED
    BY <2>1 DEF PlanInv, PlanFitsTheBudget
<1>2. CASE ScanSecurities \/ LoadUniverse \/ JudgeOptions \/ SelectTrades
  <2>1. ~Reported("plan")' /\ service' = service /\ date' = date
    BY <1>2 DEF ScanSecurities, LoadUniverse, JudgeOptions, SelectTrades, Reported
  <2> QED
    BY <2>1 DEF PlanInv, PlanFitsTheBudget
<1>3. CASE Night
  <2>1. service = "picture" /\ service' = service /\ report' = report
    BY <1>3 DEF Night
  <2>2. ~Reported("plan")'
    BY <2>1 DEF PlanInv, Reported
  <2> QED
    BY <2>1, <2>2 DEF PlanInv, PlanFitsTheBudget
<1>4. CASE UNCHANGED <<service, date, report>>
  BY <1>4 DEF PlanInv, PlanFitsTheBudget, Reported
<1>5. \/ DayPasses \/ ChangeAccount \/ ScanSecurities \/ LoadUniverse \/ JudgeOptions \/ SelectTrades
      \/ Night \/ UNCHANGED <<service, date, report>>
  BY DEF Next, vars, Snapshot, Minute, Keeping, Getting, Waiting
<1> QED
  BY <1>1, <1>2, <1>3, <1>4, <1>5

(* For every master, ranking and allowance, and whatever the tiers are     *)
(* given, a plan goes over the capacity for tier 1 alone; its stocks and   *)
(* futures are the first of the most liquid ones, all of them if there is  *)
(* room; and the tiers give way in their order.  A ranking names a stock   *)
(* once: with one named twice, the rows fetched in place of the indices    *)
(* could fall short.                                                       *)
THEOREM PlansFit == Spec => []PlanFitsTheBudget
<1>1. PlanInv /\ [Next]_vars => PlanInv'
  BY PlanMade, PlanStays
<1>2. PlanInv => PlanFitsTheBudget
  BY DEF PlanInv
<1> QED
  BY PlanStarts, <1>1, <1>2, PTL DEF Spec

(***************************************************************************)
(* The selection of trades.                                                *)
(***************************************************************************)

(* A list of rows that are different, with their scores.                   *)
Table(rows) ==
    /\ rows \in Seq(ToSet(rows)) /\ IsInjective(rows)
    /\ \A row \in ToSet(rows) : row.score \in Int

(* A ranking holds the rows, each once, from the highest score to the      *)
(* lowest.                                                                 *)
LEMMA RankedRows ==
    ASSUME NEW rows, Table(rows), NEW ranked \in Rankings(rows)
    PROVE  /\ ranked \in Seq(ToSet(rows)) /\ IsInjective(ranked) /\ ToSet(ranked) = ToSet(rows)
           /\ \A k, l \in 1..Len(ranked) : k < l => ranked[k].score >= ranked[l].score
<1> DEFINE n == Len(rows)
<1>1. n \in Nat /\ DOMAIN rows = 1..n /\ \A i \in 1..n : rows[i] \in ToSet(rows)
  BY DEF Table, ToSet
<1>2. PICK order \in Bijection(1..n, 1..n) : ranked = [k \in 1..n |-> rows[order[k]]]
  BY <1>1 DEF Rankings, Orders, Reordered
<1>3. order \in [1..n -> 1..n]
  BY <1>2 DEF Bijection, Injection, Surjection
<1>4. \A k, l \in 1..n : order[k] = order[l] => k = l
  BY <1>2, <1>3 DEF Bijection, Injection, IsInjective
<1>5. \A i \in 1..n : \E k \in 1..n : order[k] = i
  BY <1>2 DEF Bijection, Surjection
<1>6. \A k, l \in 1..n : k < l => ranked[k].score >= ranked[l].score
  BY <1>1 DEF Rankings
<1> HIDE DEF n
<1>7. \A k \in 1..n : ranked[k] = rows[order[k]] /\ order[k] \in 1..n /\ rows[order[k]] \in ToSet(rows)
  BY <1>1, <1>2, <1>3
<1>8. ranked \in Seq(ToSet(rows)) /\ Len(ranked) = n /\ DOMAIN ranked = 1..n
  BY <1>1, <1>2, <1>7
<1>9. IsInjective(ranked)
  <2>1. \A i, j \in 1..n : rows[i] = rows[j] => i = j
    BY <1>1 DEF Table, IsInjective
  <2>2. \A k, l \in 1..n : ranked[k] = ranked[l] => k = l
    BY <1>4, <1>7, <2>1
  <2> QED
    BY <1>8, <2>2 DEF IsInjective
<1>10. ToSet(ranked) = ToSet(rows)
  <2>1. \A i \in 1..n : \E k \in 1..n : ranked[k] = rows[i]
    BY <1>5, <1>7
  <2>2. ToSet(ranked) = {ranked[k] : k \in 1..n} /\ ToSet(rows) = {rows[i] : i \in 1..n}
    BY <1>1, <1>8 DEF ToSet
  <2>3. \A k \in 1..n : \E i \in 1..n : ranked[k] = rows[i]
    BY <1>7
  <2> QED
    BY <2>1, <2>2, <2>3
<1> QED
  BY <1>6, <1>8, <1>9, <1>10

-------------------------------------------------------------------------------

(* selected[n] are the trades taken of the first n of a ranking; caps are  *)
(* the three limits.                                                       *)
Fulfils(caps, chosen, row) == NoRoom(chosen, row, caps.limit, caps.perDirection, caps.perSymbol)

Selects(ranked, caps, selected) ==
    /\ selected \in [0..Len(ranked) -> Seq(ToSet(ranked))] /\ selected[0] = <<>>
    /\ \A n \in 1..Len(ranked) :
          selected[n] = IF Fulfils(caps, selected[n - 1], ranked[n]) THEN selected[n - 1]
                        ELSE Append(selected[n - 1], ranked[n])

LEMMA TradesSelected ==
    ASSUME NEW R, NEW ranked \in Seq(R), NEW caps
    PROVE  \E selected :
              /\ Selects(ranked, caps, selected)
              /\ SelectTopTrades(ranked, caps.limit, caps.perDirection, caps.perSymbol) = selected[Len(ranked)]
<1> DEFINE N == Len(ranked)
           X == Seq(ToSet(ranked))
           Rule(selected) ==
             [n \in 0..Len(ranked) |->
                IF n = 0 THEN <<>>
                ELSE IF NoRoom(selected[n - 1], ranked[n], caps.limit, caps.perDirection, caps.perSymbol) THEN selected[n - 1]
                     ELSE Append(selected[n - 1], ranked[n])]
           taken == CHOOSE selected : selected = Rule(selected)
           g == [n \in 1..N |-> [s \in X |-> IF Fulfils(caps, s, ranked[n]) THEN s ELSE Append(s, ranked[n])]]
<1>1. SelectTopTrades(ranked, caps.limit, caps.perDirection, caps.perSymbol) = taken[N]
  BY DEF SelectTopTrades
<1>2. N \in Nat /\ <<>> \in X /\ \A n \in 1..N : ranked[n] \in ToSet(ranked)
  BY DEF ToSet
<1>3. g \in [1..N -> [X -> X]]
  BY <1>2
<1>4. PICK f : Stages(N, X, <<>>, g, f)
  <2> HIDE DEF g, X, N
  <2> QED
    BY <1>2, <1>3, StagesExist
<1>5. f \in [0..N -> X] /\ f[0] = <<>>
  BY <1>4 DEF Stages
<1>6. \A n \in 1..N : f[n] = IF Fulfils(caps, f[n - 1], ranked[n]) THEN f[n - 1] ELSE Append(f[n - 1], ranked[n])
  <2> TAKE n \in 1..N
  <2>1. n - 1 \in 0..N /\ f[n] = g[n][f[n - 1]]
    <3> HIDE DEF g, X
    <3> QED
      BY <1>2, <1>4 DEF Stages
  <2>2. f[n - 1] \in X
    BY <1>5, <2>1
  <2>3. g[n] = [s \in X |-> IF Fulfils(caps, s, ranked[n]) THEN s ELSE Append(s, ranked[n])]
    OBVIOUS
  <2>4. g[n][f[n - 1]] = IF Fulfils(caps, f[n - 1], ranked[n]) THEN f[n - 1] ELSE Append(f[n - 1], ranked[n])
    BY <2>2, <2>3, Zenon
  <2> QED
    BY <2>1, <2>4
<1>7. f = Rule(f)
  <2>1. f = [n \in 0..N |-> f[n]]
    BY <1>5
  <2>2. ASSUME NEW n \in 0..N PROVE f[n] = Rule(f)[n]
    <3>1. CASE n = 0
      BY <1>5, <3>1
    <3>2. CASE n # 0
      <4>1. n \in 1..N
        BY <1>2, <3>2
      <4> QED
        BY <4>1, <3>2, <1>6 DEF Fulfils
    <3> QED
      BY <3>1, <3>2
  <2>3. Rule(f) = [n \in 0..N |-> Rule(f)[n]]
    OBVIOUS
  <2> HIDE DEF Rule
  <2> QED
    BY <2>1, <2>2, <2>3, Zenon
<1>8. taken = Rule(taken)
  <2> HIDE DEF Rule
  <2> QED
    BY <1>7
<1> HIDE DEF taken
<1>9. \A n \in 0..N : taken[n] = IF n = 0 THEN <<>> ELSE IF Fulfils(caps, taken[n - 1], ranked[n]) THEN taken[n - 1] ELSE Append(taken[n - 1], ranked[n])
  BY <1>8 DEF Fulfils
<1> DEFINE A == {n \in 0..N : taken[n] \in X}
<1>10. 0 \in A
  <2>1. 0 \in 0..N /\ taken[0] = <<>>
    BY <1>2, <1>9
  <2> QED
    BY <1>2, <2>1
<1>11. ASSUME NEW n \in 1..N, n - 1 \in A PROVE n \in A
  <2>1. n \in 0..N /\ n # 0 /\ taken[n - 1] \in X
    BY <1>2, <1>11
  <2>2. taken[n] \in {taken[n - 1], Append(taken[n - 1], ranked[n])}
    BY <2>1, <1>9
  <2>3. \A s \in X : \A row \in ToSet(ranked) : Append(s, row) \in X
    OBVIOUS
  <2>4. taken[n] \in X
    <3> HIDE DEF X
    <3> QED
      BY <1>2, <2>1, <2>2, <2>3
  <2> QED
    BY <2>1, <2>4
<1>12. \A n \in 0..N : n \in A
  <2>1. \A n \in 1..N : n - 1 \in A => n \in A
    BY <1>11
  <2> HIDE DEF A
  <2> QED
    BY <1>2, <1>10, <2>1, CountUp
<1>13. Selects(ranked, caps, taken)
  <2>1. taken = [n \in 0..N |-> taken[n]]
    <3>1. DOMAIN Rule(taken) = 0..N /\ Rule(taken) = [n \in 0..N |-> Rule(taken)[n]]
      OBVIOUS
    <3> QED
      BY <1>8, <3>1, Zenon
  <2>2. taken \in [0..N -> X]
    BY <1>12, <2>1
  <2>3. taken[0] = <<>>
    BY <1>2, <1>9
  <2>4. \A n \in 1..N : taken[n] = IF Fulfils(caps, taken[n - 1], ranked[n]) THEN taken[n - 1] ELSE Append(taken[n - 1], ranked[n])
    BY <1>2, <1>9
  <2> QED
    BY <2>2, <2>3, <2>4 DEF Selects
<1> QED
  BY <1>1, <1>13

-------------------------------------------------------------------------------

(* Positions of a list of different rows count as many as the rows there.  *)
LEMMA CountedOnce ==
    ASSUME NEW S, NEW seq \in Seq(S), IsInjective(seq), NEW D \in SUBSET (1..Len(seq)),
           NEW image, image = {seq[i] : i \in D}
    PROVE  /\ IsFiniteSet(D) /\ IsFiniteSet(image)
           /\ Cardinality(image) = Cardinality(D) /\ Cardinality(D) \in Nat
<1> DEFINE f == [i \in D |-> seq[i]]
<1>1. IsFiniteSet(D) /\ Cardinality(D) \in Nat
  <2>1. 1 \in Int /\ Len(seq) \in Int
    OBVIOUS
  <2>2. IsFiniteSet(1..Len(seq))
    BY <2>1, FS_Interval
  <2> QED
    BY <2>2, FS_Subset, FS_CardinalityType
<1>2. f \in Bijection(D, image)
  <2>1. f \in [D -> image] /\ \A t \in image : \E i \in D : f[i] = t
    OBVIOUS
  <2>2. \A i, j \in D : seq[i] = seq[j] => i = j
    <3>1. DOMAIN seq = 1..Len(seq)
      OBVIOUS
    <3> QED
      BY <3>1 DEF IsInjective
  <2>3. IsInjective(f)
    <3>1. DOMAIN f = D /\ \A i \in D : f[i] = seq[i]
      OBVIOUS
    <3> HIDE DEF f
    <3> QED
      BY <2>2, <3>1 DEF IsInjective
  <2> QED
    BY <2>1, <2>3 DEF Bijection, Injection, Surjection
<1>3. ExistsBijection(D, image)
  BY <1>2 DEF ExistsBijection
<1>4. IsFiniteSet(image) /\ Cardinality(image) = Cardinality(D)
  BY <1>1, <1>3, FS_Bijection
<1> QED
  BY <1>1, <1>4

(* So Taken counts rows, and the length of a selection too.                *)
LEMMA TakenRows ==
    ASSUME NEW S, NEW seq \in Seq(S), IsInjective(seq)
    PROVE  /\ IsFiniteSet(ToSet(seq)) /\ Cardinality(ToSet(seq)) = Len(seq)
           /\ \A field, value :
                 Taken(seq, field, value) = Cardinality({c \in ToSet(seq) : c[field] = value})
<1> DEFINE n == Len(seq)
           all == 1..n
<1>1. DOMAIN seq = all /\ ToSet(seq) = {seq[i] : i \in all} /\ n \in Nat /\ all \in SUBSET (1..Len(seq))
  BY DEF ToSet
<1>2. Cardinality(all) = n
  <2> HIDE DEF n
  <2>1. 1 \in Int /\ n \in Int
    BY <1>1
  <2> QED
    BY <1>1, <2>1, FS_Interval
<1> HIDE DEF all
<1>3. IsFiniteSet(ToSet(seq)) /\ Cardinality(ToSet(seq)) = Cardinality(all)
  BY <1>1, CountedOnce
<1>4. ASSUME NEW field, NEW value
      PROVE  Taken(seq, field, value) = Cardinality({c \in ToSet(seq) : c[field] = value})
  <2> DEFINE D == {i \in all : seq[i][field] = value}
             T == {c \in ToSet(seq) : c[field] = value}
  <2>1. T = {seq[i] : i \in D}
    BY <1>1
  <2>2. Taken(seq, field, value) = Cardinality(D)
    BY <1>1 DEF Taken
  <2>3. D \in SUBSET (1..Len(seq))
    BY <1>1
  <2> HIDE DEF D, T
  <2>4. Cardinality(T) = Cardinality(D)
    BY <2>1, <2>3, CountedOnce
  <2> QED
    BY <2>2, <2>4 DEF T
<1> QED
  BY <1>2, <1>3, <1>4

(* One row more.                                                           *)
LEMMA TakenOneMore ==
    ASSUME NEW S, NEW seq \in Seq(S), NEW row \in S, NEW field, NEW value
    PROVE  /\ Taken(seq, field, value) \in Nat
           /\ Taken(Append(seq, row), field, value) =
                 Taken(seq, field, value) + IF row[field] = value THEN 1 ELSE 0
<1> DEFINE n == Len(seq)
           D == {i \in 1..n : seq[i][field] = value}
           more == Append(seq, row)
           E == {i \in 1..(n + 1) : more[i][field] = value}
<1>1. n \in Nat /\ Len(more) = n + 1 /\ more[n + 1] = row /\ \A i \in 1..n : more[i] = seq[i]
  OBVIOUS
<1>2. Taken(seq, field, value) = Cardinality(D) /\ Taken(more, field, value) = Cardinality(E)
  <2>1. DOMAIN seq = 1..n /\ DOMAIN more = 1..(n + 1)
    OBVIOUS
  <2> HIDE DEF more
  <2> QED
    BY <2>1 DEF Taken
<1> HIDE DEF more
<1>3. IsFiniteSet(D) /\ Cardinality(D) \in Nat /\ n + 1 \notin D
  <2>1. 1 \in Int /\ n \in Int
    BY <1>1
  <2> HIDE DEF n
  <2>2. IsFiniteSet(1..n)
    BY <2>1, FS_Interval
  <2>3. D \in SUBSET (1..n)
    OBVIOUS
  <2> QED
    BY <2>1, <2>2, <2>3, FS_Subset, FS_CardinalityType
<1>4. E = IF row[field] = value THEN D \cup {n + 1} ELSE D
  BY <1>1
<1> HIDE DEF D, E
<1>5. CASE row[field] = value
  <2>1. Cardinality(E) = Cardinality(D) + 1
    BY <1>3, <1>4, <1>5, FS_AddElement
  <2> QED
    BY <1>2, <1>3, <1>5, <2>1 DEF more
<1>6. CASE row[field] # value
  BY <1>2, <1>3, <1>4, <1>6 DEF more
<1> QED
  BY <1>5, <1>6

-------------------------------------------------------------------------------

(* A selection takes rows of the ranking once, within the limits.          *)
KeepsTo(caps, chosen) ==
    /\ Len(chosen) <= caps.limit
    /\ \A value : Taken(chosen, "symbol", value) <= caps.perSymbol
    /\ \A value : Taken(chosen, "type", value) <= caps.perDirection

TakenFrom(ranked, n, chosen) ==
    /\ \A i \in 1..Len(chosen) : \E k \in 1..n : chosen[i] = ranked[k]
    /\ IsInjective(chosen)

Caps == [limit : Nat, perDirection : Nat, perSymbol : Nat]

LEMMA SelectionIsWithin ==
    ASSUME NEW R, NEW ranked \in Seq(R), IsInjective(ranked), NEW caps \in Caps,
           NEW selected, Selects(ranked, caps, selected)
    PROVE  \A n \in 0..Len(ranked) : KeepsTo(caps, selected[n]) /\ TakenFrom(ranked, n, selected[n])
<1> DEFINE N == Len(ranked)
           A == {n \in 0..N : KeepsTo(caps, selected[n]) /\ TakenFrom(ranked, n, selected[n])}
<1>1. N \in Nat /\ \A n \in 1..N : ranked[n] \in ToSet(ranked) /\ n \in DOMAIN ranked
  BY DEF ToSet
<1>2. caps.limit \in Nat /\ caps.perDirection \in Nat /\ caps.perSymbol \in Nat
  BY DEF Caps
<1>3. 0 \in A
  <2>1. selected[0] = <<>>
    BY DEF Selects
  <2>2. \A field, value : Taken(<<>>, field, value) = 0
    <3>1. \A field, value : {i \in DOMAIN <<>> : <<>>[i][field] = value} = {}
      OBVIOUS
    <3> QED
      BY <3>1, FS_EmptySet DEF Taken
  <2>3. KeepsTo(caps, <<>>)
    BY <1>2, <2>2 DEF KeepsTo
  <2>4. TakenFrom(ranked, 0, <<>>)
    BY DEF TakenFrom, IsInjective
  <2> QED
    BY <1>1, <2>1, <2>3, <2>4
<1>4. ASSUME NEW n \in 1..N, n - 1 \in A PROVE n \in A
  <2> DEFINE chosen == selected[n - 1]
             row == ranked[n]
  <2>1. chosen \in Seq(ToSet(ranked)) /\ row \in ToSet(ranked)
    <3>1. n - 1 \in 0..Len(ranked)
      BY <1>1
    <3>2. selected \in [0..Len(ranked) -> Seq(ToSet(ranked))]
      BY DEF Selects
    <3>3. chosen \in Seq(ToSet(ranked))
      BY <3>1, <3>2
    <3> QED
      BY <1>1, <3>3
  <2>2. KeepsTo(caps, chosen) /\ TakenFrom(ranked, n - 1, chosen)
    BY <1>4
  <2>3. selected[n] = IF Fulfils(caps, chosen, row) THEN chosen ELSE Append(chosen, row)
    BY DEF Selects
  <2>4. row = ranked[n]
    OBVIOUS
  <2> HIDE DEF chosen, row
  <2>5. CASE Fulfils(caps, chosen, row)
    <3>1. TakenFrom(ranked, n, chosen)
      BY <1>1, <2>2 DEF TakenFrom
    <3> QED
      BY <2>2, <2>3, <2>5, <3>1
  <2>6. CASE ~Fulfils(caps, chosen, row)
    <3> DEFINE more == Append(chosen, row)
    <3>1. Len(more) = Len(chosen) + 1 /\ more[Len(more)] = row /\ Len(chosen) \in Nat
          /\ \A i \in 1..Len(chosen) : more[i] = chosen[i]
      BY <2>1
    <3>2. \A field, value :
             /\ Taken(chosen, field, value) \in Nat
             /\ Taken(more, field, value) = Taken(chosen, field, value) + IF row[field] = value THEN 1 ELSE 0
      BY <2>1, TakenOneMore
    <3>3. /\ ~(Taken(chosen, "symbol", row.symbol) >= caps.perSymbol)
          /\ ~(Taken(chosen, "type", row.type) >= caps.perDirection)
          /\ ~(Len(chosen) >= caps.limit)
      BY <2>6 DEF Fulfils, NoRoom
    <3>4. DOMAIN more = 1..(Len(chosen) + 1) /\ DOMAIN chosen = 1..Len(chosen)
      BY <2>1
    <3> HIDE DEF more
    <3>5. KeepsTo(caps, more)
      <4>1. ASSUME NEW value PROVE Taken(more, "symbol", value) <= caps.perSymbol
        <5>1. /\ Taken(chosen, "symbol", value) \in Nat /\ Taken(chosen, "symbol", value) <= caps.perSymbol
              /\ Taken(more, "symbol", value) = Taken(chosen, "symbol", value) + IF row.symbol = value THEN 1 ELSE 0
          BY <2>2, <3>2 DEF KeepsTo
        <5> QED
          BY <1>2, <3>3, <5>1
      <4>2. ASSUME NEW value PROVE Taken(more, "type", value) <= caps.perDirection
        <5>1. /\ Taken(chosen, "type", value) \in Nat /\ Taken(chosen, "type", value) <= caps.perDirection
              /\ Taken(more, "type", value) = Taken(chosen, "type", value) + IF row.type = value THEN 1 ELSE 0
          BY <2>2, <3>2 DEF KeepsTo
        <5> QED
          BY <1>2, <3>3, <5>1
      <4>3. Len(more) <= caps.limit
        BY <1>2, <3>1, <3>3
      <4> QED
        BY <4>1, <4>2, <4>3 DEF KeepsTo
    <3>6. TakenFrom(ranked, n, more)
      <4>1. ASSUME NEW i \in 1..Len(chosen) PROVE \E k \in 1..(n - 1) : chosen[i] = ranked[k]
        BY <2>2 DEF TakenFrom
      <4>2. \A i \in 1..Len(chosen) : chosen[i] # row
        <5> SUFFICES ASSUME NEW i \in 1..Len(chosen) PROVE chosen[i] # row
          OBVIOUS
        <5>1. PICK k \in 1..(n - 1) : chosen[i] = ranked[k]
          BY <4>1
        <5>2. k \in 1..N /\ k # n
          BY <1>1
        <5> QED
          BY <1>1, <2>4, <5>1, <5>2 DEF IsInjective
      <4>3. \A i \in 1..Len(chosen) : \E k \in 1..n : more[i] = ranked[k]
        <5>1. 1..(n - 1) \subseteq 1..n
          BY <1>1
        <5> QED
          BY <3>1, <4>1, <5>1
      <4>4. \A i \in 1..Len(more) : i \in 1..Len(chosen) \/ i = Len(more)
        BY <3>1
      <4>5. \A i \in 1..Len(more) : \E k \in 1..n : more[i] = ranked[k]
        BY <2>4, <3>1, <4>3, <4>4
      <4>6. IsInjective(more)
        BY <2>2, <3>1, <3>4, <4>2, <4>4 DEF TakenFrom, IsInjective
      <4> QED
        BY <4>5, <4>6 DEF TakenFrom
    <3>7. selected[n] = more
      BY <2>3, <2>6 DEF more
    <3>8. n \in 0..N
      BY <1>1
    <3> QED
      BY <3>5, <3>6, <3>7, <3>8
  <2> QED
    BY <2>5, <2>6
<1>5. \A n \in 0..N : n \in A
  <2>1. \A n \in 1..N : n - 1 \in A => n \in A
    BY <1>4
  <2> HIDE DEF A
  <2> QED
    BY <1>1, <1>3, <2>1, CountUp
<1> QED
  BY <1>5

(* What was taken stays taken.                                             *)
LEMMA SelectionGrows ==
    ASSUME NEW R, NEW ranked \in Seq(R), NEW caps, NEW selected, Selects(ranked, caps, selected),
           NEW m \in 0..Len(ranked)
    PROVE  \A n \in m..Len(ranked) : ToSet(selected[m]) \subseteq ToSet(selected[n])
<1> DEFINE A == {n \in 0..Len(ranked) : n >= m => ToSet(selected[m]) \subseteq ToSet(selected[n])}
<1>1. Len(ranked) \in Nat /\ m \in Nat
  OBVIOUS
<1>2. 0 \in A
  BY <1>1
<1>3. ASSUME NEW n \in 1..Len(ranked), n - 1 \in A PROVE n \in A
  <2>1. selected[n - 1] \in Seq(ToSet(ranked))
    BY DEF Selects
  <2>2. selected[n] \in {selected[n - 1], Append(selected[n - 1], ranked[n])}
    BY DEF Selects
  <2>3. \A row \in ToSet(ranked) : \A s \in Seq(ToSet(ranked)) : ToSet(s) \subseteq ToSet(Append(s, row))
    <3> TAKE row \in ToSet(ranked)
    <3> TAKE s \in Seq(ToSet(ranked))
    <3> DEFINE more == Append(s, row)
    <3>1. DOMAIN s \subseteq DOMAIN more /\ \A i \in DOMAIN s : more[i] = s[i]
      OBVIOUS
    <3> HIDE DEF more
    <3>2. ToSet(s) \subseteq ToSet(more)
      BY <3>1 DEF ToSet
    <3> QED
      BY <3>2 DEF more
  <2>4. ToSet(selected[n - 1]) \subseteq ToSet(selected[n])
    <3>1. ranked[n] \in ToSet(ranked)
      BY DEF ToSet
    <3> QED
      BY <2>1, <2>2, <2>3, <3>1
  <2>5. CASE n = m
    BY <1>1, <2>5
  <2>6. CASE n # m
    BY <1>1, <1>3, <2>4, <2>6
  <2> QED
    BY <2>5, <2>6
<1>4. \A n \in 0..Len(ranked) : n \in A
  <2>1. \A n \in 1..Len(ranked) : n - 1 \in A => n \in A
    BY <1>3
  <2> HIDE DEF A
  <2> QED
    BY <1>1, <1>2, <2>1, CountUp
<1> QED
  BY <1>1, <1>4

-------------------------------------------------------------------------------

(* A set between two of which one is no smaller and one no larger.         *)
LEMMA Squeezed ==
    ASSUME NEW inner, NEW set, NEW outer, inner \subseteq set, set \subseteq outer,
           IsFiniteSet(outer), NEW cap \in Nat, Cardinality(inner) >= cap, Cardinality(outer) <= cap
    PROVE  Cardinality(set) = cap
<1>1. IsFiniteSet(set) /\ Cardinality(set) <= Cardinality(outer)
  BY FS_Subset
<1>2. IsFiniteSet(inner) /\ Cardinality(inner) <= Cardinality(set)
  BY <1>1, FS_Subset
<1>3. Cardinality(set) \in Nat /\ Cardinality(inner) \in Nat /\ Cardinality(outer) \in Nat
  BY <1>1, <1>2, FS_CardinalityType
<1> QED
  BY <1>1, <1>2, <1>3

(* A row that is left out met a full selection, of rows no worse, which    *)
(* are all still there at the end.                                         *)
LEMMA LeftOutForBetter ==
    ASSUME NEW rows, Table(rows), NEW ranked \in Rankings(rows), NEW caps \in Caps, NEW chosen,
           chosen = ToSet(SelectTopTrades(ranked, caps.limit, caps.perDirection, caps.perSymbol))
    PROVE  /\ Cardinality(chosen) <= caps.limit
           /\ \A row \in ToSet(rows) \ chosen :
                 LET before == {c \in chosen : c.score >= row.score}
                 IN  \/ Cardinality(before) = caps.limit
                     \/ Cardinality({c \in before : c.symbol = row.symbol}) = caps.perSymbol
                     \/ Cardinality({c \in before : c.type = row.type}) = caps.perDirection
<1> DEFINE N == Len(ranked)
<1>1. /\ ranked \in Seq(ToSet(rows)) /\ IsInjective(ranked) /\ ToSet(ranked) = ToSet(rows)
      /\ \A k, l \in 1..N : k < l => ranked[k].score >= ranked[l].score
  BY RankedRows
<1>2. PICK selected :
          /\ Selects(ranked, caps, selected)
          /\ SelectTopTrades(ranked, caps.limit, caps.perDirection, caps.perSymbol) = selected[N]
  BY <1>1, TradesSelected
<1>3. N \in Nat /\ \A k \in 0..N : selected[k] \in Seq(ToSet(ranked))
  BY <1>1, <1>2 DEF Selects
<1>4. \A k \in 0..N : KeepsTo(caps, selected[k]) /\ TakenFrom(ranked, k, selected[k])
  BY <1>1, <1>2, SelectionIsWithin
<1>5. caps.limit \in Nat /\ caps.perDirection \in Nat /\ caps.perSymbol \in Nat
  BY DEF Caps
<1> HIDE DEF N
<1>6. ASSUME NEW k \in 0..N
      PROVE  /\ IsFiniteSet(ToSet(selected[k])) /\ Cardinality(ToSet(selected[k])) = Len(selected[k])
             /\ \A field, value :
                   Taken(selected[k], field, value) = Cardinality({c \in ToSet(selected[k]) : c[field] = value})
  <2>1. selected[k] \in Seq(ToSet(ranked)) /\ IsInjective(selected[k])
    BY <1>3, <1>4 DEF TakenFrom
  <2> QED
    BY <2>1, TakenRows
<1>7. N \in 0..N /\ chosen = ToSet(selected[N])
  BY <1>2, <1>3
<1>8. Cardinality(chosen) <= caps.limit
  BY <1>4, <1>6, <1>7 DEF KeepsTo
<1>9. ASSUME NEW row \in ToSet(rows) \ chosen
      PROVE  LET before == {c \in chosen : c.score >= row.score}
             IN  \/ Cardinality(before) = caps.limit
                 \/ Cardinality({c \in before : c.symbol = row.symbol}) = caps.perSymbol
                 \/ Cardinality({c \in before : c.type = row.type}) = caps.perDirection
  <2> DEFINE before == {c \in chosen : c.score >= row.score}
  <2>1. PICK k \in 1..N : ranked[k] = row
    <3>1. row \in ToSet(ranked) /\ DOMAIN ranked = 1..N
      BY <1>1 DEF N
    <3> QED
      BY <3>1 DEF ToSet
  <2> DEFINE past == selected[k - 1]
             met == ToSet(past)
  <2>2. k - 1 \in 0..N /\ k \in 0..N /\ N \in k..N /\ N \in (k - 1)..N
    BY <1>3, <2>1
  <2>3. met \subseteq chosen
    <3>1. \A n \in (k - 1)..N : ToSet(selected[k - 1]) \subseteq ToSet(selected[n])
      BY <1>1, <1>2, <2>2, SelectionGrows DEF N
    <3> QED
      BY <1>7, <2>2, <3>1
  <2>4. ToSet(selected[k]) \subseteq chosen
    <3>1. \A n \in k..N : ToSet(selected[k]) \subseteq ToSet(selected[n])
      BY <1>1, <1>2, <2>2, SelectionGrows DEF N
    <3> QED
      BY <1>7, <2>2, <3>1
  <2>5. past \in Seq(ToSet(ranked))
    BY <1>3, <2>2
  <2>6. selected[k] = IF Fulfils(caps, past, row) THEN past ELSE Append(past, row)
    BY <1>2, <2>1 DEF Selects, N
  <2>7. \A i \in 1..Len(past) : \E l \in 1..(k - 1) : past[i] = ranked[l]
    BY <1>4, <2>2 DEF TakenFrom
  <2>8. /\ IsFiniteSet(met) /\ Cardinality(met) = Len(past)
        /\ \A field, value : Taken(past, field, value) = Cardinality({c \in met : c[field] = value})
    BY <1>6, <2>2
  <2>9. DOMAIN past = 1..Len(past) /\ Len(past) \in Nat
    BY <2>5
  <2> HIDE DEF past
  <2>10. Fulfils(caps, past, row)
    <3> SUFFICES ASSUME ~Fulfils(caps, past, row) PROVE FALSE
      OBVIOUS
    <3> DEFINE more == Append(past, row)
    <3>1. more[Len(past) + 1] = row /\ Len(past) + 1 \in DOMAIN more
      BY <2>5, <2>9, <1>1
    <3> HIDE DEF more
    <3>2. row \in ToSet(more)
      BY <3>1 DEF ToSet
    <3>3. selected[k] = more
      BY <2>6 DEF more
    <3> QED
      BY <2>4, <3>2, <3>3
  <2>11. met \subseteq before
    <3> SUFFICES ASSUME NEW c \in met PROVE c.score >= row.score
      BY <2>3
    <3>1. PICK i \in 1..Len(past) : c = past[i]
      BY <2>9 DEF ToSet
    <3>2. PICK l \in 1..(k - 1) : past[i] = ranked[l]
      BY <2>7
    <3>3. l \in 1..N /\ l < k
      BY <1>3, <2>1
    <3> QED
      BY <1>1, <2>1, <3>1, <3>2, <3>3 DEF N
  <2>12. IsFiniteSet(chosen) /\ before \subseteq chosen
    BY <1>6, <1>7
  <2>13. /\ \A value : Cardinality({c \in chosen : c["symbol"] = value}) <= caps.perSymbol
         /\ \A value : Cardinality({c \in chosen : c["type"] = value}) <= caps.perDirection
    <3>1. KeepsTo(caps, selected[N])
      BY <1>4, <1>7
    <3>2. \A field, value : Taken(selected[N], field, value) = Cardinality({c \in chosen : c[field] = value})
      <4>1. \A field, value :
               Taken(selected[N], field, value) = Cardinality({c \in ToSet(selected[N]) : c[field] = value})
        BY <1>6, <1>7
      <4>2. chosen = ToSet(selected[N])
        BY <1>7
      <4> TAKE field, value
      <4> QED
        BY <4>1, <4>2
    <3>3. \A value : Taken(selected[N], "symbol", value) <= caps.perSymbol
      BY <3>1 DEF KeepsTo
    <3>4. \A value : Taken(selected[N], "type", value) <= caps.perDirection
      BY <3>1 DEF KeepsTo
    <3>5. \A value : Taken(selected[N], "symbol", value) = Cardinality({c \in chosen : c["symbol"] = value})
      BY <3>2
    <3>6. \A value : Taken(selected[N], "type", value) = Cardinality({c \in chosen : c["type"] = value})
      BY <3>2
    <3>7. \A value : Cardinality({c \in chosen : c["symbol"] = value}) <= caps.perSymbol
      BY <3>3, <3>5, Zenon
    <3>8. \A value : Cardinality({c \in chosen : c["type"] = value}) <= caps.perDirection
      BY <3>4, <3>6, Zenon
    <3> QED
      BY <3>7, <3>8
  <2> HIDE DEF met, before
  <2>14. CASE Len(past) >= caps.limit
    <3>1. Cardinality(before) = caps.limit
      BY <1>5, <1>8, <2>8, <2>11, <2>12, <2>14, Squeezed
    <3> QED
      BY <3>1 DEF before
  <2>15. CASE Taken(past, "symbol", row.symbol) >= caps.perSymbol
    <3> DEFINE inner == {c \in met : c["symbol"] = row.symbol}
               mid == {c \in before : c["symbol"] = row.symbol}
               outer == {c \in chosen : c["symbol"] = row.symbol}
    <3>1. inner \subseteq mid /\ mid \subseteq outer /\ outer \in SUBSET chosen
      BY <2>11, <2>12
    <3>2. Cardinality(inner) >= caps.perSymbol
      BY <2>8, <2>15
    <3>3. Cardinality(outer) <= caps.perSymbol
      BY <2>13
    <3> HIDE DEF inner, mid, outer
    <3>4. IsFiniteSet(outer)
      BY <2>12, <3>1, FS_Subset
    <3>5. Cardinality(mid) = caps.perSymbol
      BY <1>5, <3>1, <3>2, <3>3, <3>4, Squeezed
    <3> QED
      BY <3>5 DEF mid, before
  <2>16. CASE Taken(past, "type", row.type) >= caps.perDirection
    <3> DEFINE inner == {c \in met : c["type"] = row.type}
               mid == {c \in before : c["type"] = row.type}
               outer == {c \in chosen : c["type"] = row.type}
    <3>1. inner \subseteq mid /\ mid \subseteq outer /\ outer \in SUBSET chosen
      BY <2>11, <2>12
    <3>2. Cardinality(inner) >= caps.perDirection
      BY <2>8, <2>16
    <3>3. Cardinality(outer) <= caps.perDirection
      BY <2>13
    <3> HIDE DEF inner, mid, outer
    <3>4. IsFiniteSet(outer)
      BY <2>12, <3>1, FS_Subset
    <3>5. Cardinality(mid) = caps.perDirection
      BY <1>5, <3>1, <3>2, <3>3, <3>4, Squeezed
    <3> QED
      BY <3>5 DEF mid, before
  <2> QED
    BY <2>10, <2>14, <2>15, <2>16 DEF Fulfils, NoRoom
<1> QED
  BY <1>8, <1>9

-------------------------------------------------------------------------------

(* No trades are reported.                                                 *)
LEMMA TradesStart == Init => TopTradesAreBest
BY DEF Init, TopTradesAreBest, Reported

(* A new selection.                                                        *)
LEMMA TradesChosen ==
    ASSUME SelectTrades
    PROVE  TopTradesAreBest'
<1>1. PICK x \in TradeLists :
         \E ranked \in Ranked[x] :
             report' = [kind |-> "trades", rows |-> x.rows, limit |-> x.limit,
                        perSymbol |-> x.perSymbol, perDirection |-> x.perDirection,
                        chosen |-> SelectTopTrades(ranked, x.limit, x.perDirection, x.perSymbol)]
  BY DEF SelectTrades
<1>2. PICK ranked \in Ranked[x] :
         report' = [kind |-> "trades", rows |-> x.rows, limit |-> x.limit,
                    perSymbol |-> x.perSymbol, perDirection |-> x.perDirection,
                    chosen |-> SelectTopTrades(ranked, x.limit, x.perDirection, x.perSymbol)]
  BY <1>1
<1> DEFINE caps == [limit |-> x.limit, perDirection |-> x.perDirection, perSymbol |-> x.perSymbol]
           all == x.rows
           chosen == ToSet(SelectTopTrades(ranked, caps.limit, caps.perDirection, caps.perSymbol))
<1>3. Table(all) /\ caps \in Caps /\ ranked \in Rankings(all)
  <2>1. Ranked[x] = Rankings(x.rows)
    BY DEF Ranked
  <2> QED
    BY <2>1, ServicesAssumption DEF Table, Caps
<1>4. /\ report'.rows = all /\ ToSet(report'.chosen) = chosen /\ report'.limit = caps.limit
      /\ report'.perSymbol = caps.perSymbol /\ report'.perDirection = caps.perDirection
  BY <1>2
<1> HIDE DEF all, caps, chosen
<1>5. /\ Cardinality(chosen) <= caps.limit
      /\ \A row \in ToSet(all) \ chosen :
            LET before == {c \in chosen : c.score >= row.score}
            IN  \/ Cardinality(before) = caps.limit
                \/ Cardinality({c \in before : c.symbol = row.symbol}) = caps.perSymbol
                \/ Cardinality({c \in before : c.type = row.type}) = caps.perDirection
  BY <1>3, LeftOutForBetter DEF chosen
<1> QED
  BY <1>4, <1>5 DEF TopTradesAreBest

(* Nothing else makes one.                                                 *)
LEMMA TradesStay ==
    ASSUME TopTradesAreBest, [Next]_vars, ~SelectTrades
    PROVE  TopTradesAreBest'
<1>1. CASE DayPasses \/ ChangeAccount \/ ScanSecurities \/ LoadUniverse \/ JudgeOptions \/ PlanSubscriptions
  <2>1. ~Reported("trades")'
    BY <1>1 DEF DayPasses, ChangeAccount, ScanSecurities, LoadUniverse, JudgeOptions, PlanSubscriptions, Reported
  <2> QED
    BY <2>1 DEF TopTradesAreBest
<1>2. CASE UNCHANGED report
  BY <1>2 DEF TopTradesAreBest, Reported
<1>3. \/ DayPasses \/ ChangeAccount \/ ScanSecurities \/ LoadUniverse \/ JudgeOptions \/ PlanSubscriptions
      \/ UNCHANGED report
  BY DEF Next, vars, Snapshot, Minute, Night, Keeping, Getting, Waiting
<1> QED
  BY <1>1, <1>2, <1>3

(* Whatever the list and the limits: the selection keeps to them, and a    *)
(* trade is left out for as many as a limit allows, none of which scores   *)
(* less.  Trades are told apart by what they are, so a list has each once. *)
THEOREM TopTradesChosen == Spec => []TopTradesAreBest
<1>1. TopTradesAreBest /\ [Next]_vars => TopTradesAreBest'
  BY TradesChosen, TradesStay
<1> QED
  BY TradesStart, <1>1, PTL DEF Spec

(***************************************************************************)
(* The picture of the market.                                              *)
(***************************************************************************)

(* What a quotient says of its parts.                                      *)
LEMMA Quotient ==
    ASSUME NEW a \in Nat, NEW n \in Nat \ {0}, NEW bar \in Nat
    PROVE  LET q == a \div n
           IN  /\ q \in Nat
               /\ q >= bar => a >= bar * n
               /\ q <= bar => a < (bar + 1) * n
<1> DEFINE q == a \div n
<1>1. q \in Nat /\ q * n <= a /\ a < (q + 1) * n
  OBVIOUS
<1> HIDE DEF q
<1>2. ASSUME q >= bar PROVE a >= bar * n
  <2>1. PICK more \in Nat : q = bar + more
    <3>1. q - bar \in Nat /\ q = bar + (q - bar)
      BY <1>1, <1>2
    <3> QED
      BY <3>1
  <2>2. q * n = bar * n + more * n
    BY <2>1
  <2>3. more * n \in Nat /\ bar * n \in Nat
    BY <2>1
  <2> QED
    BY <1>1, <2>2, <2>3
<1>3. ASSUME q <= bar PROVE a < (bar + 1) * n
  <2>1. PICK more \in Nat : bar = q + more
    <3>1. bar - q \in Nat /\ bar = q + (bar - q)
      BY <1>1, <1>3
    <3> QED
      BY <3>1
  <2>2. (bar + 1) * n = (q + 1) * n + more * n
    BY <1>1, <2>1
  <2>3. more * n \in Nat /\ (q + 1) * n \in Nat
    BY <1>1, <2>1
  <2> QED
    BY <1>1, <2>2, <2>3
<1> QED
  BY <1>1, <1>2, <1>3 DEF q

(* The share of those that rise decides on which side the label leans.     *)
LEMMA LabelLeans ==
    ASSUME NEW up \in Nat, NEW down \in Nat, NEW advancing,
           advancing = IF up + down < Max({MinNames, 1}) THEN None ELSE Share(up, up + down),
           NEW input, input \in {None, advancing}
    PROVE  LeansAs(BreadthState([advancing |-> input]), up, down)
<1>1. MinNames \in Nat /\ MinNames # 0 /\ Max({MinNames, 1}) = MinNames
  BY SnapshotsAssumption DEF Max
<1>2. CASE input = None
  BY <1>2 DEF BreadthState, LeansAs, Unknown
<1>3. CASE input # None
  <2> DEFINE n == up + down
             share == (100 * up) \div n
  <2>1. n >= MinNames /\ n \in Nat \ {0}
    BY <1>1, <1>3
  <2>2. input = share
    BY <1>1, <1>3, <2>1 DEF Share
  <2> HIDE DEF n
  <2>3. share \in Nat /\ (share >= 57 => 100 * up >= 57 * n) /\ (share <= 43 => 100 * up < 44 * n)
    <3>1. 100 * up \in Nat /\ 57 \in Nat /\ 43 \in Nat
      OBVIOUS
    <3> QED
      BY <2>1, <3>1, Quotient
  <2> HIDE DEF share
  <2>4. (share >= 57 => up > down) /\ (share <= 43 => up < down)
    BY <2>1, <2>3 DEF n
  <2> DEFINE label == BreadthState([advancing |-> input])
  <2>5. /\ label \in {"STRONG_POSITIVE", "POSITIVE"} => share >= 57
        /\ label \in {"STRONG_NEGATIVE", "NEGATIVE"} => share <= 43
    BY <1>3, <2>2, <2>3 DEF BreadthState, Unknown
  <2> HIDE DEF label
  <2>6. LeansAs(label, up, down)
    BY <1>1, <2>1, <2>4, <2>5 DEF LeansAs, n
  <2> QED
    BY <2>6 DEF label
<1> QED
  BY <1>2, <1>3

(* The vector holds the newest row's breadth, or None where the builder    *)
(* did not come to it.                                                     *)
LEMMA AdvancingIsStored ==
    ASSUME NEW n \in MomentNames, NEW stored, stored["vix"] \in VixRows, NEW recent, NEW built
    PROVE  FeaturesOf(n, stored, recent, built).advancing
              \in {None, IF stored["breadth"] = None THEN None ELSE stored["breadth"].advancing}
<1> DEFINE bars == OfBars(Moments[n], LastTicks[n], stored["vix"])
           outage == Moments[n].outage
           part == <<bars.trend, bars.liquidity, Participation(bars.volume, stored),
                     Positioning(stored), Breadths(stored, recent)>>
           keys == UNION {DOMAIN part[i] : i \in 1..5}
           of(key) == CHOOSE i \in 1..5 : key \in DOMAIN part[i]
           set == {Fields[i] : i \in 1..built}
           value(key) == IF key \in keys \cap set THEN part[of(key)][key] ELSE Blank(key)
           missing == {key \in QualityKeys : value(key) = None}
           there == Share(Cardinality(QualityKeys \ missing), Cardinality(QualityKeys))
           quality == (there * (1800 - Min({outage, 900}))) \div 1800
           fv == Build(bars, stored, recent, outage, built)
<1>1. FeaturesOf(n, stored, recent, built) = fv
  <2>1. FromBars[n][stored["vix"]] = bars
    BY DEF FromBars
  <2> QED
    BY <2>1 DEF FeaturesOf
<1>2. /\ "advancing" \notin DOMAIN bars.trend /\ "advancing" \notin DOMAIN bars.liquidity
      /\ "advancing" \notin DOMAIN Participation(bars.volume, stored)
      /\ "advancing" \notin DOMAIN Positioning(stored)
      /\ "advancing" \in DOMAIN Breadths(stored, recent)
      /\ Breadths(stored, recent)["advancing"] = IF stored["breadth"] = None THEN None ELSE stored["breadth"].advancing
  BY DEF OfBars, TrendAndVol, Liquidity, Participation, Positioning, Breadths
<1>3. fv = [key \in keys \cup {"divergence", "missing", "quality"} |->
              IF key = "missing" THEN missing ELSE IF key = "quality" THEN quality ELSE value(key)]
  BY Zenon DEF Build
<1> HIDE DEF bars, fv, missing, quality
<1>4. of("advancing") = 5
  BY <1>2
<1>5. "advancing" \in keys
  BY <1>2
<1>6. fv["advancing"] = value("advancing")
  <2> HIDE DEF keys, value
  <2>1. "advancing" \in keys \cup {"divergence", "missing", "quality"} /\ "advancing" # "missing" /\ "advancing" # "quality"
    BY <1>5
  <2> QED
    BY <1>3, <2>1
<1>7. part[5]["advancing"] = IF stored["breadth"] = None THEN None ELSE stored["breadth"].advancing
  BY <1>2
<1>8. Blank("advancing") = None
  BY DEF Blank
<1>9. value("advancing") \in {None, part[5]["advancing"]}
  <2> HIDE DEF part, set
  <2> QED
    BY <1>4, <1>8
<1> QED
  BY <1>1, <1>7, <1>9, <1>6

(* So the label of the breadth is that of the newest row, or Unknown.      *)
LEMMA BreadthLabel ==
    ASSUME NEW m, NEW fv
    PROVE  Reads(m, fv)["breadth"].label = BreadthState([advancing |-> fv.advancing])
<1>1. "breadth" \in Axes
  BY DEF Axes
<1>2. Deciding("breadth", fv) = [advancing |-> fv.advancing]
  BY DEF Deciding
<1>3. \A x : Classify("breadth", x, m.held["breadth"]) = BreadthState(x)
  BY DEF Classify
<1>4. Reads(m, fv)["breadth"].label = Label("breadth", fv, m.held["breadth"])
  BY <1>1 DEF Reads, Reading
<1> QED
  BY <1>2, <1>3, <1>4 DEF Label

(* The row of a pass counts the stocks that move now.                      *)
LEMMA RowCounts ==
    ASSUME NEW n \in MomentNames, Moments[n].plan[3] # <<>>
    PROVE  LET plan == Moments[n].plan
               changes == Changes(LastTicks[n], plan)
               up == Ahead(changes)
               down == Behind(changes)
           IN  /\ up \in Nat /\ down \in Nat
               /\ BreadthRow(LastTicks[n], plan) # None
               /\ BreadthRow(LastTicks[n], plan).advancing =
                     IF up + down < Max({MinNames, 1}) THEN None ELSE Share(up, up + down)
<1> DEFINE plan == Moments[n].plan
           changes == Changes(LastTicks[n], plan)
           D == DOMAIN changes
<1>1. LastTicks[n] = NormaliseMessage(Moments[n].frames) /\ n \in DOMAIN Moments
  BY DEF LastTicks, MomentNames
<1>2. plan[3] \in Seq(ToSet(plan[3])) /\ Breadth(changes, Len(plan[3])) # None
  BY <1>1, MarketPictureAssumption
<1>3. IsFiniteSet(D)
  <2>1. D \subseteq 1..Len(plan[3])
    BY <1>2 DEF Changes
  <2>2. Len(plan[3]) \in Int /\ 1 \in Int
    BY <1>2
  <2> QED
    BY <2>1, <2>2, FS_Interval, FS_Subset
<1> HIDE DEF changes, D
<1>4. ASSUME NEW T \in SUBSET D PROVE Cardinality(T) \in Nat
  BY <1>3, <1>4, FS_Subset, FS_CardinalityType
<1>5. Ahead(changes) \in Nat /\ Behind(changes) \in Nat
  <2> DEFINE rising == {i \in D : changes[i].chg >= MinMove}
             falling == {i \in D : changes[i].chg <= -MinMove}
  <2>1. Cardinality(rising) \in Nat /\ Cardinality(falling) \in Nat
    BY <1>4
  <2> QED
    BY <2>1 DEF Ahead, Behind, D
<1>6. BreadthRow(LastTicks[n], plan) = Breadth(changes, Len(plan[3]))
  BY DEF BreadthRow, changes
<1>7. Breadth(changes, Len(plan[3])).advancing =
         IF Ahead(changes) + Behind(changes) < Max({MinNames, 1}) THEN None
         ELSE Share(Ahead(changes), Ahead(changes) + Behind(changes))
  BY DEF Breadth, Ahead, Behind
<1> QED
  BY <1>2, <1>5, <1>6, <1>7 DEF changes

-------------------------------------------------------------------------------

(* The rows of the VIX come from a pass, which is what the features know,  *)
(* and the newest row of mc_breadth is that of the moment that is counted. *)
CountedRow ==
    newestRows["breadth"] = IF counted = NoPicture THEN None ELSE BreadthRow(LastTicks[counted], Moments[counted].plan)

PictureInv ==
    /\ newestRows["vix"] \in VixRows
    /\ counted \in MomentNames \cup {NoPicture}
    /\ counted # NoPicture => Moments[counted].plan[3] # <<>>
    /\ CountedRow
    /\ service = "picture" => date \in 0..MaxNight
    /\ BreadthIsOfTheLastCount

(* Nothing was collected.                                                  *)
LEMMA PictureStarts == Init => PictureInv
<1> SUFFICES ASSUME Init PROVE PictureInv
  OBVIOUS
<1>1. /\ newestRows["vix"] = None /\ newestRows["breadth"] = None /\ counted = NoPicture
      /\ date = 0 /\ MaxNight \in Nat /\ picture = NoPicture
  BY MarketPictureAssumption DEF Init, PictureInit, Tables
<1> QED
  BY <1>1 DEF PictureInv, CountedRow, VixRows, BreadthIsOfTheLastCount

(* A new picture.  If its row of the breadth is not written, there is none *)
(* or the write failed, and the newest row is that of an older count.      *)
LEMMA PictureTaken ==
    ASSUME PictureInv, Snapshot
    PROVE  PictureInv'
<1>1. service = "picture" /\ date \in 0..MaxNight /\ UNCHANGED <<service, date>>
  BY DEF PictureInv, Snapshot
<1>2. PICK n \in MomentNames, failing \in Failing, built \in Built :
         \E rows \in {Collected[n][date]} :
             Take(n, failing, built, rows, Stored(newestRows, rows, failing), Thrusts(rows, failing))
  BY DEF Snapshot, TakePicture
<1> DEFINE ticks == LastTicks[n]
           plan == Moments[n].plan
           rows == Collected[n][date]
           stored == Stored(newestRows, rows, failing)
           recent == Thrusts(rows, failing)
           fv == FeaturesOf(n, stored, recent, built)
           row == BreadthRow(ticks, plan)
<1>3. rows.vix = VixRow(ticks) /\ rows.breadth = row
  BY <1>1 DEF Collected, CollectAll
<1>4. /\ newestRows' = stored /\ counted' = IF "breadth" \in Written(rows, failing) THEN n ELSE counted
      /\ picture'.moment = n /\ picture'.failing = failing /\ picture'.reads = Reads(Moments[n], fv)
  <2>1. Take(n, failing, built, rows, stored, recent)
    BY <1>2
  <2> QED
    BY <2>1 DEF Take
<1>5. stored["vix"] \in VixRows
  <2> HIDE DEF rows
  <2>1. stored["vix"] \in {rows["vix"], newestRows["vix"]}
    BY DEF Stored, Tables
  <2>2. rows["vix"] \in VixRows
    BY <1>3 DEF VixRows
  <2> QED
    BY <2>1, <2>2 DEF PictureInv
<1> HIDE DEF rows, fv, row, recent
<1>6. /\ "breadth" \in Written(rows, failing) <=> row # None /\ failing # "breadth"
      /\ stored["breadth"] = IF "breadth" \in Written(rows, failing) THEN row ELSE newestRows["breadth"]
  BY <1>3 DEF Written, Stored, Tables
<1> HIDE DEF stored
<1>7. plan[3] # <<>> <=> row # None
  <2>1. CASE plan[3] = <<>>
    BY <2>1 DEF row, BreadthRow
  <2>2. CASE plan[3] # <<>>
    BY <2>2, RowCounts DEF row
  <2> QED
    BY <2>1, <2>2
<1>8. /\ counted' \in MomentNames \cup {NoPicture}
      /\ counted' # NoPicture => Moments[counted'].plan[3] # <<>>
      /\ plan[3] # <<>> /\ failing # "breadth" => counted' = n
  BY <1>4, <1>6, <1>7 DEF PictureInv
<1>9. CountedRow'
  <2>1. CASE "breadth" \in Written(rows, failing)
    <3>1. counted' = n /\ n # NoPicture /\ newestRows'["breadth"] = row
      BY <1>4, <1>6, <2>1, MarketPictureAssumption DEF MomentNames
    <3> QED
      BY <3>1 DEF CountedRow, row
  <2>2. CASE "breadth" \notin Written(rows, failing)
    <3>1. counted' = counted /\ newestRows'["breadth"] = newestRows["breadth"]
      BY <1>4, <1>6, <2>2
    <3> QED
      BY <3>1 DEF CountedRow, PictureInv
  <2> QED
    BY <2>1, <2>2
<1>10. picture'.reads["breadth"].label = BreadthState([advancing |-> fv.advancing])
  BY <1>4, BreadthLabel
<1>11. fv.advancing \in {None, IF stored["breadth"] = None THEN None ELSE stored["breadth"].advancing}
  BY <1>5, AdvancingIsStored DEF fv
<1>12. CASE counted' = NoPicture
  <2>1. stored["breadth"] = None
    BY <1>4, <1>9, <1>12 DEF CountedRow
  <2>2. fv.advancing = None
    BY <1>11, <2>1
  <2>3. picture'.reads["breadth"].label = Unknown
    BY <1>10, <2>2 DEF BreadthState
  <2>4. BreadthIsOfTheLastCount'
    BY <1>4, <1>8, <1>12, <2>3 DEF BreadthIsOfTheLastCount
  <2> QED
    BY <1>1, <1>4, <1>5, <1>8, <1>9, <2>4 DEF PictureInv
<1>13. CASE counted' # NoPicture
  <2> DEFINE c == counted'
             up == Ahead(Changes(LastTicks[c], Moments[c].plan))
             down == Behind(Changes(LastTicks[c], Moments[c].plan))
             last == BreadthRow(LastTicks[c], Moments[c].plan)
  <2>1. c \in MomentNames /\ Moments[c].plan[3] # <<>> /\ stored["breadth"] = last
    BY <1>4, <1>8, <1>9, <1>13 DEF CountedRow
  <2> HIDE DEF c
  <2>2. /\ up \in Nat /\ down \in Nat /\ last # None
        /\ last.advancing = IF up + down < Max({MinNames, 1}) THEN None ELSE Share(up, up + down)
    BY <2>1, RowCounts
  <2> HIDE DEF up, down, last
  <2>3. fv.advancing \in {None, last.advancing}
    BY <1>11, <2>1, <2>2
  <2>4. LeansAs(BreadthState([advancing |-> fv.advancing]), up, down)
    BY <2>2, <2>3, LabelLeans
  <2>5. SaysBreadth(picture'.reads["breadth"].label, LastTicks[c], Moments[c].plan)
    BY <1>10, <2>4 DEF SaysBreadth, up, down
  <2>6. BreadthIsOfTheLastCount'
    BY <1>4, <1>8, <1>13, <2>5 DEF BreadthIsOfTheLastCount, c
  <2> QED
    BY <1>1, <1>4, <1>5, <1>8, <1>9, <2>6 DEF PictureInv
<1> QED
  BY <1>12, <1>13

(* Nothing else takes one; a night passes without one.                     *)
LEMMA PictureStays ==
    ASSUME PictureInv, [Next]_vars, ~Snapshot
    PROVE  PictureInv'
<1>1. CASE Minute \/ Night
  <2>1. /\ newestRows' = newestRows /\ counted' = counted /\ picture' = NoPicture
        /\ service' = "picture" => date' \in 0..MaxNight
    BY <1>1, MarketPictureAssumption DEF Minute, Night, MinutePasses, NightPasses, PictureInv
  <2> QED
    BY <2>1 DEF PictureInv, CountedRow, BreadthIsOfTheLastCount
<1>2. CASE UNCHANGED <<newestRows, counted, picture, service>> /\ (service = "picture" => date' = date)
  <2>1. BreadthIsOfTheLastCount'
    BY <1>2 DEF PictureInv, BreadthIsOfTheLastCount
  <2> QED
    BY <1>2, <2>1 DEF PictureInv, CountedRow
<1>3. \/ Minute \/ Night
      \/ UNCHANGED <<newestRows, counted, picture, service>> /\ (service = "picture" => date' = date)
  BY DEF Next, vars, pictureVars, Keeping, Getting, Waiting, DayPasses, ChangeAccount, PlanSubscriptions,
         ScanSecurities, LoadUniverse, JudgeOptions, SelectTrades
<1> QED
  BY <1>1, <1>2, <1>3

(* Whatever frames, plans and rows of earlier passes a snapshot finds,     *)
(* whichever write fails and wherever the builder stops: the breadth the   *)
(* classifier reads is Unknown or leans to the side that more stocks had   *)
(* moved to when they were counted last, which is in this snapshot unless  *)
(* its plan streams no stocks or the write of its row fails.               *)
THEOREM BreadthsAreOfTheLastCount == Spec => []BreadthIsOfTheLastCount
<1>1. PictureInv /\ [Next]_vars => PictureInv'
  BY PictureTaken, PictureStays
<1>2. PictureInv => BreadthIsOfTheLastCount
  BY DEF PictureInv
<1> QED
  BY PictureStarts, <1>1, <1>2, PTL DEF Spec

(***************************************************************************)
(* The options and the universe of the discount scan.                      *)
(***************************************************************************)

(* The logarithm rises.                                                    *)
LogRises == \A x, y \in Nat : Log1p(x) \in Int /\ (x <= y => Log1p(x) <= Log1p(y))

(* A better quote: b is o with more volume or open interest or a higher    *)
(* bid.                                                                    *)
Eases(o, b) ==
    /\ b \in Quoted /\ b.iv = o.iv /\ b.delta = o.delta /\ Ask(b) = Ask(o)
    /\ b.volume >= o.volume /\ b.oi >= o.oi /\ Bid(b) >= Bid(o)

LEMMA BetterOption ==
    ASSUME NEW o \in Quoted, NEW b \in MoreLiquid(o), LiquiditySteps \subseteq Nat
    PROVE  Eases(o, b)
<1>1. CASE b \in {[o EXCEPT !.volume = v] : v \in {w \in LiquiditySteps : w > o.volume}}
  <2>1. PICK v \in LiquiditySteps : v > o.volume /\ b = [o EXCEPT !.volume = v]
    BY <1>1
  <2>2. b \in Quoted /\ b.iv = o.iv /\ b.delta = o.delta /\ b.volume = v /\ b.oi = o.oi
        /\ b.bid = o.bid /\ b.ask = o.ask /\ b.last = o.last
    BY <2>1 DEF Quoted
  <2> QED
    BY <2>1, <2>2 DEF Eases, Bid, Ask, Quoted
<1>2. CASE b \in {[o EXCEPT !.oi = v] : v \in {w \in LiquiditySteps : w > o.oi}}
  <2>1. PICK v \in LiquiditySteps : v > o.oi /\ b = [o EXCEPT !.oi = v]
    BY <1>2
  <2>2. b \in Quoted /\ b.iv = o.iv /\ b.delta = o.delta /\ b.volume = o.volume /\ b.oi = v
        /\ b.bid = o.bid /\ b.ask = o.ask /\ b.last = o.last
    BY <2>1 DEF Quoted
  <2> QED
    BY <2>1, <2>2 DEF Eases, Bid, Ask, Quoted
<1>3. CASE b \in {[o EXCEPT !.bid = Bid(o) + 1] : q \in {x \in {0} : 0 < Bid(o) /\ Bid(o) < Ask(o)}}
  <2>1. 0 < Bid(o) /\ Bid(o) \in Int /\ b = [o EXCEPT !.bid = Bid(o) + 1]
    BY <1>3 DEF Bid, Quoted
  <2>2. b \in Quoted /\ b.iv = o.iv /\ b.delta = o.delta /\ b.volume = o.volume /\ b.oi = o.oi
        /\ b.bid = Bid(o) + 1 /\ b.ask = o.ask /\ b.last = o.last
    BY <2>1 DEF Quoted
  <2>3. Bid(b) = Bid(o) + 1 /\ Ask(b) = Ask(o)
    BY <2>1, <2>2 DEF Bid, Ask
  <2> QED
    BY <2>1, <2>2, <2>3 DEF Eases, Quoted
<1> QED
  BY <1>1, <1>2, <1>3 DEF MoreLiquid


(* Arithmetic.                                                             *)
LEMMA ClipRises ==
    ASSUME NEW x \in Int, NEW y \in Int, x <= y, NEW lo \in Int, NEW hi \in Int, lo <= hi
    PROVE  /\ Clip(x, lo, hi) \in Int /\ Clip(y, lo, hi) \in Int
           /\ Clip(x, lo, hi) <= Clip(y, lo, hi) /\ lo <= Clip(x, lo, hi) /\ Clip(x, lo, hi) <= hi
BY DEF Clip

LEMMA QuotientRises ==
    ASSUME NEW x \in Nat, NEW y \in Nat, x <= y, NEW n \in Nat \ {0}
    PROVE  x \div n \in Nat /\ y \div n \in Nat /\ x \div n <= y \div n
<1> DEFINE p == x \div n
           q == y \div n
<1>1. p \in Nat /\ q \in Nat /\ p * n <= x /\ y < (q + 1) * n
  OBVIOUS
<1> HIDE DEF p, q
<1>2. p <= q
  <2> SUFFICES ASSUME p > q PROVE FALSE
    BY <1>1
  <2>1. PICK more \in Nat : p = q + 1 + more
    <3>1. p - (q + 1) \in Nat /\ p = q + 1 + (p - (q + 1))
      BY <1>1
    <3> QED
      BY <3>1
  <2>2. p * n = (q + 1) * n + more * n
    BY <1>1, <2>1
  <2>3. more * n \in Nat /\ (q + 1) * n \in Nat
    BY <1>1, <2>1
  <2> QED
    BY <1>1, <2>2, <2>3
<1> QED
  BY <1>1, <1>2 DEF p, q

LEMMA DivRises ==
    ASSUME NEW x \in Int, NEW y \in Int, x <= y, NEW n \in Int, n > 0
    PROVE  Div(x, n) \in Int /\ Div(y, n) \in Int /\ Div(x, n) <= Div(y, n)
<1>1. CASE x >= 0
  BY <1>1, QuotientRises DEF Div
<1>2. CASE x < 0 /\ y < 0
  <2>1. -x \in Nat /\ -y \in Nat /\ -y <= -x /\ n \in Nat \ {0}
    BY <1>2
  <2>2. (-x) \div n \in Nat /\ (-y) \div n \in Nat /\ (-y) \div n <= (-x) \div n
    BY <2>1, QuotientRises
  <2> QED
    BY <1>2, <2>2 DEF Div
<1>3. CASE x < 0 /\ y >= 0
  <2>1. -x \in Nat /\ y \in Nat /\ n \in Nat \ {0}
    BY <1>3
  <2>2. (-x) \div n \in Nat /\ y \div n \in Nat
    BY <2>1, QuotientRises
  <2> QED
    BY <1>3, <2>2 DEF Div
<1> QED
  BY <1>1, <1>2, <1>3

LEMMA MinOfTwo ==
    ASSUME NEW a \in Int, NEW b \in Int
    PROVE  Min({a, b}) = IF a <= b THEN a ELSE b
BY DEF Min


(* The parts of the score that see the liquidity.                          *)
LEMMA SpreadFalls ==
    ASSUME NEW o \in Quoted, NEW b, Eases(o, b), Ask(o) > 0
    PROVE  Spread(o) \in Int /\ Spread(b) \in Int /\ Spread(b) <= Spread(o)
<1>1. Ask(o) \in Int /\ Bid(o) \in Int /\ Bid(b) \in Int /\ Ask(b) = Ask(o) /\ Bid(o) <= Bid(b)
  BY DEF Eases, Quoted, Ask, Bid
<1> DEFINE x == 10000 * (Ask(o) - Bid(b))
           y == 10000 * (Ask(o) - Bid(o))
<1>2. x \in Int /\ y \in Int /\ x <= y
  BY <1>1
<1>3. Spread(o) = Div(y, Ask(o)) /\ Spread(b) = Div(x, Ask(o))
  BY <1>1 DEF Spread
<1> HIDE DEF x, y
<1> QED
  BY <1>1, <1>2, <1>3, DivRises

LEMMA PointsRise ==
    ASSUME NEW o \in Quoted, NEW b, Eases(o, b), Ask(o) > 0
    PROVE  LiquidityPoints(o) \in Int /\ LiquidityPoints(b) \in Int /\ LiquidityPoints(o) <= LiquidityPoints(b)
<1> DEFINE forVolume(v) == IF v < 200 THEN -800 ELSE IF v < 500 THEN -400 ELSE IF v > 1500 THEN 300 ELSE 0
           forOi(n) == IF n < 1000 THEN -600 ELSE IF n > 8000 THEN 300 ELSE 0
           over(s) == Div((s - 2000) * 45, 100)
           forSpread(s) == IF s > 2000 THEN -Min({1200, over(s)}) ELSE IF s < 800 THEN 250 ELSE 0
<1>1. \A x \in Quoted : LiquidityPoints(x) = forVolume(x.volume) + forOi(x.oi) + forSpread(Spread(x))
  BY DEF LiquidityPoints
<1>2. /\ o.volume \in Nat /\ b.volume \in Nat /\ o.volume <= b.volume
      /\ o.oi \in Nat /\ b.oi \in Nat /\ o.oi <= b.oi /\ b \in Quoted
  BY DEF Eases, Quoted
<1>3. \A v, w \in Nat : v <= w => forVolume(v) \in Int /\ forVolume(w) \in Int /\ forVolume(v) <= forVolume(w)
  OBVIOUS
<1>4. \A v, w \in Nat : v <= w => forOi(v) \in Int /\ forOi(w) \in Int /\ forOi(v) <= forOi(w)
  OBVIOUS
<1>5. ASSUME NEW s \in Int, NEW t \in Int, s <= t
      PROVE  forSpread(s) \in Int /\ forSpread(t) \in Int /\ forSpread(t) <= forSpread(s)
  <2>1. \A r \in Int : over(r) \in Int /\ (r > 2000 => over(r) >= 0)
    BY DEF Div
  <2>2. over(s) <= over(t)
    <3>1. (s - 2000) * 45 \in Int /\ (t - 2000) * 45 \in Int /\ (s - 2000) * 45 <= (t - 2000) * 45 /\ 100 \in Int /\ 100 > 0
      BY <1>5
    <3> QED
      BY <3>1, DivRises
  <2> HIDE DEF over
  <2>3. \A r \in Int : Min({1200, over(r)}) = IF 1200 <= over(r) THEN 1200 ELSE over(r)
    BY <2>1, MinOfTwo
  <2> QED
    BY <1>5, <2>1, <2>2, <2>3
<1>6. Spread(o) \in Int /\ Spread(b) \in Int /\ Spread(b) <= Spread(o)
  BY SpreadFalls
<1> HIDE DEF forVolume, forOi, forSpread
<1>7. /\ forVolume(o.volume) \in Int /\ forVolume(b.volume) \in Int /\ forVolume(o.volume) <= forVolume(b.volume)
      /\ forOi(o.oi) \in Int /\ forOi(b.oi) \in Int /\ forOi(o.oi) <= forOi(b.oi)
      /\ forSpread(Spread(o)) \in Int /\ forSpread(Spread(b)) \in Int /\ forSpread(Spread(o)) <= forSpread(Spread(b))
  BY <1>2, <1>3, <1>4, <1>5, <1>6
<1>8. /\ LiquidityPoints(o) = forVolume(o.volume) + forOi(o.oi) + forSpread(Spread(o))
      /\ LiquidityPoints(b) = forVolume(b.volume) + forOi(b.oi) + forSpread(Spread(b))
  BY <1>1, <1>2
<1> QED
  BY <1>7, <1>8

LEMMA LogsRise ==
    ASSUME LogRises, NEW o \in Quoted, NEW b, Eases(o, b)
    PROVE  /\ Log1p(o.oi) \in Int /\ Log1p(b.oi) \in Int /\ Log1p(o.oi) <= Log1p(b.oi)
           /\ Log1p(o.volume) \in Int /\ Log1p(b.volume) \in Int /\ Log1p(o.volume) <= Log1p(b.volume)
BY DEF LogRises, Eases, Quoted

LEMMA LiquidityScoreRises ==
    ASSUME LogRises, NEW o \in Quoted, NEW b, Eases(o, b)
    PROVE  LiquidityScore(o) \in Int /\ LiquidityScore(b) \in Int /\ LiquidityScore(o) <= LiquidityScore(b)
<1> DEFINE x == Log1p(o.oi) * 12 + Log1p(o.volume) * 8
           y == Log1p(b.oi) * 12 + Log1p(b.volume) * 8
<1>1. x \in Int /\ y \in Int /\ x <= y
  BY LogsRise
<1> HIDE DEF x, y
<1>2. Clip(x, 0, 10000) \in Int /\ Clip(y, 0, 10000) \in Int /\ Clip(x, 0, 10000) <= Clip(y, 0, 10000)
  BY <1>1, ClipRises
<1> QED
  BY <1>2 DEF LiquidityScore, x, y


(* The parts that do not see it.                                           *)
LEMMA OthersEqual ==
    ASSUME NEW o \in Quoted, NEW b, Eases(o, b), NEW c
    PROVE  /\ AbsDelta(b) = AbsDelta(o) /\ Skew(b, c) = Skew(o, c) /\ Rank(b, c) = Rank(o, c) /\ Kind(b, c) = Kind(o, c)
           /\ HvScore(b, c) = HvScore(o, c) /\ DeltaScore(b) = DeltaScore(o) /\ SkewScore(b, c) = SkewScore(o, c)
           /\ SupportPoints(b, c) = SupportPoints(o, c)
<1>1. b.iv = o.iv /\ b.delta = o.delta
  BY DEF Eases
<1>2. AbsDelta(b) = AbsDelta(o)
  BY <1>1 DEF AbsDelta
<1>3. Skew(b, c) = Skew(o, c) /\ Rank(b, c) = Rank(o, c)
  BY <1>1 DEF Skew, Rank
<1> QED
  BY <1>1, <1>2, <1>3 DEF Kind, HvScore, DeltaScore, SkewScore, SupportPoints

LEMMA PartsAreNumbers ==
    ASSUME NEW o \in Quoted, NEW c, Measurable(c)
    PROVE  /\ HvScore(o, c) \in Int /\ DeltaScore(o) \in Int /\ SkewScore(o, c) \in Int /\ RelevanceScore(c) \in Int
           /\ SupportPoints(o, c) \in Int /\ DistancePoints(c) \in Int /\ ContextPoints(c) \in Int
<1>1. \A x \in Int : \A n \in Int : n > 0 => Div(x, n) \in Int
  BY DivRises
<1>2. \A x, lo, hi \in Int : Clip(x, lo, hi) \in Int
  BY DEF Clip
<1>3. o.iv \in Int /\ o.delta \in Int
  BY DEF Quoted
<1>4. HvScore(o, c) \in Int
  <2>1. CASE c.hv = None \/ c.hv <= 0
    BY <2>1 DEF HvScore
  <2>2. CASE ~(c.hv = None \/ c.hv <= 0)
    <3>1. c.hv \in Int /\ c.hv > 0 /\ 20000 * (c.hv - o.iv) \in Int
      BY <1>3, <2>2 DEF Measurable
    <3>2. Div(20000 * (c.hv - o.iv), c.hv) \in Int
      BY <1>1, <3>1
    <3> QED
      BY <1>2, <2>2, <3>2 DEF HvScore
  <2> QED
    BY <2>1, <2>2
<1>5. DeltaScore(o) \in Int
  BY DEF DeltaScore
<1>6. SkewScore(o, c) \in Int
  <2>1. Skew(o, c) \in Int
    <3>1. CASE c.deviation > 0
      <4>1. Div(100 * (o.iv - c.mean), c.deviation) \in Int
        BY <1>1, <1>3, <3>1 DEF Measurable
      <4> QED
        BY <3>1, <4>1 DEF Skew
    <3>2. CASE ~(c.deviation > 0)
      BY <3>2 DEF Skew
    <3> QED
      BY <3>1, <3>2
  <2> DEFINE k == Skew(o, c)
  <2>2. 5000 + k * 8 \in Int
    BY <2>1
  <2>3. Clip(5000 + k * 8, 0, 10000) \in Int
    BY <1>2, <2>2
  <2> QED
    BY <2>3 DEF SkewScore
<1>7. MoveRatio(c) \in Int
  <2>1. Distance(c.strike, c.spot) \in Int
    BY DEF Measurable, Distance
  <2>2. CASE c.expectedMove > 0
    <3>1. Div(100 * Distance(c.strike, c.spot), c.expectedMove) \in Int
      BY <1>1, <2>1, <2>2 DEF Measurable
    <3> QED
      BY <2>2, <3>1 DEF MoveRatio
  <2>3. CASE ~(c.expectedMove > 0)
    BY <2>3 DEF MoveRatio
  <2> QED
    BY <2>2, <2>3
<1>8. RelevanceScore(c) \in Int
  <2> DEFINE r == MoveRatio(c)
  <2>1. r \in Int /\ Distance(r, 75) \in Int
    BY <1>7 DEF Distance
  <2>2. Div(Distance(r, 75) * 4200, 55) \in Int
    BY <1>1, <2>1
  <2> DEFINE d == Div(Distance(r, 75) * 4200, 55)
  <2>3. d \in Int
    BY <2>2
  <2> HIDE DEF d
  <2>4. 9200 - d \in Int
    BY <2>3
  <2>5. Clip(9200 - d, 0, 10000) \in Int
    BY <1>2, <2>4
  <2>6. Clip(9200 - Div(Distance(r, 75) * 4200, 55), 0, 10000) \in Int
    BY <2>5 DEF d
  <2> HIDE DEF r
  <2> QED
    BY <2>1, <2>6 DEF RelevanceScore, r
<1>9. DistancePoints(c) \in Int
  <2>1. /\ Min({1500, (MoveRatio(c) - 100) * 8}) \in Int
        /\ Min({800, (35 - MoveRatio(c)) * 15}) \in Int
    BY <1>7, MinOfTwo
  <2> QED
    BY <2>1 DEF DistancePoints
<1>10. ContextPoints(c) \in Int
  BY DEF ContextPoints
<1>11. SupportPoints(o, c) \in Int
  <2>1. AlignmentPoints(c) \in Int
    <3>1. Div(c.market.confidence - 5000, 4) \in Int
      BY <1>1 DEF Measurable
    <3> QED
      BY <1>2, <3>1 DEF AlignmentPoints
  <2> QED
    BY <2>1 DEF SupportPoints
<1> QED
  BY <1>4, <1>5, <1>6, <1>8, <1>9, <1>10, <1>11


(* The whole.                                                              *)
LEMMA BaseScoreRises ==
    ASSUME LogRises, NEW o \in Quoted, NEW b, Eases(o, b), NEW c, Measurable(c)
    PROVE  BaseScore(o, c) \in Int /\ BaseScore(b, c) \in Int /\ BaseScore(o, c) <= BaseScore(b, c)
<1> DEFINE parts(hv, delta, liquid, skew, relevance) ==
               IF Kind(o, c) = "directional"
               THEN hv * 25 + delta * 35 + liquid * 10 + skew * 15 + relevance * 25
               ELSE hv * 30 + delta * 10 + liquid * 10 + skew * 40 + relevance * 20
           x == parts(HvScore(o, c), DeltaScore(o), LiquidityScore(o), SkewScore(o, c), RelevanceScore(c))
           y == parts(HvScore(o, c), DeltaScore(o), LiquidityScore(b), SkewScore(o, c), RelevanceScore(c))
<1>1. \A hv, delta, more, less, skew, relevance \in Int : less <= more =>
          /\ parts(hv, delta, less, skew, relevance) \in Int /\ parts(hv, delta, more, skew, relevance) \in Int
          /\ parts(hv, delta, less, skew, relevance) <= parts(hv, delta, more, skew, relevance)
  OBVIOUS
<1>2. BaseScore(o, c) = Clip(x \div 100, 0, 10000)
  BY DEF BaseScore
<1>3. BaseScore(b, c) = Clip(y \div 100, 0, 10000)
  <2>1. /\ Kind(b, c) = Kind(o, c) /\ HvScore(b, c) = HvScore(o, c) /\ DeltaScore(b) = DeltaScore(o)
        /\ SkewScore(b, c) = SkewScore(o, c)
    BY OthersEqual
  <2> QED
    BY <2>1 DEF BaseScore
<1> HIDE DEF parts
<1>4. x \in Int /\ y \in Int /\ x <= y
  BY <1>1, LiquidityScoreRises, PartsAreNumbers
<1> HIDE DEF x, y
<1>5. x \div 100 \in Int /\ y \div 100 \in Int /\ x \div 100 <= y \div 100
  BY <1>4
<1> DEFINE p == x \div 100
           q == y \div 100
<1>6. p \in Int /\ q \in Int /\ p <= q
  BY <1>5
<1> HIDE DEF p, q
<1>7. Clip(p, 0, 10000) \in Int /\ Clip(q, 0, 10000) \in Int /\ Clip(p, 0, 10000) <= Clip(q, 0, 10000)
  BY <1>6, ClipRises
<1> QED
  BY <1>2, <1>3, <1>7 DEF p, q

LEMMA ScoreRises ==
    ASSUME LogRises, NEW o \in Quoted, NEW b, Eases(o, b), NEW c, Measurable(c), Ask(o) > 0
    PROVE  Score(o, c) \in Int /\ Score(b, c) \in Int /\ Score(o, c) <= Score(b, c)
<1> DEFINE x == LiquidityPoints(o) + DistancePoints(c) + SupportPoints(o, c)
           y == LiquidityPoints(b) + DistancePoints(c) + SupportPoints(o, c)
           p == BaseScore(o, c) + ContextPoints(c) + Clip(x, -2500, 2500)
           q == BaseScore(b, c) + ContextPoints(c) + Clip(y, -2500, 2500)
<1>1. Score(o, c) = Clip(p, 0, 9500) /\ Score(b, c) = Clip(q, 0, 9500)
  BY OthersEqual DEF Score
<1>2. /\ LiquidityPoints(o) \in Int /\ LiquidityPoints(b) \in Int /\ LiquidityPoints(o) <= LiquidityPoints(b)
      /\ DistancePoints(c) \in Int /\ SupportPoints(o, c) \in Int /\ ContextPoints(c) \in Int
  BY PointsRise, PartsAreNumbers
<1>3. x \in Int /\ y \in Int /\ x <= y
  BY <1>2
<1> HIDE DEF x, y
<1>4. Clip(x, -2500, 2500) \in Int /\ Clip(y, -2500, 2500) \in Int /\ Clip(x, -2500, 2500) <= Clip(y, -2500, 2500)
  BY <1>3, ClipRises
<1>5. BaseScore(o, c) \in Int /\ BaseScore(b, c) \in Int /\ BaseScore(o, c) <= BaseScore(b, c)
  BY BaseScoreRises
<1>6. p \in Int /\ q \in Int /\ p <= q
  BY <1>2, <1>4, <1>5
<1> HIDE DEF p, q
<1>7. Clip(p, 0, 9500) \in Int /\ Clip(q, 0, 9500) \in Int /\ Clip(p, 0, 9500) <= Clip(q, 0, 9500)
  BY <1>6, ClipRises
<1> QED
  BY <1>1, <1>7

LEMMA QualityRises ==
    ASSUME NEW o \in Quoted, NEW b, Eases(o, b), NEW c
    PROVE  Quality(o, c) \in Nat /\ Quality(b, c) \in Nat /\ Quality(o, c) <= Quality(b, c)
<1> DEFINE good(volume, oi) ==
               {q \in 1..5 : CASE q = 1 -> Skew(o, c) > 0
                               [] q = 2 -> AbsDelta(o) \in 15..45
                               [] q = 3 -> MoveRatio(c) <= 150
                               [] q = 4 -> volume > 1000
                               [] q = 5 -> oi >= 1000}
<1>1. Quality(o, c) = Cardinality(good(o.volume, o.oi)) /\ Quality(b, c) = Cardinality(good(b.volume, b.oi))
  BY OthersEqual DEF Quality
<1>2. o.volume \in Nat /\ b.volume \in Nat /\ o.volume <= b.volume /\ o.oi \in Nat /\ b.oi \in Nat /\ o.oi <= b.oi
  BY DEF Eases, Quoted
<1>3. good(o.volume, o.oi) \subseteq good(b.volume, b.oi)
  BY <1>2
<1>4. good(b.volume, b.oi) \subseteq 1..5
  OBVIOUS
<1> HIDE DEF good
<1>5. IsFiniteSet(good(b.volume, b.oi))
  <2> DEFINE five == 5
  <2>1. 1 \in Int /\ five \in Int /\ good(b.volume, b.oi) \subseteq 1..five
    BY <1>4
  <2> HIDE DEF five
  <2>2. IsFiniteSet(1..five)
    BY <2>1, FS_Interval
  <2> QED
    BY <2>1, <2>2, FS_Subset
<1>6. IsFiniteSet(good(o.volume, o.oi)) /\ Cardinality(good(o.volume, o.oi)) <= Cardinality(good(b.volume, b.oi))
  BY <1>3, <1>5, FS_Subset
<1> QED
  BY <1>1, <1>5, <1>6, FS_CardinalityType

LEMMA RankScoreRises ==
    ASSUME LogRises, NEW o \in Quoted, NEW b, Eases(o, b), NEW c, Measurable(c), Ask(o) > 0
    PROVE  RankScore(b, c) >= RankScore(o, c)
<1> DEFINE rest == (IF AbsDelta(o) \in 20..40 THEN 500 ELSE 0)
           toward == IF c.market.direction = Toward(c.side) THEN Clip(Div(c.market.confidence - 6000, 8), 0, 500) ELSE 0
           fromOi(x) == Div(3 * Log1p(x.oi), 2)
<1>1. /\ RankScore(o, c) = Score(o, c) + 2 * Log1p(o.volume) + fromOi(o) + rest + toward
      /\ RankScore(b, c) = Score(b, c) + 2 * Log1p(b.volume) + fromOi(b) + rest + toward
  BY OthersEqual DEF RankScore
<1>2. Score(o, c) \in Int /\ Score(b, c) \in Int /\ Score(o, c) <= Score(b, c)
  BY ScoreRises
<1>3. Log1p(o.volume) \in Int /\ Log1p(b.volume) \in Int /\ Log1p(o.volume) <= Log1p(b.volume)
  BY LogsRise
<1>4. fromOi(o) \in Int /\ fromOi(b) \in Int /\ fromOi(o) <= fromOi(b)
  <2>1. 3 * Log1p(o.oi) \in Int /\ 3 * Log1p(b.oi) \in Int /\ 3 * Log1p(o.oi) <= 3 * Log1p(b.oi) /\ 2 \in Int /\ 2 > 0
    BY LogsRise
  <2> QED
    BY <2>1, DivRises
<1>5. rest \in Int
  OBVIOUS
<1>6. toward \in Int
  <2>1. c.market.confidence - 6000 \in Int /\ 8 \in Int /\ 8 > 0
    BY DEF Measurable
  <2>2. Div(c.market.confidence - 6000, 8) \in Int
    BY <2>1, DivRises
  <2>3. Clip(Div(c.market.confidence - 6000, 8), 0, 500) \in Int
    BY <2>2, ClipRises
  <2> QED
    BY <2>3
<1> HIDE DEF rest, toward, fromOi
<1> QED
  BY <1>1, <1>2, <1>3, <1>4, <1>5, <1>6

(* Nothing that makes an option easier to trade keeps it out.              *)
LEMMA LiquidityNeverHurts ==
    ASSUME LogRises, NEW o \in Quoted, NEW c, Measurable(c), Accepted(o, c), NEW better \in MoreLiquid(o)
    PROVE  Accepted(better, c) /\ Score(better, c) >= Score(o, c) /\ RankScore(better, c) >= RankScore(o, c)
<1>1. Eases(o, better)
  BY BetterOption, ScanAssumption
<1>2. /\ Tradeable(o, c) /\ Score(o, c) >= 4000 /\ Ask(o) > 0
      /\ Rank(o, c) # None => Rank(o, c) >= MinIvRank
  BY DEF Accepted, Tradeable
<1>3. Score(o, c) \in Int /\ Score(better, c) \in Int /\ Score(o, c) <= Score(better, c)
  BY <1>1, <1>2, ScoreRises
<1>4. RankScore(better, c) >= RankScore(o, c)
  BY <1>1, <1>2, RankScoreRises
<1>5. Tradeable(better, c)
  <2>1. Has(better)
    BY <1>1, ScanAssumption DEF Eases, Has
  <2>2. AbsDelta(better) = AbsDelta(o) /\ Kind(better, c) = Kind(o, c) /\ better.iv = o.iv /\ Ask(better) = Ask(o)
    BY <1>1, OthersEqual DEF Eases
  <2>3. Spread(o) \in Int /\ Spread(better) \in Int /\ Spread(better) <= Spread(o)
    BY <1>1, <1>2, SpreadFalls
  <2>4. Quality(o, c) \in Nat /\ Quality(better, c) \in Nat /\ Quality(o, c) <= Quality(better, c)
    BY <1>1, QualityRises
  <2>5. /\ AbsDelta(o) >= 5 /\ o.iv > 0 /\ Ask(o) > 0 /\ Spread(o) < 6000 /\ c.ivStable
        /\ MoveRatio(c) <= 250 /\ Kind(o, c) # "none" /\ Quality(o, c) >= 1
    BY <1>2 DEF Tradeable
  <2>6. Spread(better) < 6000 /\ Quality(better, c) >= 1
    BY <2>3, <2>4, <2>5
  <2> QED
    BY <2>1, <2>2, <2>5, <2>6 DEF Tradeable
<1>6. Rank(better, c) = Rank(o, c)
  BY <1>1, OthersEqual
<1>7. Score(better, c) >= 4000
  BY <1>2, <1>3
<1>8. Rank(better, c) # None => Rank(better, c) >= MinIvRank
  BY <1>2, <1>6
<1> QED
  BY <1>3, <1>4, <1>5, <1>7, <1>8 DEF Accepted


(* The universe: a stock that is traded more has no more stocks before it. *)
LEMMA TradedMoreStays ==
    ASSUME NEW S, NEW names \in Seq(S), NEW D, NEW traded \in [D -> Nat], NEW n \in D,
           NEW v \in Nat, v > traded[n], n \in LiquidUniverse(names, traded)
    PROVE  n \in LiquidUniverse(names, [traded EXCEPT ![n] = v])
<1> DEFINE raised == [traded EXCEPT ![n] = v]
           room == UniverseSize - Cardinality(Reserved)
<1>1. room \in Int
  BY ScanAssumption, FS_CardinalityType
<1>2. CASE n \in Reserved
  BY <1>2 DEF LiquidUniverse
<1>3. CASE n \notin Reserved
  <2> HIDE DEF room
  <2>1. PICK i \in Rankable(names) : names[i] = n /\ Cardinality(InFront(names, traded, i)) < room
    BY <1>3 DEF LiquidUniverse, room
  <2>2. /\ \A m : LiquidityOf(traded, m) \in Nat /\ LiquidityOf(raised, m) \in Nat
        /\ \A m : m # n => LiquidityOf(raised, m) = LiquidityOf(traded, m)
        /\ LiquidityOf(raised, n) = v /\ LiquidityOf(traded, n) = traded[n] /\ traded[n] \in Nat
    BY DEF LiquidityOf
  <2> HIDE DEF raised
  <2>3. DOMAIN names = 1..Len(names) /\ Len(names) \in Nat
    OBVIOUS
  <2>4. InFront(names, raised, i) \subseteq InFront(names, traded, i)
    <3> SUFFICES ASSUME NEW j \in Rankable(names), j \in InFront(names, raised, i) PROVE j \in InFront(names, traded, i)
      BY DEF InFront
    <3>1. j \in Nat /\ i \in Nat /\ j >= 1 /\ i >= 1
      BY <2>3 DEF Rankable
    <3>2. j # i
      BY <2>2, <3>1 DEF InFront
    <3>3. names[j] # n
      BY <2>1, <3>1, <3>2 DEF Rankable
    <3>4. /\ LiquidityOf(raised, names[j]) = LiquidityOf(traded, names[j])
          /\ LiquidityOf(raised, names[i]) > LiquidityOf(traded, names[i])
      BY <2>1, <2>2, <3>3
    <3>5. LiquidityOf(raised, names[j]) >= LiquidityOf(raised, names[i])
      BY <2>2 DEF InFront
    <3>6. LiquidityOf(traded, names[j]) > LiquidityOf(traded, names[i])
      BY <2>2, <3>4, <3>5
    <3> QED
      BY <3>6 DEF InFront
  <2>5. IsFiniteSet(InFront(names, traded, i))
    <3> DEFINE k == Len(names)
    <3>1. InFront(names, traded, i) \subseteq 1..k
      BY <2>3 DEF InFront, Rankable
    <3>2. 1 \in Int /\ k \in Int
      BY <2>3
    <3> HIDE DEF k
    <3>3. IsFiniteSet(1..k)
      BY <3>2, FS_Interval
    <3> QED
      BY <3>1, <3>3, FS_Subset
  <2>6. Cardinality(InFront(names, raised, i)) < room
    <3>1. Cardinality(InFront(names, raised, i)) <= Cardinality(InFront(names, traded, i))
          /\ IsFiniteSet(InFront(names, raised, i))
      BY <2>4, <2>5, FS_Subset
    <3>2. Cardinality(InFront(names, raised, i)) \in Nat /\ Cardinality(InFront(names, traded, i)) \in Nat
      BY <2>5, <3>1, FS_CardinalityType
    <3>3. room \in Int
      BY <1>1 DEF room
    <3> QED
      BY <2>1, <3>1, <3>2, <3>3
  <2> QED
    BY <2>1, <2>6 DEF LiquidUniverse, room, raised
<1> QED
  BY <1>2, <1>3

LEMMA ListedIsList ==
    ASSUME NEW found \in Findables
    PROVE  \E S : Listed(found) \in Seq(S)
<1> DEFINE symbols == IF found.symbols = NoAnswer THEN <<>> ELSE found.symbols
           S == ToSet(symbols) \cup ToSet(Defaults)
<1>1. symbols \in Seq(ToSet(symbols)) /\ Defaults \in Seq(ToSet(Defaults))
  <2>1. Defaults \in Seq(ToSet(Defaults))
    BY ScanAssumption
  <2>2. CASE found.symbols = NoAnswer
    <3>1. symbols = <<>> /\ \A T : <<>> \in Seq(T)
      BY <2>2
    <3> QED
      BY <2>1, <3>1
  <2>3. CASE found.symbols # NoAnswer
    <3>1. symbols = found.symbols /\ found.symbols \in Seq(ToSet(found.symbols))
      BY <2>3, ScanAssumption
    <3> QED
      BY <2>1, <3>1
  <2> QED
    BY <2>2, <2>3
<1> DEFINE A == ToSet(symbols)
           B == ToSet(Defaults)
<1>2. symbols \in Seq(A) /\ Defaults \in Seq(B)
  BY <1>1
<1>3. Listed(found) = symbols \o Defaults
  BY DEF Listed
<1> HIDE DEF symbols, A, B
<1>4. symbols \in Seq(A \cup B) /\ Defaults \in Seq(A \cup B)
  BY <1>2
<1>5. Listed(found) \in Seq(A \cup B)
  BY <1>3, <1>4
<1> QED
  BY <1>5

LEMMA StaysListedAlways ==
    ASSUME NEW found \in Findables
    PROVE  StaysListed[found]
<1> SUFFICES ASSUME NEW n \in DOMAIN found.traded, NEW v \in LiquiditySteps, n \in Universes[found], v > found.traded[n]
             PROVE  n \in Universe([found EXCEPT !.traded[n] = v])
  BY DEF StaysListed
<1> DEFINE traded == found.traded
           raised == [traded EXCEPT ![n] = v]
           better == [found EXCEPT !.traded[n] = v]
<1>1. v \in Nat /\ traded \in [DOMAIN traded -> Nat] /\ DOMAIN found = {"symbols", "traded"}
  BY ScanAssumption
<1>2. better.symbols = found.symbols /\ better.traded = raised /\ DOMAIN raised = DOMAIN traded
  BY <1>1
<1>3. n \in Universe(found)
  BY DEF Universes
<1> HIDE DEF better
<1>4. Listed(better) = Listed(found)
  BY <1>2 DEF Listed
<1>5. Resolved(better) = Resolved(found)
  BY <1>4 DEF Resolved
<1>6. CASE Cardinality(Resolved(found)) <= UniverseSize \/ DOMAIN traded = {}
  <2>1. Universe(found) = Resolved(found) /\ Universe(better) = Resolved(found)
    BY <1>2, <1>5, <1>6 DEF Universe
  <2> QED
    BY <1>3, <2>1 DEF better
<1>7. CASE ~(Cardinality(Resolved(found)) <= UniverseSize \/ DOMAIN traded = {})
  <2>1. /\ Universe(found) = LiquidUniverse(Listed(found), traded)
        /\ Universe(better) = LiquidUniverse(Listed(found), raised)
    BY <1>2, <1>4, <1>5, <1>7 DEF Universe
  <2>2. PICK S : Listed(found) \in Seq(S)
    BY ListedIsList
  <2> HIDE DEF traded
  <2>3. n \in LiquidUniverse(Listed(found), raised)
    <3>1. n \in DOMAIN traded /\ v > traded[n]
      BY DEF traded
    <3> QED
      BY <1>1, <1>3, <2>1, <2>2, <3>1, TradedMoreStays
  <2> QED
    BY <2>1, <2>3 DEF better
<1> QED
  BY <1>6, <1>7

LEMMA RisesForAll ==
    ASSUME LogRises, NEW u \in Candidates, NEW closes \in Series
    PROVE  RisesFor[u][closes]
<1> SUFFICES ASSUME NEW i \in DOMAIN Judged[u][closes],
                    Accepted(Judged[u][closes][i].option, Judged[u][closes][i].context),
                    NEW better \in MoreLiquid(Judged[u][closes][i].option)
             PROVE  LET o == Judged[u][closes][i].option
                        c == Judged[u][closes][i].context
                    IN  Accepted(better, c) /\ Score(better, c) >= Score(o, c) /\ RankScore(better, c) >= RankScore(o, c)
  BY DEF RisesFor
<1> DEFINE o == Judged[u][closes][i].option
           c == Judged[u][closes][i].context
<1>1. o \in Quoted \cup {NoOption} /\ Measurable(c)
  BY ScanAssumption
<1>2. Accepted(o, c) /\ better \in MoreLiquid(o)
  OBVIOUS
<1> HIDE DEF o, c
<1>3. o # NoOption
  BY <1>2 DEF Accepted, Tradeable, Has
<1>4. Accepted(better, c) /\ Score(better, c) >= Score(o, c) /\ RankScore(better, c) >= RankScore(o, c)
  BY <1>1, <1>2, <1>3, LiquidityNeverHurts
<1> QED
  BY <1>4 DEF o, c

(* The closes a scan reads are those of the broker for some underlying, or *)
(* none.                                                                   *)
ScanInv == candlesKept \in Series /\ ScoreRisesWithLiquidity

LEMMA ScanStarts == Init => ScanInv
BY DEF Init, ScanInv, Series, ScoreRisesWithLiquidity, Reported

LEMMA ScanKeeps ==
    ASSUME LogRises, ScanInv, [Next]_vars
    PROVE  ScanInv'
<1>1. CASE JudgeOptions
  <2>1. PICK u \in Candidates :
            LET closes == HistoricalPrices(u, candlesKept)
            IN  /\ report' = [kind |-> "options", u |-> u, closes |-> closes, found |-> Discounted[u][closes]]
                /\ candlesKept' = closes
    BY <1>1 DEF JudgeOptions
  <2> DEFINE closes == HistoricalPrices(u, candlesKept)
  <2>2. closes \in Series
    BY DEF HistoricalPrices, ScanInv, Series
  <2>3. candlesKept' = closes /\ report'.kind = "options" /\ report'.u = u /\ report'.closes = closes
    BY <2>1
  <2> HIDE DEF closes
  <2>4. RisesFor[u][closes]
    BY <2>2, RisesForAll
  <2>5. ScoreRisesWithLiquidity'
    BY <2>3, <2>4 DEF ScoreRisesWithLiquidity, Reported
  <2> QED
    BY <2>2, <2>3, <2>5 DEF ScanInv
<1>2. CASE LoadUniverse
  <2>1. PICK found \in Findables :
            report' = [kind |-> "universe", found |-> found, names |-> Universes[found]]
    BY <1>2 DEF LoadUniverse
  <2>2. report'.kind = "universe" /\ report'.found = found /\ StaysListed[found]
    BY <2>1, StaysListedAlways
  <2>3. ScoreRisesWithLiquidity'
    BY <2>2 DEF ScoreRisesWithLiquidity, Reported
  <2>4. candlesKept' = candlesKept
    BY <1>2 DEF LoadUniverse, scanVars
  <2> QED
    BY <2>3, <2>4 DEF ScanInv
<1>3. CASE DayPasses \/ ChangeAccount \/ ScanSecurities \/ PlanSubscriptions \/ SelectTrades
  <2>1. ~Reported("options")' /\ ~Reported("universe")'
    BY <1>3 DEF DayPasses, ChangeAccount, ScanSecurities, PlanSubscriptions, SelectTrades, Reported
  <2>2. candlesKept' = candlesKept \/ candlesKept' = <<>>
    BY <1>3 DEF DayPasses, ChangeAccount, ScanSecurities, PlanSubscriptions, SelectTrades, scanVars
  <2> QED
    BY <2>1, <2>2 DEF ScanInv, ScoreRisesWithLiquidity, Series
<1>4. CASE UNCHANGED <<report, candlesKept>>
  BY <1>4 DEF ScanInv, ScoreRisesWithLiquidity, Reported
<1>5. \/ JudgeOptions \/ LoadUniverse
      \/ DayPasses \/ ChangeAccount \/ ScanSecurities \/ PlanSubscriptions \/ SelectTrades
      \/ UNCHANGED <<report, candlesKept>>
  BY DEF Next, vars, scanVars, Snapshot, Minute, Night, Keeping, Getting, Waiting
<1> QED
  BY <1>1, <1>2, <1>3, <1>4, <1>5

(* Whatever chains, histories and liquidities the scan finds: nothing that *)
(* makes an option easier to trade lowers its score or its rank or keeps   *)
(* it out, and no stock leaves the universe for being traded more.         *)
THEOREM ScoresRise == ASSUME LogRises PROVE Spec => []ScoreRisesWithLiquidity
<1>1. ScanInv /\ [Next]_vars => ScanInv'
  BY ScanKeeps
<1>2. ScanInv => ScoreRisesWithLiquidity
  BY DEF ScanInv
<1> QED
  BY ScanStarts, <1>1, <1>2, PTL DEF Spec

===============================================================================
