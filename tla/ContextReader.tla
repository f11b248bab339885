----------------------------- MODULE ContextReader -----------------------------
(***************************************************************************)
(* market_context.get(): the context a strategy reads.  The service        *)
(* creates the database at its start, replacing a damaged file once        *)
(* (store.init_db), and appends regime rows to it; the threads of a        *)
(* strategy share a cached context (__init__.py) whose two variables are   *)
(* read without the lock.  Time is counted in units of the cache's TTL.    *)
(***************************************************************************)
EXTENDS Integers

CONSTANTS
    Callers,            \* threads of a strategy
    Enabled,            \* is_enabled
    Ttl, MaxAge,        \* GET_CACHE_TTL_SEC, MAX_CONTEXT_AGE_SEC
    MaxClock,           \* bound: time
    MaxDamages,         \* bound: damages, failures and deaths of the service
    Nobody

ASSUME ContextReaderAssumption ==
    {Ttl, MaxAge, MaxClock, MaxDamages} \subseteq Nat /\ Enabled \in BOOLEAN /\ Nobody \notin Callers

VARIABLES
    clock,
    database,           \* the file: absent, bare (without tables), damaged, or ready
    newestRow,          \* the newest row of mc_regime, in a ready database
    keeper,             \* the service: down, replacing (a damaged file), or up
    damages,
    cached,             \* _cached
    cachedAt,           \* _cached_at
    holder,             \* of _lock
    caller,             \* what each thread is about
    answered            \* what get() returned in the last step

readerVars == <<clock, database, newestRow, keeper, damages, cached, cachedAt, holder, caller, answered>>

(* A row or a context is known by the time of its snapshot.  A row may     *)
(* have no axis that is known.                                             *)
NoRow == [ts |-> 0, axes |-> FALSE]
NeutralContext == [ts |-> 0, available |-> FALSE]
NoContext == [ts |-> -1, available |-> FALSE]
NeverCached == -Ttl

Idle == [step |-> "idle", asked |-> 0, looked |-> 0, copy |-> NoContext, overtaken |-> FALSE]
NotAnswered == [context |-> NoContext, asked |-> 0, overtaken |-> FALSE]

ReaderInit ==
    /\ clock = 1
    /\ database \in {"absent", "bare", "damaged"} /\ newestRow = NoRow
    /\ keeper = "down" /\ damages = 0
    /\ cached = NoContext /\ cachedAt = NeverCached /\ holder = Nobody
    /\ caller = [t \in Callers |-> Idle]
    /\ answered = NotAnswered

-------------------------------------------------------------------------------
(* The service and its file.                                               *)

Damaging == damages < MaxDamages /\ damages' = damages + 1

(* init_db: a file that is not a database is renamed, and the schema       *)
(* applied once more.  Any other failure ends the service.                 *)
ApplySchema ==
    /\ database # "damaged"
    /\ database' = "ready" /\ keeper' = "up"
    /\ UNCHANGED <<newestRow, damages>>

Quarantine ==
    /\ keeper = "down" /\ database = "damaged"
    /\ database' = "absent" /\ keeper' = "replacing"
    /\ UNCHANGED <<newestRow, damages>>

(* The service is killed, a start fails, or a damaged file cannot be       *)
(* renamed and ends it.                                                    *)
KeeperDies ==
    /\ keeper # "down" /\ Damaging
    /\ keeper' = "down"
    /\ UNCHANGED <<database, newestRow>>

(* persist: INSERT OR IGNORE, one row a snapshot.  On a damaged file it    *)
(* fails and the service goes on.                                          *)
Publish ==
    /\ keeper = "up" /\ database = "ready"
    /\ newestRow.ts < clock
    /\ \E known \in BOOLEAN : newestRow' = [ts |-> clock, axes |-> known]
    /\ UNCHANGED <<database, keeper, damages>>

(* Any container that requests a quote opens the file for writing, and     *)
(* creates it.                                                             *)
Open ==
    /\ database = "absent" /\ database' = "bare"
    /\ UNCHANGED <<newestRow, keeper, damages>>

Damage ==
    /\ database # "absent" /\ Damaging
    /\ database' = "damaged" /\ newestRow' = NoRow
    /\ UNCHANGED keeper

Keep ==
    /\ (keeper # "up" /\ ApplySchema) \/ Quarantine \/ KeeperDies \/ Publish \/ Open \/ Damage
    /\ answered' = NotAnswered
    /\ UNCHANGED <<clock, cached, cachedAt, holder, caller>>

-------------------------------------------------------------------------------
(* get() of one thread.                                                    *)

(* latest_regime_row: nothing without a file, without the table, or out of *)
(* a damaged one.                                                          *)
LatestRegimeRow == IF database = "ready" THEN newestRow ELSE NoRow

(* Mutant: the age of the row is not looked at.                            *)
BuildContextMutant(row) == [ts |-> row.ts, available |-> row.axes]

(* A row that is too old says nothing; otherwise the axes that the writer  *)
(* listed and labelled are available.                                      *)
BuildContext(row) ==
    IF clock - row.ts > MaxAge THEN NeutralContext
    ELSE [ts |-> row.ts, available |-> row.axes]

Loaded ==
    IF ~Enabled \/ LatestRegimeRow = NoRow THEN NeutralContext ELSE BuildContext(LatestRegimeRow)

Return(t, context) ==
    /\ caller' = [caller EXCEPT ![t] = Idle]
    /\ answered' = [context |-> context, asked |-> caller[t].asked, overtaken |-> caller[t].overtaken]

Goes(t, from, to) ==
    /\ caller[t].step = from
    /\ caller' = [caller EXCEPT ![t].step = to]
    /\ answered' = NotAnswered

(* The time, and the context without the lock.                             *)
Call(t) ==
    /\ caller[t].step = "idle"
    /\ caller' = [caller EXCEPT ![t] =
                    [Idle EXCEPT !.step = IF cached = NoContext THEN "locking" ELSE "checking",
                                 !.asked = clock, !.copy = cached]]
    /\ answered' = NotAnswered
    /\ UNCHANGED <<cached, cachedAt, holder>>

(* Then how old it is: as old as the context that is cached by now.        *)
Check(t) ==
    /\ \/ /\ caller[t].step = "checking"
          /\ caller[t].asked - cachedAt < Ttl
          /\ Return(t, caller[t].copy)
       \/ /\ caller[t].asked - cachedAt >= Ttl
          /\ Goes(t, "checking", "locking")
    /\ UNCHANGED <<cached, cachedAt, holder>>

(* Once more, under the lock.                                              *)
Recheck(t) ==
    /\ caller[t].step = "locking" /\ holder = Nobody
    /\ IF cached # NoContext /\ clock - cachedAt < Ttl
       THEN Return(t, cached) /\ UNCHANGED holder
       ELSE /\ caller' = [caller EXCEPT ![t].step = "loading", ![t].looked = clock]
            /\ holder' = t /\ answered' = NotAnswered
    /\ UNCHANGED <<cached, cachedAt>>

Load(t) ==
    /\ Goes(t, "loading", "stamping")
    /\ cached' = Loaded
    /\ UNCHANGED <<cachedAt, holder>>

(* Threads that have read the other variable already are overtaken.        *)
Stamp(t) ==
    /\ caller[t].step = "stamping"
    /\ cachedAt' = caller[t].looked
    /\ holder' = Nobody
    /\ caller' = [u \in Callers |->
                    IF u = t THEN Idle
                    ELSE [caller[u] EXCEPT !.overtaken = @ \/ caller[u].step = "checking"]]
    /\ answered' = [context |-> cached, asked |-> caller[t].asked, overtaken |-> FALSE]
    /\ UNCHANGED cached

Get ==
    /\ \E t \in Callers : Call(t) \/ Check(t) \/ Recheck(t) \/ Load(t) \/ Stamp(t)
    /\ UNCHANGED <<clock, database, newestRow, keeper, damages>>

TimePasses ==
    /\ clock < MaxClock /\ clock' = clock + 1
    /\ answered' = NotAnswered
    /\ UNCHANGED <<database, newestRow, keeper, damages, cached, cachedAt, holder, caller>>

-------------------------------------------------------------------------------
(* Properties.                                                             *)

(* "Data older than MAX_CONTEXT_AGE_SEC is reported as unavailable"        *)
(* (__init__.py, guarantee 4), but for the time it may have been cached:   *)
(* what get() returns was no older than both when it was called.  It is    *)
(* not so for a thread that took a context out of the cache and was        *)
(* overtaken by another that loaded a new one before it looked at the      *)
(* time: it may return one of any age.                                     *)
ContextIsRecent ==
    answered.context.available /\ ~answered.overtaken =>
        answered.asked - answered.context.ts < MaxAge + Ttl

===============================================================================
