------------------------------- MODULE Settings -------------------------------
(***************************************************************************)
(* The runtime flags of settings_store.py.  The settings page writes them  *)
(* to a database all containers mount; each container keeps what it        *)
(* resolved for a while.  The page also starts and stops containers        *)
(* through docker, and a started container has an empty cache.  What the   *)
(* page's own process caches only feeds its display and is left out.       *)
(*                                                                         *)
(* A read of the database that misses the cache takes two steps, because   *)
(* the page may write in between.  Time passes in ticks; a read does not   *)
(* last from one tick to the next but one.                                 *)
(***************************************************************************)
EXTENDS Integers, Sequences

CONSTANTS
    Absent,         \* no value, no entry, nothing being read
    Services,       \* the services of docker-compose.yml
    Unknown,        \* a name that is not one
    Keys,           \* the flags told apart
    Env,            \* service -> key -> value in its environment, or Absent
    Ttl,            \* FLAG_CACHE_TTL in ticks
    MaxOps          \* bound on what the operator does at the page

(* FEATURE_FLAGS: every flag with its type, the values it is set to, and   *)
(* what it is when nobody sets it.  Fractions are in hundredths.           *)
Mode(default) == [type |-> "enum", values |-> {"off", "soft", "hard"}, default |-> default]
Switch == [type |-> "bool", values |-> {"true", "false"}, default |-> "false"]
Number(default) == [type |-> "number", values |-> Nat, default |-> default]

FEATURE_FLAGS ==
    [BREADTH_GATE_MODE |-> Mode("off"), PMG_GATE_MODE |-> Mode("hard"), PORTFOLIO_GATE_MODE |-> Mode("hard"),
     AUTO_EXIT_OI_MODE |-> Mode("hard"), DAILY_LOSS_GATE_MODE |-> Mode("off"), SONAR_EXIT_MODE |-> Mode("off"),
     EXPOSURE_GATE_MODE |-> Mode("off"),
     STRATEGY_STRIKE_VIA_DISCOUNT |-> Switch, BB_BREAKOUT_ALERTS |-> Switch,
     DAILY_LOSS_FLATTEN_ON_BREACH |-> Switch, TRAILING_SL_ENABLED |-> Switch,
     MAX_RISK_RUPEES |-> Number(1500), MAX_PER_SYMBOL_PER_DAY |-> Number(1), DAILY_LOSS_LIMIT_RUPEES |-> Number(5000),
     TRAILING_SL_ACTIVATION_PCT |-> Number(20), TRAILING_SL_GIVEBACK_PCT |-> Number(15),
     EXPOSURE_MAX_OPEN_POSITIONS |-> Number(0), EXPOSURE_MAX_OPEN_PREMIUM_RUPEES |-> Number(0)]

ASSUME SettingsAssumption ==
    /\ Keys \subseteq DOMAIN FEATURE_FLAGS
    /\ Ttl \in Nat \ {0}
    /\ MaxOps \in Nat
    /\ Unknown \notin Services
    /\ \A k \in Keys : Absent \notin FEATURE_FLAGS[k].values

VARIABLES
    stored,     \* key -> the override in global_settings, or Absent
    cache,      \* service -> key -> [value, left], or Absent
    reading,    \* service -> the flag it is reading [key, value], or Absent
    running,    \* the containers that run
    job,        \* [action, left], what the page asked docker for, or Absent
    ops,
    held,       \* key -> ticks since the override last changed, at most Ttl
    missed      \* service -> key -> ticks since a read failed, at most Ttl

flagVars == <<stored, held>>
dockerVars == <<running, job>>
settingsVars == <<stored, cache, reading, running, job, ops, held, missed>>

NothingCached == [k \in Keys |-> Absent]

SettingsInit ==
    /\ stored = [k \in Keys |-> Absent]
    /\ cache = [p \in Services |-> NothingCached]
    /\ reading = [p \in Services |-> Absent]
    /\ running = Services
    /\ job = Absent
    /\ ops = 0
    /\ held = [k \in Keys |-> Ttl]
    /\ missed = [p \in Services |-> [k \in Keys |-> Ttl]]

----------------------------------------------------------------------------
(* _coerce, and what resolve_flag makes of a number that is not one.       *)
Coerce(k, raw) ==
    LET flag == FEATURE_FLAGS[k]
    IN  CASE flag.type = "bool" -> IF raw \in {"1", "true", "yes", "on"} THEN "true" ELSE "false"
          [] flag.type = "number" -> IF raw \in flag.values THEN raw ELSE flag.default
          [] OTHER -> raw

(* Override, then environment, then default.                               *)
Effective(p, k, raw) ==
    IF raw # Absent THEN Coerce(k, raw)
    ELSE IF Env[p][k] # Absent THEN Coerce(k, Env[p][k]) ELSE FEATURE_FLAGS[k].default

(* Mutant: an entry serves for one tick more.                              *)
HitMutant(p, k) == cache[p][k] # Absent /\ cache[p][k].left >= 0

Hit(p, k) == cache[p][k] # Absent /\ cache[p][k].left > 0

(* resolve_flag up to the read: get_flag_raw turns an unreadable database  *)
(* into a missing override.                                                *)
ReadFlag(p, k, fails) ==
    /\ ~Hit(p, k)
    /\ reading[p] = Absent
    /\ reading' = [reading EXCEPT ![p] =
                     [key |-> k, value |-> Effective(p, k, IF fails THEN Absent ELSE stored[k])]]
    /\ missed' = [missed EXCEPT ![p][k] = IF fails THEN 0 ELSE @]
    /\ UNCHANGED <<stored, cache, ops, held>> /\ UNCHANGED dockerVars

(* Its end: what was read is kept, whatever was written meanwhile.         *)
StoreFlag(p) ==
    /\ reading[p] # Absent
    /\ cache' = [cache EXCEPT ![p][reading[p].key] = [value |-> reading[p].value, left |-> Ttl]]
    /\ reading' = [reading EXCEPT ![p] = Absent]
    /\ UNCHANGED <<stored, ops, held, missed>> /\ UNCHANGED dockerVars

(* set_flag: an enum outside its registry is refused, a number is stored   *)
(* as it came.                                                             *)
SetFlag(k, v) ==
    /\ ops < MaxOps
    /\ ops' = ops + 1
    /\ FEATURE_FLAGS[k].type = "enum" => v \in FEATURE_FLAGS[k].values
    /\ stored' = [stored EXCEPT ![k] = v]
    /\ held' = [held EXCEPT ![k] = IF stored[k] = v THEN @ ELSE 0]
    /\ UNCHANGED <<cache, reading, missed>> /\ UNCHANGED dockerVars

----------------------------------------------------------------------------
(* container_action and apply_startup_profile: docker is asked for one     *)
(* service after the other.                                                *)
AskDocker(action, services) ==
    /\ ops < MaxOps /\ job = Absent
    /\ ops' = ops + 1
    /\ job' = [action |-> action, left |-> services]
    /\ UNCHANGED <<cache, reading, running, missed>> /\ UNCHANGED flagVars

Restarted(s) ==
    /\ running' = running \cup {s}
    /\ cache' = [cache EXCEPT ![s] = NothingCached]
    /\ reading' = [reading EXCEPT ![s] = Absent]

(* A start of what runs changes nothing; a failing command leaves the      *)
(* container alone and the others are still tried; an unknown name or a    *)
(* command that takes too long ends the request.                           *)
Succeeds(s) ==
    CASE job.action = "stop" -> /\ running' = running \ {s}
                                /\ UNCHANGED <<cache, reading>>
      [] job.action = "start" /\ s \in running -> UNCHANGED <<running, cache, reading>>
      [] OTHER -> Restarted(s)

(* A command that takes the process of s down.                             *)
Interrupts(s, outcome) ==
    outcome = "ok" /\ s # Unknown /\ (job.action = "start" => s \notin running)

Docker(outcome) ==
    /\ job # Absent
    /\ LET s    == Head(job.left)
           rest == Tail(job.left)
           ends == s = Unknown \/ outcome = "timeout" \/ rest = <<>>
       IN  /\ job' = IF ends THEN Absent ELSE [job EXCEPT !.left = rest]
           /\ IF s # Unknown /\ outcome = "ok" THEN Succeeds(s)
              ELSE UNCHANGED <<running, cache, reading>>
    /\ UNCHANGED <<ops, missed>> /\ UNCHANGED flagVars

----------------------------------------------------------------------------
(* The clock: entries age and expire.                                      *)
Older(entry) == IF entry = Absent THEN Absent
                ELSE IF entry.left = 0 THEN entry ELSE [entry EXCEPT !.left = @ - 1]

Tick ==
    /\ \A p \in Services : reading[p] = Absent
    /\ cache' = [p \in Services |-> [k \in Keys |-> Older(cache[p][k])]]
    /\ held' = [k \in Keys |-> IF held[k] < Ttl THEN held[k] + 1 ELSE Ttl]
    /\ missed' = [p \in Services |-> [k \in Keys |->
                    IF missed[p][k] < Ttl THEN missed[p][k] + 1 ELSE Ttl]]
    /\ UNCHANGED <<stored, reading, ops>> /\ UNCHANGED dockerVars

===============================================================================
