------------------------------- MODULE TickCache -------------------------------
(***************************************************************************)
(* The one-minute bars of one tier-1 instrument: the websocket threads     *)
(* fold its frames into the open bar (feed/cache.py), the service thread   *)
(* flushes the closed bars into mc_bars_1m, and after a long outage the    *)
(* feed thread restores the volume baseline and the missing bars over REST *)
(* (feed/resync.py).  A frame is known by the cumulative volume it         *)
(* carries; prices, open interest and depth are left out, and so are       *)
(* frames without a price or a volume.  The instrument is one that is      *)
(* traded: an index has no volume in any bar.                              *)
(***************************************************************************)
EXTENDS Integers, Sequences, FiniteSets, FiniteSetsExt

CONSTANTS
    None, Rebuilt,      \* nothing; a bar made from REST candles
    Unknown,            \* a NULL volume
    Threshold,          \* RESYNC_THRESHOLD_SEC, in minutes
    MaxMinute, MaxTraded, MaxFaults     \* bounds

ASSUME TickCacheAssumption ==
    /\ None # Rebuilt /\ None # Unknown /\ Rebuilt # Unknown
    /\ {None, Rebuilt, Unknown} \cap Int = {}
    /\ {Threshold, MaxMinute, MaxTraded, MaxFaults} \subseteq Nat

VARIABLES
    now, traded,        \* the minute, and the volume traded today
    wire,               \* the connection is up
    late,               \* a frame an abandoned socket still has to deliver
    base,               \* _last_vtt
    bar, completed,     \* _bars and _completed
    bars,               \* mc_bars_1m: the volume of the bar of each minute
    clock,              \* the time as the service loop has read it
    gapStart, resync,   \* the outage, and how far its recovery has come
    faults              \* outages, restarts, new days and failed writes

cache == <<base, bar, completed>>
recovery == <<gapStart, resync>>
vars == <<now, traded, wire, late, cache, bars, clock, recovery, faults>>

Minutes == 0..MaxMinute
Volumes == 0..MaxTraded
Bar == [ts : Minutes, from : Volumes \cup {None}, to : Volumes]
ASSUME NoneIsNoBar == None \notin Bar
Idle == [pc |-> "idle", vtt |-> 0, upto |-> 0]

Init ==
    /\ now = 0 /\ traded = 0 /\ wire = FALSE /\ late = None
    /\ base = None /\ bar = None /\ completed = <<>>
    /\ bars = [m \in Minutes |-> None]
    /\ clock = None /\ gapStart = None /\ resync = Idle
    /\ faults = 0

Fault == faults < MaxFaults /\ faults' = faults + 1

-------------------------------------------------------------------------------
(* Frames.                                                                 *)

(* Mutant: a bar that rolls over between two flushes is discarded.         *)
TakeMutant(vtt) ==
    /\ bar' = IF bar # None /\ bar.ts = now THEN [bar EXCEPT !.to = vtt]
              ELSE [ts |-> now, from |-> base, to |-> vtt]
    /\ base' = vtt
    /\ UNCHANGED completed

(* Mutant: a frame does not move the baseline.                             *)
TakeOnMutant(vtt) ==
    /\ IF bar # None /\ bar.ts = now
       THEN bar' = [bar EXCEPT !.to = vtt] /\ UNCHANGED completed
       ELSE /\ bar' = [ts |-> now, from |-> base, to |-> vtt]
            /\ completed' = IF bar = None THEN completed ELSE Append(completed, bar)
    /\ UNCHANGED base

(* update: the frame belongs to the open bar, or rolls it off and opens    *)
(* the next one on the baseline of the last frame.                         *)
Take(vtt) ==
    /\ IF bar # None /\ bar.ts = now
       THEN bar' = [bar EXCEPT !.to = vtt] /\ UNCHANGED completed
       ELSE /\ bar' = [ts |-> now, from |-> base, to |-> vtt]
            /\ completed' = IF bar = None THEN completed ELSE Append(completed, bar)
    /\ base' = vtt

Frame ==
    /\ wire
    /\ Take(traded)
    /\ UNCHANGED <<now, traded, wire, late, bars, clock, recovery, faults>>

(* The abandoned socket may still be inside its message handler.           *)
LateFrame ==
    /\ ~wire /\ late # None
    /\ Take(late)
    /\ late' = None
    /\ UNCHANGED <<now, traded, wire, bars, clock, recovery, faults>>

(* as_row: the volume of a bar without a baseline, or one that went        *)
(* backwards, is stored as NULL.                                           *)
Volume(b) == IF b.from = None \/ b.to < b.from THEN Unknown ELSE b.to - b.from

-------------------------------------------------------------------------------
(* The service thread: it reads the clock at the top of its loop and       *)
(* flushes with what it has read.                                          *)

ReadClock ==
    /\ clock = None
    /\ clock' = now
    /\ UNCHANGED <<now, traded, wire, late, cache, bars, recovery, faults>>

Due(at) == IF bar # None /\ bar.ts # at THEN Append(completed, bar) ELSE completed

(* Mutant: INSERT OR REPLACE.                                              *)
StoredMutant(rows) ==
    [m \in Minutes |->
        LET mine == {i \in DOMAIN rows : rows[i].ts = m}
        IN  IF mine = {} THEN bars[m] ELSE Volume(rows[Min(mine)])]

(* INSERT OR IGNORE: the first bar of a minute stays.                      *)
Stored(rows) ==
    [m \in Minutes |->
        LET mine == {i \in DOMAIN rows : rows[i].ts = m}
        IN  IF bars[m] # None \/ mine = {} THEN bars[m] ELSE Volume(rows[Min(mine)])]

(* Mutant: an open bar waits for a newer frame to roll it off.             *)
TakeOutMutant(at) == completed' = <<>> /\ UNCHANGED <<bar, base>>

(* The due bars leave the memory before they are written.                  *)
TakeOut(at) ==
    /\ completed' = <<>>
    /\ bar' = IF bar # None /\ bar.ts # at THEN None ELSE bar
    /\ UNCHANGED base

Flush ==
    /\ clock # None
    /\ bars' = Stored(Due(clock))
    /\ TakeOut(clock)
    /\ clock' = None
    /\ UNCHANGED <<now, traded, wire, late, recovery, faults>>

FlushFails ==
    /\ clock # None /\ Due(clock) # <<>>
    /\ Fault
    /\ TakeOut(clock)
    /\ clock' = None
    /\ UNCHANGED <<now, traded, wire, late, bars, recovery>>

-------------------------------------------------------------------------------
(* The feed thread: outages and their recovery.                            *)

(* A gap that has lasted long enough is recovered from, on the feed        *)
(* thread, while frames arrive again.                                      *)
Reconnect ==
    /\ ~wire
    /\ wire' = TRUE
    /\ late' = None
    /\ IF gapStart # None /\ now - gapStart >= Threshold
       THEN resync' = [Idle EXCEPT !.pc = "quotes", !.upto = now] /\ UNCHANGED gapStart
       ELSE gapStart' = None /\ UNCHANGED resync
    /\ UNCHANGED <<now, traded, cache, bars, clock, faults>>

(* The connection is lost, or the first one fails: mark_disconnected       *)
(* forgets the baselines.  The feed thread calls it, so not while it is    *)
(* busy with a recovery; a network that is dead by then is a wire on which *)
(* no frame comes.                                                         *)
LoseConnection ==
    /\ resync.pc = "idle"
    /\ wire \/ gapStart = None
    /\ Fault
    /\ wire' = FALSE /\ base' = None
    /\ gapStart' = now
    /\ late' \in (IF wire THEN {None, traded} ELSE {late})
    /\ UNCHANGED <<now, traded, bar, completed, bars, clock, resync>>

(* restore_quotes: the full quotes of the moment, seeded when they are in. *)
FetchQuotes ==
    /\ resync.pc = "quotes"
    /\ resync' = [resync EXCEPT !.pc = "seed", !.vtt = traded]
    /\ UNCHANGED <<now, traded, wire, late, cache, bars, clock, gapStart, faults>>

Seed ==
    /\ resync.pc = "seed"
    /\ base' = resync.vtt
    /\ resync' = [resync EXCEPT !.pc = "candles"]
    /\ UNCHANGED <<now, traded, wire, late, bar, completed, bars, clock, gapStart, faults>>

(* backfill_bars: the candles of the gap, the minutes of its ends among    *)
(* them; then the gap is closed.                                           *)
Backfill ==
    /\ resync.pc = "candles"
    /\ bars' = [m \in Minutes |->
                  IF bars[m] = None /\ m \in gapStart..resync.upto THEN Rebuilt ELSE bars[m]]
    /\ gapStart' = None /\ resync' = Idle
    /\ UNCHANGED <<now, traded, wire, late, cache, clock, faults>>

(* No quotes: the candles are tried all the same.  No client, no candles   *)
(* or no write: the gap is closed.                                         *)
RecoveryFails ==
    /\ resync.pc # "idle"
    /\ Fault
    /\ \/ /\ resync.pc = "quotes"
          /\ resync' = [resync EXCEPT !.pc = "candles"] /\ UNCHANGED gapStart
       \/ /\ resync.pc # "seed"
          /\ gapStart' = None /\ resync' = Idle
    /\ UNCHANGED <<now, traded, wire, late, cache, bars, clock>>

-------------------------------------------------------------------------------
(* The process ends, in order or not, and starts again with empty hands.   *)

Restarted ==
    /\ wire' = FALSE /\ late' = None
    /\ base' = None /\ bar' = None /\ completed' = <<>>
    /\ clock' = None /\ gapStart' = None /\ resync' = Idle
    /\ UNCHANGED <<now, traded>>

Crash == Fault /\ Restarted /\ UNCHANGED bars

(* shutdown flushes with the time a minute ahead: everything is due.       *)
ShutDown ==
    /\ Fault
    /\ bars' = Stored(Due(now + 1))
    /\ Restarted

MinutePasses ==
    /\ now < MaxMinute
    /\ now' = now + 1
    /\ UNCHANGED <<traded, wire, late, cache, bars, clock, recovery, faults>>

Trade ==
    /\ traded < MaxTraded
    /\ traded' = traded + 1
    /\ UNCHANGED <<now, wire, late, cache, bars, clock, recovery, faults>>

(* The cumulative volume starts again from nothing, while the market is    *)
(* closed and no recovery runs.                                            *)
NewDay ==
    /\ resync.pc = "idle"
    /\ traded > 0 /\ now < MaxMinute
    /\ Fault
    /\ traded' = 0 /\ now' = now + 1
    /\ UNCHANGED <<wire, late, cache, bars, clock, recovery>>

Service == ReadClock \/ Flush
Feed == FetchQuotes \/ Seed \/ Backfill

Next ==
    \/ Frame \/ LateFrame
    \/ Service \/ FlushFails
    \/ Feed \/ Reconnect \/ LoseConnection \/ RecoveryFails
    \/ Crash \/ ShutDown
    \/ MinutePasses \/ Trade \/ NewDay

(* Time passes and the service thread comes round to its flush.            *)
Spec == Init /\ [][Next]_vars /\ WF_vars(MinutePasses) /\ WF_vars(Service)

-------------------------------------------------------------------------------

TypeOK ==
    /\ now \in Minutes /\ traded \in Volumes /\ wire \in BOOLEAN
    /\ late \in Volumes \cup {None} /\ base \in Volumes \cup {None}
    /\ bar \in Bar \cup {None}
    /\ \A i \in DOMAIN completed : completed[i] \in Bar
    /\ \A m \in Minutes : bars[m] \in Volumes \cup {None, Rebuilt, Unknown}
    /\ clock \in Minutes \cup {None} /\ gapStart \in Minutes \cup {None}
    /\ resync.pc \in {"idle", "quotes", "seed", "candles"}
    /\ (resync.pc # "idle" => wire /\ gapStart # None)
    /\ faults \in 0..MaxFaults

InMemory == {completed[i].ts : i \in DOMAIN completed}
              \cup (IF bar = None THEN {} ELSE {bar.ts})
InStore == {m \in Minutes : bars[m] # None}

(* A minute that has been seen is never lost on its way to the store       *)
(* unless a write fails or the process dies ("roll off, never drop",       *)
(* cache.py).                                                              *)
NoBarIsLost == [][faults' = faults => InMemory \cup InStore \subseteq InMemory' \cup InStore']_vars

(* Whoever writes a minute first, flush, backfill or the process before    *)
(* the restart, nobody writes over it (flush_completed_bars, "a restart    *)
(* mid-minute cannot double-write").                                       *)
WrittenBarsAreFinal == [][\A m \in InStore : bars'[m] = bars[m]]_vars

(* The volume is unknown only in the first bar after an outage, a restart  *)
(* or a new day, never for the rest of the session: the frames restore the *)
(* baseline whatever becomes of the resync (update sets _last_vtt at every *)
(* frame, and cache.py:121-123 speaks of the first bar after the gap).     *)
(* Three texts say the opposite, that without a resync every bar of the    *)
(* rest of the session has no volume: resync.py:13-17, the docstring of    *)
(* _close_gap with its warning (client.py:441-443, 466-467), and that of   *)
(* seed (cache.py:170-171).  The code does not do what they fear.          *)
OneBlindBarPerBreak ==
    Cardinality({m \in Minutes : bars[m] = Unknown}) <= 1 + faults

(* Every bar leaves the memory, also when its instrument has stopped       *)
(* ticking or its service was late (flush_completed_bars).                 *)
NoBarWaitsForever ==
    \A m \in Minutes \ {MaxMinute} : (m \in InMemory) ~> (m \notin InMemory)

===============================================================================
