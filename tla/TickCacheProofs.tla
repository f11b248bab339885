---------------------------- MODULE TickCacheProofs ----------------------------
(***************************************************************************)
(* Proofs about the one-minute bars of one instrument, for every length of *)
(* the session, every volume and every number of breaks.                   *)
(***************************************************************************)
EXTENDS TickCache, FiniteSetTheorems, SequenceTheorems, WellFoundedInduction, TLAPS

Phases == {"idle", "quotes", "seed", "candles"}

(* The types, and the two facts about a broken connection on which the     *)
(* rest depends: a recovery runs on a connection that is up, and a frame   *)
(* can only come late from a connection that is down.                      *)
TypeInv ==
    /\ now \in Minutes /\ traded \in Volumes
    /\ late \in Volumes \cup {None} /\ base \in Volumes \cup {None}
    /\ bar \in Bar \cup {None} /\ completed \in Seq(Bar)
    /\ bars \in [Minutes -> Volumes \cup {None, Rebuilt, Unknown}]
    /\ clock \in Minutes \cup {None} /\ gapStart \in Minutes \cup {None}
    /\ resync \in [pc : Phases, vtt : Volumes, upto : Minutes]
    /\ faults \in 0..MaxFaults

WireInv ==
    /\ wire \in BOOLEAN
    /\ resync.pc # "idle" => wire /\ gapStart # None
    /\ late # None => ~wire

(* A bar is blind if its volume will be stored as unknown.                 *)
Blind(b) == b.from = None \/ b.to < b.from

(* The bars in memory, completed and open.                                 *)
Held == {completed[i] : i \in DOMAIN completed} \cup (IF bar = None THEN {} ELSE {bar})

(* No bar is ahead of the clock; the bar of this minute can still be       *)
(* updated, and the next frame makes it blind only if it is already; a     *)
(* frame that is late for it is of today.  The last clause is about the    *)
(* quotes a resync has fetched: no new day begins before they are seeded.  *)
OrderInv ==
    /\ \A b \in Held : b.ts <= now
    /\ bar # None /\ bar.ts = now =>
          /\ Blind(bar) \/ (bar.from <= traded /\ (late # None => bar.from <= late))
          /\ late # None => late <= traded
    /\ late # None => base = None
    /\ resync.pc = "seed" => resync.vtt <= traded

(* The minutes whose volume is unknown, or will be when their bar is       *)
(* written, and the breaks that still have a blind bar before them: a      *)
(* baseline that is missing or of yesterday, a late frame of yesterday.    *)
BlindMinutes ==
    {m \in Minutes : bars[m] = Unknown \/ (bars[m] = None /\ \E b \in Held : b.ts = m /\ Blind(b))}
Baseless == IF base = None \/ base > traded THEN 1 ELSE 0
Belated == IF late # None /\ late > traded THEN 1 ELSE 0

BlindInv == Cardinality(BlindMinutes) + Baseless + Belated <= 1 + faults

IInv == TypeInv /\ WireInv /\ OrderInv /\ BlindInv

-------------------------------------------------------------------------------
(* Minima, and the bars in memory.                                         *)

LEMMA MinIsIn ==
    ASSUME NEW S, S \subseteq Nat, S # {}
    PROVE  Min(S) \in S /\ \A y \in S : Min(S) <= y
<1>1. \E x \in S : \A y \in S : ~(<<y, x>> \in OpToRel(<, Nat))
  BY NatLessThanWellFounded, WFMin
<1>2. \A x, y \in S : y < x => <<y, x>> \in OpToRel(<, Nat)
  BY Zenon DEF OpToRel
<1>3. \E x \in S : \A y \in S : ~(y < x)
  BY <1>1, <1>2, Zenon
<1>4. \E x \in S : \A y \in S : x <= y
  BY <1>3
<1> QED
  BY <1>4 DEF Min

LEMMA Apart ==
    /\ None # Rebuilt /\ None # Unknown /\ Rebuilt # Unknown
    /\ \A n \in Int : n # None /\ n # Rebuilt /\ n # Unknown
    /\ \A b \in Bar : b # None
    /\ MaxMinute \in Nat /\ MaxTraded \in Nat /\ MaxFaults \in Nat /\ Threshold \in Nat
<1>1. {None, Rebuilt, Unknown} \cap Int = {}
  BY TickCacheAssumption
<1> QED
  BY <1>1, TickCacheAssumption, NoneIsNoBar

LEMMA VolumeType ==
    ASSUME NEW b \in Bar
    PROVE  /\ Volume(b) \in Volumes \cup {Unknown}
           /\ Volume(b) = Unknown <=> (b.from = None \/ b.to < b.from)
BY Apart DEF Bar, Volume, Volumes, Minutes

LEMMA HeldType == TypeInv => Held \subseteq Bar
BY DEF TypeInv, Held

LEMMA InMemoryIsHeld == InMemory = {b.ts : b \in Held}
BY DEF InMemory, Held

(* What is due is held, and what is held and not due stays.                *)
LEMMA DueEffect ==
    ASSUME TypeInv, NEW at
    PROVE  /\ Due(at) \in Seq(Bar)
           /\ \A i \in DOMAIN Due(at) : Due(at)[i] \in Held
           /\ \A b \in Held : (\E i \in DOMAIN Due(at) : Due(at)[i] = b)
                               \/ (b = bar /\ bar # None /\ bar.ts = at)
<1>1. /\ completed \in Seq(Bar) /\ bar \in Bar \cup {None}
  BY DEF TypeInv
<1>2. CASE bar # None /\ bar.ts # at
  <2>1. bar \in Bar /\ Due(at) = Append(completed, bar)
    BY <1>1, <1>2 DEF Due
  <2>2. /\ Due(at) \in Seq(Bar) /\ DOMAIN Due(at) = 1..(Len(completed) + 1)
        /\ DOMAIN completed = 1..Len(completed) /\ Len(completed) \in Nat
        /\ \A i \in DOMAIN completed : Due(at)[i] = completed[i]
        /\ Due(at)[Len(completed) + 1] = bar
    BY <1>1, <2>1
  <2> QED
    BY <1>2, <2>2 DEF Held
<1>3. CASE ~(bar # None /\ bar.ts # at)
  BY <1>1, <1>3 DEF Due, Held
<1> QED
  BY <1>2, <1>3

(* A flush writes a bar of every minute it is given, keeps the bars there  *)
(* are, and knows no volume that the bars it was given do not have.        *)
LEMMA StoredEffect ==
    ASSUME TypeInv, NEW rows \in Seq(Bar)
    PROVE  /\ Stored(rows) \in [Minutes -> Volumes \cup {None, Rebuilt, Unknown}]
           /\ \A m \in Minutes : bars[m] # None => Stored(rows)[m] = bars[m]
           /\ \A i \in DOMAIN rows : Stored(rows)[rows[i].ts] # None
           /\ \A m \in Minutes : bars[m] = None /\ Stored(rows)[m] # None =>
                 \E i \in DOMAIN rows : rows[i].ts = m /\ Stored(rows)[m] = Volume(rows[i])
<1> DEFINE mine(m) == {i \in DOMAIN rows : rows[i].ts = m}
<1>1. /\ bars \in [Minutes -> Volumes \cup {None, Rebuilt, Unknown}]
      /\ DOMAIN rows \subseteq Nat /\ \A i \in DOMAIN rows : rows[i] \in Bar
  BY DEF TypeInv
<1>2. Stored(rows) = [m \in Minutes |-> IF bars[m] # None \/ mine(m) = {} THEN bars[m]
                                        ELSE Volume(rows[Min(mine(m))])]
  BY DEF Stored
<1>3. \A m \in Minutes : mine(m) # {} => Min(mine(m)) \in mine(m)
  <2> TAKE m \in Minutes
  <2>1. mine(m) \subseteq Nat
    BY <1>1
  <2> HIDE DEF mine
  <2> QED
    BY <2>1, MinIsIn
<1>4. \A m \in Minutes : mine(m) # {} =>
         \E i \in DOMAIN rows : /\ rows[i].ts = m
                                /\ Volume(rows[Min(mine(m))]) = Volume(rows[i])
                                /\ Volume(rows[i]) \in Volumes \cup {Unknown}
  BY <1>1, <1>3, VolumeType
<1>5. \A i \in DOMAIN rows : rows[i].ts \in Minutes /\ mine(rows[i].ts) # {}
  BY <1>1 DEF Bar
<1>6. None \notin Volumes \cup {Unknown}
  BY Apart DEF Volumes
<1> HIDE DEF mine
<1>7. Stored(rows) \in [Minutes -> Volumes \cup {None, Rebuilt, Unknown}]
  BY <1>1, <1>2, <1>4
<1>8. \A m \in Minutes : bars[m] # None => Stored(rows)[m] = bars[m]
  BY <1>2
<1>9. \A i \in DOMAIN rows : Stored(rows)[rows[i].ts] # None
  BY <1>2, <1>4, <1>5, <1>6
<1>10. \A m \in Minutes : bars[m] = None /\ Stored(rows)[m] # None =>
          \E i \in DOMAIN rows : rows[i].ts = m /\ Stored(rows)[m] = Volume(rows[i])
  BY <1>2, <1>4
<1> QED
  BY <1>7, <1>8, <1>9, <1>10

-------------------------------------------------------------------------------
(* What a frame and a flush do to the bars in memory and in the store.     *)

LEMMA TakeEffect ==
    ASSUME TypeInv, NEW vtt \in Volumes, Take(vtt)
    PROVE  /\ bar' \in Bar /\ completed' \in Seq(Bar) /\ base' = vtt
           /\ bar'.ts = now /\ bar'.to = vtt
           /\ \/ bar # None /\ bar.ts = now /\ bar'.from = bar.from
              \/ bar'.from = base
           /\ \A b \in Held' : b = bar' \/ b \in Held
           /\ \A b \in Held : \E c \in Held' : c.ts = b.ts
<1>1. /\ bar \in Bar \cup {None} /\ completed \in Seq(Bar) /\ now \in Minutes
      /\ base \in Volumes \cup {None} /\ base' = vtt
  BY DEF TypeInv, Take
<1>2. CASE bar # None /\ bar.ts = now
  <2>1. bar' = [bar EXCEPT !.to = vtt] /\ completed' = completed /\ bar \in Bar
    BY <1>1, <1>2 DEF Take
  <2>2. bar' \in Bar /\ bar'.ts = now /\ bar'.to = vtt /\ bar'.from = bar.from
    BY <1>2, <2>1 DEF Bar
  <2>3. bar' # None
    BY <2>2, Apart
  <2> QED
    BY <1>1, <1>2, <2>1, <2>2, <2>3 DEF Held
<1>3. CASE ~(bar # None /\ bar.ts = now)
  <2>1. /\ bar' = [ts |-> now, from |-> base, to |-> vtt]
        /\ completed' = IF bar = None THEN completed ELSE Append(completed, bar)
    BY <1>3 DEF Take
  <2>2. bar' \in Bar /\ bar'.ts = now /\ bar'.to = vtt /\ bar'.from = base
    BY <1>1, <2>1 DEF Bar
  <2>3. bar' # None
    BY <2>2, Apart
  <2>4. CASE bar = None
    BY <1>1, <2>1, <2>2, <2>3, <2>4 DEF Held
  <2>5. CASE bar # None
    <3>1. bar \in Bar /\ completed' = Append(completed, bar)
      BY <1>1, <2>1, <2>5
    <3>2. /\ completed' \in Seq(Bar) /\ DOMAIN completed' = 1..(Len(completed) + 1)
          /\ DOMAIN completed = 1..Len(completed) /\ Len(completed) \in Nat
          /\ \A i \in DOMAIN completed : completed'[i] = completed[i]
          /\ completed'[Len(completed) + 1] = bar
      BY <1>1, <3>1
    <3>3. \A b \in Held' : b = bar' \/ b \in Held
      BY <2>5, <3>2 DEF Held
    <3>4. \A b \in Held : b \in Held'
      BY <3>2 DEF Held
    <3> QED
      BY <1>1, <2>2, <3>2, <3>3, <3>4
  <2> QED
    BY <2>4, <2>5
<1> QED
  BY <1>2, <1>3

LEMMA TakeOutEffect ==
    ASSUME TypeInv, NEW at, TakeOut(at)
    PROVE  /\ bar' \in {bar, None} /\ completed' \in Seq(Bar) /\ base' = base
           /\ Held' \subseteq Held
           /\ \A b \in Held : b \in Held' \/ \E i \in DOMAIN Due(at) : Due(at)[i] = b
<1>1. /\ completed' = <<>> /\ base' = base
      /\ bar' = IF bar # None /\ bar.ts # at THEN None ELSE bar
  BY DEF TakeOut
<1>2. completed' \in Seq(Bar) /\ DOMAIN completed' = {}
  BY <1>1
<1>3. Held' = IF bar' = None THEN {} ELSE {bar'}
  BY <1>2 DEF Held
<1>4. Held' \subseteq Held
  BY <1>1, <1>3 DEF Held
<1>5. \A b \in Held : b = bar /\ bar # None /\ bar.ts = at => b \in Held'
  BY <1>1, <1>3
<1> QED
  BY <1>1, <1>2, <1>4, <1>5, DueEffect

(* The bars that are flushed are in the store; nothing there is written    *)
(* over.                                                                   *)
LEMMA FlushEffect ==
    ASSUME TypeInv, NEW at, bars' = Stored(Due(at))
    PROVE  /\ bars' \in [Minutes -> Volumes \cup {None, Rebuilt, Unknown}]
           /\ \A m \in Minutes : bars[m] # None => bars'[m] = bars[m]
           /\ \A i \in DOMAIN Due(at) : bars'[Due(at)[i].ts] # None
           /\ Held' \subseteq Held => BlindMinutes' \subseteq BlindMinutes
<1>1. Due(at) \in Seq(Bar) /\ \A i \in DOMAIN Due(at) : Due(at)[i] \in Held /\ Due(at)[i] \in Bar
  BY DueEffect, HeldType
<1>2. /\ bars' \in [Minutes -> Volumes \cup {None, Rebuilt, Unknown}]
      /\ \A m \in Minutes : bars[m] # None => bars'[m] = bars[m]
      /\ \A i \in DOMAIN Due(at) : bars'[Due(at)[i].ts] # None
      /\ \A m \in Minutes : bars[m] = None /\ bars'[m] # None =>
            \E i \in DOMAIN Due(at) : Due(at)[i].ts = m /\ bars'[m] = Volume(Due(at)[i])
  BY <1>1, StoredEffect
<1>3. ASSUME Held' \subseteq Held, NEW m \in BlindMinutes'
      PROVE  m \in BlindMinutes
  <2>1. m \in Minutes /\ Unknown # None
    BY <1>3, Apart DEF BlindMinutes
  <2>2. CASE bars[m] # None
    BY <1>2, <1>3, <2>1, <2>2 DEF BlindMinutes
  <2>3. CASE bars[m] = None /\ bars'[m] = None
    BY <1>3, <2>1, <2>3 DEF BlindMinutes
  <2>4. CASE bars[m] = None /\ bars'[m] # None
    <3>1. bars'[m] = Unknown
      BY <1>3, <2>4 DEF BlindMinutes
    <3>2. PICK i \in DOMAIN Due(at) : Due(at)[i].ts = m /\ bars'[m] = Volume(Due(at)[i])
      BY <1>2, <2>1, <2>4
    <3>3. Due(at)[i] \in Held /\ Blind(Due(at)[i])
      BY <1>1, <3>1, <3>2, VolumeType DEF Blind
    <3> QED
      BY <2>1, <2>4, <3>2, <3>3 DEF BlindMinutes
  <2> QED
    BY <2>2, <2>3, <2>4
<1> QED
  BY <1>2, <1>3

(* Counting the blind minutes.                                             *)
LEMMA BlindCount ==
    /\ Cardinality(BlindMinutes) \in Nat
    /\ BlindMinutes' \subseteq BlindMinutes => Cardinality(BlindMinutes') <= Cardinality(BlindMinutes)
    /\ \A m : BlindMinutes' \subseteq BlindMinutes \cup {m} =>
                 Cardinality(BlindMinutes') <= Cardinality(BlindMinutes) + 1
<1>1. IsFiniteSet(Minutes)
  BY FS_Interval, Apart DEF Minutes
<1>2. BlindMinutes \subseteq Minutes /\ BlindMinutes' \subseteq Minutes
  BY DEF BlindMinutes, Minutes
<1> DEFINE A == BlindMinutes
           B == BlindMinutes'
<1> HIDE DEF A, B
<1>3. /\ IsFiniteSet(A) /\ Cardinality(A) \in Nat
      /\ IsFiniteSet(B) /\ Cardinality(B) \in Nat
  BY <1>1, <1>2, FS_Subset, FS_CardinalityType DEF A, B
<1>4. B \subseteq A => Cardinality(B) <= Cardinality(A)
  BY <1>3, FS_Subset
<1>5. ASSUME NEW m, B \subseteq A \cup {m}
      PROVE  Cardinality(B) <= Cardinality(A) + 1
  <2>1. IsFiniteSet(A \cup {m}) /\ Cardinality(A \cup {m}) <= Cardinality(A) + 1
    BY <1>3, FS_AddElement
  <2>2. Cardinality(B) <= Cardinality(A \cup {m}) /\ Cardinality(A \cup {m}) \in Nat
    BY <1>5, <2>1, FS_Subset, FS_CardinalityType
  <2> QED
    BY <1>3, <2>1, <2>2
<1> QED
  BY <1>3, <1>4, <1>5 DEF A, B

-------------------------------------------------------------------------------
(* The invariant.                                                          *)

LEMMA InitInvariant == Init => IInv
<1> SUFFICES ASSUME Init PROVE IInv
  OBVIOUS
<1>1. TypeInv
  BY Apart DEF Init, TypeInv, Minutes, Volumes, Idle, Phases
<1>2. WireInv
  <2>1. wire \in BOOLEAN /\ late = None /\ resync.pc = "idle"
    BY DEF Init, Idle
  <2> QED
    BY <2>1 DEF WireInv
<1>3. Held = {}
  BY DEF Init, Held
<1>4. OrderInv
  BY <1>3 DEF Init, OrderInv, Idle
<1>5. BlindInv
  <2>1. BlindMinutes = {}
    BY <1>3, Apart DEF Init, BlindMinutes
  <2>2. Cardinality(BlindMinutes) = 0
    BY <2>1, FS_EmptySet
  <2> QED
    BY <2>2 DEF Init, BlindInv, Baseless, Belated
<1> QED
  BY <1>1, <1>2, <1>4, <1>5 DEF IInv

LEMMA TypeStep ==
    ASSUME TypeInv, WireInv, Next
    PROVE  TypeInv' /\ WireInv'
<1> USE Apart DEF cache, recovery
<1>1. /\ now \in 0..MaxMinute /\ traded \in 0..MaxTraded /\ faults \in 0..MaxFaults
      /\ late \in Volumes \cup {None} /\ base \in Volumes \cup {None}
      /\ clock \in Minutes \cup {None} /\ gapStart \in Minutes \cup {None}
      /\ resync \in [pc : Phases, vtt : Volumes, upto : Minutes]
      /\ (resync.pc # "idle" => wire /\ gapStart # None) /\ (late # None => ~wire)
  BY DEF TypeInv, WireInv, Minutes, Volumes
<1>2. /\ now' \in Minutes /\ traded' \in Volumes /\ faults' \in 0..MaxFaults
      /\ clock' \in Minutes \cup {None} /\ gapStart' \in Minutes \cup {None}
      /\ late' \in Volumes \cup {None}
  <2>1. now' \in Minutes /\ traded' \in Volumes
    <3>1. \/ now' = now /\ traded' = traded
          \/ now < MaxMinute /\ now' = now + 1 /\ traded' \in {traded, 0}
          \/ now' = now /\ traded < MaxTraded /\ traded' = traded + 1
      BY DEF Next, Frame, LateFrame, Service, ReadClock, Flush, FlushFails, Feed,
         FetchQuotes, Seed, Backfill, Reconnect, LoseConnection, RecoveryFails, Crash, ShutDown,
         Restarted, MinutePasses, Trade, NewDay
    <3> QED
      BY <1>1, <3>1 DEF Minutes, Volumes
  <2>2. faults' \in 0..MaxFaults
    <3>1. faults' = faults \/ Fault
      BY DEF Next, Frame, LateFrame, Service, ReadClock, Flush, FlushFails, Feed,
         FetchQuotes, Seed, Backfill, Reconnect, LoseConnection, RecoveryFails, Crash, ShutDown,
         MinutePasses, Trade, NewDay
    <3> QED
      BY <1>1, <3>1 DEF Fault
  <2>3. clock' \in {clock, now, None} /\ gapStart' \in {gapStart, now, None}
    BY DEF Next, Frame, LateFrame, Service, ReadClock, Flush, FlushFails, Feed,
       FetchQuotes, Seed, Backfill, Reconnect, LoseConnection, RecoveryFails, Crash, ShutDown,
       Restarted, MinutePasses, Trade, NewDay
  <2>4. late' \in {late, traded, None}
    BY DEF Next, Frame, LateFrame, Service, ReadClock, Flush, FlushFails, Feed,
       FetchQuotes, Seed, Backfill, Reconnect, LoseConnection, RecoveryFails, Crash, ShutDown,
       Restarted, MinutePasses, Trade, NewDay
  <2> QED
    BY <1>1, <2>1, <2>2, <2>3, <2>4 DEF Minutes, Volumes
<1>3. resync' \in [pc : Phases, vtt : Volumes, upto : Minutes]
  <2>1. Idle \in [pc : Phases, vtt : Volumes, upto : Minutes]
    BY DEF Idle, Phases, Volumes, Minutes
  <2>2. CASE FetchQuotes \/ Seed \/ Backfill \/ RecoveryFails
    BY <1>1, <2>1, <2>2 DEF Phases, Volumes, Minutes, FetchQuotes, Seed, Backfill, RecoveryFails
  <2>3. CASE Reconnect \/ Crash \/ ShutDown
    BY <1>1, <2>1, <2>3 DEF Phases, Minutes, Reconnect, Crash, ShutDown, Restarted
  <2>4. CASE ~(FetchQuotes \/ Seed \/ Backfill \/ RecoveryFails \/ Reconnect \/ Crash \/ ShutDown)
    <3>1. resync' = resync
      BY <2>4 DEF Next, Frame, LateFrame, Service, ReadClock, Flush, FlushFails, Feed,
         LoseConnection, MinutePasses, Trade, NewDay
    <3> QED
      BY <1>1, <3>1
  <2> QED
    BY <2>2, <2>3, <2>4
<1>4. ASSUME NEW vtt \in Volumes, Take(vtt), UNCHANGED bars
      PROVE  /\ base' \in Volumes \cup {None} /\ bar' \in Bar \cup {None}
             /\ completed' \in Seq(Bar)
             /\ bars' \in [Minutes -> Volumes \cup {None, Rebuilt, Unknown}]
  BY <1>4, TakeEffect DEF TypeInv
<1>5. /\ base' \in Volumes \cup {None} /\ bar' \in Bar \cup {None}
      /\ completed' \in Seq(Bar)
      /\ bars' \in [Minutes -> Volumes \cup {None, Rebuilt, Unknown}]
  <2>1. CASE Frame \/ LateFrame
    <3>1. traded \in Volumes /\ (late # None => late \in Volumes)
      BY <1>1 DEF Volumes
    <3> QED
      BY <2>1, <3>1, <1>4 DEF Frame, LateFrame
  <2>2. CASE Flush \/ FlushFails
    <3>1. \E at : TakeOut(at) /\ (bars' = Stored(Due(at)) \/ bars' = bars)
      BY <2>2 DEF Flush, FlushFails
    <3> QED
      BY <3>1, TakeOutEffect, FlushEffect DEF TypeInv
  <2>3. CASE Crash \/ ShutDown
    <3>1. \E at : bars' = Stored(Due(at)) \/ bars' = bars
      BY <2>3 DEF Crash, ShutDown
    <3>2. base' = None /\ bar' = None /\ completed' = <<>>
      BY <2>3 DEF Crash, ShutDown, Restarted
    <3> QED
      BY <3>1, <3>2, FlushEffect DEF TypeInv
  <2>4. CASE Backfill
    BY <2>4 DEF Backfill, TypeInv
  <2>5. CASE Seed \/ LoseConnection
    BY <1>1, <2>5 DEF Seed, LoseConnection, TypeInv
  <2>6. CASE \/ ReadClock \/ FetchQuotes \/ Reconnect \/ RecoveryFails
             \/ MinutePasses \/ Trade \/ NewDay
    BY <2>6 DEF ReadClock, FetchQuotes, Reconnect, RecoveryFails, MinutePasses, Trade, NewDay, TypeInv
  <2> QED
    BY <2>1, <2>2, <2>3, <2>4, <2>5, <2>6 DEF Next, Service, Feed
<1>6. TypeInv'
  BY <1>2, <1>3, <1>5 DEF TypeInv
<1>7. wire' \in BOOLEAN
  <2>1. wire' \in {wire, TRUE, FALSE}
    BY DEF Next, Frame, LateFrame, Service, ReadClock, Flush, FlushFails, Feed,
       FetchQuotes, Seed, Backfill, Reconnect, LoseConnection, RecoveryFails, Crash, ShutDown,
       Restarted, MinutePasses, Trade, NewDay
  <2> QED
    BY <2>1, Zenon DEF WireInv
<1>8. /\ resync'.pc # "idle" => wire' /\ gapStart' # None
      /\ late' # None => ~wire'
  <2>1. CASE Reconnect
    BY <1>1, <2>1 DEF Reconnect, Idle
  <2>2. CASE LoseConnection
    BY <1>1, <2>2 DEF LoseConnection
  <2>3. CASE Crash \/ ShutDown
    BY <2>3 DEF Crash, ShutDown, Restarted, Idle
  <2>4. CASE FetchQuotes \/ Seed \/ Backfill \/ RecoveryFails
    BY <1>1, <2>4 DEF FetchQuotes, Seed, Backfill, RecoveryFails, Idle
  <2>5. CASE LateFrame
    BY <1>1, <2>5 DEF LateFrame
  <2>6. CASE Frame \/ ReadClock \/ Flush \/ FlushFails \/ MinutePasses \/ Trade \/ NewDay
    <3>1. UNCHANGED <<wire, late, gapStart, resync>>
      BY <2>6 DEF Frame, ReadClock, Flush, FlushFails, MinutePasses, Trade, NewDay
    <3> QED
      BY <1>1, <3>1
  <2> QED
    BY <2>1, <2>2, <2>3, <2>4, <2>5, <2>6 DEF Next, Service, Feed
<1> QED
  BY <1>6, <1>7, <1>8 DEF WireInv

(* A step that takes in no frame brings no bar into memory, opens no blind *)
(* minute, and leaves the open bar as it was.                              *)
LEMMA QuietStep ==
    ASSUME TypeInv, Next, ~Frame, ~LateFrame
    PROVE  /\ Held' \subseteq Held /\ bar' \in {bar, None}
           /\ BlindMinutes' \subseteq BlindMinutes
<1> USE DEF cache, recovery
<1>1. CASE Flush \/ FlushFails
  <2>1. PICK at : TakeOut(at) /\ (bars' = Stored(Due(at)) \/ bars' = bars)
    BY <1>1 DEF Flush, FlushFails
  <2>2. Held' \subseteq Held /\ bar' \in {bar, None}
    BY <2>1, TakeOutEffect
  <2>3. CASE bars' = bars
    BY <2>2, <2>3 DEF BlindMinutes
  <2> QED
    BY <2>1, <2>2, <2>3, FlushEffect
<1>2. CASE Crash \/ ShutDown
  <2>1. bar' = None /\ completed' = <<>>
    BY <1>2 DEF Crash, ShutDown, Restarted
  <2>2. Held' = {} /\ Held' \subseteq Held
    <3>1. DOMAIN completed' = {}
      BY <2>1
    <3> QED
      BY <2>1, <3>1 DEF Held
  <2>3. CASE bars' = bars
    <3>1. \A b : b \in Held' => b \in Held
      BY <2>2
    <3> QED
      BY <2>1, <2>2, <2>3, <3>1 DEF BlindMinutes
  <2>4. CASE ShutDown
    <3>1. bars' = Stored(Due(now + 1))
      BY <2>4 DEF ShutDown
    <3> QED
      BY <2>1, <2>2, <3>1, FlushEffect
  <2> QED
    BY <1>2, <2>1, <2>2, <2>3, <2>4 DEF Crash
<1>3. CASE Backfill
  <2>1. bar' = bar /\ completed' = completed
    BY <1>3 DEF Backfill
  <2>2. Held' = Held
    BY <2>1 DEF Held
  <2>3. \A m \in Minutes : bars'[m] = bars[m] \/ bars'[m] = Rebuilt
    BY <1>3 DEF Backfill
  <2>4. BlindMinutes' \subseteq BlindMinutes
    BY <2>2, <2>3, Apart DEF BlindMinutes
  <2> QED
    BY <2>1, <2>2, <2>4
<1>4. CASE ~(Flush \/ FlushFails \/ Crash \/ ShutDown \/ Backfill)
  <2>1. bar' = bar /\ completed' = completed /\ bars' = bars
    BY <1>4 DEF Next, Service, ReadClock, Feed,
     FetchQuotes, Seed, Reconnect, LoseConnection, RecoveryFails, MinutePasses, Trade, NewDay
  <2>2. Held' = Held
    BY <2>1 DEF Held
  <2> QED
    BY <2>1, <2>2 DEF BlindMinutes
<1> QED
  BY <1>1, <1>2, <1>3, <1>4

(* A frame closes the break before it: only the minute it falls in can     *)
(* become blind, and only if it opens its bar on a broken baseline.        *)
LEMMA FrameStep ==
    ASSUME IInv, NEW vtt \in Volumes, Take(vtt), UNCHANGED <<now, bars>>,
           bar # None /\ bar.ts = now => Blind(bar) \/ bar.from <= vtt
    PROVE  /\ BlindMinutes' \subseteq BlindMinutes \cup {now}
           /\ BlindMinutes' \subseteq BlindMinutes \/ base = None \/ base > vtt
           /\ \A b \in Held' : b.ts <= now
           /\ Blind(bar') \/ bar'.from <= vtt
<1>1. TypeInv /\ OrderInv /\ now \in Nat /\ vtt \in Nat /\ \A n \in Int : n # None
  BY Apart DEF IInv, TypeInv, Minutes, Volumes
<1>2. /\ bar' \in Bar /\ bar'.ts = now /\ bar'.to = vtt
      /\ \/ bar # None /\ bar.ts = now /\ bar'.from = bar.from
         \/ bar'.from = base
      /\ \A b \in Held' : b = bar' \/ b \in Held
  BY <1>1, TakeEffect
<1>3. \A b \in Held' : b.ts <= now
  BY <1>1, <1>2 DEF OrderInv
<1>4. bar'.from \in Nat \cup {None} /\ bar'.to = vtt
  BY <1>2 DEF Bar, Volumes
<1>5. Blind(bar') \/ bar'.from <= vtt
  BY <1>1, <1>4 DEF Blind
<1>6. BlindMinutes' \subseteq BlindMinutes \cup {now}
  BY <1>2 DEF BlindMinutes
<1>7. ASSUME base # None, ~(base > vtt)
      PROVE  BlindMinutes' \subseteq BlindMinutes
  <2>1. base \in Nat /\ base <= vtt
    BY <1>1, <1>7 DEF TypeInv, Volumes
  <2>2. Blind(bar') => bar # None /\ bar.ts = now /\ Blind(bar)
    <3> SUFFICES ASSUME Blind(bar') PROVE bar # None /\ bar.ts = now /\ Blind(bar)
      OBVIOUS
    <3>1. bar'.from = None \/ bar'.from > vtt
      BY <1>4 DEF Blind
    <3>2. bar # None /\ bar.ts = now /\ bar'.from = bar.from
      BY <1>2, <1>7, <2>1, <3>1
    <3>3. bar.from = None => Blind(bar)
      BY DEF Blind
    <3>4. bar'.from # None => ~(bar'.from <= vtt)
      BY <1>1, <1>4, <3>1
    <3> QED
      BY <3>1, <3>2, <3>3, <3>4
  <2>3. bar # None => bar \in Held
    BY DEF Held
  <2> QED
    BY <1>2, <2>2, <2>3 DEF BlindMinutes
<1> QED
  BY <1>3, <1>5, <1>6, <1>7

LEMMA OrderStep ==
    ASSUME IInv, Next
    PROVE  OrderInv'
<1> USE DEF cache, recovery
<1>1. /\ TypeInv /\ WireInv /\ OrderInv /\ now \in Nat /\ traded \in Nat
      /\ late \in Nat \cup {None} /\ resync.vtt \in Nat
      /\ \A b \in Held : b.ts \in Nat /\ b.from \in Nat \cup {None} /\ b.to \in Nat
      /\ \A n \in Int : n # None
      /\ bar # None => bar \in Held
  <2>1. TypeInv /\ WireInv /\ OrderInv /\ \A n \in Int : n # None
    BY Apart DEF IInv
  <2>2. /\ now \in Nat /\ traded \in Nat /\ late \in Nat \cup {None} /\ resync.vtt \in Nat
    BY <2>1, Apart DEF TypeInv, Minutes, Volumes
  <2>3. \A b \in Held : b.ts \in Nat /\ b.from \in Nat \cup {None} /\ b.to \in Nat
    BY <2>1, HeldType, Apart DEF Minutes, Volumes, Bar
  <2>4. bar # None => bar \in Held
    BY DEF Held
  <2> QED
    BY <2>1, <2>2, <2>3, <2>4
<1>2. CASE Frame
  <2>1. traded \in Volumes /\ Take(traded) /\ late = None /\ bars' = bars
        /\ UNCHANGED <<now, traded, late, resync>>
    BY <1>1, <1>2 DEF Frame, TypeInv, WireInv
  <2>2. (\A b \in Held' : b.ts <= now) /\ (Blind(bar') \/ bar'.from <= traded)
    BY <1>1, <2>1, FrameStep DEF OrderInv
  <2> QED
    BY <1>1, <2>1, <2>2 DEF OrderInv, Blind
<1>3. CASE LateFrame
  <2>1. /\ late \in Volumes /\ Take(late) /\ ~wire /\ late # None /\ late' = None /\ bars' = bars
        /\ UNCHANGED <<now, traded, wire, resync>>
    BY <1>1, <1>3 DEF LateFrame, TypeInv
  <2>2. /\ \A b \in Held' : b.ts <= now
        /\ bar'.from = None \/ (bar'.from = bar.from /\ bar # None /\ bar.ts = now)
        /\ bar'.to = late
    <3>1. base = None /\ (bar # None /\ bar.ts = now => Blind(bar) \/ bar.from <= late)
      BY <2>1, <1>1 DEF OrderInv
    <3>2. \A b \in Held' : b.ts <= now
      BY <2>1, <3>1, FrameStep
    <3> QED
      BY <1>1, <2>1, <3>1, <3>2, TakeEffect
  <2>3. resync.pc = "idle"
    BY <1>1, <2>1 DEF WireInv
  <2>4. Blind(bar') \/ bar'.from <= traded
    <3>1. CASE bar'.from = None
      BY <3>1 DEF Blind
    <3>2. CASE bar'.from # None
      <4>1. bar'.from = bar.from /\ bar # None /\ bar.ts = now
        BY <2>2, <3>2
      <4>2. late <= traded /\ bar.from \in Nat /\ late \in Nat
        BY <1>1, <2>1, <3>2, <4>1 DEF OrderInv
      <4> QED
        BY <1>1, <2>2, <4>1, <4>2 DEF Blind
    <3> QED
      BY <3>1, <3>2
  <2> QED
    BY <1>1, <2>1, <2>2, <2>3, <2>4 DEF OrderInv
<1>4. CASE ~Frame /\ ~LateFrame
  <2>1. Held' \subseteq Held /\ bar' \in {bar, None}
    BY <1>1, <1>4, QuietStep
  <2>2. /\ now' \in {now, now + 1}
        /\ now' = now => traded' >= traded
        /\ resync'.pc = "seed" => traded' >= traded
        /\ resync'.pc = "seed" => resync'.vtt = traded \/ (resync.pc = "seed" /\ resync'.vtt = resync.vtt)
    <3>1. CASE NewDay
      BY <1>1, <3>1 DEF NewDay
    <3>2. CASE FetchQuotes \/ Seed \/ Backfill \/ RecoveryFails \/ Reconnect
      <4>1. resync \in [pc : Phases, vtt : Volumes, upto : Minutes] /\ Idle.pc = "idle"
        BY <1>1 DEF TypeInv, Idle
      <4>2. now' = now /\ traded' = traded
        BY <3>2 DEF FetchQuotes, Seed, Backfill, RecoveryFails, Reconnect
      <4>3. CASE FetchQuotes
        BY <1>1, <4>1, <4>2, <4>3 DEF FetchQuotes
      <4>4. CASE Seed \/ Backfill
        BY <1>1, <4>1, <4>2, <4>4 DEF Seed, Backfill
      <4>5. CASE RecoveryFails
        BY <1>1, <4>1, <4>2, <4>5 DEF RecoveryFails
      <4>6. CASE Reconnect
        <5>1. resync' = resync \/ resync'.pc = "quotes"
          BY <4>6 DEF Reconnect, Idle
        <5> QED
          BY <1>1, <4>2, <5>1
      <4> QED
        BY <3>2, <4>3, <4>4, <4>5, <4>6
    <3>3. CASE Crash \/ ShutDown
      BY <1>1, <3>3 DEF Crash, ShutDown, Restarted, Idle
    <3>4. CASE ReadClock \/ Flush \/ FlushFails \/ LoseConnection \/ MinutePasses \/ Trade
      BY <1>1, <3>4 DEF ReadClock, Flush, FlushFails, LoseConnection, MinutePasses, Trade
    <3> QED
      BY <1>4, <3>1, <3>2, <3>3, <3>4 DEF Next, Service, Feed
  <2>3. traded' \in Nat /\ late' \in Nat \cup {None}
    BY <1>1, TypeStep DEF TypeInv, Volumes
  <2>4. \A b \in Held' : b.ts <= now'
    BY <1>1, <2>1, <2>2 DEF OrderInv
  <2>5. late' # None => base' = None
    <3>1. CASE LoseConnection \/ Crash \/ ShutDown
      BY <3>1 DEF LoseConnection, Crash, ShutDown, Restarted
    <3>2. CASE Seed \/ Reconnect
      BY <1>1, <3>2 DEF Seed, Reconnect, WireInv
    <3>3. CASE Flush \/ FlushFails
      BY <1>1, <3>3 DEF Flush, FlushFails, TakeOut, OrderInv
    <3>4. CASE ReadClock \/ FetchQuotes \/ Backfill \/ RecoveryFails \/ MinutePasses \/ Trade \/ NewDay
      <4>1. UNCHANGED <<late, base>>
        BY <3>4 DEF ReadClock, FetchQuotes, Backfill, RecoveryFails, MinutePasses, Trade, NewDay
      <4> QED
        BY <1>1, <4>1 DEF OrderInv
    <3> QED
      BY <1>4, <3>1, <3>2, <3>3, <3>4 DEF Next, Service, Feed
  <2>6. late' = None \/ late' = late \/ late' = traded
    BY DEF Next, Frame, LateFrame, Service, ReadClock, Flush, FlushFails, Feed,
       FetchQuotes, Seed, Backfill, Reconnect, LoseConnection, RecoveryFails, Crash, ShutDown,
       Restarted, MinutePasses, Trade, NewDay
  <2>7. bar' # None /\ bar'.ts = now' =>
           /\ Blind(bar') \/ (bar'.from <= traded' /\ (late' # None => bar'.from <= late'))
           /\ late' # None => late' <= traded'
    <3> SUFFICES ASSUME bar' # None, bar'.ts = now'
                 PROVE  /\ Blind(bar') \/ (bar'.from <= traded' /\ (late' # None => bar'.from <= late'))
                        /\ late' # None => late' <= traded'
      OBVIOUS
    <3>1. bar' = bar /\ bar # None /\ bar \in Held /\ bar.ts <= now
      BY <1>1, <2>1 DEF OrderInv
    <3>2. now' = now /\ bar.ts = now
      BY <1>1, <2>2, <3>1
    <3>3. /\ Blind(bar) \/ (bar.from <= traded /\ (late # None => bar.from <= late))
          /\ late # None => late <= traded
      BY <1>1, <3>1, <3>2 DEF OrderInv
    <3>6. late' # None => late' <= traded'
      BY <1>1, <2>2, <2>3, <2>6, <3>2, <3>3
    <3>4. CASE bar.from \in Nat
      BY <1>1, <2>2, <2>3, <2>6, <3>1, <3>2, <3>3, <3>4, <3>6
    <3>5. CASE bar.from = None
      BY <3>1, <3>5, <3>6 DEF Blind
    <3> QED
      BY <1>1, <3>1, <3>4, <3>5
  <2>8. resync'.pc = "seed" => resync'.vtt <= traded'
    BY <1>1, <2>2, <2>3 DEF OrderInv
  <2> QED
    BY <2>4, <2>5, <2>7, <2>8 DEF OrderInv
<1> QED
  BY <1>2, <1>3, <1>4

(* Every blind minute uses up a break.                                     *)
LEMMA BlindStep ==
    ASSUME IInv, Next
    PROVE  BlindInv'
<1> USE DEF cache, recovery
<1> DEFINE count == Cardinality(BlindMinutes)
<1>1. /\ TypeInv /\ WireInv /\ OrderInv /\ now \in Nat /\ traded \in Nat /\ faults \in Nat
      /\ late \in Nat \cup {None} /\ base \in Nat \cup {None} /\ \A n \in Int : n # None
      /\ traded' \in Nat /\ late' \in Nat \cup {None} /\ base' \in Nat \cup {None} /\ faults' \in Nat
  <2>1. TypeInv /\ WireInv /\ OrderInv /\ TypeInv'
    BY TypeStep DEF IInv
  <2> QED
    BY <2>1, Apart DEF TypeInv, Minutes, Volumes
<1>2. /\ count \in Nat /\ count' \in Nat
      /\ BlindMinutes' \subseteq BlindMinutes => count' <= count
      /\ \A m : BlindMinutes' \subseteq BlindMinutes \cup {m} => count' <= count + 1
      /\ count + Baseless + Belated <= 1 + faults
  <2>1. count' \in Nat
    <3>1. IsFiniteSet(Minutes)
      BY FS_Interval, Apart DEF Minutes
    <3>2. BlindMinutes' \subseteq Minutes
      BY DEF BlindMinutes, Minutes
    <3> QED
      BY <3>1, <3>2, FS_Subset, FS_CardinalityType
  <2> QED
    BY <2>1, BlindCount DEF IInv, BlindInv
<1> HIDE DEF count
<1> SUFFICES count' + Baseless' + Belated' <= 1 + faults'
  BY DEF BlindInv, count
<1>3. /\ Baseless \in Nat /\ Baseless <= 1 /\ Belated \in Nat /\ Belated <= 1
      /\ Baseless' \in Nat /\ Baseless' <= 1 /\ Belated' \in Nat /\ Belated' <= 1
  BY DEF Baseless, Belated
<1>4. /\ count \in Nat /\ count' \in Nat /\ faults \in Nat /\ faults' \in Nat
      /\ count + Baseless + Belated <= 1 + faults
  BY <1>1, <1>2
<1>5. PICK c1 \in Nat, x1 \in Nat, y1 \in Nat, f1 \in Nat :
          count' = c1 /\ Baseless' = x1 /\ Belated' = y1 /\ faults' = f1
  BY <1>3, <1>4
<1> SUFFICES c1 + x1 + y1 <= 1 + f1
  BY <1>5
<1>6. CASE Frame
  <2>1. traded \in Volumes /\ Take(traded) /\ late = None
        /\ UNCHANGED <<now, traded, late, bars, faults>>
    BY <1>1, <1>6 DEF Frame, TypeInv, WireInv
  <2>2. bar # None /\ bar.ts = now => Blind(bar) \/ bar.from <= traded
    BY <1>1 DEF OrderInv
  <2>3. /\ BlindMinutes' \subseteq BlindMinutes \cup {now}
        /\ BlindMinutes' \subseteq BlindMinutes \/ base = None \/ base > traded
    BY <2>1, <2>2, FrameStep
  <2>4. base' = traded
    BY <2>1 DEF Take
  <2>5. Baseless' = 0 /\ Belated' = 0
    BY <1>1, <2>1, <2>4 DEF Baseless, Belated
  <2>6. count' <= count + Baseless
    BY <1>2, <1>3, <2>3 DEF Baseless
  <2> QED
    BY <1>3, <1>4, <1>5, <2>1, <2>5, <2>6
<1>7. CASE LateFrame
  <2>1. /\ late \in Volumes /\ Take(late) /\ late # None /\ late' = None
        /\ UNCHANGED <<now, traded, bars, faults>>
    BY <1>1, <1>7 DEF LateFrame, TypeInv
  <2>2. base = None /\ (bar # None /\ bar.ts = now => Blind(bar) \/ bar.from <= late)
    BY <1>1, <2>1 DEF OrderInv
  <2>3. BlindMinutes' \subseteq BlindMinutes \cup {now}
    BY <2>1, <2>2, FrameStep
  <2>4. base' = late
    BY <2>1 DEF Take
  <2>5. Baseless = 1 /\ Baseless' = Belated /\ Belated' = 0
    BY <1>1, <2>1, <2>2, <2>4 DEF Baseless, Belated
  <2> QED
    BY <1>2, <1>3, <1>4, <1>5, <2>1, <2>3, <2>5
<1>8. CASE ~Frame /\ ~LateFrame
  <2>1. count' <= count
    BY <1>1, <1>2, <1>8, QuietStep
  <2>2. CASE LoseConnection \/ Crash \/ ShutDown
    <3>1. faults' = faults + 1 /\ (late' = None \/ late' = traded \/ late' = late) /\ traded' = traded
      BY <2>2 DEF LoseConnection, Crash, ShutDown, Restarted, Fault
    <3>2. Baseless' <= 1 /\ Belated' <= Belated
      BY <1>1, <1>3, <3>1 DEF Belated
    <3> QED
      BY <1>3, <1>4, <2>1, <3>1, <3>2, <1>5
  <2>3. CASE NewDay
    <3>1. faults' = faults + 1 /\ UNCHANGED <<late, base>>
      BY <2>3 DEF NewDay, Fault
    <3>2. CASE late # None
      <4>1. base' = None /\ base = None
        BY <1>1, <3>1, <3>2 DEF OrderInv
      <4>2. Baseless' <= Baseless /\ Belated' <= 1
        BY <1>3, <4>1 DEF Baseless
      <4>3. Belated = 0
        BY <1>1, <3>2, <4>1 DEF Belated
      <4> QED
        BY <1>3, <1>4, <2>1, <3>1, <4>2, <4>3, <1>5
    <3>3. CASE late = None
      <4>1. Baseless' <= 1 /\ Belated' <= Belated
        BY <1>3, <3>1, <3>3 DEF Belated
      <4> QED
        BY <1>3, <1>4, <2>1, <3>1, <4>1, <1>5
    <3> QED
      BY <3>2, <3>3
  <2>4. CASE Seed
    <3>1. /\ base' = resync.vtt /\ resync.vtt <= traded /\ UNCHANGED <<traded, late, faults>>
          /\ resync.vtt \in Nat
      BY <1>1, <2>4, Apart DEF Seed, OrderInv, TypeInv, Volumes
    <3>2. Baseless' <= Baseless /\ Belated' <= Belated /\ faults <= faults'
      BY <1>1, <1>3, <3>1 DEF Baseless, Belated
    <3> QED
      BY <1>3, <1>4, <2>1, <3>2, <1>5
  <2>5. CASE \/ ReadClock \/ Flush \/ FlushFails \/ FetchQuotes \/ Backfill \/ Reconnect
             \/ RecoveryFails \/ MinutePasses \/ Trade
    <3>1. /\ base' = base /\ traded' >= traded /\ (late' = late \/ late' = None) /\ faults' >= faults
      BY <1>1, <2>5 DEF ReadClock, Flush, FlushFails, TakeOut, FetchQuotes, Backfill, Reconnect,
                        RecoveryFails, MinutePasses, Trade, Fault
    <3>2. Baseless' <= Baseless /\ Belated' <= Belated /\ faults <= faults'
      BY <1>1, <3>1 DEF Baseless, Belated
    <3> QED
      BY <1>3, <1>4, <2>1, <3>2, <1>5
  <2> QED
    BY <1>8, <2>2, <2>3, <2>4, <2>5 DEF Next, Service, Feed
<1> QED
  BY <1>6, <1>7, <1>8

LEMMA NextEffect == IInv /\ [Next]_vars => IInv'
<1>1. ASSUME IInv, Next PROVE IInv'
  BY <1>1, TypeStep, OrderStep, BlindStep DEF IInv
<1>2. ASSUME IInv, UNCHANGED vars PROVE IInv'
  <2>1. UNCHANGED <<now, traded, wire, late, base, bar, completed, bars, clock, gapStart, resync, faults>>
    BY <1>2 DEF vars, cache, recovery
  <2>2. Held' = Held /\ Baseless' = Baseless /\ Belated' = Belated
    BY <2>1 DEF Held, Baseless, Belated
  <2>3. BlindMinutes' = BlindMinutes
    BY <2>1, <2>2 DEF BlindMinutes
  <2>4. TypeInv' /\ WireInv'
    BY <1>2, <2>1 DEF IInv, TypeInv, WireInv
  <2>5. OrderInv'
    BY <1>2, <2>1, <2>2 DEF IInv, OrderInv, Blind
  <2>6. BlindInv'
    BY <1>2, <2>1, <2>2, <2>3 DEF IInv, BlindInv
  <2> QED
    BY <2>4, <2>5, <2>6 DEF IInv
<1> QED
  BY <1>1, <1>2

(* The types, the order of the bars and the account of the breaks, from    *)
(* which the other theorems follow.                                        *)
THEOREM Invariance == Spec => []IInv
BY InitInvariant, NextEffect, PTL DEF Spec

THEOREM TypeCorrect == Spec => []TypeOK
<1>1. IInv => TypeOK
  <2> SUFFICES ASSUME IInv PROVE TypeOK
    OBVIOUS
  <2>1. wire \in BOOLEAN
    BY Zenon DEF IInv, WireInv
  <2> QED
    BY <2>1 DEF IInv, TypeInv, WireInv, TypeOK, Phases
<1> QED
  BY <1>1, Invariance, PTL

(* However the frames, the flushes, the recovery and the restarts follow   *)
(* each other, at most one minute per break has no volume: also when the   *)
(* recovery fails or is skipped, where resync.py:13-17 has the rest of the *)
(* session without volumes.                                                *)
THEOREM BlindBars == Spec => []OneBlindBarPerBreak
<1>1. IInv => OneBlindBarPerBreak
  <2> SUFFICES ASSUME IInv PROVE OneBlindBarPerBreak
    OBVIOUS
  <2> DEFINE unknown == {m \in Minutes : bars[m] = Unknown}
  <2>1. unknown \subseteq BlindMinutes /\ BlindMinutes \subseteq Minutes /\ IsFiniteSet(Minutes)
    BY FS_Interval, Apart DEF BlindMinutes, Minutes
  <2>2. /\ IsFiniteSet(BlindMinutes) /\ Cardinality(BlindMinutes) \in Nat
        /\ Cardinality(unknown) <= Cardinality(BlindMinutes) /\ Cardinality(unknown) \in Nat
    <3> HIDE DEF unknown
    <3> QED
      BY <2>1, FS_Subset, FS_CardinalityType
  <2>3. Baseless \in {0, 1} /\ Belated \in {0, 1} /\ faults \in Nat
    BY Apart DEF Baseless, Belated, IInv, TypeInv
  <2>4. Cardinality(BlindMinutes) + Baseless + Belated <= 1 + faults
    BY DEF IInv, BlindInv
  <2> QED
    BY <2>2, <2>3, <2>4 DEF OneBlindBarPerBreak
<1> QED
  BY <1>1, Invariance, PTL

-------------------------------------------------------------------------------

(* A minute that is in memory or in the store stays in one of them.        *)
THEOREM BarsKept == Spec => NoBarIsLost
<1> DEFINE Kept == faults' = faults => InMemory \cup InStore \subseteq InMemory' \cup InStore'
<1>1. IInv /\ [Next]_vars => [Kept]_vars
  <2> SUFFICES ASSUME IInv, Next, faults' = faults,
                      NEW m, m \in InMemory \/ m \in InStore
               PROVE  m \in InMemory' \/ m \in InStore'
    OBVIOUS
  <2> USE DEF cache, recovery
  <2>1. TypeInv /\ faults \in Nat /\ InMemory = {b.ts : b \in Held} /\ InMemory' = {b.ts : b \in Held'}
        /\ Rebuilt # None /\ \A b \in Held : b.ts \in Minutes
    BY InMemoryIsHeld, HeldType, Apart DEF IInv, TypeInv, InMemory, Held, Bar
  <2>2. CASE Frame \/ LateFrame
    <3>1. traded \in Volumes /\ (late # None => late \in Volumes)
      BY <2>1 DEF TypeInv
    <3>2. \E vtt \in Volumes : Take(vtt) /\ bars' = bars
      BY <2>2, <3>1 DEF Frame, LateFrame
    <3>3. (\A b \in Held : \E c \in Held' : c.ts = b.ts) /\ bars' = bars
      BY <2>1, <3>2, TakeEffect
    <3> QED
      BY <2>1, <3>3 DEF InStore
  <2>3. CASE Flush
    <3>1. PICK at : TakeOut(at) /\ bars' = Stored(Due(at))
      BY <2>3 DEF Flush
    <3>2. /\ \A b \in Held : b \in Held' \/ bars'[b.ts] # None
          /\ \A n \in Minutes : bars[n] # None => bars'[n] = bars[n]
      BY <2>1, <3>1, TakeOutEffect, FlushEffect
    <3> QED
      BY <2>1, <3>2 DEF InStore
  <2>4. CASE Backfill
    <3>1. /\ bar' = bar /\ completed' = completed
          /\ \A n \in Minutes : bars[n] # None => bars'[n] # None
      BY <2>1, <2>4 DEF Backfill
    <3>2. Held' = Held
      BY <3>1 DEF Held
    <3> QED
      BY <2>1, <3>1, <3>2 DEF InStore
  <2>5. CASE \/ ReadClock \/ FetchQuotes \/ Seed \/ Reconnect \/ MinutePasses \/ Trade
    <3>1. bar' = bar /\ completed' = completed /\ bars' = bars
      BY <2>5 DEF ReadClock, FetchQuotes, Seed, Reconnect, MinutePasses, Trade
    <3>2. Held' = Held
      BY <3>1 DEF Held
    <3> QED
      BY <2>1, <3>1, <3>2 DEF InStore
  <2>6. CASE FlushFails \/ LoseConnection \/ RecoveryFails \/ Crash \/ ShutDown \/ NewDay
    BY <2>1, <2>6 DEF FlushFails, LoseConnection, RecoveryFails, Crash, ShutDown, NewDay, Fault
  <2> QED
    BY <2>2, <2>3, <2>4, <2>5, <2>6 DEF Next, Service, Feed
<1> QED
  BY <1>1, Invariance, PTL DEF Spec, NoBarIsLost

(* The first bar of a minute is its last: neither a second flush, nor the  *)
(* backfill, nor the process after a restart writes over it.               *)
THEOREM WrittenOnce == Spec => WrittenBarsAreFinal
<1> DEFINE Final == \A m \in InStore : bars'[m] = bars[m]
<1>1. IInv /\ [Next]_vars => [Final]_vars
  <2> SUFFICES ASSUME IInv, Next, NEW m \in Minutes, bars[m] # None
               PROVE  bars'[m] = bars[m]
    BY DEF InStore
  <2>1. TypeInv
    BY DEF IInv
  <2>2. CASE \E at : bars' = Stored(Due(at))
    BY <2>1, <2>2, FlushEffect
  <2>3. CASE ~\E at : bars' = Stored(Due(at))
    <3>1. bars' = bars \/ Backfill
      BY <2>3 DEF Next, Frame, LateFrame, Service, ReadClock, Flush, FlushFails, Feed, FetchQuotes,
         Seed, Reconnect, LoseConnection, RecoveryFails, Crash, ShutDown, MinutePasses, Trade, NewDay
    <3> QED
      BY <3>1 DEF Backfill
  <2> QED
    BY <2>2, <2>3
<1> QED
  BY <1>1, Invariance, PTL DEF Spec, WrittenBarsAreFinal

===============================================================================
