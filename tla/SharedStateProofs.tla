--------------------------- MODULE SharedStateProofs ---------------------------
(***************************************************************************)
(* Proofs about what the containers share: the broker's token, for every   *)
(* set of processes and every number of days and faults, and the switches  *)
(* of the gates, for every life of a cached value and all batches,         *)
(* markets, failures and restarts.                                         *)
(***************************************************************************)
EXTENDS UpstoxToken, GateSwitches, FiniteSetTheorems, NaturalsInduction, WellFoundedInduction, TLAPS

(***************************************************************************)
(* The token file.                                                         *)
(***************************************************************************)

Places == {"start", "waiting", "holding", "login", "saving", "writing", "ready"}
Locked == {"holding", "login", "saving", "writing"}

TokenTypes ==
    /\ now \in Nat /\ stamp \in Nat /\ logins \in Nat /\ faults \in Nat
    /\ file \in [state : {"missing", "torn", "saved"}, at : Nat]
    /\ lock \in Procs \cup {Free}
    /\ pc \in [Procs -> Places]

(* Nobody is between taking the lock and giving it back without it.        *)
LockInv == \A p \in Procs : pc[p] \in Locked => lock = p

(* A process that logs in has seen, under the lock, that no token of today *)
(* lies in the file, and none has appeared since.                          *)
LoginInv == (\E p \in Procs : pc[p] = "login") => ~Fresh

(* While a process writes the file it is empty for everybody else.         *)
TornInv == \A p \in Procs : pc[p] = "writing" => file.state = "torn"

(* A token of today is in the file or on its way into it.                  *)
Today == 2 * (now \div 2) + 1
Coming ==
    \E p \in Procs : pc[p] = "saving" \/ (pc[p] = "writing" /\ stamp >= Today)

(* The strengthening of the count: a login without a fault to its account  *)
(* has left its token in the file, or is about to.                         *)
CountInv ==
    AfterThree(now) => logins <= faults \/ (logins <= faults + 1 /\ (Fresh \/ Coming))

TokenInv == TokenTypes /\ LockInv /\ LoginInv /\ TornInv /\ CountInv

-------------------------------------------------------------------------------

(* A clock that goes on makes no token young again.                        *)
LEMMA DaysOnlyGrow ==
    ASSUME NEW n \in Nat
    PROVE  /\ 2 * (n \div 2) + 1 <= 2 * ((n + 1) \div 2) + 1
           /\ n % 2 = 1 => n = 2 * (n \div 2) + 1
OBVIOUS

(* Before anybody has read the file.                                       *)
LEMMA TokenStarts == TokenInit => TokenInv
<1> SUFFICES ASSUME TokenInit PROVE TokenInv
  OBVIOUS
<1> USE DEF TokenInit
<1>1. TokenTypes
  BY DEF TokenTypes, Missing, Torn, Saved, Places
<1>2. LockInv /\ LoginInv /\ TornInv
  BY DEF LockInv, LoginInv, TornInv, Locked
<1>3. CountInv
  BY DEF CountInv
<1> QED
  BY <1>1, <1>2, <1>3 DEF TokenInv

(* Every step of one process keeps the invariant.                          *)
LEMMA ProcessEffect ==
    ASSUME TokenInv, NEW p \in Procs, Load(p) \/ GoesWrong(p)
    PROVE  TokenInv'
<1> USE DEF TokenInv, Goes
<1>0. Free \notin Procs
  BY UpstoxTokenAssumption
<1>1. TokenTypes'
  BY DEF TokenTypes, Places, Load, ReadFile, TakeLock, ReadAgain, LogIn, EmptyFile, WriteFile,
         GoesWrong, LoginFails, SaveFails, LoadAgain, Crash, Fault, Saved, Torn
<1>2. LockInv'
  BY <1>0 DEF TokenTypes, LockInv, Locked, Places,
         Load, ReadFile, TakeLock, ReadAgain, LogIn, EmptyFile, WriteFile,
         GoesWrong, LoginFails, SaveFails, LoadAgain, Crash
<1>3. /\ pc \in [Procs -> Places] /\ now \in Nat /\ stamp \in Nat
      /\ logins \in Nat /\ faults \in Nat
      /\ file \in [state : {"missing", "torn", "saved"}, at : Nat]
  BY DEF TokenTypes
<1>4. /\ Today \in Nat /\ Today' = Today
      /\ AfterThree(now') <=> AfterThree(now)
      /\ AfterThree(now) => now = Today
      /\ Fresh <=> (file.state = "saved" /\ file.at >= Today)
      /\ Fresh' <=> (file'.state = "saved" /\ file'.at >= Today)
  <2>1. now' = now
    BY DEF Load, ReadFile, TakeLock, ReadAgain, LogIn, EmptyFile, WriteFile,
           GoesWrong, LoginFails, SaveFails, LoadAgain, Crash
  <2> QED
    BY <1>3, <2>1, DaysOnlyGrow DEF Today, Fresh, AfterThree
<1>5. LoginInv'
  <2> SUFFICES ASSUME NEW q \in Procs, pc'[q] = "login"
               PROVE  ~Fresh'
    BY DEF LoginInv
  <2>1. CASE UNCHANGED file
    <3>1. pc[q] = "login" \/ ~Fresh
      BY <1>3 DEF Load, ReadFile, TakeLock, ReadAgain, LogIn, EmptyFile, WriteFile,
                  GoesWrong, LoginFails, SaveFails, LoadAgain, Crash
    <3> QED
      BY <1>4, <2>1, <3>1 DEF LoginInv
  <2>2. CASE ~UNCHANGED file
    <3>1. pc[p] \in Locked /\ pc' \in {[pc EXCEPT ![p] = "start"], [pc EXCEPT ![p] = "writing"],
                                       [pc EXCEPT ![p] = "ready"]}
      BY <2>2 DEF Load, ReadFile, TakeLock, ReadAgain, LogIn, EmptyFile, WriteFile,
                  GoesWrong, LoginFails, SaveFails, LoadAgain, Crash, Locked
    <3>2. q # p /\ pc[q] = "login"
      BY <1>3, <3>1
    <3> QED
      BY <3>1, <3>2 DEF LockInv, Locked
  <2> QED
    BY <2>1, <2>2
<1>6. CountInv'
  <2> SUFFICES ASSUME AfterThree(now), ~(logins' <= faults')
               PROVE  logins' <= faults' + 1 /\ (Fresh' \/ Coming')
    BY <1>4 DEF CountInv
  <2>1. CASE faults' = faults + 1 /\ logins' = logins
    BY <1>3, <2>1 DEF CountInv
  <2>2. CASE LogIn(p)
    <3>1. ~Fresh /\ ~Coming
      BY <1>3, <2>2 DEF LogIn, LoginInv, LockInv, Locked, Coming
    <3>2. logins' = logins + 1 /\ faults' = faults /\ logins <= faults
      BY <2>2, <3>1 DEF LogIn, CountInv
    <3>3. Coming'
      BY <1>3, <2>2 DEF LogIn, Coming
    <3> QED
      BY <1>3, <3>2, <3>3
  <2>3. CASE EmptyFile(p)
    <3>1. pc'[p] = "writing" /\ stamp' = Today
      BY <1>3, <1>4, <2>3 DEF EmptyFile
    <3>2. Coming'
      BY <1>4, <3>1 DEF Coming
    <3> QED
      BY <2>3, <3>2 DEF EmptyFile, CountInv
  <2>4. CASE WriteFile(p)
    <3>1. ~Fresh /\ (Coming => stamp >= Today)
      BY <1>3, <1>4, <2>4 DEF WriteFile, LockInv, Locked, TornInv, Coming
    <3>2. Coming => Fresh'
      BY <1>3, <1>4, <2>4, <3>1 DEF WriteFile, Saved
    <3> QED
      BY <2>4, <3>1, <3>2 DEF WriteFile, CountInv
  <2>5. CASE ReadFile(p) \/ TakeLock(p) \/ ReadAgain(p) \/ LoadAgain(p)
    <3>1. UNCHANGED <<file, stamp, logins, faults>>
      BY <2>5 DEF ReadFile, TakeLock, ReadAgain, LoadAgain
    <3>2. Coming => Coming'
      BY <1>3, <1>4, <2>5 DEF ReadFile, TakeLock, ReadAgain, LoadAgain, Coming
    <3> QED
      BY <1>4, <3>1, <3>2 DEF CountInv
  <2>6. CASE LoginFails(p) \/ SaveFails(p) \/ Crash(p)
    BY <2>1, <2>6 DEF LoginFails, SaveFails, Crash, Fault
  <2> QED
    BY <2>2, <2>3, <2>4, <2>5, <2>6 DEF Load, GoesWrong
<1>7. TornInv'
  <2> SUFFICES ASSUME NEW q \in Procs, pc'[q] = "writing"
               PROVE  file'.state = "torn"
    BY DEF TornInv
  <2>1. CASE q = p
    BY <1>3, <2>1 DEF Load, ReadFile, TakeLock, ReadAgain, LogIn, EmptyFile, WriteFile,
                      GoesWrong, LoginFails, SaveFails, LoadAgain, Crash, Torn
  <2>2. CASE q # p
    <3>1. pc[q] = "writing" /\ pc[p] \notin Locked
      BY <1>3, <2>2 DEF Load, ReadFile, TakeLock, ReadAgain, LogIn, EmptyFile, WriteFile,
                        GoesWrong, LoginFails, SaveFails, LoadAgain, Crash, LockInv, Locked
    <3>2. file' = file
      BY <3>1 DEF Load, ReadFile, TakeLock, ReadAgain, LogIn, EmptyFile, WriteFile,
                  GoesWrong, LoginFails, SaveFails, LoadAgain, Crash, Locked
    <3> QED
      BY <3>1, <3>2 DEF TornInv
  <2> QED
    BY <2>1, <2>2
<1> QED
  BY <1>1, <1>2, <1>5, <1>6, <1>7

(* Time and every process keep the invariant.                              *)
LEMMA TokenNextEffect == TokenInv /\ [TokenNext]_tokenVars => TokenInv'
<1> SUFFICES ASSUME TokenInv, [TokenNext]_tokenVars PROVE TokenInv'
  OBVIOUS
<1>1. CASE UNCHANGED tokenVars
  BY <1>1 DEF TokenInv, TokenTypes, LockInv, LoginInv, TornInv, CountInv, Coming, Today, Fresh, tokenVars
<1>2. CASE TimePasses
  <2>1. /\ now \in Nat /\ now' = now + 1 /\ logins' = 0 /\ faults' = 0
        /\ file \in [state : {"missing", "torn", "saved"}, at : Nat]
        /\ UNCHANGED <<file, stamp, lock, pc>>
    BY <1>2 DEF TokenInv, TokenTypes, TimePasses
  <2>2. Fresh' => Fresh
    <3>1. 2 * (now \div 2) + 1 <= 2 * ((now + 1) \div 2) + 1
      BY <2>1, DaysOnlyGrow
    <3>2. now \div 2 \in Nat /\ (now + 1) \div 2 \in Nat
      BY <2>1
    <3> HIDE DEF Today
    <3> QED
      BY <2>1, <3>1, <3>2 DEF Fresh
  <2>3. TokenTypes'
    BY <2>1 DEF TokenInv, TokenTypes
  <2>4. LockInv' /\ LoginInv' /\ TornInv'
    BY <2>1, <2>2 DEF TokenInv, LockInv, LoginInv, TornInv
  <2>5. CountInv'
    BY <2>1 DEF CountInv
  <2> QED
    BY <2>3, <2>4, <2>5 DEF TokenInv
<1>3. CASE \E p \in Procs : Load(p) \/ GoesWrong(p)
  BY <1>3, ProcessEffect
<1> QED
  BY <1>1, <1>2, <1>3 DEF TokenNext

(* At every moment the lock is held by the process that logs in or saves,  *)
(* and a login that no fault explains has its token in the file.           *)
THEOREM TokenInvariance == TokenSpec => []TokenInv
BY TokenStarts, TokenNextEffect, PTL DEF TokenSpec

(* After three o'clock the processes of all containers log in once between *)
(* them, plus once for every fault, and never two at a time, however many  *)
(* processes there are and wherever they are killed.                       *)
THEOREM LoginsShared == TokenSpec => []LoginsAreShared
<1>1. TokenInv => LoginsAreShared
  <2> SUFFICES ASSUME TokenInv PROVE LoginsAreShared
    OBVIOUS
  <2> DEFINE busy == {p \in Procs : pc[p] \in {"login", "saving", "writing"}}
  <2>1. AfterThree(now) => logins <= 1 + faults
    BY DEF TokenInv, TokenTypes, CountInv
  <2>2. busy \subseteq {lock}
    BY DEF TokenInv, LockInv, Locked
  <2>3. IsFiniteSet({lock}) /\ Cardinality({lock}) = 1
    BY FS_Singleton
  <2>4. /\ Cardinality(busy) <= Cardinality({lock})
        /\ Cardinality(busy) \in Nat
    <3> HIDE DEF busy
    <3> QED
      BY <2>2, <2>3, FS_Subset, FS_CardinalityType
  <2> QED
    BY <2>1, <2>3, <2>4 DEF LoginsAreShared
<1> QED
  BY <1>1, TokenInvariance, PTL

(***************************************************************************)
(* The switches of the gates.                                              *)
(***************************************************************************)

(* What a row of the settings table can hold, what an answer of            *)
(* resolve_flag can be, and an entry of its cache.                         *)
Raw == {Absent} \cup UNION {FEATURE_FLAGS[k].values : k \in Keys}
Resolved == {Effective(p, k, raw) : p \in Services, k \in Keys, raw \in Raw}
Entry == [value : Resolved, left : 0..Ttl]
Candidates == UNION {ToSet(cands) : cands \in Batches}
Phases == {"premarket", "breadth", "entry", "booked"}
InHand == [phase : Phases, left : Seq(Candidates), kept : Seq(Candidates), whole : Seq(Candidates), raised : BOOLEAN]

(* Rows, entries, reads and the batch keep their types.                    *)
SwitchTypes ==
    /\ stored \in [Keys -> Raw] /\ held \in [Keys -> 0..Ttl]
    /\ missed \in [Services -> [Keys -> 0..Ttl]]
    /\ cache \in [Services -> [Keys -> Entry \cup {Absent}]]
    /\ reading \in [Services -> [key : Keys, value : Resolved] \cup {Absent}]
    /\ batch # Absent => batch \in InHand /\ (batch.phase = "premarket" => ~batch.raised)

(* A value with so much left to live was made before the mode was set, or  *)
(* before the last read that failed: what is left and the time since make  *)
(* no more than a whole life.                                              *)
Modes == {PmgKey, BreadthKey}
Outlived(p, k, left) == left + held[k] <= Ttl \/ left + missed[p][k] <= Ttl

(* While a mode is "hard", a cached value that says something else is from *)
(* before the switch, or from a read that failed.                          *)
EntryInv ==
    \A p \in Services, k \in Modes :
       stored[k] = "hard" /\ cache[p][k] # Absent /\ cache[p][k].value # "hard" => Outlived(p, k, cache[p][k].left)

(* A value that is about to become an entry was read since the last tick.  *)
ReadInv ==
    \A p \in Services :
       reading[p] # Absent /\ reading[p].key \in Modes /\ reading[p].value # "hard" /\ stored[reading[p].key] = "hard"
          => Outlived(p, reading[p].key, Ttl)

SwitchInv == SwitchTypes /\ EntryInv /\ ReadInv

-------------------------------------------------------------------------------

(* Induction up to a bound, about the numbers that have a property.        *)
LEMMA CountUp ==
    ASSUME NEW bound \in Nat, NEW S, 0 \in S,
           \A n \in 1..bound : n - 1 \in S => n \in S
    PROVE  \A n \in 0..bound : n \in S
<1>1. SUFFICES ASSUME 0..bound \ S # {} PROVE FALSE
  OBVIOUS
<1>2. PICK n \in 0..bound \ S : \A m \in 0..bound \ S : ~(m < n)
  <2>1. 0..bound \ S \subseteq Nat
    OBVIOUS
  <2>2. \E n \in 0..bound \ S : \A m \in 0..bound \ S : ~(<<m, n>> \in OpToRel(<, Nat))
    BY <1>1, <2>1, NatLessThanWellFounded, WFMin
  <2>3. \A m, n \in 0..bound \ S : m < n => <<m, n>> \in OpToRel(<, Nat)
    BY <2>1, Zenon DEF OpToRel
  <2> QED
    BY <2>2, <2>3, Zenon
<1>3. n \in 1..bound /\ n - 1 \in 0..bound /\ n - 1 < n
  BY <1>2
<1> QED
  BY <1>2, <1>3

(* kept[m] is what is kept of the first m candidates, m up to n.           *)
PassedSoFar(good, cands, n, kept) ==
    /\ kept \in [0..n -> Seq(good)]
    /\ kept[0] = <<>>
    /\ \A m \in 1..n : kept[m] = IF cands[m] \in good THEN Append(kept[m - 1], cands[m]) ELSE kept[m - 1]

(* There is something that is kept of every list.                          *)
LEMMA PassedExists ==
    ASSUME NEW cands, Len(cands) \in Nat, NEW good
    PROVE  \E kept : PassedSoFar(good, cands, Len(cands), kept)
<1> DEFINE S == {n \in 0..Len(cands) : \E kept : PassedSoFar(good, cands, n, kept)}
<1>1. 0 \in S
  <2> DEFINE none == [m \in 0..0 |-> <<>>]
  <2>1. PassedSoFar(good, cands, 0, none)
    BY DEF PassedSoFar
  <2> HIDE DEF none
  <2> QED
    BY <2>1
<1>2. ASSUME NEW n \in 1..Len(cands), n - 1 \in S PROVE n \in S
  <2>1. PICK kept : PassedSoFar(good, cands, n - 1, kept)
    BY <1>2
  <2> DEFINE last == IF cands[n] \in good THEN Append(kept[n - 1], cands[n]) ELSE kept[n - 1]
             next == [m \in 0..n |-> IF m = n THEN last ELSE kept[m]]
  <2>2. kept[n - 1] \in Seq(good)
    BY <2>1 DEF PassedSoFar
  <2>3. last \in Seq(good)
    BY <2>2
  <2>4. next \in [0..n -> Seq(good)] /\ next[0] = <<>>
    <3> HIDE DEF last
    <3> QED
      BY <2>1, <2>3 DEF PassedSoFar
  <2>5. ASSUME NEW m \in 1..n
        PROVE  next[m] = IF cands[m] \in good THEN Append(next[m - 1], cands[m]) ELSE next[m - 1]
    <3>1. m - 1 \in 0..n /\ m \in 0..n /\ m - 1 # n
      OBVIOUS
    <3>2. next[m - 1] = kept[m - 1]
      BY <3>1
    <3>3. CASE m = n
      BY <3>1, <3>2, <3>3
    <3>4. CASE m # n
      <4>1. m \in 1..(n - 1) /\ next[m] = kept[m]
        BY <3>1, <3>4
      <4> HIDE DEF next
      <4> QED
        BY <3>2, <4>1, <2>1 DEF PassedSoFar
    <3> QED
      BY <3>3, <3>4
  <2>6. PassedSoFar(good, cands, n, next)
    <3> HIDE DEF next
    <3> QED
      BY <2>4, <2>5 DEF PassedSoFar
  <2> HIDE DEF next
  <2> QED
    BY <2>6
<1>3. Len(cands) \in S
  <2> HIDE DEF S
  <2>1. \A n \in 1..Len(cands) : n - 1 \in S => n \in S
    BY <1>2
  <2>2. \A n \in 0..Len(cands) : n \in S
    BY <1>1, <2>1, CountUp
  <2> QED
    BY <2>2
<1> QED
  BY <1>3

(* A gate that looks at the whole batch keeps good candidates only.        *)
LEMMA PassKeepsGood ==
    ASSUME NEW cands, Len(cands) \in Nat, NEW good
    PROVE  Pass(good, cands) \in Seq(good)
<1> DEFINE Rule(kept) ==
             [n \in 0..Len(cands) |->
                IF n = 0 THEN <<>>
                ELSE IF cands[n] \in good THEN Append(kept[n - 1], cands[n]) ELSE kept[n - 1]]
           chosen == CHOOSE kept : kept = Rule(kept)
<1>1. Pass(good, cands) = chosen[Len(cands)]
  BY DEF Pass
<1>2. PICK kept : PassedSoFar(good, cands, Len(cands), kept)
  BY PassedExists
<1>3. kept = Rule(kept)
  <2>1. kept = [n \in 0..Len(cands) |-> kept[n]]
    BY <1>2 DEF PassedSoFar
  <2>2. ASSUME NEW n \in 0..Len(cands) PROVE kept[n] = Rule(kept)[n]
    <3>1. CASE n = 0
      BY <3>1, <1>2 DEF PassedSoFar
    <3>2. CASE n # 0
      <4>1. n \in 1..Len(cands)
        BY <3>2
      <4>2. kept[n] = IF cands[n] \in good THEN Append(kept[n - 1], cands[n]) ELSE kept[n - 1]
        BY <4>1, <1>2 DEF PassedSoFar
      <4> QED
        BY <3>2, <4>2
    <3> QED
      BY <3>1, <3>2
  <2>3. Rule(kept) = [n \in 0..Len(cands) |-> Rule(kept)[n]]
    OBVIOUS
  <2> HIDE DEF Rule
  <2> QED
    BY <2>1, <2>2, <2>3, Zenon
<1>4. chosen = Rule(chosen)
  <2> HIDE DEF Rule
  <2> QED
    BY <1>3, Zenon
<1> HIDE DEF chosen
<1> DEFINE S == {n \in 0..Len(cands) : chosen[n] \in Seq(good)}
<1>5. 0 \in S
  <2>1. Rule(chosen)[0] = <<>>
    OBVIOUS
  <2>2. chosen[0] = <<>>
    <3> HIDE DEF Rule
    <3> QED
      BY <1>4, <2>1
  <2>3. <<>> \in Seq(good) /\ 0 \in 0..Len(cands)
    OBVIOUS
  <2> HIDE DEF Rule
  <2> QED
    BY <2>2, <2>3
<1>6. ASSUME NEW n \in 1..Len(cands), n - 1 \in S PROVE n \in S
  <2>1. n \in 0..Len(cands) /\ n # 0 /\ chosen[n - 1] \in Seq(good)
    BY <1>6
  <2>2. Rule(chosen)[n] \in {Append(chosen[n - 1], cands[n]), chosen[n - 1]}
        /\ (Rule(chosen)[n] # chosen[n - 1] => cands[n] \in good)
    BY <2>1
  <2>3. chosen[n] = Rule(chosen)[n]
    <3> HIDE DEF Rule
    <3> QED
      BY <1>4
  <2> HIDE DEF Rule
  <2>4. Append(chosen[n - 1], cands[n]) \in Seq(good) \/ chosen[n] = chosen[n - 1]
    BY <2>1, <2>2, <2>3
  <2> QED
    BY <2>1, <2>2, <2>3, <2>4
<1>7. Len(cands) \in S
  <2> HIDE DEF S
  <2>1. \A n \in 1..Len(cands) : n - 1 \in S => n \in S
    BY <1>6
  <2>2. \A n \in 0..Len(cands) : n \in S
    BY <1>5, <2>1, CountUp
  <2> QED
    BY <2>2
<1> QED
  BY <1>1, <1>7

-------------------------------------------------------------------------------

(* Both modes are what they are set to.                                    *)
LEMMA ModesAreModes ==
    ASSUME NEW p \in Services, NEW k \in Modes
    PROVE  k \in Keys /\ Effective(p, k, "hard") = "hard"
<1>1. k \in Keys /\ FEATURE_FLAGS[k].type = "enum" /\ FEATURE_FLAGS[k].values = {"off", "soft", "hard"}
  <2>1. /\ PmgKey \in Keys /\ FEATURE_FLAGS[PmgKey].type = "enum"
        /\ FEATURE_FLAGS[PmgKey].values = {"off", "soft", "hard"}
    BY SwitchesAssumption DEF FEATURE_FLAGS, PmgKey, Mode
  <2>2. /\ BreadthKey \in Keys /\ FEATURE_FLAGS[BreadthKey].type = "enum"
        /\ FEATURE_FLAGS[BreadthKey].values = {"off", "soft", "hard"}
    BY SwitchesAssumption DEF FEATURE_FLAGS, BreadthKey, Mode
  <2> QED
    BY <2>1, <2>2 DEF Modes
<1>2. Absent # "hard"
  BY <1>1, SettingsAssumption
<1>3. Coerce(k, "hard") = "hard"
  BY <1>1 DEF Coerce
<1> QED
  BY <1>1, <1>2, <1>3 DEF Effective

(* All settings are old and nothing is cached.                             *)
LEMMA SwitchesStart == Init => SwitchInv
<1> SUFFICES ASSUME Init PROVE SwitchInv
  OBVIOUS
<1>1. Ttl \in Nat /\ Absent \in Raw
  BY SettingsAssumption DEF Raw
<1>2. SwitchTypes
  BY <1>1 DEF Init, SettingsInit, NothingCached, SwitchTypes
<1>3. EntryInv
  BY SwitchesAssumption DEF Init, SettingsInit, NothingCached, EntryInv, Modes
<1>4. ReadInv
  BY DEF Init, SettingsInit, ReadInv
<1> QED
  BY <1>2, <1>3, <1>4 DEF SwitchInv

(* What the trader does with its batch.                                    *)
Trade ==
    \/ \E cands \in Batches : Submit(cands)
    \/ PreMarketSkip \/ PreMarket \/ PreMarketDone \/ BreadthGate \/ EntryGate \/ Book \/ MarketMoves
    \/ PreMarketRaises \/ BreadthGateRaises \/ EntryGateRaises

(* The trader's own steps change its batch only; what a gate keeps of it   *)
(* are candidates of the batch.                                            *)
LEMMA BatchEffect == ASSUME SwitchInv, Trade PROVE SwitchInv'
<1>1. UNCHANGED settingsVars
  BY DEF Trade, Submit, PreMarketSkip, PreMarket, PreMarketDone, BreadthGate, EntryGate, Book, MarketMoves,
         PreMarketRaises, BreadthGateRaises, EntryGateRaises
<1>2. EntryInv' /\ ReadInv'
  BY <1>1 DEF SwitchInv, EntryInv, ReadInv, Outlived, settingsVars
<1> DEFINE Batch == {b \in InHand : b.phase = "premarket" => ~b.raised}
<1>3. batch # Absent => batch \in Batch
  BY DEF SwitchInv, SwitchTypes
<1> USE DEF InHand
<1>4. batch' # Absent => batch' \in Batch
  <2>1. CASE \E cands \in Batches : Submit(cands)
    <3>1. PICK cands \in Batches : Submit(cands)
      BY <2>1
    <3>2. cands \in Seq(Candidates)
      <4>1. cands \in Seq(ToSet(cands)) /\ ToSet(cands) \subseteq Candidates
        BY SwitchesAssumption DEF Candidates
      <4> QED
        BY <4>1
    <3> QED
      BY <3>1, <3>2 DEF Submit, Phases
  <2>2. CASE PreMarketSkip \/ PreMarket
    <3>1. batch \in Batch /\ batch.left # <<>> /\ \E good : batch' = Keeps(batch, Head(batch.left), good)
      BY <1>3, <2>2, Zenon DEF PreMarketSkip, PreMarket
    <3>2. PICK good : batch' = Keeps(batch, Head(batch.left), good)
      BY <3>1
    <3>3. batch.left \in Seq(Candidates) /\ batch.kept \in Seq(Candidates) /\ Head(batch.left) \in Candidates
          /\ Tail(batch.left) \in Seq(Candidates) /\ Append(batch.kept, Head(batch.left)) \in Seq(Candidates)
      BY <3>1
    <3> QED
      BY <3>1, <3>2, <3>3 DEF Keeps
  <2>3. CASE PreMarketDone
    BY <1>3, <2>3 DEF PreMarketDone, Phases
  <2>7. CASE PreMarketRaises \/ BreadthGateRaises \/ EntryGateRaises
    <3>1. batch \in Batch
      BY <1>3, <2>7 DEF PreMarketRaises, BreadthGateRaises, EntryGateRaises
    <3>2. CASE PreMarketRaises
      <4>1. batch' = [batch EXCEPT !.phase = "breadth", !.left = <<>>, !.kept = batch.whole, !.whole = <<>>, !.raised = TRUE]
        BY <3>2 DEF PreMarketRaises
      <4>2. batch.whole \in Seq(Candidates) /\ <<>> \in Seq(Candidates)
        BY <3>1
      <4>3. batch' = [phase |-> "breadth", left |-> <<>>, kept |-> batch.whole, whole |-> <<>>, raised |-> TRUE]
        BY <3>1, <4>1
      <4> QED
        BY <4>2, <4>3 DEF Phases
    <3>3. CASE BreadthGateRaises
      <4>1. batch' = [batch EXCEPT !.phase = "entry", !.raised = TRUE]
        BY <3>3 DEF BreadthGateRaises
      <4> QED
        BY <3>1, <4>1 DEF Phases
    <3>4. CASE EntryGateRaises
      <4>1. batch' = [batch EXCEPT !.phase = "booked", !.raised = TRUE]
        BY <3>4 DEF EntryGateRaises
      <4> QED
        BY <3>1, <4>1 DEF Phases
    <3> QED
      BY <2>7, <3>2, <3>3, <3>4
  <2>4. ASSUME NEW good, batch \in Batch, good \subseteq ToSet(batch.kept)
        PROVE  Pass(good, batch.kept) \in Seq(Candidates)
    <3>1. batch.kept \in Seq(Candidates) /\ good \subseteq Candidates
      BY <2>4 DEF ToSet
    <3>2. Pass(good, batch.kept) \in Seq(good)
      BY <3>1, PassKeepsGood
    <3> QED
      BY <3>1, <3>2
  <2>5. CASE BreadthGate \/ EntryGate
    <3>1. batch \in Batch
      BY <1>3, <2>5 DEF BreadthGate, EntryGate
    <3>2. PICK kept \in Seq(Candidates), phase \in Phases :
             phase # "premarket" /\ batch' = [batch EXCEPT !.phase = phase, !.raised = FALSE, !.kept = kept]
      <4>1. CASE BreadthGate
        <5>1. BreadthKept(cache[Trader][BreadthKey].value, batch.kept) \in Seq(Candidates)
          BY <3>1, <2>4 DEF BreadthKept
        <5> QED
          BY <4>1, <5>1 DEF BreadthGate, Phases
      <4>2. CASE EntryGate
        <5>1. (IF EntryEnv # "hard" THEN batch.kept
               ELSE Pass({c \in ToSet(batch.kept) : Agrees(c, market.composite)}, batch.kept)) \in Seq(Candidates)
          BY <3>1, <2>4
        <5> QED
          BY <4>2, <5>1 DEF EntryGate, Phases
      <4> QED
        BY <2>5, <4>1, <4>2
    <3> QED
      BY <3>1, <3>2
  <2>6. CASE Book \/ MarketMoves
    BY <1>3, <2>6 DEF Book, MarketMoves
  <2> QED
    BY <2>1, <2>2, <2>3, <2>5, <2>6, <2>7 DEF Trade
<1>5. SwitchTypes'
  BY <1>1, <1>4 DEF SwitchInv, SwitchTypes, settingsVars
<1> QED
  BY <1>2, <1>5 DEF SwitchInv

(* A read answers with the stored mode unless it fails; if it fails, it is *)
(* the last that failed.                                                   *)
LEMMA ReadEffect ==
    ASSUME SwitchInv, NEW p \in Services, NEW k \in Keys, NEW fails \in BOOLEAN, ReadFlag(p, k, fails), UNCHANGED batch
    PROVE  SwitchInv'
<1> USE DEF SwitchInv
<1> DEFINE raw == IF fails THEN Absent ELSE stored[k]
           v == Effective(p, k, raw)
<1>1. /\ UNCHANGED <<stored, cache, held>> /\ Ttl \in Nat
      /\ reading' = [reading EXCEPT ![p] = [key |-> k, value |-> v]]
      /\ missed' = [missed EXCEPT ![p][k] = IF fails THEN 0 ELSE @]
  BY SettingsAssumption DEF ReadFlag, flagVars
<1>2. v \in Resolved
  <2>1. raw \in Raw
    BY DEF SwitchTypes, Raw
  <2> QED
    BY <2>1 DEF Resolved
<1>3. stored[k] = "hard" /\ k \in Modes /\ v # "hard" => fails
  BY ModesAreModes
<1> HIDE DEF v, raw
<1>4. /\ missed' \in [Services -> [Keys -> 0..Ttl]]
      /\ fails => missed'[p][k] = 0
      /\ \A q \in Services, j \in Keys : missed'[q][j] <= missed[q][j]
  BY <1>1 DEF SwitchTypes
<1>5. /\ reading' \in [Services -> [key : Keys, value : Resolved] \cup {Absent}]
      /\ reading'[p] = [key |-> k, value |-> v]
      /\ \A q \in Services : q # p => reading'[q] = reading[q]
  BY <1>1, <1>2 DEF SwitchTypes
<1>6. SwitchTypes'
  BY <1>1, <1>4, <1>5 DEF SwitchTypes
<1>7. ASSUME NEW q \in Services, NEW j \in Modes, NEW left \in 0..Ttl, Outlived(q, j, left)
      PROVE  left + held[j] <= Ttl \/ left + missed'[q][j] <= Ttl
  <2>1. j \in Keys
    BY ModesAreModes
  <2>2. missed'[q][j] <= missed[q][j] /\ missed[q][j] \in Nat /\ missed'[q][j] \in Nat
    BY <1>4, <2>1 DEF SwitchTypes
  <2>3. held[j] \in Nat
    BY <2>1 DEF SwitchTypes
  <2> QED
    BY <1>1, <1>7, <2>2, <2>3 DEF Outlived
<1>8. EntryInv'
  <2> SUFFICES ASSUME NEW q \in Services, NEW j \in Modes, stored[j] = "hard", cache[q][j] # Absent,
                      cache[q][j].value # "hard"
               PROVE  cache[q][j].left + held[j] <= Ttl \/ cache[q][j].left + missed'[q][j] <= Ttl
    BY <1>1 DEF EntryInv, Outlived
  <2>1. cache[q][j].left \in 0..Ttl
    BY ModesAreModes DEF SwitchTypes, Entry
  <2>2. Outlived(q, j, cache[q][j].left)
    BY DEF EntryInv
  <2> QED
    BY <1>7, <2>1, <2>2
<1>9. ReadInv'
  <2> SUFFICES ASSUME NEW q \in Services, reading'[q] # Absent, reading'[q].key \in Modes,
                      reading'[q].value # "hard", stored[reading'[q].key] = "hard"
               PROVE  Ttl + held[reading'[q].key] <= Ttl \/ Ttl + missed'[q][reading'[q].key] <= Ttl
    BY <1>1 DEF ReadInv, Outlived
  <2>1. CASE q = p
    <3>1. missed'[p][k] = 0 /\ reading'[q].key = k
      BY <1>3, <1>4, <1>5, <2>1
    <3> QED
      BY <1>1, <2>1, <3>1
  <2>2. CASE q # p
    <3>1. reading'[q] = reading[q] /\ Outlived(q, reading[q].key, Ttl)
      BY <1>5, <2>2 DEF ReadInv
    <3> QED
      BY <1>1, <1>7, <3>1
  <2> QED
    BY <2>1, <2>2
<1> QED
  BY <1>6, <1>8, <1>9

(* What was read becomes an entry with a whole life before it, and no time *)
(* has passed since it was read.                                           *)
LEMMA StoreEffect ==
    ASSUME SwitchInv, NEW p \in Services, StoreFlag(p), UNCHANGED batch
    PROVE  SwitchInv'
<1> USE DEF SwitchInv
<1> DEFINE k == reading[p].key
           e == [value |-> reading[p].value, left |-> Ttl]
<1>1. /\ UNCHANGED <<stored, held, missed>> /\ Ttl \in Nat
      /\ reading[p] # Absent /\ reading' = [reading EXCEPT ![p] = Absent]
      /\ cache' = [cache EXCEPT ![p][k] = e]
  BY SettingsAssumption DEF StoreFlag, flagVars
<1>2. k \in Keys /\ e \in Entry /\ e.left = Ttl /\ e.value = reading[p].value
  BY <1>1 DEF SwitchTypes, Entry
<1>3. k \in Modes /\ stored[k] = "hard" /\ e.value # "hard" => Outlived(p, k, Ttl)
  BY <1>1, <1>2 DEF ReadInv
<1> HIDE DEF k, e
<1>4. /\ cache' \in [Services -> [Keys -> Entry \cup {Absent}]] /\ cache'[p][k] = e
      /\ \A q \in Services, j \in Keys : q # p \/ j # k => cache'[q][j] = cache[q][j]
  BY <1>1, <1>2 DEF SwitchTypes
<1>5. SwitchTypes'
  BY <1>1, <1>4 DEF SwitchTypes
<1>6. EntryInv'
  <2> SUFFICES ASSUME NEW q \in Services, NEW j \in Modes, stored[j] = "hard", cache'[q][j] # Absent,
                      cache'[q][j].value # "hard"
               PROVE  Outlived(q, j, cache'[q][j].left)
    BY <1>1 DEF EntryInv, Outlived
  <2>1. CASE q = p /\ j = k
    BY <1>2, <1>3, <1>4, <2>1
  <2>2. CASE q # p \/ j # k
    <3>1. cache'[q][j] = cache[q][j]
      BY <1>4, <2>2, ModesAreModes
    <3> QED
      BY <3>1 DEF EntryInv
  <2> QED
    BY <2>1, <2>2
<1>7. ReadInv'
  BY <1>1 DEF ReadInv, Outlived, SwitchTypes
<1> QED
  BY <1>5, <1>6, <1>7

(* A row that is changed has not been held at all.                         *)
LEMMA SetEffect ==
    ASSUME SwitchInv, NEW k \in Keys, NEW v \in FEATURE_FLAGS[k].values, SetFlag(k, v), UNCHANGED batch
    PROVE  SwitchInv'
<1> USE DEF SwitchInv
<1>1. /\ UNCHANGED <<cache, reading, missed>> /\ Ttl \in Nat
      /\ stored' = [stored EXCEPT ![k] = v]
      /\ held' = [held EXCEPT ![k] = IF stored[k] = v THEN @ ELSE 0]
  BY SettingsAssumption DEF SetFlag
<1>2. stored' \in [Keys -> Raw] /\ held' \in [Keys -> 0..Ttl]
  BY <1>1 DEF SwitchTypes, Raw
<1>3. SwitchTypes'
  BY <1>1, <1>2 DEF SwitchTypes
<1>4. \A j \in Keys : (stored'[j] = stored[j] /\ held'[j] = held[j]) \/ held'[j] = 0
  BY <1>1 DEF SwitchTypes
<1>5. ASSUME NEW q \in Services, NEW j \in Modes, NEW left \in 0..Ttl, held'[j] = 0
      PROVE  Outlived(q, j, left)'
  BY <1>1, <1>5 DEF Outlived
<1>6. EntryInv'
  <2> SUFFICES ASSUME NEW q \in Services, NEW j \in Modes, stored'[j] = "hard", cache[q][j] # Absent,
                      cache[q][j].value # "hard"
               PROVE  Outlived(q, j, cache[q][j].left)'
    BY <1>1 DEF EntryInv
  <2>1. j \in Keys /\ cache[q][j].left \in 0..Ttl
    BY ModesAreModes DEF SwitchTypes, Entry
  <2>2. CASE held'[j] = 0
    BY <1>1, <2>1, <2>2 DEF Outlived
  <2>3. CASE stored'[j] = stored[j] /\ held'[j] = held[j]
    BY <1>1, <2>3 DEF EntryInv, Outlived
  <2> QED
    BY <1>4, <2>1, <2>2, <2>3
<1>7. ReadInv'
  <2> SUFFICES ASSUME NEW q \in Services, reading[q] # Absent, reading[q].key \in Modes,
                      reading[q].value # "hard", stored'[reading[q].key] = "hard"
               PROVE  Outlived(q, reading[q].key, Ttl)'
    BY <1>1 DEF ReadInv
  <2> DEFINE j == reading[q].key
  <2>1. j \in Keys
    BY ModesAreModes
  <2>2. CASE held'[j] = 0
    BY <1>1, <2>2 DEF Outlived
  <2>3. CASE stored'[j] = stored[j] /\ held'[j] = held[j]
    BY <1>1, <2>3 DEF ReadInv, Outlived
  <2> QED
    BY <1>4, <2>1, <2>2, <2>3
<1> QED
  BY <1>3, <1>6, <1>7

(* A process that is taken down loses its entries and its read.            *)
LEMMA DockerEffect ==
    ASSUME SwitchInv, NEW outcome, Docker(outcome), batch' = batch \/ batch' = Absent
    PROVE  SwitchInv'
<1> USE DEF SwitchInv
<1>1. UNCHANGED <<stored, held, missed>>
  BY DEF Docker, flagVars
<1>2. \/ UNCHANGED <<cache, reading>>
      \/ \E s : cache' = [cache EXCEPT ![s] = NothingCached] /\ reading' = [reading EXCEPT ![s] = Absent]
  BY Zenon DEF Docker, Succeeds, Restarted
<1>3. CASE UNCHANGED <<cache, reading>>
  BY <1>1, <1>3 DEF SwitchTypes, EntryInv, ReadInv, Outlived
<1>4. CASE \E s : cache' = [cache EXCEPT ![s] = NothingCached] /\ reading' = [reading EXCEPT ![s] = Absent]
  <2>1. PICK s : cache' = [cache EXCEPT ![s] = NothingCached] /\ reading' = [reading EXCEPT ![s] = Absent]
    BY <1>4
  <2>2. NothingCached \in [Keys -> Entry \cup {Absent}] /\ \A k \in Keys : NothingCached[k] = Absent
    BY DEF NothingCached
  <2>3. /\ cache' \in [Services -> [Keys -> Entry \cup {Absent}]]
        /\ reading' \in [Services -> [key : Keys, value : Resolved] \cup {Absent}]
        /\ \A q \in Services, k \in Keys : cache'[q][k] \in {cache[q][k], Absent}
        /\ \A q \in Services : reading'[q] \in {reading[q], Absent}
    BY <2>1, <2>2 DEF SwitchTypes
  <2>4. SwitchTypes'
    BY <1>1, <2>3 DEF SwitchTypes
  <2>5. EntryInv'
    BY <1>1, <2>3, ModesAreModes DEF EntryInv, Outlived
  <2>6. ReadInv'
    BY <1>1, <2>3 DEF ReadInv, Outlived
  <2> QED
    BY <2>4, <2>5, <2>6
<1> QED
  BY <1>2, <1>3, <1>4

(* Entries lose a tick where the times since gain one.                     *)
LEMMA TickEffect == ASSUME SwitchInv, Tick, UNCHANGED batch PROVE SwitchInv'
<1> USE DEF SwitchInv
<1>1. /\ UNCHANGED <<stored, reading>> /\ Ttl \in Nat
      /\ \A p \in Services : reading[p] = Absent
      /\ cache' = [p \in Services |-> [k \in Keys |-> Older(cache[p][k])]]
      /\ held' = [k \in Keys |-> IF held[k] < Ttl THEN held[k] + 1 ELSE Ttl]
      /\ missed' = [p \in Services |-> [k \in Keys |-> IF missed[p][k] < Ttl THEN missed[p][k] + 1 ELSE Ttl]]
  BY SettingsAssumption DEF Tick, flagVars
<1>2. held' \in [Keys -> 0..Ttl] /\ missed' \in [Services -> [Keys -> 0..Ttl]]
  BY <1>1 DEF SwitchTypes
<1>3. ASSUME NEW e \in Entry \cup {Absent}
      PROVE  /\ Older(e) \in Entry \cup {Absent}
             /\ Older(e) # Absent => /\ e # Absent /\ e.left \in 0..Ttl /\ Older(e).value = e.value
                                     /\ Older(e).left = IF e.left = 0 THEN 0 ELSE e.left - 1
  <2>1. CASE e = Absent
    BY <2>1 DEF Older
  <2>2. CASE e # Absent
    <3>1. e \in Entry /\ e.left \in 0..Ttl
      BY <2>2 DEF Entry
    <3>2. CASE e.left = 0
      BY <2>2, <3>1, <3>2 DEF Older
    <3>3. CASE e.left # 0
      <4> DEFINE young == [e EXCEPT !.left = @ - 1]
      <4>1. young \in Entry /\ young.left = e.left - 1 /\ young.value = e.value
        <5>1. e.left - 1 \in 0..Ttl
          <6>1. Ttl \in Nat
            BY <1>1
          <6> QED
            BY <3>1, <3>3, <6>1
        <5>2. e = [value |-> e.value, left |-> e.left] /\ e.value \in Resolved
          BY <3>1 DEF Entry
        <5>3. young = [value |-> e.value, left |-> e.left - 1]
          BY <5>2
        <5> QED
          BY <5>1, <5>2, <5>3 DEF Entry
      <4>2. Older(e) = young
        BY <2>2, <3>3 DEF Older
      <4> HIDE DEF young
      <4> QED
        BY <2>2, <3>1, <3>3, <4>1, <4>2
    <3> QED
      BY <3>2, <3>3
  <2> QED
    BY <2>1, <2>2
<1>4. SwitchTypes'
  <2>1. cache' \in [Services -> [Keys -> Entry \cup {Absent}]]
    BY <1>1, <1>3 DEF SwitchTypes
  <2> QED
    BY <1>1, <1>2, <2>1 DEF SwitchTypes
<1>5. EntryInv'
  <2> SUFFICES ASSUME NEW p \in Services, NEW k \in Modes, stored[k] = "hard", cache'[p][k] # Absent,
                      cache'[p][k].value # "hard"
               PROVE  cache'[p][k].left + held'[k] <= Ttl \/ cache'[p][k].left + missed'[p][k] <= Ttl
    BY <1>1 DEF EntryInv, Outlived
  <2> DEFINE e == cache[p][k]
  <2>1. k \in Keys /\ e \in Entry \cup {Absent} /\ cache'[p][k] = Older(e)
    BY <1>1, ModesAreModes DEF SwitchTypes
  <2>2. /\ e # Absent /\ e.left \in 0..Ttl /\ e.value # "hard"
        /\ cache'[p][k].left = IF e.left = 0 THEN 0 ELSE e.left - 1
    BY <1>3, <2>1
  <2>3. e.left + held[k] <= Ttl \/ e.left + missed[p][k] <= Ttl
    BY <2>2 DEF EntryInv, Outlived
  <2>4. /\ held[k] \in 0..Ttl /\ missed[p][k] \in 0..Ttl
        /\ held'[k] = IF held[k] < Ttl THEN held[k] + 1 ELSE Ttl
        /\ missed'[p][k] = IF missed[p][k] < Ttl THEN missed[p][k] + 1 ELSE Ttl
    BY <1>1, <2>1 DEF SwitchTypes
  <2> HIDE DEF e
  <2> QED
    BY <1>1, <2>2, <2>3, <2>4
<1>6. ReadInv'
  BY <1>1 DEF ReadInv
<1> QED
  BY <1>4, <1>5, <1>6

(* Every step keeps the invariant.                                         *)
LEMMA SwitchesNext == ASSUME SwitchInv, [Next]_vars PROVE SwitchInv'
<1>1. CASE Trade
  BY <1>1, BatchEffect
<1>2. CASE Resolve /\ UNCHANGED switchVars
  <2>1. CASE \E fails \in BOOLEAN : ReadFlag(Trader, Wanted, fails)
    <3>1. Wanted \in Keys /\ Trader \in Services /\ UNCHANGED batch
      BY <1>2, SwitchesAssumption DEF Wanted, switchVars
    <3> QED
      BY <2>1, <3>1, ReadEffect
  <2>2. CASE StoreFlag(Trader)
    <3>1. Trader \in Services /\ UNCHANGED batch
      BY <1>2, SwitchesAssumption DEF switchVars
    <3> QED
      BY <2>2, <3>1, StoreEffect
  <2> QED
    BY <1>2, <2>1, <2>2 DEF Resolve
<1>3. CASE Operate
  <2>1. CASE \E k \in Keys : \E v \in FEATURE_FLAGS[k].values : SetFlag(k, v) /\ UNCHANGED batch
    BY <2>1, SetEffect
  <2>2. CASE \E action, list : AskDocker(action, list) /\ UNCHANGED batch
    BY <2>2 DEF AskDocker, flagVars, SwitchInv, SwitchTypes, EntryInv, ReadInv, Outlived
  <2>3. CASE \E outcome : Docker(outcome) /\ (batch' = batch \/ batch' = Absent)
    BY <2>3, DockerEffect
  <2> QED
    BY <1>3, <2>1, <2>2, <2>3 DEF Operate
<1>4. CASE Tick /\ UNCHANGED switchVars
  BY <1>4, TickEffect DEF switchVars
<1>5. CASE UNCHANGED vars
  BY <1>5 DEF vars, SwitchInv, SwitchTypes, EntryInv, ReadInv, Outlived
<1> QED
  BY <1>1, <1>2, <1>3, <1>4, <1>5 DEF Next, Trade

(* At every moment an entry that disagrees with a mode that is set to      *)
(* "hard" is about to expire: it has no more left than the time since the  *)
(* mode was set, or since a read failed, leaves of a whole life.           *)
THEOREM SwitchesHold == Spec => []SwitchInv
<1>1. Init => SwitchInv
  BY SwitchesStart
<1>2. SwitchInv /\ [Next]_vars => SwitchInv'
  BY SwitchesNext
<1> QED
  BY <1>1, <1>2, PTL DEF Spec

(* Once a mode has been "hard" for a whole life of an entry, and no read   *)
(* has failed meanwhile, every entry that still serves says so.            *)
LEMMA SettledModeIsRead ==
    ASSUME SwitchInv, NEW k \in Modes, Settled(k), Hit(Trader, k)
    PROVE  cache[Trader][k].value = "hard"
<1>1. k \in Keys /\ Trader \in Services /\ Ttl \in Nat
  BY ModesAreModes, SwitchesAssumption, SettingsAssumption
<1>2. cache[Trader][k] # Absent /\ cache[Trader][k] \in Entry /\ cache[Trader][k].left \in 0..Ttl /\ cache[Trader][k].left > 0
  BY <1>1 DEF Hit, SwitchInv, SwitchTypes, Entry
<1>3. ~Outlived(Trader, k, cache[Trader][k].left)
  BY <1>1, <1>2 DEF Outlived, Settled
<1> QED
  BY <1>1, <1>2, <1>3 DEF SwitchInv, EntryInv, Settled

(* What is kept stays kept; what the pre-market gate adds to it.           *)
LEMMA PreMarketKeeps ==
    ASSUME NEW kept \in Seq(Candidates), NEW c \in Candidates
    PROVE  IsPrefix(kept, kept) /\ IsPrefix(kept, Append(kept, c))
<1>1. SubSeq(Append(kept, c), 1, Len(kept)) = SubSeq(kept, 1, Len(kept))
  OBVIOUS
<1>2. Len(kept) <= Len(kept) /\ Len(kept) <= Len(Append(kept, c))
  OBVIOUS
<1> QED
  BY <1>1, <1>2 DEF IsPrefix

LEMMA PreMarketHolds ==
    ASSUME SwitchInv, PreMarketSkip \/ PreMarket, Settled(PmgKey)
    PROVE  /\ ~batch'.raised /\ IsPrefix(batch.kept, batch'.kept)
           /\ \A i \in DOMAIN batch'.kept \ DOMAIN batch.kept : Passes(batch'.kept[i])
<1> DEFINE c == Head(batch.left)
<1>1. batch \in InHand
  <2>1. batch # Absent
    BY DEF PreMarketSkip, PreMarket
  <2> QED
    BY <2>1 DEF SwitchInv, SwitchTypes
<1>2. PICK good : /\ batch' = Keeps(batch, c, good)
                  /\ good => Passes(c)
  <2>1. CASE PreMarketSkip
    BY <2>1 DEF PreMarketSkip, Passes, Unseen
  <2>2. CASE PreMarket
    <3>1. PmgKey \in Modes /\ Hit(Trader, PmgKey)
      BY <2>2 DEF PreMarket, Modes
    <3>2. cache[Trader][PmgKey].value = "hard"
      BY <3>1, SettledModeIsRead
    <3>3. Evaluate(c, market.snapshot, "hard") => Passes(c)
      BY DEF Evaluate, Passes
    <3> QED
      BY <2>2, <3>2, <3>3 DEF PreMarket
  <2> QED
    BY <2>1, <2>2
<1> HIDE DEF c
<1>3. /\ batch'.kept = (IF good THEN Append(batch.kept, c) ELSE batch.kept) /\ batch.kept \in Seq(Candidates)
      /\ batch'.raised = batch.raised
  BY <1>1, <1>2 DEF Keeps, InHand
<1>4. ~batch'.raised
  <2>1. batch # Absent /\ batch.phase = "premarket"
    BY DEF PreMarketSkip, PreMarket
  <2> QED
    BY <1>3, <2>1 DEF SwitchInv, SwitchTypes
<1>5. c \in Candidates
  <2>1. batch.left \in Seq(Candidates) /\ batch.left # <<>>
    BY <1>1 DEF PreMarketSkip, PreMarket, InHand
  <2> QED
    BY <2>1 DEF c
<1>6. IsPrefix(batch.kept, batch'.kept)
  BY <1>3, <1>5, PreMarketKeeps
<1>7. ASSUME NEW i \in DOMAIN batch'.kept \ DOMAIN batch.kept PROVE Passes(batch'.kept[i])
  <2>1. good /\ batch'.kept = Append(batch.kept, c)
    BY <1>3, <1>7
  <2>2. i = Len(batch.kept) + 1 /\ batch'.kept[i] = c
    BY <1>3, <1>5, <1>7, <2>1
  <2> QED
    BY <1>2, <2>1, <2>2
<1> QED
  BY <1>4, <1>6, <1>7

(* What the breadth gate leaves of the batch.                              *)
LEMMA BreadthHolds ==
    ASSUME SwitchInv, BreadthGate, Settled(BreadthKey)
    PROVE  /\ ~batch'.raised
           /\ \A i \in DOMAIN batch'.kept :
                 IsShort(batch'.kept[i]) \/ ~BreadthBlocks(batch'.kept[i], market.spots, Sector)
<1> DEFINE good == {c \in ToSet(batch.kept) : IsShort(c) \/ ~BreadthBlocks(c, market.spots, Sector)}
<1>1. batch.kept \in Seq(Candidates) /\ batch \in InHand
  BY DEF SwitchInv, SwitchTypes, BreadthGate, InHand
<1>2. cache[Trader][BreadthKey].value = "hard"
  BY SettledModeIsRead DEF BreadthGate, Modes
<1>3. batch'.kept = Pass(good, batch.kept) /\ batch'.raised = FALSE
  BY <1>1, <1>2 DEF BreadthGate, BreadthKept, InHand
<1>4. batch'.kept \in Seq(good)
  BY <1>1, <1>3, PassKeepsGood
<1>5. \A i \in DOMAIN batch'.kept : batch'.kept[i] \in good
  <2> HIDE DEF good
  <2> QED
    BY <1>4
<1> QED
  BY <1>3, <1>5

(* Only the two gates can break the property, and the invariant tells what *)
(* mode they see.                                                          *)
LEMMA GateStep == ASSUME SwitchInv, [Next]_vars PROVE GateHolds
<1> SUFFICES ASSUME batch # Absent, batch' # Absent
             PROVE  GateHolds
  BY DEF GateHolds
<1>1. batch \in InHand /\ (batch.phase = "premarket" => ~batch.raised)
  BY DEF SwitchInv, SwitchTypes
<1>2. CASE PreMarketSkip \/ PreMarket
  <2>1. batch.phase = "premarket"
    BY <1>2 DEF PreMarketSkip, PreMarket
  <2>2. Settled(PmgKey) =>
           /\ ~batch'.raised /\ IsPrefix(batch.kept, batch'.kept)
           /\ \A i \in DOMAIN batch'.kept \ DOMAIN batch.kept : Passes(batch'.kept[i])
    BY <1>2, PreMarketHolds
  <2> QED
    BY <2>1, <2>2 DEF GateHolds
<1>3. CASE BreadthGate
  <2>1. batch.phase = "breadth"
    BY <1>3 DEF BreadthGate
  <2>2. Settled(BreadthKey) =>
           /\ ~batch'.raised
           /\ \A i \in DOMAIN batch'.kept :
                 IsShort(batch'.kept[i]) \/ ~BreadthBlocks(batch'.kept[i], market.spots, Sector)
    BY <1>3, BreadthHolds
  <2> QED
    BY <2>1, <2>2 DEF GateHolds
<1>4. CASE PreMarketDone \/ UNCHANGED batch
  <2>1. batch'.kept = batch.kept /\ batch'.raised = batch.raised /\ batch.kept \in Seq(Candidates)
        /\ (batch.phase = "breadth" => batch'.phase = "breadth")
    BY <1>1, <1>4 DEF PreMarketDone, InHand
  <2>2. IsPrefix(batch.kept, batch.kept)
    BY <2>1, <1>1 DEF IsPrefix
  <2> QED
    BY <1>1, <2>1, <2>2 DEF GateHolds
<1>5. CASE EntryGate \/ EntryGateRaises
  BY <1>5 DEF EntryGate, EntryGateRaises, GateHolds
<1>6. CASE PreMarketRaises
  <2>1. batch.phase = "premarket" /\ batch'.raised /\ batch'.kept = batch.whole
    BY <1>1, <1>6 DEF PreMarketRaises, InHand
  <2> QED
    BY <2>1 DEF GateHolds
<1>7. CASE BreadthGateRaises
  <2>1. batch.phase = "breadth" /\ batch'.raised /\ batch'.kept = batch.kept
    BY <1>1, <1>7 DEF BreadthGateRaises, InHand
  <2> QED
    BY <2>1 DEF GateHolds
<1> QED
  <2>1. ~(\E cands \in Batches : Submit(cands)) /\ ~Book
    BY DEF Submit, Book
  <2>2. MarketMoves \/ (Resolve /\ UNCHANGED switchVars) \/ (Operate /\ UNCHANGED market)
           \/ (Tick /\ UNCHANGED switchVars) \/ UNCHANGED vars => UNCHANGED batch
    BY DEF MarketMoves, switchVars, vars, Operate
  <2> QED
    BY <1>2, <1>3, <1>4, <1>5, <1>6, <1>7, <2>1, <2>2 DEF Next

(* With any life of cached values, any batch and market, and whatever the  *)
(* operator sets, starts and stops, a gate that has been on "hard" for as  *)
(* long as a cached value lives, without a failing read, lets nobody       *)
(* through that it judges badly, unless it raises: then it hands on        *)
(* exactly what came to it.                                                *)
THEOREM HardGatesHold == Spec => HardGateHolds
<1>1. SwitchInv /\ [Next]_vars => [GateHolds]_vars
  BY GateStep
<1> QED
  BY <1>1, SwitchesHold, PTL DEF Spec, HardGateHolds

===============================================================================
