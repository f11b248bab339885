------------------------------ MODULE UpstoxToken ------------------------------
(***************************************************************************)
(* How the containers share one broker token (upstox_token_manager.py).    *)
(* The token lies in a file all of them see; whoever finds none of today   *)
(* takes an exclusive lock and logs in.  A day is told apart at three in   *)
(* the morning: slot 2d is day d before it, slot 2d + 1 the rest of day d. *)
(***************************************************************************)
EXTENDS Integers, FiniteSets

CONSTANTS
    Procs,          \* the processes that load the token
    Free,           \* the lock is not held
    MaxDay,         \* bound: days
    MaxFaults       \* bound: failures and crashes within one slot

ASSUME UpstoxTokenAssumption ==
    /\ Free \notin Procs
    /\ {MaxDay, MaxFaults} \subseteq Nat

VARIABLES
    now,            \* the slot of the clock
    file,           \* the token file
    stamp,          \* fetched_at of the token being saved
    lock,           \* who holds the flock
    pc,             \* where each process is
    logins,         \* logins of this slot, when three o'clock has passed
    faults          \* faults of this slot

tokenVars == <<now, file, stamp, lock, pc, logins, faults>>

Missing == [state |-> "missing", at |-> 0]
Torn == [state |-> "torn", at |-> 0]
Saved(at) == [state |-> "saved", at |-> at]

AfterThree(slot) == slot % 2 = 1

(* _is_token_fresh: fetched after three o'clock of today.  Before three,   *)
(* that moment is still to come.                                           *)
Fresh == file.state = "saved" /\ file.at >= 2 * (now \div 2) + 1

(* Mutant: fetched since three o'clock of yesterday.                       *)
FreshMutant == file.state = "saved" /\ file.at >= 2 * (now \div 2) - 1

TokenInit ==
    /\ now = 0
    /\ file \in {Missing, Torn, Saved(0)} /\ stamp = 0
    /\ lock = Free
    /\ pc = [p \in Procs |-> "start"]
    /\ logins = 0 /\ faults = 0

Goes(p, from, to) == pc[p] = from /\ pc' = [pc EXCEPT ![p] = to]
Fault == faults < MaxFaults /\ faults' = faults + 1

-------------------------------------------------------------------------------
(* load_upstox_token, called by the entry point of a container and by the  *)
(* service in it.                                                          *)

(* The fast path: a plain read, without the lock.  A file that is missing, *)
(* torn or of yesterday leads to the lock.                                 *)
ReadFile(p) ==
    /\ Goes(p, "start", IF Fresh THEN "ready" ELSE "waiting")
    /\ UNCHANGED <<now, file, stamp, lock, logins, faults>>

TakeLock(p) ==
    /\ Goes(p, "waiting", "holding")
    /\ lock = Free /\ lock' = p
    /\ UNCHANGED <<now, file, stamp, logins, faults>>

(* Mutant: the file is not read again under the lock.                      *)
ReadAgainMutant(p) ==
    /\ Goes(p, "holding", "login")
    /\ UNCHANGED <<now, file, stamp, lock, logins, faults>>

(* The file may have been written by a peer while this process waited.     *)
ReadAgain(p) ==
    /\ Goes(p, "holding", IF Fresh THEN "ready" ELSE "login")
    /\ lock' = IF Fresh THEN Free ELSE lock
    /\ UNCHANGED <<now, file, stamp, logins, faults>>

(* get_upstox_access_token: half a minute of browser automation.           *)
LogIn(p) ==
    /\ Goes(p, "login", "saving")
    /\ logins' = IF AfterThree(now) THEN logins + 1 ELSE 0
    /\ UNCHANGED <<now, file, stamp, lock, faults>>

(* The login raises, or answers without a token, which is then saved as    *)
(* one: no reader takes it.  The container goes on and asks again later.   *)
LoginFails(p) ==
    /\ Goes(p, "login", "start")
    /\ Fault
    /\ file' \in {file, Torn}
    /\ lock' = Free
    /\ UNCHANGED <<now, stamp, logins>>

(* save_upstox_token stamps the token, empties the file and fills it.      *)
EmptyFile(p) ==
    /\ Goes(p, "saving", "writing")
    /\ file' = Torn
    /\ stamp' = now
    /\ UNCHANGED <<now, lock, logins, faults>>

(* Mutant: a process that has saved its token keeps the lock.              *)
WriteFileMutant(p) ==
    /\ Goes(p, "writing", "ready")
    /\ file' = Saved(stamp)
    /\ UNCHANGED <<now, stamp, lock, logins, faults>>

WriteFile(p) ==
    /\ Goes(p, "writing", "ready")
    /\ file' = Saved(stamp)
    /\ lock' = Free
    /\ UNCHANGED <<now, stamp, logins, faults>>

(* A save that fails is logged only: this process has its token, the       *)
(* others find none.                                                       *)
SaveFails(p) ==
    /\ pc[p] \in {"saving", "writing"}
    /\ pc' = [pc EXCEPT ![p] = "ready"]
    /\ Fault
    /\ lock' = Free
    /\ UNCHANGED <<now, file, stamp, logins>>

-------------------------------------------------------------------------------
(* A service loads the token again when it is restarted or reconnects; one *)
(* that is killed loses its lock, and is restarted.                        *)

LoadAgain(p) ==
    /\ Goes(p, "ready", "start")
    /\ UNCHANGED <<now, file, stamp, lock, logins, faults>>

Crash(p) ==
    /\ pc[p] # "start"
    /\ pc' = [pc EXCEPT ![p] = "start"]
    /\ Fault
    /\ lock' = IF lock = p THEN Free ELSE lock
    /\ UNCHANGED <<now, file, stamp, logins>>

TimePasses ==
    /\ now < 2 * MaxDay + 1
    /\ now' = now + 1
    /\ logins' = 0 /\ faults' = 0
    /\ UNCHANGED <<file, stamp, lock, pc>>

Load(p) == ReadFile(p) \/ TakeLock(p) \/ ReadAgain(p) \/ LogIn(p) \/ EmptyFile(p) \/ WriteFile(p)
GoesWrong(p) == LoginFails(p) \/ SaveFails(p) \/ LoadAgain(p) \/ Crash(p)

TokenNext == TimePasses \/ \E p \in Procs : Load(p) \/ GoesWrong(p)

(* A process that can go on does, and time passes; nothing is assumed of   *)
(* the order in which the lock is given to those who wait for it.          *)
TokenFairness == WF_tokenVars(TimePasses) /\ \A p \in Procs : WF_tokenVars(Load(p))

TokenSpec == TokenInit /\ [][TokenNext]_tokenVars /\ TokenFairness

-------------------------------------------------------------------------------
(* Once three o'clock has passed, the containers log in once between them; *)
(* a further login takes a fault, and two never run at the same time.      *)
LoginsAreShared ==
    /\ AfterThree(now) => logins <= 1 + faults
    /\ Cardinality({p \in Procs : pc[p] \in {"login", "saving", "writing"}}) <= 1

(* Every process that asks for the token gets it in the end, however often *)
(* others come back for it and whoever is killed with the lock in hand.    *)
EveryoneGetsAToken == \A p \in Procs : pc[p] # "ready" ~> pc[p] = "ready"

===============================================================================
