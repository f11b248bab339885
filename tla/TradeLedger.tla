------------------------------ MODULE TradeLedger ------------------------------
(***************************************************************************)
(* What the paper book promises its readers (the dashboard, the EOD        *)
(* summary, the daily-loss breaker): a ledger that only grows, one entry   *)
(* per trade, in which an entry is open until it is closed once, with one  *)
(* realised result that never changes afterwards.                          *)
(***************************************************************************)
EXTENDS Integers, Sequences

CONSTANT Whys       \* the reasons a trade is closed for

VARIABLE ledger

OpenEntry == [status |-> "open", pnl |-> 0, why |-> "none"]

ClosedEntries == [status : {"closed"}, pnl : Int, why : Whys]

Init == ledger = <<>>

Open == ledger' = Append(ledger, OpenEntry)

Close(i) ==
    /\ ledger[i].status = "open"
    /\ ledger'[i] \in ClosedEntries
    /\ ledger' = [ledger EXCEPT ![i] = ledger'[i]]

Next == Open \/ \E i \in DOMAIN ledger : Close(i)

Spec == Init /\ [][Next]_ledger

===============================================================================
