------------------------------ MODULE ExitEngine ------------------------------
(***************************************************************************)
(* The pure exit state machine of paper_trader.py: what one observed       *)
(* option price does to one paper trade (apply_tick), to a two-leg debit   *)
(* spread (apply_combo_tick), and how a position is booked and finalised.  *)
(*                                                                         *)
(* A trade is a record.  Prices are integers in the smallest premium unit  *)
(* the model distinguishes, percentages are integers out of 100.  The code *)
(* closes a position in one piece, so the remaining quantity is 1 or 0.    *)
(* Fees and slippage are one number, ExitCost, charged once at the close.  *)
(***************************************************************************)
EXTENDS Integers

CONSTANTS
    TrailingEnabled,    \* trailing_config.ENABLED
    ActivationPct,      \* trailing_config.ACTIVATION_PCT
    GivebackPct,        \* trailing_config.GIVEBACK_PCT
    SpreadSlPct,        \* hedge_config.SPREAD_SL_PCT
    SpreadTargetPct,    \* hedge_config.SPREAD_TARGET_CAPTURE_PCT
    ExitCost            \* slippage plus fees charged by _finalize

ASSUME ExitEngineAssumption ==
    /\ TrailingEnabled \in BOOLEAN
    /\ ActivationPct \in Nat
    /\ GivebackPct \in Nat
    /\ SpreadSlPct \in Nat
    /\ SpreadTargetPct \in Nat
    /\ ExitCost \in Nat

Directions == {"long", "short"}
Statuses   == {"open", "closed"}
Reasons    == {"none", "SL", "Target", "Time 15:20", "SPREAD_SL", "SPREAD_TARGET",
               "Daily-loss breaker", "Risk exit"}

Lesser(a, b)  == IF a <= b THEN a ELSE b
Greater(a, b) == IF a >= b THEN a ELSE b

(* The fields every trade carries: the plan fixed at entry and the runtime *)
(* fields that new_trade_runtime initialises and save_runtime persists.    *)
Trades ==
    [dir : Directions, entry : Int, sl : Int, t1 : Int, peak : Int,
     status : Statuses, qty : {0, 1}, booked : Int, last : Int,
     reason : Reasons, realized : Int]

NewTrade(plan) ==
    [dir |-> plan.dir, entry |-> plan.entry, sl |-> plan.sl, t1 |-> plan.t1,
     peak |-> plan.entry, status |-> "open", qty |-> 1, booked |-> 0,
     last |-> plan.entry, reason |-> "none", realized |-> 0]

-------------------------------------------------------------------------------

(* Premium points earned by one unit of trade t marked at price p: a short *)
(* position earns when the premium falls.                                  *)
Points(t, p) == IF t.dir = "short" THEN t.entry - p ELSE p - t.entry

Book(t, frac, p) ==
    LET f == Lesser(frac, t.qty)
    IN  IF f <= 0 THEN t
        ELSE [t EXCEPT !.booked = t.booked + f * Points(t, p),
                       !.qty    = Greater(t.qty - f, 0)]

Finalize(t, why) ==
    [t EXCEPT !.status = "closed", !.reason = why, !.realized = t.booked - ExitCost]

-------------------------------------------------------------------------------

(* Trailing stop: follow the best price seen, and once the trade is up     *)
(* ActivationPct on premium pull the stop to within GivebackPct of it.     *)
BestPrice(t, p) == IF t.dir = "short" THEN Lesser(t.peak, p) ELSE Greater(t.peak, p)

Armed(t) == Points(t, t.peak) * 100 >= ActivationPct * t.entry

Giveback(t) ==
    ((IF t.peak >= t.entry THEN t.peak - t.entry ELSE t.entry - t.peak)
        * GivebackPct) \div 100

RatchetLevel(t) ==
    IF t.dir = "short" THEN Greater(t.peak + Giveback(t), t.t1)
                       ELSE Lesser(t.peak - Giveback(t), t.t1)

(* Mutant: the ratchet of a long trade takes the looser of the two levels. *)
RatchetStopMutant(t) ==
    IF t.dir = "short" THEN Lesser(t.sl, RatchetLevel(t))
                       ELSE Lesser(t.sl, RatchetLevel(t))

RatchetStop(t) ==
    IF t.dir = "short" THEN Lesser(t.sl, RatchetLevel(t))
                       ELSE Greater(t.sl, RatchetLevel(t))

(* Mutant: a stop trailing the last price instead of the best one.         *)
ApplyTrailingMutant(t, p) ==
    LET seen == [t EXCEPT !.peak = p]
    IN  IF ~TrailingEnabled \/ t.entry = 0 THEN t
        ELSE IF Armed(seen) THEN [seen EXCEPT !.sl = RatchetLevel(seen)]
        ELSE seen

ApplyTrailing(t, p) ==
    LET seen == [t EXCEPT !.peak = BestPrice(t, p)]
    IN  IF ~TrailingEnabled \/ t.entry = 0 THEN t
        ELSE IF Armed(seen) THEN [seen EXCEPT !.sl = RatchetStop(seen)]
        ELSE seen

-------------------------------------------------------------------------------

(* Mutant: a stop compared strictly, missed when touched exactly.          *)
SlHitMutant(t, p) == IF t.dir = "short" THEN p > t.sl ELSE p < t.sl

SlHit(t, p)     == IF t.dir = "short" THEN p >= t.sl ELSE p <= t.sl
TargetHit(t, p) == IF t.dir = "short" THEN p <= t.t1 ELSE p >= t.t1

(* Mutant: a gapped stop filled at its level.                              *)
StopFillMutant(t, p) == t.sl

(* A stop that the premium gapped through fills at the gapped price.       *)
StopFill(t, p)  == IF t.dir = "short" THEN Greater(t.sl, p) ELSE Lesser(t.sl, p)

CheckLevels(t, p, squareOff) ==
    IF SlHit(t, p) THEN Finalize(Book(t, 1, StopFill(t, p)), "SL")
    ELSE IF TargetHit(t, p) THEN Finalize(Book(t, 1, t.t1), "Target")
    ELSE IF squareOff THEN Finalize(Book(t, t.qty, p), "Time 15:20")
    ELSE t

ApplyTick(t, p, squareOff) ==
    LET marked == [t EXCEPT !.last = p]
    IN  IF t.status # "open" THEN t
        ELSE IF squareOff THEN CheckLevels(marked, p, TRUE)
        ELSE CheckLevels(ApplyTrailing(marked, p), p, FALSE)

-------------------------------------------------------------------------------

(* A debit spread is judged on its net value: long premium minus short.    *)
(* ComboReason is "none" when the pair is left alone.                      *)
EntryDebit(long, short) == long.entry - short.entry

StrikeWidth(k1, k2) == IF k1 >= k2 THEN k1 - k2 ELSE k2 - k1

ComboReason(long, short, width, lp, sp) ==
    LET debit  == EntryDebit(long, short)
        profit == Greater(width - debit, 0)
    IN  IF long.status # "open" \/ short.status # "open" \/ debit <= 0 THEN "none"
        ELSE IF (lp - sp) * 100 <= debit * (100 - SpreadSlPct) THEN "SPREAD_SL"
        ELSE IF (lp - sp) * 100 >= debit * 100 + profit * SpreadTargetPct
             THEN "SPREAD_TARGET"
        ELSE "none"

(* Both apply_combo_tick and close_position book all that is left of a leg *)
(* at the price they observed and finalise it.                             *)
CloseAt(t, p, why) ==
    LET marked == [t EXCEPT !.last = p]
    IN  Finalize(Book(marked, marked.qty, p), why)

===============================================================================
