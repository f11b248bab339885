------------------------------ MODULE PaperTrade ------------------------------
(***************************************************************************)
(* One paper trade from entry to exit: the monitor feeds it every price it *)
(* can observe, in any order, and at some point may force the square-off.  *)
(***************************************************************************)
EXTENDS ExitEngine

CONSTANTS
    Plans,      \* entry plans a strategy can submit: [dir, entry, sl, t1]
    Premiums      \* premiums the monitor can observe

(* Every strategy places the stop and the target on opposite sides of a    *)
(* positive entry premium, and a premium of zero counts as "no quote".     *)
ASSUME PaperTradeAssumption ==
    /\ Plans \subseteq [dir : Directions, entry : Nat \ {0}, sl : Nat, t1 : Nat]
    /\ \A plan \in Plans :
          IF plan.dir = "short" THEN plan.t1 < plan.entry /\ plan.entry < plan.sl
                                ELSE plan.sl < plan.entry /\ plan.entry < plan.t1
    /\ Premiums \subseteq Nat \ {0}

VARIABLE trade

tradeVars == <<trade>>

TradeInit == \E plan \in Plans : trade = NewTrade(plan)

Tick(p) == trade' = ApplyTick(trade, p, FALSE)

SquareOff(p) == trade' = ApplyTick(trade, p, TRUE)

TradeNext == \E p \in Premiums : Tick(p) \/ SquareOff(p)

TradeSpec == TradeInit /\ [][TradeNext]_tradeVars

-------------------------------------------------------------------------------

TradeTypeOK == trade \in Trades

(* While a trade is open its last observed premium lies strictly between   *)
(* its stop, wherever the trailing ratchet has moved it, and its target:   *)
(* apply_tick never leaves a position open at a price that should have     *)
(* closed it.                                                              *)
OpenBetweenLevels ==
    trade.status = "open" =>
        IF trade.dir = "short" THEN trade.t1 < trade.last /\ trade.last < trade.sl
                               ELSE trade.sl < trade.last /\ trade.last < trade.t1

(* Once the best premium seen has armed the trailing stop, the stop of the *)
(* open trade is at least as tight as the giveback level of that best      *)
(* premium: a profit once reached is never left unprotected                *)
(* (_apply_trailing).                                                      *)
ArmedStopFollowsPeak ==
    /\ TrailingEnabled
    /\ trade.status = "open"
    /\ Armed(trade)
    /\ trade.peak # trade.entry
    => IF trade.dir = "short" THEN trade.sl <= RatchetLevel(trade)
                              ELSE trade.sl >= RatchetLevel(trade)

(* What a closed trade has booked is what its exit reason promises: a stop *)
(* never books better than its level nor better than the premium that hit  *)
(* it, a target books exactly its level even when the premium gapped       *)
(* beyond, a square-off books the observed premium.  Nothing stays open    *)
(* and nothing is booked twice.                                            *)
BookedMatchesReason ==
    trade.status = "closed" =>
        /\ trade.qty = 0
        /\ trade.realized = trade.booked - ExitCost
        /\ trade.reason \in {"SL", "Target", "Time 15:20"}
        /\ trade.reason = "SL" => /\ trade.booked <= Points(trade, trade.sl)
                                  /\ trade.booked <= Points(trade, trade.last)
        /\ trade.reason = "Target" => trade.booked = Points(trade, trade.t1)
        /\ trade.reason = "Time 15:20" => trade.booked = Points(trade, trade.last)

(* No tick ever loosens a stop, and no ratchet carries it past the target. *)
StopOnlyTightens ==
    [][ IF trade.dir = "short" THEN trade'.sl <= trade.sl /\ trade'.sl >= trade.t1
                               ELSE trade'.sl >= trade.sl /\ trade'.sl <= trade.t1 ]_tradeVars

(* A finalised trade is never touched again: later ticks neither re-book   *)
(* nor re-open it.                                                         *)
ClosedForGood == [][ trade.status = "open" ]_tradeVars

===============================================================================
