---------------------------- MODULE MCOrderManager ----------------------------
(***************************************************************************)
(* Small instances of OrderManager.  Two underlyings in one sector; calls  *)
(* bought at two strikes, a put, a hedge leg that makes a debit spread,    *)
(* and the two written legs of a strangle.  The premium grid has a level   *)
(* beyond the stop, one between the levels and one beyond the target of    *)
(* every plan.                                                             *)
(***************************************************************************)
EXTENDS OrderManager

Signal(sym, side, strike, dir, entry, sl, t1) ==
    [sym |-> sym, side |-> side, strike |-> strike, dir |-> dir, entry |-> entry,
     sl |-> sl, t1 |-> t1, ownLimits |-> FALSE]

CallA  == Signal("A", "CE", 100, "long", 40, 20, 80)
CallA2 == Signal("A", "CE", 110, "long", 40, 20, 80)
PutA   == Signal("A", "PE", 100, "long", 10, 5, 30)
PutA2  == Signal("A", "PE", 90, "long", 10, 5, 30)
PutB   == Signal("B", "PE", 100, "long", 10, 5, 30)
CallB  == Signal("B", "CE", 100, "long", 40, 20, 80)
HedgeA == Signal("A", "CE", 150, "short", 20, 60, 5)
HedgeB == Signal("B", "CE", 150, "short", 20, 60, 5)
SoldCE == Signal("A", "CE", 150, "short", 40, 60, 15)
SoldPE == Signal("A", "PE", 50, "short", 40, 60, 15)

MCSectorOf == [sym \in {"A", "B"} |-> "Sector"]

None == {}
OneCall == {CallA}
MixedSignals == {CallA, CallB}
MixedBatches == {<<CallA, CallB>>, <<PutA, PutA2, PutB>>}
SpreadBatches == {<<CallA>>}
SpreadA == {<<CallA, HedgeA>>}
StrangleA == {<<SoldCE, SoldPE>>}

===============================================================================
