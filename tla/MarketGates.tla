------------------------------ MODULE MarketGates ------------------------------
(***************************************************************************)
(* What the pre-market gate, the breadth gate and the composite entry gate *)
(* think of one candidate.  Volatilities and prices are integers; ratios   *)
(* are in thousandths and breadth is in per cent.  A datum the candidate   *)
(* or the database lacks is None.                                          *)
(***************************************************************************)
EXTENDS Integers, FiniteSets, FiniteSetsExt

CONSTANTS
    None,
    MaxIvr, MaxIvHv, MaxOtm,            \* pre_market_gate_config: per cent, thousandths, thousandths
    MinPcrCE, MaxPcrPE,                 \* thousandths
    SkipMissing,                        \* the two SKIP_..._IF_MISSING and PCR_FAIL_OPEN
    MinMove,                            \* breadth_config.MIN_MOVE_PCT in thousandths of the price
    MinTotalNames, MinBreadthCE, MaxBreadthPE,
    SectorEnabled, SectorMinNames, MinSectorCE, MaxSectorPE,
    MinGateScore, AllowIfNoComposite    \* entry_gate_config

ASSUME MarketGatesAssumption ==
    /\ {MaxIvr, MaxIvHv, MaxOtm, MinPcrCE, MaxPcrPE, MinMove, MinTotalNames, MinBreadthCE,
        MaxBreadthPE, SectorMinNames, MinSectorCE, MaxSectorPE, MinGateScore} \subseteq Nat
    /\ {SkipMissing, SectorEnabled, AllowIfNoComposite} \subseteq BOOLEAN

NormSide(raw) ==
    CASE raw \in {"CE", "CALL", "C"} -> "CE"
      [] raw \in {"PE", "PUT", "P"} -> "PE"
      [] OTHER -> None

(* x / y in thousandths, rounded to the nearest.                           *)
Ratio(x, y) == (2000 * x + y) \div (2 * y)

----------------------------------------------------------------------------
(* The quality checks of pre_market_gate.evaluate.                         *)

CheapOnHistory(c) == IF c.rank = None THEN SkipMissing ELSE c.rank <= MaxIvr

CheapOnRealised(c) ==
    IF c.iv = None \/ c.hv = None \/ c.hv = 0 THEN SkipMissing
    ELSE Ratio(c.iv, c.hv) <= MaxIvHv

OtmPct(side, spot, strike) ==
    Max({0, IF side = "CE" THEN strike - spot ELSE spot - strike}) * 1000

Reachable(c) ==
    \/ None \in {c.spot, c.strike}
    \/ /\ c.spot > 0 /\ c.strike > 0
       /\ OtmPct(NormSide(c.side), c.spot, c.strike) <= MaxOtm * c.spot

(* _get_pcr: from the latest snapshot of the underlying, None without one  *)
(* and without call interest.                                              *)
Pcr(snapshot) ==
    IF snapshot = None THEN None
    ELSE IF snapshot.callOi = 0 THEN None ELSE Ratio(snapshot.putOi, snapshot.callOi)

Backed(c, snapshot) ==
    LET pcr == Pcr(snapshot)
    IN  IF pcr = None THEN SkipMissing
        ELSE IF NormSide(c.side) = "CE" THEN pcr >= MinPcrCE ELSE pcr <= MaxPcrPE

WellPriced(c, snapshot) ==
    CheapOnHistory(c) /\ CheapOnRealised(c) /\ Reachable(c) /\ Backed(c, snapshot)

(* evaluate without the position cap: an unknown side and a gate that is   *)
(* off or soft let everything pass.                                        *)
Evaluate(c, snapshot, mode) ==
    \/ NormSide(c.side) = None
    \/ mode \in {"off", "soft"}
    \/ WellPriced(c, snapshot)

----------------------------------------------------------------------------
(* Breadth of the tape, from the spots of the latest day that has any.     *)
(* A spot is [name, day, at, price]; sector maps a name to its industry or *)
(* to None.                                                                *)

SpotsOfDay(spots) ==
    {s \in spots : s.price > 0 /\ s.day = Max({t.day : t \in spots})}

Names(tape) == {s.name : s \in tape}

SpotAt(tape, name, pick(_)) ==
    (CHOOSE s \in tape : s.name = name /\ s.at = pick({t.at : t \in {u \in tape : u.name = name}})).price

Classify(first, last) ==
    IF (last - first) * 1000 >= MinMove * first THEN 1
    ELSE IF (first - last) * 1000 >= MinMove * first THEN -1 ELSE 0

Movers(tape, names, way) ==
    {n \in names : Classify(SpotAt(tape, n, Min), SpotAt(tape, n, Max)) = way}

Breadth(tape, names) ==
    [adv |-> Cardinality(Movers(tape, names, 1)), dec |-> Cardinality(Movers(tape, names, -1)),
     n |-> Cardinality(names)]

Against(side, b, minCE, maxPE) ==
    IF side = "CE" THEN 100 * b.adv < minCE * (b.adv + b.dec)
                   ELSE 100 * b.adv > maxPE * (b.adv + b.dec)

(* compute and breadth_blocks; a side that is not a call counts as a put.  *)
BreadthBlocks(c, spots, sector) ==
    LET tape   == SpotsOfDay(spots)
        side   == IF c.side \in {"CE", "CALL"} THEN "CE" ELSE "PE"
        market == Breadth(tape, Names(tape))
        own    == Breadth(tape, {n \in Names(tape) : sector[n] = sector[c.name]})
    IN  /\ spots # {}
        /\ market.adv + market.dec >= Max({MinTotalNames, 1})
        /\ \/ Against(side, market, MinBreadthCE, MaxBreadthPE)
           \/ /\ SectorEnabled /\ c.name \in Names(tape) /\ sector[c.name] # None
              /\ own.adv + own.dec > 0 /\ own.n >= SectorMinNames
              /\ Against(side, own, MinSectorCE, MaxSectorPE)

----------------------------------------------------------------------------
(* entry_gate.evaluate in its hard mode.  A composite without a direction  *)
(* agrees with both sides.                                                 *)
Agrees(c, composite) ==
    IF composite = None THEN AllowIfNoComposite
    ELSE /\ composite.grade # "WEAK"
         /\ composite.score >= MinGateScore
         /\ NormSide(c.side) # None => composite.direction \in {None, NormSide(c.side)}

===============================================================================
