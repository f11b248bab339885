------------------------------ MODULE EntryGates ------------------------------
(***************************************************************************)
(* The gates of order_manager.py a candidate passes before it may be       *)
(* booked.  A gate maps the candidates, in order, to those it keeps; the   *)
(* candidates already kept count against the caps, so a gate is a loop.    *)
(* A gate that raises returns its input unfiltered (fail-open): the order  *)
(* manager decides when that happens.                                      *)
(***************************************************************************)
EXTENDS PaperBook, SequencesExt

CONSTANTS
    PreMarketMode, PortfolioMode, ExposureMode, BreadthMode, EntryMode,
    MaxSimultaneous,    \* pre_market_gate_config.MAX_SIMULTANEOUS, 0 = unlimited
    MaxSameDirection,   \* PORTFOLIO_MAX_SAME_DIRECTION, 0 = unlimited
    MaxPerSector,       \* PORTFOLIO_MAX_PER_SECTOR, 0 = unlimited
    SectorOf,           \* symbol -> sector, NoSector when unmapped
    NoSector,
    MaxOpenPositions,   \* exposure_config.MAX_OPEN_POSITIONS, 0 = unlimited
    MaxOpenPremium      \* exposure_config.MAX_OPEN_PREMIUM_RUPEES, 0 = unlimited

Modes == {"off", "soft", "hard"}

ASSUME EntryGatesAssumption ==
    /\ {PreMarketMode, PortfolioMode, ExposureMode, BreadthMode, EntryMode} \subseteq Modes
    /\ {MaxSimultaneous, MaxSameDirection, MaxPerSector, MaxOpenPositions, MaxOpenPremium}
          \subseteq Nat

(* Soft and off gates never drop anything.  admitted[kept] are the         *)
(* candidates a hard gate keeps once it has kept kept; keptOf[n] is what   *)
(* it has kept of the first n.                                             *)
Gate(mode, admitted, cands) ==
    LET keptOf[n \in 0..Len(cands)] ==
            IF n = 0 THEN <<>>
            ELSE LET kept == keptOf[n - 1]
                 IN  IF cands[n] \in admitted[kept] THEN Append(kept, cands[n]) ELSE kept
    IN  IF mode # "hard" THEN cands ELSE keptOf[Len(cands)]

Selections(cands) == Seq(ToSet(cands))

IsShort(s) == s.dir = "short"

(* _apply_pre_market_gate: sold legs skip the buyer's quality filter and   *)
(* the position cap, but count against it.  good are the candidates whose  *)
(* IV rank, IV/HV, distance and PCR pass.  The row flag that bypasses the  *)
(* gate, which no producer in the repository sets, is in GateSwitches.     *)
PreMarketGate(rows, day, cands, good, enforceCap) ==
    LET openCount == Cardinality(OpenTrades(rows, day))
        Admits(kept, s) ==
            \/ IsShort(s)
            \/ /\ s \in good
               /\ \/ ~enforceCap
                  \/ MaxSimultaneous = 0
                  \/ openCount + Len(kept) < MaxSimultaneous
    IN  Gate(PreMarketMode,
             [kept \in Selections(cands) |-> {s \in ToSet(cands) : Admits(kept, s)}], cands)

(* _apply_breadth_gate: against are the candidates bought into a tape or a *)
(* sector that moves the other way.                                        *)
BreadthGate(cands, against) ==
    Gate(BreadthMode,
         [kept \in Selections(cands) |->
            {s \in ToSet(cands) : IsShort(s) \/ s \notin against}], cands)

(* _apply_entry_gate: agreed are those the composite score agrees with.    *)
EntryGate(cands, agreed) ==
    Gate(EntryMode, [kept \in Selections(cands) |-> agreed], cands)

-------------------------------------------------------------------------------

(* _apply_concentration_gate: open positions of either direction and the   *)
(* long candidates kept so far, per option side and per sector.            *)
SideLoad(rows, day, kept, side) ==
    Cardinality({i \in OpenTrades(rows, day) : rows[i].side = side})
    + Cardinality({k \in DOMAIN kept : ~IsShort(kept[k]) /\ kept[k].side = side})

SectorLoad(rows, day, kept, sector) ==
    Cardinality({i \in OpenTrades(rows, day) : SectorOf[rows[i].sym] = sector})
    + Cardinality({k \in DOMAIN kept : ~IsShort(kept[k]) /\ SectorOf[kept[k].sym] = sector})

(* Mutant: the batch's own candidates are not counted.                     *)
ConcentrationGateMutant(rows, day, cands) ==
    LET Admits(kept, s) ==
            \/ IsShort(s)
            \/ /\ MaxSameDirection # 0 => SideLoad(rows, day, <<>>, s.side) < MaxSameDirection
               /\ MaxPerSector # 0 /\ SectorOf[s.sym] # NoSector
                     => SectorLoad(rows, day, <<>>, SectorOf[s.sym]) < MaxPerSector
    IN  Gate(PortfolioMode,
             [kept \in Selections(cands) |-> {s \in ToSet(cands) : Admits(kept, s)}], cands)

ConcentrationGate(rows, day, cands) ==
    LET Admits(kept, s) ==
            \/ IsShort(s)
            \/ /\ MaxSameDirection # 0 => SideLoad(rows, day, kept, s.side) < MaxSameDirection
               /\ MaxPerSector # 0 /\ SectorOf[s.sym] # NoSector
                     => SectorLoad(rows, day, kept, SectorOf[s.sym]) < MaxPerSector
    IN  Gate(PortfolioMode,
             [kept \in Selections(cands) |-> {s \in ToSet(cands) : Admits(kept, s)}], cands)

(* _apply_exposure_gate: the raw size of the whole book, in legs and in    *)
(* deployed premium; sold legs count too.                                  *)
PremiumOf(kept) == Total([k \in DOMAIN kept |-> kept[k].entry])

ExposureGate(rows, day, cands) ==
    LET Admits(kept, s) ==
            /\ MaxOpenPositions # 0
                  => Cardinality(OpenTrades(rows, day)) + Len(kept) < MaxOpenPositions
            /\ MaxOpenPremium # 0
                  => OpenPremium(rows, day) + PremiumOf(kept) + s.entry <= MaxOpenPremium
    IN  Gate(ExposureMode,
             [kept \in Selections(cands) |-> {s \in ToSet(cands) : Admits(kept, s)}], cands)

===============================================================================
