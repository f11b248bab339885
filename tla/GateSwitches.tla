----------------------------- MODULE GateSwitches -----------------------------
(***************************************************************************)
(* A trading process takes batches of candidates through the three gates   *)
(* whose judgements MarketGates has, while the operator switches the gates *)
(* at the settings page.  The pre-market gate asks for its mode at every   *)
(* candidate, the breadth gate once per batch, and the entry gate takes    *)
(* its mode from the environment only.  A gate that raises lets everything *)
(* through that came to it (fail-open), with an alert, one a day.          *)
(***************************************************************************)
EXTENDS Settings, MarketGates, SequencesExt

CONSTANTS
    Trader,         \* the service that books
    PreMarketEnv,   \* pre_market_gate_config.GATE_MODE
    EntryEnv,       \* entry_gate_config.GATE_MODE
    Batches,        \* sequences of candidates
    Markets,        \* [snapshot, spots, composite]: what the gates may find in the databases
    Sector          \* name -> industry or None

PmgKey == "PMG_GATE_MODE"
BreadthKey == "BREADTH_GATE_MODE"

ASSUME SwitchesAssumption ==
    /\ {PmgKey, BreadthKey} \subseteq Keys /\ Trader \in Services
    /\ \A cands \in Batches : cands \in Seq(ToSet(cands))

VARIABLES
    batch,      \* [phase, left, kept, whole, raised], or Absent
    market      \* what the databases hold

switchVars == <<batch, market>>
vars == <<stored, cache, reading, running, job, ops, held, missed, batch, market>>

Init ==
    /\ SettingsInit
    /\ batch = Absent
    /\ market \in Markets

IsShort(c) == c.dir = "short"

----------------------------------------------------------------------------
(* submit_signals hands the batch to the gates in this order.  A gate that *)
(* the environment has off is not run, whatever the settings page says.    *)
(* whole is what came to the pre-market gate, while it has the batch, and  *)
(* raised whether the last gate handed the batch on because it raised.     *)
Submit(cands) ==
    /\ batch = Absent /\ Trader \in running
    /\ batch' = IF PreMarketEnv = "off"
                THEN [phase |-> "breadth", left |-> <<>>, kept |-> cands, whole |-> <<>>, raised |-> FALSE]
                ELSE [phase |-> "premarket", left |-> cands, kept |-> <<>>, whole |-> cands, raised |-> FALSE]
    /\ UNCHANGED market /\ UNCHANGED settingsVars

Keeps(b, c, good) ==
    [b EXCEPT !.left = Tail(@), !.kept = IF good THEN Append(@, c) ELSE @]

(* One candidate of the pre-market gate.  Sold legs and those that ask for *)
(* it pass unseen.                                                         *)
Unseen(c) == IsShort(c) \/ c.skips

PreMarketSkip ==
    /\ batch # Absent /\ batch.phase = "premarket" /\ batch.left # <<>>
    /\ Unseen(Head(batch.left))
    /\ batch' = Keeps(batch, Head(batch.left), TRUE)
    /\ UNCHANGED market /\ UNCHANGED settingsVars

PreMarket ==
    /\ batch # Absent /\ batch.phase = "premarket" /\ batch.left # <<>>
    /\ ~Unseen(Head(batch.left))
    /\ Hit(Trader, PmgKey)
    /\ batch' = Keeps(batch, Head(batch.left),
                      Evaluate(Head(batch.left), market.snapshot, cache[Trader][PmgKey].value))
    /\ UNCHANGED market /\ UNCHANGED settingsVars

PreMarketDone ==
    /\ batch # Absent /\ batch.phase = "premarket" /\ batch.left = <<>>
    /\ batch' = [batch EXCEPT !.phase = "breadth", !.whole = <<>>]
    /\ UNCHANGED market /\ UNCHANGED settingsVars

(* The count of open trades, before the first candidate, or the judgement  *)
(* of any raises: the batch goes on as it came, with those that were       *)
(* rejected already.                                                       *)
PreMarketRaises ==
    /\ batch # Absent /\ batch.phase = "premarket" /\ batch.left # <<>>
    /\ batch.left = batch.whole \/ ~Unseen(Head(batch.left))
    /\ reading[Trader] = Absent
    /\ batch' = [batch EXCEPT !.phase = "breadth", !.left = <<>>, !.kept = batch.whole, !.whole = <<>>, !.raised = TRUE]
    /\ UNCHANGED market /\ UNCHANGED settingsVars

(* A gate that looks at the whole batch takes one candidate after the      *)
(* other, and kept[n] of the first n.                                      *)
Pass(good, cands) ==
    LET kept[n \in 0..Len(cands)] ==
            IF n = 0 THEN <<>>
            ELSE IF cands[n] \in good THEN Append(kept[n - 1], cands[n]) ELSE kept[n - 1]
    IN  kept[Len(cands)]

(* The breadth gate filters the whole batch against one tape.              *)
BreadthKept(mode, cands) ==
    IF mode # "hard" THEN cands
    ELSE Pass({c \in ToSet(cands) : IsShort(c) \/ ~BreadthBlocks(c, market.spots, Sector)}, cands)

BreadthGate ==
    /\ batch # Absent /\ batch.phase = "breadth"
    /\ Hit(Trader, BreadthKey)
    /\ batch' = [batch EXCEPT !.phase = "entry", !.raised = FALSE,
                              !.kept = BreadthKept(cache[Trader][BreadthKey].value, @)]
    /\ UNCHANGED market /\ UNCHANGED settingsVars

BreadthGateRaises ==
    /\ batch # Absent /\ batch.phase = "breadth" /\ batch.kept # <<>>
    /\ Hit(Trader, BreadthKey) /\ cache[Trader][BreadthKey].value # "off"
    /\ batch' = [batch EXCEPT !.phase = "entry", !.raised = TRUE]
    /\ UNCHANGED market /\ UNCHANGED settingsVars

EntryGate ==
    /\ batch # Absent /\ batch.phase = "entry"
    /\ batch' = [batch EXCEPT !.phase = "booked", !.raised = FALSE,
                   !.kept = IF EntryEnv # "hard" THEN @
                            ELSE Pass({c \in ToSet(@) : Agrees(c, market.composite)}, @)]
    /\ UNCHANGED market /\ UNCHANGED settingsVars

EntryGateRaises ==
    /\ batch # Absent /\ batch.phase = "entry" /\ batch.kept # <<>> /\ EntryEnv = "hard"
    /\ batch' = [batch EXCEPT !.phase = "booked", !.raised = TRUE]
    /\ UNCHANGED market /\ UNCHANGED settingsVars

(* What is kept goes on to the caps and the book.                          *)
Book ==
    /\ batch # Absent /\ batch.phase = "booked"
    /\ batch' = Absent
    /\ UNCHANGED market /\ UNCHANGED settingsVars

(* The collector writes while nothing is judged: a batch is short.         *)
MarketMoves ==
    /\ batch = Absent
    /\ market' \in Markets
    /\ UNCHANGED batch /\ UNCHANGED settingsVars

----------------------------------------------------------------------------
(* The trader resolves the flag its gate asks for.                         *)
Wanted == IF batch.phase = "premarket" THEN PmgKey ELSE BreadthKey

Resolve ==
    \/ \E fails \in BOOLEAN : batch # Absent /\ ReadFlag(Trader, Wanted, fails)
    \/ StoreFlag(Trader)

(* A stopped or restarted trader loses its batch.                          *)
Operate ==
    \/ \E k \in Keys : \E v \in FEATURE_FLAGS[k].values : SetFlag(k, v) /\ UNCHANGED batch
    \/ \E action \in {"start", "stop", "restart", "rebuild"},
          list \in {<<Trader>>, <<Unknown, Trader>>} : AskDocker(action, list) /\ UNCHANGED batch
    \/ \E outcome \in {"ok", "failed", "timeout"} :
          /\ Docker(outcome)
          /\ batch' = IF Head(job.left) = Trader /\ Interrupts(Trader, outcome) THEN Absent ELSE batch

Next ==
    \/ \E cands \in Batches : Submit(cands)
    \/ PreMarketSkip
    \/ PreMarket
    \/ PreMarketDone
    \/ PreMarketRaises
    \/ BreadthGate
    \/ BreadthGateRaises
    \/ EntryGate
    \/ EntryGateRaises
    \/ Book
    \/ MarketMoves
    \/ Resolve /\ UNCHANGED switchVars
    \/ Operate /\ UNCHANGED market
    \/ Tick /\ UNCHANGED switchVars

Spec == Init /\ [][Next]_vars

----------------------------------------------------------------------------
(* A gate whose switch has been on "hard" for as long as a cached value    *)
(* lives, and whose reads have not failed meanwhile, lets no candidate     *)
(* through that it judges badly: neither an old value nor one resolved for *)
(* another flag or process decides (resolve_flag, set_flag).  Cached       *)
(* values of a process that was stopped do not come back either.  The      *)
(* exception is a gate that raises, and says so: it hands on all that came *)
(* to it, the pre-market gate with those it had rejected.                  *)
Settled(k) == stored[k] = "hard" /\ held[k] = Ttl /\ missed[Trader][k] = Ttl

Passes(c) ==
    Unseen(c) \/ NormSide(c.side) = None \/ WellPriced(c, market.snapshot)

GateHolds ==
    batch # Absent /\ batch' # Absent =>
       /\ batch.phase = "premarket" /\ Settled(PmgKey) =>
             IF batch'.raised THEN batch'.kept = batch.whole
             ELSE /\ IsPrefix(batch.kept, batch'.kept)
                  /\ \A i \in DOMAIN batch'.kept \ DOMAIN batch.kept : Passes(batch'.kept[i])
       /\ batch.phase = "breadth" /\ batch'.phase = "entry" /\ Settled(BreadthKey) =>
             IF batch'.raised THEN batch'.kept = batch.kept
             ELSE \A i \in DOMAIN batch'.kept :
                     IsShort(batch'.kept[i]) \/ ~BreadthBlocks(batch'.kept[i], market.spots, Sector)

HardGateHolds == [][GateHolds]_vars

===============================================================================
