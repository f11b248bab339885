----------------------------- MODULE OrderManager -----------------------------
(***************************************************************************)
(* The order manager of order_manager.py over the shared paper book.  Two  *)
(* threads of one process work on the book: the scan thread submits        *)
(* signals and books them (sub), the monitor thread re-prices and closes   *)
(* positions (trk).  Each reads the database into memory, works on its     *)
(* copy and writes back, so that their steps interleave; only rows and     *)
(* live survive a crash of the process.                                    *)
(***************************************************************************)
EXTENDS EntryGates

CONSTANTS
    Signals,        \* signals the strategies can emit
    Batches,        \* candidate lists of one scan, best score first
    Spreads,        \* <<primary, hedge leg>> pairs for submit_with_hedge
    Strangles,      \* <<leg, leg>> pairs sharing one caller-made combo id
    HedgeBatch,     \* a hedge_chain_fetcher is passed to submit_signals
    Prices,         \* premiums a quote can show
    NoQuote, NoSignal,
    MinPremium, MaxRisk, MaxPerDay, MaxPerSymbol,
    DailyLossMode, DailyLossLimit, FlattenOnBreach,
    OiExitMode, SonarExitMode, MaxProfitPct,
    GateMayFail, SaveMayFail, MayCrash,
    MaxRows, MaxDay     \* bounds of the model

ASSUME OrderManagerAssumption ==
    /\ {DailyLossMode, OiExitMode, SonarExitMode} \subseteq Modes
    /\ {MinPremium, MaxRisk, MaxPerDay, MaxPerSymbol, DailyLossLimit, MaxProfitPct}
          \subseteq Nat
    /\ {HedgeBatch, FlattenOnBreach, GateMayFail, SaveMayFail, MayCrash} \subseteq BOOLEAN
    /\ Prices \subseteq Nat \ {0} /\ NoQuote \notin Prices
    /\ MaxRows \in Nat /\ MaxDay \in Nat \ {0}

(* A signal: its contract, the direction of the trade, its premium and     *)
(* levels, and whether its strategy checks premium and risk itself.        *)
SignalRecords ==
    [sym : DOMAIN SectorOf, side : Sides, strike : Nat, dir : Directions,
     entry : Nat, sl : Int, t1 : Int, ownLimits : BOOLEAN]

ASSUME SignalsAreRecords ==
    /\ Signals \subseteq SignalRecords
    /\ Batches \subseteq Seq(SignalRecords)
    /\ Spreads \cup Strangles \subseteq SignalRecords \X SignalRecords

(* submit_with_hedge: "a primary (long) signal" and "the OTM short hedge   *)
(* leg as the second side of a debit spread", of one underlying.           *)
ASSUME SpreadsAreDebitSpreads ==
    \A pair \in Spreads : /\ pair[1].dir = "long" /\ pair[2].dir = "short"
                          /\ pair[1].sym = pair[2].sym

VARIABLES
    rows,           \* the paper_trades table
    live,           \* ids whose option is requested from the live feed
    day, late,      \* the date, and whether no_entry_after has passed
    sub, trk,       \* what the scan thread and the monitor thread are doing
    flattened,      \* _flattened_date, 0 when unset
    lossAlerted     \* _loss_alerted_date, 0 when unset

vars == <<rows, live, day, late, sub, trk, flattened, lossAlerted>>
clock == <<day, late>>
dedup == <<flattened, lossAlerted>>

IdleSub == [pc |-> "idle", path |-> "none", cands |-> <<>>, rest |-> <<>>,
            hedge |-> NoSignal, combo |-> NoCombo]

IdleTrk == [pc |-> "idle", squareOff |-> FALSE, snap |-> <<>>, quote |-> <<>>,
            todo |-> {}, partner |-> {}, pend |-> <<>>]

Init ==
    /\ rows = <<>> /\ live = {}
    /\ day = 1 /\ late = FALSE
    /\ sub = IdleSub /\ trk = IdleTrk
    /\ flattened = 0 /\ lossAlerted = 0

-------------------------------------------------------------------------------
(* The scan thread: submit_signals, submit_external_signal,                *)
(* submit_with_hedge and the two-legged submission of a strangle.          *)

FreshCombo == Len(rows) + 1

Submit(path, cands, rest, combo) ==
    /\ sub.pc = "idle"
    /\ Len(rows) < MaxRows
    /\ sub' = [IdleSub EXCEPT !.pc = "lockout", !.path = path, !.cands = cands,
                              !.rest = rest, !.combo = combo]
    /\ UNCHANGED <<rows, live, clock, trk, dedup>>

SubmitSignals == \E batch \in Batches : Submit("batch", batch, <<>>, NoCombo)

SubmitExternalSignal == \E s \in Signals : Submit("external", <<s>>, <<>>, NoCombo)

SubmitWithHedge ==
    \E pair \in Spreads :
        \/ Submit("hedged", <<pair[1]>>, <<pair[2]>>, FreshCombo)
        \/ Submit("hedged", <<pair[1]>>, <<>>, FreshCombo)

SubmitStrangle ==
    \E pair \in Strangles : Submit("legs", <<pair[1]>>, <<pair[2]>>, FreshCombo)

(* Mutant: the hedge leg is submitted whatever became of its primary.      *)
NextSubmissionMutant(booked) ==
    IF sub.rest # <<>>
    THEN [sub EXCEPT !.pc = "lockout", !.cands = <<Head(sub.rest)>>,
                     !.rest = Tail(sub.rest)]
    ELSE IdleSub

(* Mutant: a second leg that was refused is submitted again.               *)
NextSubmissionRetryMutant(booked) ==
    IF sub.rest # <<>> /\ (sub.path = "legs" \/ booked)
    THEN [sub EXCEPT !.pc = "lockout", !.cands = <<Head(sub.rest)>>]
    ELSE IdleSub

(* After one external signal: the hedge of a spread follows only a booked  *)
(* primary, the second leg of a strangle follows in any case.              *)
NextSubmission(booked) ==
    IF sub.rest # <<>> /\ (sub.path = "legs" \/ booked)
    THEN [sub EXCEPT !.pc = "lockout", !.cands = <<Head(sub.rest)>>,
                     !.rest = Tail(sub.rest)]
    ELSE IdleSub

DailyLossLocked ==
    /\ DailyLossMode = "hard"
    /\ DailyLossLimit > 0
    /\ BookDayPnl(rows, day) <= -DailyLossLimit

(* _daily_loss_locked fails open when it raises.                           *)
CheckLockout ==
    /\ sub.pc = "lockout"
    /\ IF DailyLossLocked
       THEN /\ lossAlerted' = day
            /\ sub' = IF sub.path = "batch" THEN IdleSub ELSE NextSubmission(FALSE)
       ELSE /\ sub' = [sub EXCEPT !.pc = "quality"]
            /\ UNCHANGED lossAlerted
    /\ UNCHANGED <<rows, live, clock, trk, flattened>>

LockoutFails ==
    /\ GateMayFail
    /\ sub.pc = "lockout"
    /\ sub' = [sub EXCEPT !.pc = "quality"]
    /\ UNCHANGED <<rows, live, clock, trk, dedup>>

(* Mutually independent verdicts of the outside world on the candidates;   *)
(* a gate that raises passes its candidates through.  The composite entry  *)
(* gate judges batches only.                                               *)
Raised(gates) == IF GateMayFail THEN SUBSET gates ELSE {{}}

QualityGates ==
    /\ sub.pc = "quality"
    /\ \E good, against, agreed \in SUBSET ToSet(sub.cands),
          raised \in Raised({"pre-market", "breadth", "entry"}) :
          /\ PreMarketMode # "hard" => good = {}
          /\ BreadthMode # "hard" => against = {}
          /\ EntryMode # "hard" \/ sub.path # "batch" => agreed = {}
          /\ LET sound == IF "pre-market" \in raised THEN sub.cands
                          ELSE PreMarketGate(rows, day, sub.cands, good,
                                             sub.path = "batch")
                 withTape == IF "breadth" \in raised THEN sound
                             ELSE BreadthGate(sound, against)
             IN  sub' = [sub EXCEPT !.pc = "concentration",
                                    !.cands = IF sub.path # "batch" \/ "entry" \in raised
                                              THEN withTape ELSE EntryGate(withTape, agreed)]
    /\ UNCHANGED <<rows, live, clock, trk, dedup>>

CheckConcentration ==
    /\ sub.pc = "concentration"
    /\ sub' = [sub EXCEPT !.pc = "exposure",
                          !.cands = ConcentrationGate(rows, day, sub.cands)]
    /\ UNCHANGED <<rows, live, clock, trk, dedup>>

(* process_signals looks at the clock once, before its loop.               *)
AfterGates(cands) ==
    IF sub.path = "batch"
    THEN IF late THEN IdleSub ELSE [sub EXCEPT !.pc = "book", !.cands = cands]
    ELSE IF cands = <<>> THEN NextSubmission(FALSE)
    ELSE [sub EXCEPT !.pc = "book", !.cands = cands]

CheckExposure ==
    /\ sub.pc = "exposure"
    /\ sub' = AfterGates(ExposureGate(rows, day, sub.cands))
    /\ UNCHANGED <<rows, live, clock, trk, dedup>>

GateFails ==
    /\ GateMayFail
    /\ \/ /\ sub.pc = "concentration"
          /\ sub' = [sub EXCEPT !.pc = "exposure"]
       \/ /\ sub.pc = "exposure"
          /\ sub' = AfterGates(sub.cands)
    /\ UNCHANGED <<rows, live, clock, trk, dedup>>

-------------------------------------------------------------------------------
(* Booking: process_signals for a batch, book_signal for the rest.  Only   *)
(* this thread inserts and the columns the checks read are never updated,  *)
(* so the checks and the INSERT are one step.                              *)

RiskRupees(s) ==
    Greater(IF IsShort(s) THEN s.sl - s.entry ELSE s.entry - s.sl, 0)

SymbolFull(s) ==
    MaxPerSymbol # 0 /\ CountSymbolToday(rows, day, s.sym) >= MaxPerSymbol

WithinLimits(s) ==
    /\ s.entry >= MinPremium
    /\ MaxRisk # 0 => RiskRupees(s) <= MaxRisk

(* The guards that process_signals and book_signal share.                  *)
Bookable(s) ==
    /\ ~HasTradeToday(rows, day, s)
    /\ ~SymbolFull(s)
    /\ WithinLimits(s) \/ (s.ownLimits /\ sub.path # "batch")

BookSignal ==
    /\ sub.pc = "book" /\ sub.path # "batch"
    /\ LET s == Head(sub.cands)
       IN  IF ~late /\ Bookable(s)
           THEN /\ rows' = OpenTrade(rows, s, sub.combo, day)
                /\ sub' = [sub EXCEPT !.pc = "subscribe"]
           ELSE /\ sub' = NextSubmission(FALSE)
                /\ UNCHANGED rows
    /\ UNCHANGED <<live, clock, trk, dedup>>

BatchOver ==
    \/ sub.cands = <<>>
    \/ MaxPerDay # 0 /\ CountToday(rows, day) >= MaxPerDay

EndBatch ==
    /\ sub.pc = "book" /\ sub.path = "batch"
    /\ BatchOver
    /\ sub' = IdleSub
    /\ UNCHANGED <<rows, live, clock, trk, dedup>>

(* find_hedge_leg may come back with a leg for the primary s, or without.  *)
HedgesFor(s) ==
    IF HedgeBatch THEN {pair[2] : pair \in {q \in Spreads : q[1] = s}} \cup {NoSignal}
                  ELSE {NoSignal}

(* Sonar may veto any candidate of a batch; the hedge leg is looked up     *)
(* before the primary is inserted.                                         *)
BookBatchHead ==
    /\ sub.pc = "book" /\ sub.path = "batch"
    /\ ~BatchOver
    /\ LET s == Head(sub.cands)
       IN  \/ /\ sub' = [sub EXCEPT !.cands = Tail(sub.cands)]
              /\ UNCHANGED rows
           \/ /\ Bookable(s)
              /\ \E h \in HedgesFor(s) :
                    LET combo == IF HedgeBatch THEN FreshCombo ELSE NoCombo
                    IN  /\ rows' = OpenTrade(rows, s, combo, day)
                        /\ sub' = [sub EXCEPT !.pc = "subscribe", !.hedge = h,
                                              !.combo = combo]
    /\ UNCHANGED <<live, clock, trk, dedup>>

(* The hedge leg of a batch goes straight to open_trade.                   *)
InsertHedge ==
    /\ sub.pc = "hedge"
    /\ rows' = OpenTrade(rows, sub.hedge, sub.combo, day)
    /\ sub' = [sub EXCEPT !.pc = "subscribe", !.hedge = NoSignal]
    /\ UNCHANGED <<live, clock, trk, dedup>>

(* open_trade asks for a live quote after its INSERT has committed; the    *)
(* request is best-effort.                                                 *)
SubscribeLiveQuote ==
    /\ sub.pc = "subscribe"
    /\ live' \in {live, live \cup {Len(rows)}}
    /\ sub' = IF sub.path # "batch" THEN NextSubmission(TRUE)
              ELSE IF sub.hedge # NoSignal THEN [sub EXCEPT !.pc = "hedge"]
              ELSE [sub EXCEPT !.pc = "book", !.cands = Tail(sub.cands),
                               !.combo = NoCombo]
    /\ UNCHANGED <<rows, clock, trk, dedup>>

SubStep ==
    \/ CheckLockout \/ LockoutFails
    \/ QualityGates \/ CheckConcentration \/ CheckExposure \/ GateFails
    \/ BookSignal \/ EndBatch \/ BookBatchHead \/ InsertHedge \/ SubscribeLiveQuote

-------------------------------------------------------------------------------
(* The monitor thread: track, square_off_all and eod.  A pass holds the    *)
(* trades it read as in-memory copies (snap), changes a copy, and saves it *)
(* in a step of its own.  _finalize releases the live quote of a copy it   *)
(* closes, before the save.                                                *)

Copies(ids) == [i \in ids |-> rows[i].trade]
Closed(t) == t.status = "closed"

(* The debit spreads of the snapshot whose combined value, both legs being *)
(* quoted, calls for an exit; identified by their long leg.                *)
PairReason(snap, quote, pair) ==
    IF quote[pair[1]] = NoQuote \/ quote[pair[2]] = NoQuote THEN "none"
    ELSE ComboReason(snap[pair[1]], snap[pair[2]],
                     StrikeWidth(rows[pair[1]].strike, rows[pair[2]].strike),
                     quote[pair[1]], quote[pair[2]])

(* Every open trade is quoted up front; a square-off ignores the combos.   *)
StartPass(squareOff) ==
    /\ trk.pc = "idle"
    /\ squareOff => late
    /\ LET ids == OpenTrades(rows, day)
       IN  \E quote \in [ids -> Prices \cup {NoQuote}] :
              trk' = [IdleTrk EXCEPT
                        !.pc = "combos", !.squareOff = squareOff,
                        !.snap = Copies(ids), !.quote = quote,
                        !.todo = {pair[1] : pair \in
                                    {q \in ComboPairs(rows, ids) :
                                        /\ ~squareOff
                                        /\ PairReason(Copies(ids), quote, q) # "none"}}]
    /\ UNCHANGED <<rows, live, clock, sub, dedup>>

Drained == trk.todo = {} /\ trk.partner = {} /\ trk.pend = <<>>
Ready   == trk.pend = <<>> /\ trk.partner = {} /\ trk.todo # {}

(* apply_combo_tick closes both legs of a spread at the quotes it saw.     *)
CloseCombo ==
    /\ trk.pc = "combos" /\ Ready
    /\ LET l == Min(trk.todo)
           pair == CHOOSE q \in ComboPairs(rows, DOMAIN trk.snap) : q[1] = l
           why == PairReason(trk.snap, trk.quote, pair)
           exit(i) == CloseAt(trk.snap[i], trk.quote[i], why)
       IN  /\ trk' = [trk EXCEPT !.snap[l] = exit(l), !.snap[pair[2]] = exit(pair[2]),
                                 !.todo = @ \ {l}, !.pend = pair]
           /\ live' = live \ {l, pair[2]}
    /\ UNCHANGED <<rows, clock, sub, dedup>>

(* Everything no spread exit has handled is judged leg by leg.             *)
BeginLegs ==
    /\ trk.pc = "combos" /\ Drained
    /\ trk' = [trk EXCEPT !.pc = "legs",
                          !.todo = {i \in DOMAIN trk.snap : ~Closed(trk.snap[i])}]
    /\ UNCHANGED <<rows, live, clock, sub, dedup>>

(* Mutant: a square-off, too, skips a position that has no quote.          *)
TickLegMutant ==
    /\ trk.pc = "legs" /\ Ready
    /\ LET i == Min(trk.todo)
           t == ApplyTick(trk.snap[i], trk.quote[i], trk.squareOff)
       IN  IF trk.quote[i] = NoQuote
           THEN trk' = [trk EXCEPT !.todo = @ \ {i}] /\ UNCHANGED live
           ELSE /\ trk' = [trk EXCEPT !.snap[i] = t, !.todo = @ \ {i}, !.pend = <<i>>]
                /\ live' = IF Closed(t) THEN live \ {i} ELSE live
    /\ UNCHANGED <<rows, clock, sub, dedup>>

(* Without a quote a position is left for the next tick, unless it is      *)
(* being squared off: then its last known premium serves.                  *)
TickLeg ==
    /\ trk.pc = "legs" /\ Ready
    /\ LET i == Min(trk.todo)
           known == IF trk.quote[i] = NoQuote THEN trk.snap[i].last ELSE trk.quote[i]
           t == ApplyTick(trk.snap[i], known, trk.squareOff)
       IN  IF trk.quote[i] = NoQuote /\ ~trk.squareOff
           THEN trk' = [trk EXCEPT !.todo = @ \ {i}] /\ UNCHANGED live
           ELSE /\ trk' = [trk EXCEPT !.snap[i] = t, !.todo = @ \ {i}, !.pend = <<i>>]
                /\ live' = IF Closed(t) THEN live \ {i} ELSE live
    /\ UNCHANGED <<rows, clock, sub, dedup>>

Save ==
    /\ trk.pend # <<>>
    /\ rows' = SaveRuntime(rows, Head(trk.pend), trk.snap[Head(trk.pend)])
    /\ trk' = [trk EXCEPT !.pend = Tail(@)]
    /\ UNCHANGED <<live, clock, sub, dedup>>

(* A save that raises (a locked or full database) ends monitor and the     *)
(* whole track call; the flatten and the two auto-exits catch it and give  *)
(* up their own loop only.                                                 *)
SaveFails ==
    /\ SaveMayFail
    /\ trk.pend # <<>>
    /\ trk' = IF trk.pc \in {"combos", "legs"} THEN IdleTrk
              ELSE [trk EXCEPT !.todo = {}, !.partner = {}, !.pend = <<>>]
    /\ UNCHANGED <<rows, live, clock, sub, dedup>>

EndSquareOff ==
    /\ trk.pc = "legs" /\ Drained /\ trk.squareOff
    /\ trk' = IdleTrk
    /\ UNCHANGED <<rows, live, clock, sub, dedup>>

-------------------------------------------------------------------------------
(* After the monitor: the daily-loss flatten, the two risk-driven exits    *)
(* (the warning that follows changes no position and is left out).  Each   *)
(* reads the open trades afresh.                                           *)

BreakerArmed == DailyLossMode = "hard" /\ FlattenOnBreach /\ DailyLossLocked

Enter(phase, ids, doomed) ==
    trk' = [trk EXCEPT !.pc = phase, !.snap = Copies(ids), !.quote = <<>>, !.todo = doomed]

(* _maybe_flatten_daily_loss: once a day, marked as done before the first  *)
(* position is closed; a breaker whose check raises does nothing.          *)
BeginFlatten ==
    /\ trk.pc = "legs" /\ Drained /\ ~trk.squareOff
    /\ LET ids == OpenTrades(rows, day)
       IN  \/ /\ ~BreakerArmed \/ GateMayFail
              /\ Enter("flatten", ids, {})
              /\ UNCHANGED dedup
           \/ /\ BreakerArmed
              /\ Enter("flatten", ids, IF flattened = day THEN {} ELSE ids)
              /\ flattened' = day /\ lossAlerted' = day
    /\ UNCHANGED <<rows, live, clock, sub>>

PnlPct100(t) == (t.last - t.entry) * 100

(* oi_contradicts and sonar_reversal_contradicts: the latest read leans    *)
(* against the option side of the position, and it is not a clear winner.  *)
Contradicted(snap, against, i) ==
    /\ i \in against
    /\ PnlPct100(snap[i]) <= MaxProfitPct * snap[i].entry

(* The read of a symbol is taken anew for each of its positions, and leans *)
(* against the side of that position or does not.                          *)
Reads == SUBSET OpenTrades(rows, day)

(* The snapshot a phase works on is fresh, whatever earlier phases closed. *)
BeginRiskExits(mode, phase) ==
    LET ids == OpenTrades(rows, day)
    IN  IF mode = "hard"
        THEN \E against \in Reads :
                Enter(phase, ids, {i \in ids : Contradicted(Copies(ids), against, i)})
        ELSE Enter(phase, ids, {})

BeginOiExits ==
    /\ trk.pc = "flatten" /\ Drained
    /\ BeginRiskExits(OiExitMode, "oi")
    /\ UNCHANGED <<rows, live, clock, sub, dedup>>

BeginSonarExits ==
    /\ trk.pc = "oi" /\ Drained
    /\ BeginRiskExits(SonarExitMode, "sonar")
    /\ UNCHANGED <<rows, live, clock, sub, dedup>>

EndPass ==
    /\ trk.pc = "sonar" /\ Drained
    /\ trk' = IdleTrk
    /\ UNCHANGED <<rows, live, clock, sub, dedup>>

(* close_position: exit at a fresh quote, or at the last known premium.    *)
Fill(t) == {t.last} \cup Prices

ExitReason == IF trk.pc = "flatten" THEN "Daily-loss breaker" ELSE "Risk exit"

(* A copy that is closed already is in neither todo nor partner.           *)
CloseOne(i, rest, partner) ==
    /\ \E p \in Fill(trk.snap[i]) :
          trk' = [trk EXCEPT !.snap[i] = CloseAt(trk.snap[i], p, ExitReason),
                             !.todo = rest, !.partner = partner, !.pend = <<i>>]
    /\ live' = live \ {i}
    /\ UNCHANGED <<rows, clock, sub, dedup>>

(* Mutant: a closed position stays on the list.                            *)
ClosePositionMutant ==
    /\ trk.pc \in {"flatten", "oi", "sonar"} /\ Ready
    /\ CloseOne(Min(trk.todo), trk.todo, {})

(* _close_trade_and_partner: a spread is never split by a risk exit.       *)
ClosePosition ==
    /\ trk.pc \in {"flatten", "oi", "sonar"} /\ Ready
    /\ LET i == Min(trk.todo)
           partner == IF trk.pc = "flatten" THEN {}
                      ELSE Partner(rows, DOMAIN trk.snap, i)
       IN  CloseOne(i, trk.todo \ ({i} \cup partner), partner)

ClosePartner ==
    /\ trk.pend = <<>>
    /\ \E j \in trk.partner : CloseOne(j, trk.todo, {})

TrkStep ==
    \/ CloseCombo \/ BeginLegs \/ TickLeg \/ Save \/ SaveFails \/ EndSquareOff
    \/ BeginFlatten \/ BeginOiExits \/ BeginSonarExits \/ EndPass
    \/ ClosePosition \/ ClosePartner

-------------------------------------------------------------------------------
(* The clock, and a crash of the process with its restart.                 *)

PassCutoff ==
    /\ ~late
    /\ late' = TRUE
    /\ UNCHANGED <<rows, live, day, sub, trk, dedup>>

(* No thread is at work at midnight.                                       *)
NextDay ==
    /\ late /\ day < MaxDay
    /\ sub.pc = "idle" /\ trk.pc = "idle"
    /\ day' = day + 1 /\ late' = FALSE
    /\ UNCHANGED <<rows, live, sub, trk, dedup>>

Crash ==
    /\ MayCrash
    /\ sub' = IdleSub /\ trk' = IdleTrk
    /\ flattened' = 0 /\ lossAlerted' = 0
    /\ UNCHANGED <<rows, live, clock>>

Next ==
    \/ SubmitSignals \/ SubmitExternalSignal \/ SubmitWithHedge \/ SubmitStrangle
    \/ SubStep
    \/ \E squareOff \in BOOLEAN : StartPass(squareOff)
    \/ TrkStep
    \/ PassCutoff \/ NextDay \/ Crash

(* The operating system keeps running a thread that has work left, and     *)
(* nothing obliges a strategy to submit or the scheduler to start a pass.  *)
Fairness == WF_vars(SubStep) /\ WF_vars(TrkStep)

Spec == Init /\ [][Next]_vars /\ Fairness

-------------------------------------------------------------------------------

TypeOK ==
    /\ \A i \in DOMAIN rows :
          /\ rows[i].trade \in Trades
          /\ rows[i].day \in 1..day
          /\ rows[i].combo \in 0..Len(rows)
    /\ live \subseteq DOMAIN rows
    /\ day \in 1..MaxDay /\ late \in BOOLEAN
    /\ sub.pc \in {"idle", "lockout", "quality", "concentration", "exposure",
                   "book", "subscribe", "hedge"}
    /\ trk.pc \in {"idle", "combos", "legs", "flatten", "oi", "sonar"}
    /\ trk.todo \subseteq DOMAIN trk.snap
    /\ DOMAIN trk.snap \subseteq DOMAIN rows
    /\ flattened \in 0..day /\ lossAlerted \in 0..day

LedgerView ==
    [i \in DOMAIN rows |-> [status |-> rows[i].trade.status,
                            pnl    |-> rows[i].trade.realized,
                            why    |-> rows[i].trade.reason]]

Ledger == INSTANCE TradeLedger WITH ledger <- LedgerView, Whys <- Reasons \ {"none"}

(* The book implements the ledger: whatever the threads do, and wherever   *)
(* the process crashes, rows are only added, and a trade is closed once,   *)
(* with one result and one reason that never change again.                 *)
BookIsLedger == Ledger!Spec

(* The order manager never trades a contract twice in a day, whatever path *)
(* the signals take (has_trade_today; batches booked without hedges).      *)
OneTradePerContract ==
    \A i, j \in DOMAIN rows :
        i # j /\ rows[i].day = rows[j].day => ~SameContract(rows[i], rows[j])

(* The caps hold in the book itself, though they are counted before a      *)
(* batch is booked and positions open and close in between: no symbol has  *)
(* more trades of one day than allowed, on three booking paths             *)
(* (book_signal); in hard mode the bought positions open on one option     *)
(* side stay within the cap (_apply_concentration_gate), and so do the     *)
(* open legs and the premium deployed in them (_apply_exposure_gate).      *)
CapsHold ==
    /\ MaxPerSymbol # 0 =>
          \A i \in DOMAIN rows :
              CountSymbolToday(rows, rows[i].day, rows[i].sym) <= MaxPerSymbol
    /\ PortfolioMode = "hard" /\ MaxSameDirection # 0 =>
          \A side \in Sides :
              Cardinality({i \in OpenTrades(rows, day) :
                              rows[i].side = side /\ rows[i].trade.dir = "long"})
                  <= MaxSameDirection
    /\ ExposureMode = "hard" /\ MaxOpenPositions # 0 =>
          Cardinality(OpenTrades(rows, day)) <= MaxOpenPositions
    /\ ExposureMode = "hard" /\ MaxOpenPremium # 0 =>
          OpenPremium(rows, day) <= MaxOpenPremium

(* A hedge leg is never booked without the primary it hedges, booked       *)
(* before it: the sold leg of a spread is never alone from the start       *)
(* (submit_with_hedge, process_signals).                                   *)
HedgeHasPrimary ==
    \A i \in DOMAIN rows :
        rows[i].trade.dir = "short" =>
            \E j \in 1..(i - 1) : /\ rows[j].combo = rows[i].combo
                                 /\ rows[j].sym = rows[i].sym
                                 /\ rows[j].trade.dir = "long"

(* When a risk-driven exit has gone through the positions it read, no      *)
(* spread among them has one leg closed and the other open                 *)
(* (_close_trade_and_partner).                                             *)
RiskExitTakesBothLegs ==
    trk.pc \in {"oi", "sonar"} /\ Drained =>
        \A pair \in ComboPairs(rows, DOMAIN trk.snap) :
            IsOpen(rows, pair[1]) = IsOpen(rows, pair[2])

(* A square-off that got through its list has closed every position that   *)
(* was open when it began, quoted or not (monitor with square_off).        *)
SquareOffClosesAll ==
    trk.pc = "legs" /\ trk.squareOff /\ Drained =>
        \A i \in DOMAIN trk.snap : ~IsOpen(rows, i)

(* The monitor's copy of a trade and the database agree except on what is  *)
(* still to be saved: no update is lost, and no other thread writes to a   *)
(* trade the monitor holds.                                                *)
CopiesAreSaved ==
    \A i \in DOMAIN trk.snap :
        i \notin Range(trk.pend) => rows[i].trade = trk.snap[i]

(* A monitor pass and a submission that have begun come to an end.         *)
PassEnds == trk.pc # "idle" ~> trk.pc = "idle"
SubmissionEnds == sub.pc # "idle" ~> sub.pc = "idle"

===============================================================================
