------------------------------- MODULE PaperBook -------------------------------
(***************************************************************************)
(* The paper_trades table (class PaperTradeBook of paper_trader.py) and    *)
(* the questions the rest of the system asks of it.  A book is a sequence  *)
(* of rows; the position of a row is its AUTOINCREMENT id.  The columns    *)
(* fixed at insertion sit beside the runtime columns, which save_runtime   *)
(* overwrites as a whole from an in-memory trade.  One lot is one unit, so *)
(* a premium point is a rupee.                                             *)
(***************************************************************************)
EXTENDS ExitEngine, Sequences, FiniteSetsExt

CONSTANTS
    IncludeOpen     \* daily_loss_config.INCLUDE_OPEN

ASSUME PaperBookAssumption == IncludeOpen \in BOOLEAN

NoCombo == 0

Sides == {"CE", "PE"}

SameContract(a, b) == a.sym = b.sym /\ a.side = b.side /\ a.strike = b.strike

Row(s, combo, day) ==
    [sym |-> s.sym, side |-> s.side, strike |-> s.strike, combo |-> combo,
     day |-> day, trade |-> NewTrade(s)]

OpenTrade(rows, s, combo, day) == Append(rows, Row(s, combo, day))

IsOpen(rows, i) == rows[i].trade.status = "open"

(* Mutant: the query forgets the status.                                  *)
OpenTradesMutant(rows, day) == {i \in DOMAIN rows : rows[i].day <= day}

(* Yesterday's stragglers are still to be managed, so any earlier day      *)
(* counts here, while the counters and the day's P&L look at one day only. *)
OpenTrades(rows, day) == {i \in DOMAIN rows : IsOpen(rows, i) /\ rows[i].day <= day}

AllTrades(rows, day) == {i \in DOMAIN rows : rows[i].day = day}

(* Mutant: a contract counts as traded only while its trade is open.       *)
HasTradeTodayMutant(rows, day, s) ==
    \E i \in AllTrades(rows, day) : IsOpen(rows, i) /\ SameContract(rows[i], s)

HasTradeToday(rows, day, s) == \E i \in AllTrades(rows, day) : SameContract(rows[i], s)

CountToday(rows, day) == Cardinality(AllTrades(rows, day))

CountSymbolToday(rows, day, sym) ==
    Cardinality({i \in AllTrades(rows, day) : rows[i].sym = sym})

SaveRuntime(rows, i, t) == [rows EXCEPT ![i].trade = t]

-------------------------------------------------------------------------------

(* The debit spreads among the trades ids: combos of which exactly two     *)
(* legs are there, the first of each pair long and the second short.       *)
ComboPairs(rows, ids) ==
    LET Legs(c) == {i \in ids : rows[i].combo = c}
    IN  {pair \in ids \X ids :
            /\ rows[pair[1]].combo # NoCombo
            /\ Legs(rows[pair[1]].combo) = {pair[1], pair[2]}
            /\ rows[pair[1]].trade.dir = "long"
            /\ rows[pair[2]].trade.dir = "short"}

(* Mutant: no leg ever has a partner.                                      *)
PartnerMutant(rows, ids, i) == {}

(* The other leg of the spread i is a leg of, as a set of at most one.     *)
Partner(rows, ids, i) ==
    {j \in ids : \E pair \in ComboPairs(rows, ids) : {pair[1], pair[2]} = {i, j}}

(* What a trade adds to the day's P&L.  An open one is marked as points    *)
(* above its entry, whichever way the position faces.                      *)
MarkedPnl(t) == t.booked + (t.last - t.entry) * t.qty

PnlOf(t) ==
    IF t.status = "closed" THEN t.realized
    ELSE IF IncludeOpen THEN MarkedPnl(t) ELSE 0

(* The sum of a list of amounts.                                           *)
Total(amounts) ==
    LET sum[n \in 0..Len(amounts)] == IF n = 0 THEN 0 ELSE sum[n - 1] + amounts[n]
    IN  sum[Len(amounts)]

BookDayPnl(rows, day) ==
    Total([i \in DOMAIN rows |-> IF rows[i].day = day THEN PnlOf(rows[i].trade) ELSE 0])

OpenPremium(rows, day) ==
    Total([i \in DOMAIN rows |->
             IF i \in OpenTrades(rows, day) THEN rows[i].trade.entry ELSE 0])

===============================================================================
