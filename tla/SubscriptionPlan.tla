---------------------------- MODULE SubscriptionPlan ----------------------------
(***************************************************************************)
(* Which instruments the market-context service streams, and how it fits   *)
(* them into the connections its broker plan allows (feed/subscription.py, *)
(* config.subscription_budget, instruments.py).  Functions of the          *)
(* instrument master, of the liquidity ranking and of the allowance.       *)
(*                                                                         *)
(* An instrument is a record of its kind, its name and, for a future, the  *)
(* day it expires.  The master says which names exist; it may be missing.  *)
(***************************************************************************)
EXTENDS Integers, Sequences, FiniteSets, SequencesExt

CONSTANTS
    KeysPerConnection,      \* WS_MAX_KEYS_PER_CONNECTION
    Standard, Plus,         \* connections of the two broker plans
    PlanTier,               \* "auto", "standard" or "plus"
    Tier1Keys, Tier2Keys,   \* the sizes the budget sets aside
    StandardStocks, StandardFutures, PlusStocks, PlusFutures,
    Tier1Indices, SectorIndices,    \* sequences of index names
    Underlyings,            \* TIER1_FUTURES_UNDERLYINGS
    NonStocks,              \* index names that turn up among the stocks
    NoMaster, NotProbed

ASSUME SubscriptionPlanAssumption ==
    /\ {KeysPerConnection, Standard, Plus, Tier1Keys, Tier2Keys, StandardStocks,
        StandardFutures, PlusStocks, PlusFutures} \subseteq Nat
    /\ Standard < Plus
    /\ PlanTier \in {"auto", "standard", "plus"}
    /\ NotProbed \notin Nat
    /\ IsFiniteSet(NonStocks)
    /\ \A names \in {Tier1Indices, SectorIndices, Underlyings} : names \in Seq(ToSet(names))

Least(a, b) == IF a < b THEN a ELSE b
Most(a, b) == IF a > b THEN a ELSE b
First(seq, n) == SubSeq(seq, 1, Least(n, Len(seq)))

(* The sequences one after the other, joined[n] the first n of them; and   *)
(* what is in keep of a sequence, kept[n] of its first n.                  *)
Concat(seqs) ==
    LET joined[n \in 0..Len(seqs)] == IF n = 0 THEN <<>> ELSE joined[n - 1] \o seqs[n]
    IN  joined[Len(seqs)]

Filter(seq, keep) ==
    LET kept[n \in 0..Len(seq)] ==
            IF n = 0 THEN <<>>
            ELSE IF seq[n] \in keep THEN Append(kept[n - 1], seq[n]) ELSE kept[n - 1]
    IN  kept[Len(seq)]

-------------------------------------------------------------------------------
(* The budget: what each tier may take of the allowance.  Tiers 1 and 2    *)
(* are set aside, the futures of tier 4 come before the stocks of tier 3.  *)

Broker(detected) ==
    IF PlanTier # "auto" THEN PlanTier
    ELSE IF detected # NotProbed /\ detected > Standard THEN "plus" ELSE "standard"

Connections(detected) ==
    IF detected \notin {NotProbed, 0} THEN detected
    ELSE IF Broker(detected) = "plus" THEN Plus ELSE Standard

Budget(detected) ==
    LET plus == Broker(detected) = "plus"
        capacity == Most(Connections(detected), 1) * KeysPerConnection
        remaining == Most(capacity - Tier1Keys - Tier2Keys, 0)
        tier4 == Least(IF plus THEN PlusFutures ELSE StandardFutures, remaining)
    IN  [capacity |-> capacity, tier2 |-> Tier2Keys, tier4 |-> tier4,
         tier3 |-> Least(IF plus THEN PlusStocks ELSE StandardStocks, remaining - tier4)]

-------------------------------------------------------------------------------
(* The instruments.  A name the master does not know is left out, and so   *)
(* is every name when there is no master.                                  *)

Index(name) == [kind |-> "index", name |-> name, expiry |-> 0]
Future(name, day) == [kind |-> "futures", name |-> name, expiry |-> day]
Equity(name) == [kind |-> "equity", name |-> name, expiry |-> 0]

ResolveIndices(master, names) ==
    IF master = NoMaster THEN <<>>
    ELSE LET listed == Filter(names, master.indices)
         IN  [i \in DOMAIN listed |-> Index(listed[i])]

(* The nearest futures that have not expired, nearest first.               *)
Nth(days, n) == CHOOSE day \in days : Cardinality({d \in days : d < day}) = n - 1

FuturesChain(master, name, count, today) ==
    IF master = NoMaster THEN <<>>
    ELSE LET open == {day \in master.futures[name] : day >= today}
         IN  [i \in 1..Least(count, Cardinality(open)) |-> Future(name, Nth(open, i))]

EquityKeys(master, names) ==
    IF master = NoMaster THEN <<>>
    ELSE LET listed == Filter(names, master.equities)
         IN  [i \in DOMAIN listed |-> Equity(listed[i])]

StockFutures(master, names, today) ==
    Concat([i \in DOMAIN names |-> FuturesChain(master, names[i], 1, today)])

(* Mutant: as many rows are fetched as are asked for.                      *)
LiquidSymbolsMutant(ranking, limit) ==
    First(Filter(First(ranking, limit), ToSet(ranking) \ NonStocks), limit)

(* The most liquid stocks of a ranking that holds indices too: more rows   *)
(* are fetched than asked for, by as many as there are indices.            *)
LiquidSymbols(ranking, limit) ==
    First(Filter(First(ranking, limit + Cardinality(NonStocks)), ToSet(ranking) \ NonStocks), limit)

-------------------------------------------------------------------------------
(* The plan: four tiers, each a sequence of instruments.                   *)

Tiers == 1..4
Mode(tier) == IF tier \in {1, 4} THEN "full" ELSE "ltpc"
Total(plan) == Len(plan[1]) + Len(plan[2]) + Len(plan[3]) + Len(plan[4])
Keys(plan) == UNION {ToSet(plan[t]) : t \in Tiers}

(* Over the capacity, the ends of tiers 3, 4 and 2 are dropped, in this    *)
(* order; tier 1 is kept whatever it takes.                                *)
Trim(plan, tier, capacity) ==
    LET over == Most(Total(plan) - capacity, 0)
    IN  [plan EXCEPT ![tier] = First(@, Len(@) - Least(over, Len(@)))]

EnforceCapacity(plan, capacity) == Trim(Trim(Trim(plan, 3, capacity), 4, capacity), 2, capacity)

BuildPlan(master, ranking, detected, today) ==
    LET budget == Budget(detected)
        ranked == LiquidSymbols(ranking, Most(budget.tier3, budget.tier4))
        futures(i) == FuturesChain(master, Underlyings[i], 2, today)
        plan == <<ResolveIndices(master, Tier1Indices) \o Concat([i \in DOMAIN Underlyings |-> futures(i)]),
                  First(ResolveIndices(master, SectorIndices), budget.tier2),
                  EquityKeys(master, First(ranked, budget.tier3)),
                  StockFutures(master, First(ranked, budget.tier4), today)>>
    IN  EnforceCapacity(plan, budget.capacity)

(* The rows persist makes the active ones of mc_instruments; an empty plan *)
(* writes nothing, and leaves those of the plan before.                    *)
ActiveRows(plan) ==
    UNION {{[instrument |-> i, tier |-> t, mode |-> Mode(t)] : i \in ToSet(plan[t])} : t \in Tiers}

(* What the one connection of the client carries: the plan and the         *)
(* requests of the other containers.                                       *)
DesiredState(plan, requests) == Keys(plan) \cup requests

===============================================================================
