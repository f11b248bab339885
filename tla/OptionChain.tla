------------------------------ MODULE OptionChain ------------------------------
(***************************************************************************)
(* The option chain as the strategies see it: what the Upstox adapter      *)
(* makes of the broker's answer, and what the scanner reads out of it.     *)
(*                                                                         *)
(* A chain is the sequence of its strikes in the order of the answer.  A   *)
(* strike is counted in half rupees, so that an odd one has a decimal      *)
(* point.  A side is a record of its quote, or NoOption where the broker   *)
(* lists no contract.  A field the broker leaves out arrives as 0.         *)
(***************************************************************************)
EXTENDS Integers, Sequences, FiniteSets, SequencesExt, FiniteSetsExt

CONSTANTS NoOption,     \* a side without a contract
          NoAnswer,     \* a chain the broker did not answer with
          NoStrike,     \* a row whose strike is missing
          NearWall      \* distance at which a strike is near a wall

Distance(a, b) == IF a > b THEN a - b ELSE b - a
Clip(v, lo, hi) == IF v < lo THEN lo ELSE IF v > hi THEN hi ELSE v
SumOf(seq) == FoldLeft(LAMBDA acc, x : acc + x, 0, seq)
Has(opt) == opt # NoOption

----------------------------------------------------------------------------
(* The answer of the broker, converted.                                    *)

(* The text a strike is filed under: whole strikes lose their point.       *)
Key(strike) == [strike |-> strike, point |-> strike % 2 # 0]

(* str(float): the text the strategies look a strike up with.              *)
FloatKey(strike) == [strike |-> strike, point |-> TRUE]

Kept(rows) == SelectSeq(rows, LAMBDA r : r.strike # NoStrike)

ToChain(rows) ==
    [i \in DOMAIN Kept(rows) |->
        [key |-> Key(Kept(rows)[i].strike), ce |-> Kept(rows)[i].ce, pe |-> Kept(rows)[i].pe]]

SpotOf(rows) ==
    LET known == SelectSeq(Kept(rows), LAMBDA r : r.spot # 0)
    IN  IF known = <<>> THEN 0 ELSE Head(known).spot

Entries(chain) == {chain[i] : i \in DOMAIN chain}
Strikes(chain) == {e.key.strike : e \in Entries(chain)}

(* chain.get(text): the entry filed under exactly this text, if any.       *)
Found(chain, key) == {e \in Entries(chain) : e.key = key}
SideAt(chain, key, side) ==
    IF Found(chain, key) = {} THEN NoOption ELSE (CHOOSE e \in Found(chain, key) : TRUE)[side]

----------------------------------------------------------------------------
(* What one option is sold and bought for.                                 *)
Bid(opt) == IF opt.bid > 0 THEN opt.bid ELSE opt.last
Ask(opt) == IF opt.ask > 0 THEN opt.ask ELSE opt.last

(* The first strike nearest to the spot.                                   *)
AtmIndex(chain, spot) ==
    CHOOSE i \in DOMAIN chain :
        /\ \A j \in DOMAIN chain : Distance(chain[i].key.strike, spot) <= Distance(chain[j].key.strike, spot)
        /\ \A j \in 1..(i - 1) : Distance(chain[j].key.strike, spot) > Distance(chain[i].key.strike, spot)

AtmStrike(chain, spot) == chain[AtmIndex(chain, spot)].key.strike

----------------------------------------------------------------------------
(* Open interest of the whole chain.                                       *)
Oi(opt) == IF Has(opt) THEN opt.oi ELSE 0
Column(chain, side) == [i \in DOMAIN chain |-> Oi(chain[i][side])]

(* Ten times the 90th percentile, by linear interpolation between the two  *)
(* sorted values around its rank.                                           *)
Percentile90(values) ==
    LET s == SortSeq(values, <)
        rank == 9 * (Len(s) - 1)
        low == rank \div 10
        part == rank % 10
    IN  IF part = 0 THEN 10 * s[low + 1] ELSE 10 * s[low + 1] + part * (s[low + 2] - s[low + 1])

(* The strikes whose open interest reaches the 90th percentile.            *)
Walls(chain, side) ==
    {chain[i].key.strike : i \in {j \in DOMAIN chain :
        /\ Oi(chain[j][side]) > 0
        /\ 10 * Oi(chain[j][side]) >= Percentile90(Column(chain, side))}}

NearAWall(price, walls) == \E w \in walls : Distance(w, price) <= NearWall

(* The build-up an option shows.  The adapter passes on no previous open   *)
(* interest and no previous close, so both changes are from zero.          *)
PreviousOi(opt) == 0
PreviousClose(opt) == 0
BuildupKind(price, oi) ==
    CASE price > 0 /\ oi > 0 -> "long_buildup"
      [] price < 0 /\ oi > 0 -> "short_buildup"
      [] price > 0 /\ oi < 0 -> "short_covering"
      [] price < 0 /\ oi < 0 -> "long_unwinding"
      [] OTHER -> "neutral"

Buildup(opt) ==
    IF ~Has(opt) THEN "neutral"
    ELSE BuildupKind(opt.last - PreviousClose(opt), opt.oi - PreviousOi(opt))

(* The build-up most options of the chain show, and its share of all.      *)
Sides == {"ce", "pe"}
Showing(chain, kind) == {x \in (DOMAIN chain) \X Sides : Buildup(chain[x[1]][x[2]]) = kind}
Directional(chain) == {Buildup(chain[i][s]) : i \in DOMAIN chain, s \in Sides} \ {"neutral"}
DominantBuildup(chain) ==
    IF Directional(chain) = {} THEN [kind |-> "neutral", strength |-> 0]
    ELSE LET kind == CHOOSE k \in Directional(chain) :
                         \A l \in Directional(chain) : Cardinality(Showing(chain, k)) >= Cardinality(Showing(chain, l))
         IN  [kind |-> kind,
              strength |-> (100 * Cardinality(Showing(chain, kind))) \div (2 * Len(chain))]

----------------------------------------------------------------------------
(* Is the implied volatility of an option in line with its neighbours'?    *)
(* The neighbours are looked up with str(float).                           *)
NeighbourStrikes(chain, strike) ==
    LET below == {s \in Strikes(chain) : s < strike}
        above == {s \in Strikes(chain) : s > strike}
    IN  (IF below = {} THEN {} ELSE {Max(below)}) \union (IF above = {} THEN {} ELSE {Min(above)})

NeighbourIvs(chain, strike, side) ==
    LET known == {s \in NeighbourStrikes(chain, strike) :
                    /\ Has(SideAt(chain, FloatKey(s), side))
                    /\ SideAt(chain, FloatKey(s), side).iv > 0}
    IN  [s \in known |-> SideAt(chain, FloatKey(s), side).iv]

IvIsStable(chain, strike, side, iv) ==
    LET ivs == NeighbourIvs(chain, strike, side)
        n == Cardinality(DOMAIN ivs)
        sum == FoldFunction(LAMBDA a, b : a + b, 0, ivs)
    IN  n = 0 \/ 10 * Distance(iv * n, sum) <= sum

===============================================================================
