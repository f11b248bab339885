--------------------------- MODULE PaperTradingProofs ---------------------------
(***************************************************************************)
(* Proofs about paper trading: the order manager over the paper book, for  *)
(* every set of signals, every caps and limits, every length of the book   *)
(* and every interleaving of the two threads with crashes and failing      *)
(* saves; and one paper trade, for every set of entry plans, every set of  *)
(* premiums and every setting of the trailing stop.                        *)
(***************************************************************************)
EXTENDS OrderManager, PaperTrade, FiniteSetTheorems, FunctionTheorems, SequenceTheorems,
        WellFoundedInduction, TLAPS

-------------------------------------------------------------------------------
(* What the exit engine makes of a trade.                                  *)

(* u is the trade t after a tick or a close: it is still the same trade,   *)
(* and unless it has been closed for a reason it has realised nothing new. *)
Successor(t, u) ==
    /\ u \in Trades
    /\ u.dir = t.dir /\ u.entry = t.entry
    /\ \/ u.status = "closed" /\ u.reason \in Reasons \ {"none"}
       \/ u.status = "open" /\ u.realized = t.realized /\ u.reason = t.reason

(* Marking a premium on a price level, and the ratchet level itself, stay  *)
(* integers.                                                               *)
LEMMA LevelTypes ==
    ASSUME NEW t \in Trades, NEW p \in Int
    PROVE  /\ Points(t, p) \in Int
           /\ BestPrice(t, p) \in Int
           /\ Giveback(t) \in Int
           /\ RatchetLevel(t) \in Int
           /\ RatchetStop(t) \in Int
<1>1. Points(t, p) \in Int /\ BestPrice(t, p) \in Int
  BY DEF Trades, Points, BestPrice, Lesser, Greater
<1>2. PICK gain \in Int : Giveback(t) = (gain * GivebackPct) \div 100
  BY DEF Trades, Giveback
<1>3. gain * GivebackPct \in Int
  BY <1>2, ExitEngineAssumption
<1>4. Giveback(t) \in Int
  BY <1>2, <1>3
<1>5. RatchetLevel(t) \in Int
  BY <1>4 DEF Trades, RatchetLevel, Lesser, Greater
<1>6. RatchetStop(t) \in Int
  BY <1>5 DEF Trades, RatchetStop, Lesser, Greater
<1> QED
  BY <1>1, <1>4, <1>5, <1>6

(* Booking all or nothing of a position, and finalising it.                *)
LEMMA ExitEffect ==
    ASSUME NEW t \in Trades, NEW frac \in {0, 1}, NEW p \in Int,
           NEW why \in Reasons \ {"none"}
    PROVE  LET u == Finalize(Book(t, frac, p), why)
           IN  u \in Trades /\ u.status = "closed" /\ Successor(t, u)
<1> DEFINE b == Book(t, frac, p)
<1>1. /\ b \in Trades /\ b.dir = t.dir /\ b.entry = t.entry
  <2>1. CASE b = t
    BY <2>1
  <2>2. CASE b # t
    <3>1. Lesser(frac, t.qty) \in {0, 1} /\ t.qty \in {0, 1} /\ t.booked \in Int
      BY DEF Lesser, Trades
    <3>2. Lesser(frac, t.qty) = 1
      BY <3>1, <2>2 DEF Book
    <3>3. t.qty = 1
      BY <3>1, <3>2 DEF Lesser
    <3>4. Greater(t.qty - 1, 0) = 0
      BY <3>3 DEF Greater
    <3>5. ~(1 <= 0)
      OBVIOUS
    <3>6. b = [t EXCEPT !.booked = t.booked + 1 * Points(t, p), !.qty = 0]
      BY <3>2, <3>4, <3>5, Zenon DEF Book
    <3>7. t.booked + 1 * Points(t, p) \in Int
      BY <3>1, LevelTypes
    <3> DEFINE amount == t.booked + 1 * Points(t, p)
    <3> HIDE DEF amount, b
    <3> QED
      BY <3>6, <3>7 DEF Trades, amount
  <2> QED
    BY <2>1, <2>2
<1> HIDE DEF b
<1>2. b.booked - ExitCost \in Int
  BY <1>1, ExitEngineAssumption DEF Trades
<1> QED
  BY <1>1, <1>2 DEF Finalize, Trades, Statuses, Successor, b

(* Closing a position leaves it the same trade, closed for a reason.       *)
LEMMA CloseEffect ==
    ASSUME NEW t \in Trades, NEW p \in Int, NEW why \in Reasons \ {"none"}
    PROVE  /\ CloseAt(t, p, why).status = "closed"
           /\ Successor(t, CloseAt(t, p, why))
<1> DEFINE marked == [t EXCEPT !.last = p]
<1>1. /\ marked \in Trades /\ marked.qty \in {0, 1}
      /\ marked.dir = t.dir /\ marked.entry = t.entry
  BY DEF Trades
<1>2. CloseAt(t, p, why) = Finalize(Book(marked, marked.qty, p), why)
  BY DEF CloseAt
<1> HIDE DEF marked
<1> QED
  BY <1>1, <1>2, ExitEffect DEF Successor

(* Judging one quote against the levels leaves it the same trade.          *)
LEMMA LevelsEffect ==
    ASSUME NEW t \in Trades, NEW p \in Int, NEW squareOff \in BOOLEAN, t.status = "open"
    PROVE  /\ Successor(t, CheckLevels(t, p, squareOff))
           /\ squareOff => CheckLevels(t, p, squareOff).status = "closed"
<1>1. StopFill(t, p) \in Int /\ t.t1 \in Int /\ t.qty \in {0, 1}
  BY DEF StopFill, Lesser, Greater, Trades
<1>2. {"SL", "Target", "Time 15:20"} \subseteq Reasons \ {"none"}
  BY DEF Reasons
<1>3. CASE SlHit(t, p)
  BY <1>1, <1>2, <1>3, ExitEffect DEF CheckLevels
<1>4. CASE ~SlHit(t, p) /\ TargetHit(t, p)
  BY <1>1, <1>2, <1>4, ExitEffect DEF CheckLevels
<1>5. CASE ~SlHit(t, p) /\ ~TargetHit(t, p) /\ squareOff
  BY <1>1, <1>2, <1>5, ExitEffect DEF CheckLevels
<1>6. CASE ~SlHit(t, p) /\ ~TargetHit(t, p) /\ ~squareOff
  BY <1>6 DEF CheckLevels, Successor
<1> QED
  BY <1>3, <1>4, <1>5, <1>6

(* An open trade ticked at a premium stays what it was or is closed, and a *)
(* square-off leaves nothing open.                                         *)
LEMMA TickEffect ==
    ASSUME NEW t \in Trades, NEW p \in Int, NEW squareOff \in BOOLEAN, t.status = "open"
    PROVE  /\ Successor(t, ApplyTick(t, p, squareOff))
           /\ squareOff => Closed(ApplyTick(t, p, squareOff))
<1> DEFINE marked == [t EXCEPT !.last = p]
           trailed == IF squareOff THEN marked ELSE ApplyTrailing(marked, p)
           Same(u) == /\ u \in Trades /\ u.status = "open"
                      /\ u.dir = t.dir /\ u.entry = t.entry
                      /\ u.realized = t.realized /\ u.reason = t.reason
<1>1. Same(marked)
  BY DEF Trades
<1>2. Same(ApplyTrailing(marked, p))
  <2> DEFINE seen == [marked EXCEPT !.peak = BestPrice(marked, p)]
             tight == [seen EXCEPT !.sl = RatchetStop(seen)]
  <2>1. ApplyTrailing(marked, p) \in {marked, seen, tight}
    BY DEF ApplyTrailing
  <2> HIDE DEF marked
  <2>2. BestPrice(marked, p) \in Int
    BY <1>1, LevelTypes
  <2>3. Same(seen)
    BY <1>1, <2>2 DEF Trades
  <2> HIDE DEF seen
  <2>4. RatchetStop(seen) \in Int
    BY <2>3, LevelTypes
  <2>5. Same(tight)
    BY <2>3, <2>4 DEF Trades
  <2> HIDE DEF tight, Same
  <2> QED
    BY <1>1, <2>1, <2>3, <2>5
<1>3. Same(trailed)
  BY <1>1, <1>2
<1>4. ApplyTick(t, p, squareOff) = CheckLevels(trailed, p, squareOff)
  BY DEF ApplyTick
<1> HIDE DEF trailed
<1> QED
  BY <1>3, <1>4, LevelsEffect DEF Successor, Closed

-------------------------------------------------------------------------------
(* Least elements, sums, and what a gate keeps.                            *)

(* A set of naturals that is not empty has a least element.                *)
LEMMA LeastExists ==
    ASSUME NEW S, S \subseteq Nat, S # {}
    PROVE  \E x \in S : \A y \in S : x <= y
<1>1. \E x \in S : \A y \in S : ~(<<y, x>> \in OpToRel(<, Nat))
  BY NatLessThanWellFounded, WFMin
<1>2. \A x, y \in S : y < x => <<y, x>> \in OpToRel(<, Nat)
  BY Zenon DEF OpToRel
<1>3. \E x \in S : \A y \in S : ~(y < x)
  BY <1>1, <1>2, Zenon
<1> QED
  BY <1>3

(* Min of the community modules picks a member.                            *)
LEMMA MinIsIn ==
    ASSUME NEW S, S \subseteq Nat, S # {}
    PROVE  Min(S) \in S
BY LeastExists DEF Min

(* Induction up to a bound, about the numbers that have a property.        *)
LEMMA CountUp ==
    ASSUME NEW bound \in Nat, NEW S, 0 \in S,
           \A n \in 1..bound : n - 1 \in S => n \in S
    PROVE  \A n \in 0..bound : n \in S
<1>1. SUFFICES ASSUME 0..bound \ S # {} PROVE FALSE
  OBVIOUS
<1>2. PICK n \in 0..bound \ S : \A m \in 0..bound \ S : n <= m
  <2>1. 0..bound \ S \subseteq Nat
    OBVIOUS
  <2> QED
    BY <1>1, <2>1, LeastExists
<1>3. n \in 1..bound /\ n - 1 \in 0..bound /\ ~(n <= n - 1)
  BY <1>2
<1> QED
  BY <1>2, <1>3

(* The partial sums of a list of amounts.                                  *)
Upto(f, n, sum) ==
    /\ sum \in [0..n -> Nat]
    /\ sum[0] = 0
    /\ \A m \in 1..n : sum[m] = sum[m - 1] + f[m]

Sums(f, sum) == Upto(f, Len(f), sum)

(* The recursive function Total is defined by exists: partial sums of any  *)
(* list of naturals.                                                       *)
LEMMA SumsExist ==
    ASSUME NEW f \in Seq(Nat)
    PROVE  \E sum : Sums(f, sum)
<1> DEFINE S == {n \in 0..Len(f) : \E sum : Upto(f, n, sum)}
<1>1. Len(f) \in Nat /\ \A m \in 1..Len(f) : f[m] \in Nat
  OBVIOUS
<1>2. 0 \in S
  <2> DEFINE zero == [m \in 0..0 |-> 0]
  <2>1. Upto(f, 0, zero)
    BY DEF Upto
  <2> HIDE DEF zero
  <2> QED
    BY <1>1, <2>1
<1>3. ASSUME NEW n \in 1..Len(f), n - 1 \in S PROVE n \in S
  <2>1. PICK sum : Upto(f, n - 1, sum)
    BY <1>3
  <2> DEFINE next == [m \in 0..n |-> IF m = n THEN sum[n - 1] + f[n] ELSE sum[m]]
  <2>2. f[n] \in Nat /\ sum[n - 1] \in Nat /\ n - 1 \in 0..(n - 1)
    BY <1>1, <2>1 DEF Upto
  <2>3. next \in [0..n -> Nat] /\ next[0] = 0
    BY <2>1, <2>2 DEF Upto
  <2>4. ASSUME NEW m \in 1..n PROVE next[m] = next[m - 1] + f[m]
    <3>1. m - 1 \in 0..n /\ m \in 0..n /\ m - 1 # n
      OBVIOUS
    <3>2. next[m - 1] = sum[m - 1]
      BY <3>1
    <3>3. CASE m = n
      BY <3>1, <3>2, <3>3
    <3>4. CASE m # n
      <4>1. m \in 1..(n - 1)
        BY <3>4
      <4> QED
        BY <3>1, <3>2, <3>4, <4>1, <2>1 DEF Upto
    <3> QED
      BY <3>3, <3>4
  <2>5. Upto(f, n, next)
    BY <2>3, <2>4 DEF Upto
  <2> HIDE DEF next
  <2> QED
    BY <2>5
<1>4. Len(f) \in S
  <2> HIDE DEF S
  <2>1. \A n \in 1..Len(f) : n - 1 \in S => n \in S
    BY <1>3
  <2>2. \A n \in 0..Len(f) : n \in S
    BY <1>1, <1>2, <2>1, CountUp
  <2> QED
    BY <1>1, <2>2
<1> QED
  BY <1>4 DEF Sums

(* Total is the last of the partial sums.                                  *)
LEMMA TotalIsSum ==
    ASSUME NEW f \in Seq(Nat)
    PROVE  \E sum : Sums(f, sum) /\ Total(f) = sum[Len(f)]
<1> DEFINE Rule(sum) == [n \in 0..Len(f) |-> IF n = 0 THEN 0 ELSE sum[n - 1] + f[n]]
           total == CHOOSE sum : sum = Rule(sum)
<1>1. Total(f) = total[Len(f)]
  BY DEF Total
<1>2. PICK sum : Sums(f, sum)
  BY SumsExist
<1>3. sum = Rule(sum)
  BY <1>2 DEF Sums, Upto
<1>4. total = Rule(total)
  BY <1>3, Zenon
<1> HIDE DEF total
<1>5. Sums(f, total)
  <2> DEFINE S == {n \in 0..Len(f) : total[n] = sum[n]}
  <2>1. Len(f) \in Nat /\ 0 \in S
    BY <1>3, <1>4
  <2>2. ASSUME NEW n \in 1..Len(f), n - 1 \in S PROVE n \in S
    <3>1. n \in 0..Len(f) /\ n # 0 /\ total[n - 1] = sum[n - 1]
      BY <2>1, <2>2
    <3>2. total[n] = total[n - 1] + f[n] /\ sum[n] = sum[n - 1] + f[n]
      BY <3>1, <1>3, <1>4
    <3> QED
      BY <3>1, <3>2
  <2>3. \A n \in 0..Len(f) : n \in S
    <3> HIDE DEF S
    <3> QED
      <4>1. \A n \in 1..Len(f) : n - 1 \in S => n \in S
        BY <2>2
      <4> QED
        BY <4>1, <2>1, CountUp
  <2>4. total \in [0..Len(f) -> Nat]
    BY <2>3, <1>2, <1>4 DEF Sums, Upto
  <2> QED
    BY <2>3, <2>4, <1>2 DEF Sums, Upto
<1> QED
  BY <1>1, <1>5

(* A sum of naturals is a natural.                                         *)
LEMMA TotalType ==
    ASSUME NEW f \in Seq(Nat)
    PROVE  Total(f) \in Nat
BY TotalIsSum DEF Sums, Upto

(* One more amount adds itself.                                            *)
LEMMA TotalGrows ==
    ASSUME NEW f \in Seq(Nat), NEW g \in Seq(Nat), Len(g) = Len(f) + 1,
           \A i \in 1..Len(f) : g[i] = f[i]
    PROVE  Total(g) = Total(f) + g[Len(g)]
<1>1. PICK fs : Sums(f, fs) /\ Total(f) = fs[Len(f)]
  BY TotalIsSum
<1>2. PICK gs : Sums(g, gs) /\ Total(g) = gs[Len(g)]
  BY TotalIsSum
<1> DEFINE S == {n \in 0..Len(f) : gs[n] = fs[n]}
<1>3. Len(f) \in Nat /\ 0 \in S
  BY <1>1, <1>2 DEF Sums, Upto
<1>4. ASSUME NEW n \in 1..Len(f), n - 1 \in S PROVE n \in S
  <2>1. n \in 1..Len(g) /\ n \in 0..Len(f) /\ gs[n - 1] = fs[n - 1] /\ g[n] = f[n]
    BY <1>3, <1>4
  <2> QED
    BY <2>1, <1>1, <1>2 DEF Sums, Upto
<1>5. gs[Len(f)] = fs[Len(f)]
  <2>1. \A n \in 1..Len(f) : n - 1 \in S => n \in S
    BY <1>4
  <2>2. \A n \in 0..Len(f) : n \in S
    <3> HIDE DEF S
    <3> QED
      BY <1>3, <2>1, CountUp
  <2> QED
    BY <1>3, <2>2
<1>6. Len(g) \in 1..Len(g) /\ Len(g) - 1 = Len(f)
  BY <1>3
<1> QED
  BY <1>1, <1>2, <1>5, <1>6 DEF Sums, Upto

(* Smaller amounts have a smaller sum.                                     *)
LEMMA TotalMonotone ==
    ASSUME NEW f \in Seq(Nat), NEW g \in Seq(Nat), Len(g) = Len(f),
           \A i \in 1..Len(f) : g[i] <= f[i]
    PROVE  Total(g) <= Total(f)
<1>1. PICK fs : Sums(f, fs) /\ Total(f) = fs[Len(f)]
  BY TotalIsSum
<1>2. PICK gs : Sums(g, gs) /\ Total(g) = gs[Len(g)]
  BY TotalIsSum
<1> DEFINE S == {n \in 0..Len(f) : gs[n] <= fs[n]}
<1>3. Len(f) \in Nat /\ 0 \in S
  BY <1>1, <1>2 DEF Sums, Upto
<1>4. ASSUME NEW n \in 1..Len(f), n - 1 \in S PROVE n \in S
  <2>1. /\ n \in 1..Len(g) /\ n \in 0..Len(f) /\ gs[n - 1] <= fs[n - 1]
        /\ n - 1 \in 0..Len(f) /\ n - 1 \in 0..Len(g)
        /\ g[n] <= f[n] /\ g[n] \in Nat /\ f[n] \in Nat
    BY <1>3, <1>4
  <2>2. gs[n - 1] \in Nat /\ fs[n - 1] \in Nat
    BY <1>1, <1>2, <2>1 DEF Sums, Upto
  <2>3. gs[n] = gs[n - 1] + g[n] /\ fs[n] = fs[n - 1] + f[n]
    BY <1>1, <1>2, <2>1 DEF Sums, Upto
  <2>4. gs[n] <= fs[n]
    BY <2>1, <2>2, <2>3
  <2> QED
    BY <2>1, <2>4
<1>5. \A n \in 1..Len(f) : n - 1 \in S => n \in S
  BY <1>4
<1>6. \A n \in 0..Len(f) : n \in S
  <2> HIDE DEF S
  <2> QED
    BY <1>3, <1>5, CountUp
<1> QED
  BY <1>1, <1>2, <1>3, <1>6

(* Dropping the first amount subtracts it.                                 *)
LEMMA TotalOfRest ==
    ASSUME NEW f \in Seq(Nat), NEW g \in Seq(Nat), Len(f) = Len(g) + 1,
           \A i \in 1..Len(g) : g[i] = f[i + 1]
    PROVE  Total(f) = f[1] + Total(g)
<1>1. PICK fs : Sums(f, fs) /\ Total(f) = fs[Len(f)]
  BY TotalIsSum
<1>2. PICK gs : Sums(g, gs) /\ Total(g) = gs[Len(g)]
  BY TotalIsSum
<1> DEFINE S == {n \in 0..Len(g) : fs[n + 1] = f[1] + gs[n]}
<1>3. Len(g) \in Nat /\ f[1] \in Nat
  BY <1>1, <1>2 DEF Sums, Upto
<1>4. 0 \in S
  <2>1. fs[1] = fs[0] + f[1] /\ fs[0] = 0 /\ gs[0] = 0
    BY <1>1, <1>2, <1>3 DEF Sums, Upto
  <2> QED
    BY <2>1, <1>3
<1>5. ASSUME NEW n \in 1..Len(g), n - 1 \in S PROVE n \in S
  <2>1. /\ n \in 0..Len(g) /\ n + 1 \in 1..Len(f) /\ (n - 1) + 1 = n /\ (n + 1) - 1 = n
        /\ n - 1 \in 0..Len(g)
        /\ fs[(n - 1) + 1] = f[1] + gs[n - 1] /\ g[n] = f[n + 1] /\ g[n] \in Nat
    BY <1>3, <1>5
  <2>2. fs[n + 1] = fs[n] + f[n + 1] /\ gs[n] = gs[n - 1] + g[n]
    BY <1>1, <1>2, <2>1 DEF Sums, Upto
  <2>3. gs[n - 1] \in Nat
    BY <1>2, <2>1 DEF Sums, Upto
  <2>4. fs[n + 1] = f[1] + gs[n]
    BY <2>1, <2>2, <2>3, <1>3
  <2> QED
    BY <2>1, <2>4
<1>6. \A n \in 1..Len(g) : n - 1 \in S => n \in S
  BY <1>5
<1>7. \A n \in 0..Len(g) : n \in S
  <2> HIDE DEF S
  <2> QED
    BY <1>3, <1>4, <1>6, CountUp
<1> QED
  BY <1>1, <1>2, <1>3, <1>7

-------------------------------------------------------------------------------
(* kept[m] is what the loop of a gate has kept of the first m candidates, m*)
(* up to n.                                                                *)
KeptSoFar(admitted, cands, n, kept) ==
    /\ kept \in [0..n -> Selections(cands)]
    /\ kept[0] = <<>>
    /\ \A m \in 1..n :
          kept[m] = IF cands[m] \in admitted[kept[m - 1]] THEN Append(kept[m - 1], cands[m])
                                                         ELSE kept[m - 1]

(* The loop of a gate has a result: what is kept of each prefix.           *)
LEMMA KeptExists ==
    ASSUME NEW R, NEW cands \in Seq(R), NEW admitted
    PROVE  \E kept : KeptSoFar(admitted, cands, Len(cands), kept)
<1> DEFINE S == {n \in 0..Len(cands) : \E kept : KeptSoFar(admitted, cands, n, kept)}
<1>1. Len(cands) \in Nat /\ \A m \in 1..Len(cands) : cands[m] \in ToSet(cands)
  BY DEF ToSet
<1>2. 0 \in S
  <2> DEFINE none == [m \in 0..0 |-> <<>>]
  <2>1. KeptSoFar(admitted, cands, 0, none)
    BY DEF KeptSoFar, Selections
  <2> HIDE DEF none
  <2> QED
    BY <1>1, <2>1
<1>3. ASSUME NEW n \in 1..Len(cands), n - 1 \in S PROVE n \in S
  <2>1. PICK kept : KeptSoFar(admitted, cands, n - 1, kept)
    BY <1>3
  <2> DEFINE last == IF cands[n] \in admitted[kept[n - 1]] THEN Append(kept[n - 1], cands[n])
                                                        ELSE kept[n - 1]
             next == [m \in 0..n |-> IF m = n THEN last ELSE kept[m]]
  <2>2. last \in Selections(cands)
    BY <1>1, <2>1 DEF KeptSoFar, Selections
  <2>3. next \in [0..n -> Selections(cands)] /\ next[0] = <<>>
    <3> HIDE DEF last
    <3> QED
      BY <2>1, <2>2 DEF KeptSoFar
  <2>4. ASSUME NEW m \in 1..n
        PROVE  next[m] = IF cands[m] \in admitted[next[m - 1]] THEN Append(next[m - 1], cands[m])
                                                              ELSE next[m - 1]
    <3>1. m - 1 \in 0..n /\ m \in 0..n /\ m - 1 # n
      OBVIOUS
    <3>2. next[m - 1] = kept[m - 1]
      BY <3>1
    <3>3. CASE m = n
      BY <3>1, <3>2, <3>3
    <3>4. CASE m # n
      <4>1. m \in 1..(n - 1) /\ next[m] = kept[m]
        BY <3>1, <3>4
      <4> HIDE DEF next
      <4> QED
        BY <3>2, <4>1, <2>1 DEF KeptSoFar
    <3> QED
      BY <3>3, <3>4
  <2>5. KeptSoFar(admitted, cands, n, next)
    <3> HIDE DEF next
    <3> QED
      BY <2>3, <2>4 DEF KeptSoFar
  <2> HIDE DEF next
  <2> QED
    BY <2>5
<1>4. Len(cands) \in S
  <2> HIDE DEF S
  <2>1. \A n \in 1..Len(cands) : n - 1 \in S => n \in S
    BY <1>3
  <2>2. \A n \in 0..Len(cands) : n \in S
    BY <1>1, <1>2, <2>1, CountUp
  <2> QED
    BY <1>1, <2>2
<1> QED
  BY <1>4

(* A gate in hard mode has kept kept[n] of the first n candidates.         *)
LEMMA GateKeeps ==
    ASSUME NEW R, NEW cands \in Seq(R), NEW admitted
    PROVE  \E kept : /\ KeptSoFar(admitted, cands, Len(cands), kept)
                     /\ Gate("hard", admitted, cands) = kept[Len(cands)]
<1> DEFINE Rule(kept) ==
             [n \in 0..Len(cands) |->
                IF n = 0 THEN <<>>
                ELSE IF cands[n] \in admitted[kept[n - 1]]
                     THEN Append(kept[n - 1], cands[n]) ELSE kept[n - 1]]
           chosen == CHOOSE kept : kept = Rule(kept)
<1>1. Gate("hard", admitted, cands) = chosen[Len(cands)]
  BY DEF Gate
<1>2. PICK kept : KeptSoFar(admitted, cands, Len(cands), kept)
  BY KeptExists
<1>3. kept = Rule(kept)
  <2>1. kept = [n \in 0..Len(cands) |-> kept[n]]
    BY <1>2 DEF KeptSoFar
  <2>2. ASSUME NEW n \in 0..Len(cands) PROVE kept[n] = Rule(kept)[n]
    <3>1. CASE n = 0
      BY <3>1, <1>2 DEF KeptSoFar
    <3>2. CASE n # 0
      <4>1. n \in 1..Len(cands)
        BY <3>2
      <4>2. kept[n] = IF cands[n] \in admitted[kept[n - 1]]
                      THEN Append(kept[n - 1], cands[n]) ELSE kept[n - 1]
        BY <4>1, <1>2 DEF KeptSoFar
      <4> QED
        BY <3>2, <4>2
    <3> QED
      BY <3>1, <3>2
  <2>3. Rule(kept) = [n \in 0..Len(cands) |-> Rule(kept)[n]]
    OBVIOUS
  <2> HIDE DEF Rule
  <2> QED
    BY <2>1, <2>2, <2>3, Zenon
<1>4. chosen = Rule(chosen)
  <2> HIDE DEF Rule
  <2> QED
    BY <1>3, Zenon
<1> HIDE DEF chosen
<1>5. KeptSoFar(admitted, cands, Len(cands), chosen)
  <2> DEFINE S == {n \in 0..Len(cands) : chosen[n] = kept[n]}
  <2>1. Len(cands) \in Nat /\ 0 \in S
    BY <1>3, <1>4
  <2>2. ASSUME NEW n \in 1..Len(cands), n - 1 \in S PROVE n \in S
    <3>1. n \in 0..Len(cands) /\ n # 0 /\ chosen[n - 1] = kept[n - 1]
      BY <2>1, <2>2
    <3>2. chosen[n] = Rule(chosen)[n] /\ kept[n] = Rule(kept)[n]
      <4> HIDE DEF Rule
      <4> QED
        BY <1>3, <1>4
    <3>3. Rule(chosen)[n] = Rule(kept)[n]
      BY <3>1
    <3> QED
      BY <3>1, <3>2, <3>3
  <2>3. \A n \in 0..Len(cands) : n \in S
    <3> HIDE DEF S
    <3>1. \A n \in 1..Len(cands) : n - 1 \in S => n \in S
      BY <2>2
    <3> QED
      BY <3>1, <2>1, CountUp
  <2>4. /\ chosen = [n \in 0..Len(cands) |-> chosen[n]]
        /\ kept = [n \in 0..Len(cands) |-> kept[n]]
    BY <1>3, <1>4
  <2>5. chosen = kept
    BY <2>3, <2>4, Zenon
  <2> QED
    BY <1>2, <2>5
<1> QED
  BY <1>1, <1>5

(* Some of the candidates of cands, each once.                             *)
Selection(out, cands) ==
    \E pick \in [DOMAIN out -> DOMAIN cands] :
        /\ \A j, k \in DOMAIN out : pick[j] = pick[k] => j = k
        /\ \A k \in DOMAIN out : out[k] = cands[pick[k]]

(* A gate, in every mode, keeps some of the candidates, each once and in no*)
(* new form.                                                               *)
LEMMA GateSelects ==
    ASSUME NEW R, NEW cands \in Seq(R), NEW mode, NEW admitted
    PROVE  /\ Gate(mode, admitted, cands) \in Seq(R)
           /\ Selection(Gate(mode, admitted, cands), cands)
<1>1. CASE mode # "hard"
  <2>1. Gate(mode, admitted, cands) = cands
    BY <1>1 DEF Gate
  <2> DEFINE all == [k \in DOMAIN cands |-> k]
  <2>2. /\ all \in [DOMAIN cands -> DOMAIN cands]
        /\ \A j, k \in DOMAIN cands : all[j] = all[k] => j = k
        /\ \A k \in DOMAIN cands : cands[k] = cands[all[k]]
    OBVIOUS
  <2> HIDE DEF all
  <2> QED
    BY <2>1, <2>2 DEF Selection
<1>2. CASE mode = "hard"
  <2>1. PICK kept : /\ KeptSoFar(admitted, cands, Len(cands), kept)
                    /\ Gate("hard", admitted, cands) = kept[Len(cands)]
    BY GateKeeps
  <2> DEFINE Picks(n, pick) ==
               /\ pick \in [1..Len(kept[n]) -> 1..n]
               /\ \A j, k \in 1..Len(kept[n]) : pick[j] = pick[k] => j = k
               /\ \A k \in 1..Len(kept[n]) : kept[n][k] = cands[pick[k]]
             S == {n \in 0..Len(cands) : kept[n] \in Seq(R) /\ \E pick : Picks(n, pick)}
  <2>2. Len(cands) \in Nat
    OBVIOUS
  <2>3. 0 \in S
    <3> DEFINE none == [k \in 1..0 |-> 1]
    <3>1. kept[0] = <<>> /\ Len(<<>>) = 0
      BY <2>1 DEF KeptSoFar
    <3>2. none \in [1..0 -> 1..0]
      OBVIOUS
    <3>3. Picks(0, none)
      BY <3>1, <3>2
    <3>4. kept[0] \in Seq(R) /\ 0 \in 0..Len(cands)
      BY <3>1, <2>2
    <3> HIDE DEF none, Picks
    <3> QED
      BY <3>3, <3>4
  <2>4. ASSUME NEW n \in 1..Len(cands), n - 1 \in S PROVE n \in S
    <3>1. PICK pick : Picks(n - 1, pick)
      <4> HIDE DEF Picks
      <4> QED
        BY <2>4
    <3>2. /\ n \in 0..Len(cands) /\ kept[n - 1] \in Seq(R) /\ cands[n] \in R
          /\ Len(kept[n - 1]) \in Nat
      BY <2>2, <2>4
    <3>3. CASE kept[n] = kept[n - 1]
      <4>1. 1..(n - 1) \subseteq 1..n
        OBVIOUS
      <4>2. Picks(n, pick)
        BY <3>1, <3>3, <4>1
      <4> HIDE DEF Picks
      <4> QED
        BY <3>2, <3>3, <4>2
    <3>4. CASE kept[n] = Append(kept[n - 1], cands[n])
      <4> DEFINE len == Len(kept[n - 1]) + 1
                 more == [k \in 1..len |-> IF k = len THEN n ELSE pick[k]]
      <4>1. /\ kept[n] \in Seq(R) /\ Len(kept[n]) = len
            /\ \A k \in 1..Len(kept[n - 1]) : kept[n][k] = kept[n - 1][k]
            /\ kept[n][len] = cands[n]
        BY <3>2, <3>4
      <4>2. \A k \in 1..len : k # len => k \in 1..Len(kept[n - 1])
        BY <3>2
      <4>3. \A k \in 1..len : k # len => pick[k] \in 1..(n - 1) /\ pick[k] # n
        BY <3>1, <4>2
      <4>4. more \in [1..len -> 1..n]
        BY <4>3
      <4>5. \A j, k \in 1..len : more[j] = more[k] => j = k
        BY <3>1, <4>2, <4>3
      <4>6. \A k \in 1..len : kept[n][k] = cands[more[k]]
        BY <3>1, <4>1, <4>2
      <4>7. Picks(n, more)
        <5> HIDE DEF more, len
        <5> QED
          BY <4>1, <4>4, <4>5, <4>6
      <4> HIDE DEF Picks, more
      <4> QED
        BY <3>2, <4>1, <4>7
    <3>5. kept[n] = kept[n - 1] \/ kept[n] = Append(kept[n - 1], cands[n])
      BY <2>1 DEF KeptSoFar
    <3> QED
      BY <3>3, <3>4, <3>5
  <2>5. Len(cands) \in S
    <3> HIDE DEF S
    <3>1. \A n \in 1..Len(cands) : n - 1 \in S => n \in S
      BY <2>4
    <3>2. \A n \in 0..Len(cands) : n \in S
      BY <2>2, <2>3, <3>1, CountUp
    <3> QED
      BY <2>2, <3>2
  <2> DEFINE out == kept[Len(cands)]
  <2>6. PICK pick : out \in Seq(R) /\ Picks(Len(cands), pick)
    <3> HIDE DEF Picks
    <3> QED
      BY <2>5
  <2>7. DOMAIN out = 1..Len(out) /\ DOMAIN cands = 1..Len(cands)
    BY <2>6
  <2>8. Selection(out, cands)
    BY <2>6, <2>7 DEF Selection
  <2> QED
    BY <1>2, <2>1, <2>6, <2>8
<1> QED
  BY <1>1, <1>2

-------------------------------------------------------------------------------
(* Candidates bought, and the room the caps leave.                         *)

(* The bought candidates of an option side, and the open positions.        *)
Bought(cands, side) == {k \in DOMAIN cands : ~IsShort(cands[k]) /\ cands[k].side = side}
OpenIds == {i \in DOMAIN rows : IsOpen(rows, i)}

(* Every gate of the order manager keeps some of the candidates.           *)
LEMMA FilterEffect ==
    ASSUME NEW cands \in Seq(SignalRecords), NEW good, NEW enforceCap
    PROVE  /\ PreMarketGate(rows, day, cands, good, enforceCap) \in Seq(SignalRecords)
           /\ Selection(PreMarketGate(rows, day, cands, good, enforceCap), cands)
           /\ BreadthGate(cands, good) \in Seq(SignalRecords)
           /\ Selection(BreadthGate(cands, good), cands)
           /\ EntryGate(cands, good) \in Seq(SignalRecords)
           /\ Selection(EntryGate(cands, good), cands)
           /\ ConcentrationGate(rows, day, cands) \in Seq(SignalRecords)
           /\ Selection(ConcentrationGate(rows, day, cands), cands)
           /\ ExposureGate(rows, day, cands) \in Seq(SignalRecords)
           /\ Selection(ExposureGate(rows, day, cands), cands)
<1>1. /\ PreMarketGate(rows, day, cands, good, enforceCap) \in Seq(SignalRecords)
      /\ Selection(PreMarketGate(rows, day, cands, good, enforceCap), cands)
  BY GateSelects, Zenon DEF PreMarketGate
<1>2. /\ BreadthGate(cands, good) \in Seq(SignalRecords)
      /\ Selection(BreadthGate(cands, good), cands)
  BY GateSelects, Zenon DEF BreadthGate
<1>3. /\ EntryGate(cands, good) \in Seq(SignalRecords)
      /\ Selection(EntryGate(cands, good), cands)
  BY GateSelects, Zenon DEF EntryGate
<1>4. /\ ConcentrationGate(rows, day, cands) \in Seq(SignalRecords)
      /\ Selection(ConcentrationGate(rows, day, cands), cands)
  BY GateSelects, Zenon DEF ConcentrationGate
<1>5. /\ ExposureGate(rows, day, cands) \in Seq(SignalRecords)
      /\ Selection(ExposureGate(rows, day, cands), cands)
  BY GateSelects, Zenon DEF ExposureGate
<1> QED
  BY <1>1, <1>2, <1>3, <1>4, <1>5

(* A candidate adds to those bought on its option side.                    *)
LEMMA BoughtGrows ==
    ASSUME NEW kept \in Seq(SignalRecords), NEW s \in SignalRecords, NEW side
    PROVE  /\ IsFiniteSet(Bought(kept, side)) /\ Cardinality(Bought(kept, side)) \in Nat
           /\ IF ~IsShort(s) /\ s.side = side
              THEN Cardinality(Bought(Append(kept, s), side)) = Cardinality(Bought(kept, side)) + 1
              ELSE Bought(Append(kept, s), side) = Bought(kept, side)
<1>1. /\ Len(kept) \in Nat /\ DOMAIN kept = 1..Len(kept) /\ DOMAIN Append(kept, s) = 1..(Len(kept) + 1)
      /\ \A k \in 1..Len(kept) : Append(kept, s)[k] = kept[k]
      /\ Append(kept, s)[Len(kept) + 1] = s
  OBVIOUS
<1>2. IsFiniteSet(Bought(kept, side)) /\ Cardinality(Bought(kept, side)) \in Nat
  <2>1. IsFiniteSet(1..Len(kept))
    BY <1>1, FS_Interval
  <2>2. Bought(kept, side) \subseteq 1..Len(kept)
    BY <1>1 DEF Bought
  <2> QED
    BY <2>1, <2>2, FS_Subset, FS_CardinalityType
<1>3. CASE ~IsShort(s) /\ s.side = side
  <2>1. Bought(Append(kept, s), side) = Bought(kept, side) \cup {Len(kept) + 1}
    BY <1>1, <1>3 DEF Bought
  <2>2. Len(kept) + 1 \notin Bought(kept, side)
    BY <1>1 DEF Bought
  <2> QED
    BY <2>1, <2>2, <1>2, <1>3, FS_AddElement
<1>4. CASE ~(~IsShort(s) /\ s.side = side)
  <2>1. Bought(Append(kept, s), side) = Bought(kept, side)
    BY <1>1, <1>4 DEF Bought
  <2> QED
    BY <2>1, <1>2, <1>4
<1> QED
  BY <1>2, <1>3, <1>4

(* What _apply_concentration_gate keeps fits, with the open positions,     *)
(* under the cap of the side.                                              *)
LEMMA ConcentrationRoom ==
    ASSUME NEW cands \in Seq(SignalRecords), NEW side \in Sides,
           IsFiniteSet(DOMAIN rows), PortfolioMode = "hard", MaxSameDirection # 0
    PROVE  LET out == ConcentrationGate(rows, day, cands)
           IN  Bought(out, side) # {} =>
                  Cardinality({i \in OpenTrades(rows, day) : rows[i].side = side})
                  + Cardinality(Bought(out, side)) <= MaxSameDirection
<1> DEFINE open == Cardinality({i \in OpenTrades(rows, day) : rows[i].side = side})
           Admits(kept, s) ==
               \/ IsShort(s)
               \/ /\ MaxSameDirection # 0 => SideLoad(rows, day, kept, s.side) < MaxSameDirection
                  /\ MaxPerSector # 0 /\ SectorOf[s.sym] # NoSector
                        => SectorLoad(rows, day, kept, SectorOf[s.sym]) < MaxPerSector
           admitted == [kept \in Selections(cands) |-> {s \in ToSet(cands) : Admits(kept, s)}]
<1>1. ConcentrationGate(rows, day, cands) = Gate("hard", admitted, cands)
  BY DEF ConcentrationGate
<1>2. PICK kept : /\ KeptSoFar(admitted, cands, Len(cands), kept)
                  /\ Gate("hard", admitted, cands) = kept[Len(cands)]
  <2> HIDE DEF admitted
  <2> QED
    BY GateKeeps
<1> DEFINE Fits(list) == Bought(list, side) # {} => open + Cardinality(Bought(list, side)) <= MaxSameDirection
           S == {n \in 0..Len(cands) : Fits(kept[n])}
<1>3. open \in Nat
  <2>1. {i \in OpenTrades(rows, day) : rows[i].side = side} \subseteq DOMAIN rows
    BY DEF OpenTrades
  <2> QED
    BY <2>1, FS_Subset, FS_CardinalityType
<1>4. MaxSameDirection \in Nat /\ Len(cands) \in Nat
  BY EntryGatesAssumption
<1>5. 0 \in S
  <2>1. kept[0] = <<>>
    BY <1>2 DEF KeptSoFar
  <2>2. Bought(<<>>, side) = {}
    BY DEF Bought
  <2> QED
    BY <2>1, <2>2, <1>4
<1>6. ASSUME NEW n \in 1..Len(cands), n - 1 \in S PROVE n \in S
  <2> DEFINE before == kept[n - 1]
  <2>1. n \in 0..Len(cands) /\ n - 1 \in 0..Len(cands) /\ cands[n] \in SignalRecords
    BY <1>4
  <2>2. before \in Selections(cands) /\ before \in Seq(SignalRecords)
    <3>1. before \in Selections(cands)
      BY <1>2, <2>1 DEF KeptSoFar
    <3>2. ToSet(cands) \subseteq SignalRecords
      BY DEF ToSet
    <3> QED
      BY <3>1, <3>2 DEF Selections
  <2>3. Fits(before)
    BY <1>6
  <2>4. CASE cands[n] \notin admitted[before]
    <3>1. kept[n] = before
      BY <1>2, <2>4 DEF KeptSoFar
    <3> HIDE DEF Fits, before
    <3> QED
      BY <3>1, <2>1, <2>3
  <2>5. CASE cands[n] \in admitted[before]
    <3>1. kept[n] = Append(before, cands[n])
      BY <1>2, <2>5 DEF KeptSoFar
    <3>2. Admits(before, cands[n])
      BY <2>2, <2>5
    <3> HIDE DEF admitted, before
    <3>3. CASE ~IsShort(cands[n]) /\ cands[n].side = side
      <4>1. SideLoad(rows, day, before, side) < MaxSameDirection
        BY <3>2, <3>3
      <4>2. open + Cardinality(Bought(before, side)) < MaxSameDirection
        BY <4>1 DEF SideLoad, Bought
      <4>3. Cardinality(Bought(Append(before, cands[n]), side)) = Cardinality(Bought(before, side)) + 1
            /\ Cardinality(Bought(before, side)) \in Nat
        BY <3>3, <2>1, <2>2, BoughtGrows
      <4> HIDE DEF open
      <4>4. open + Cardinality(Bought(Append(before, cands[n]), side)) <= MaxSameDirection
        BY <4>2, <4>3, <1>3, <1>4
      <4> QED
        BY <4>4, <3>1, <2>1
    <3>4. CASE ~(~IsShort(cands[n]) /\ cands[n].side = side)
      <4>1. Bought(Append(before, cands[n]), side) = Bought(before, side)
        BY <3>4, <2>1, <2>2, BoughtGrows
      <4> HIDE DEF open
      <4> QED
        BY <4>1, <3>1, <2>1, <2>3
    <3> QED
      BY <3>3, <3>4
  <2> QED
    BY <2>4, <2>5
<1>7. Fits(kept[Len(cands)])
  <2>1. \A n \in 1..Len(cands) : n - 1 \in S => n \in S
    BY <1>6
  <2>2. \A n \in 0..Len(cands) : n \in S
    <3> HIDE DEF S
    <3> QED
      BY <1>4, <1>5, <2>1, CountUp
  <2> QED
    BY <1>4, <2>2
<1> HIDE DEF admitted, open
<1> QED
  BY <1>1, <1>2, <1>7 DEF open

(* The premium of a list of candidates, and that of an open position more. *)
LEMMA PremiumGrows ==
    ASSUME NEW kept \in Seq(SignalRecords), NEW s \in SignalRecords
    PROVE  /\ PremiumOf(kept) \in Nat
           /\ PremiumOf(Append(kept, s)) = PremiumOf(kept) + s.entry
<1> DEFINE f == [k \in DOMAIN kept |-> kept[k].entry]
           more == Append(kept, s)
           g == [k \in DOMAIN more |-> more[k].entry]
<1>1. /\ Len(kept) \in Nat /\ DOMAIN kept = 1..Len(kept)
      /\ DOMAIN more = 1..(Len(kept) + 1)
      /\ \A k \in 1..Len(kept) : more[k] = kept[k] /\ kept[k].entry \in Nat
      /\ more[Len(kept) + 1] = s /\ s.entry \in Nat
  <2>1. /\ Len(kept) \in Nat /\ DOMAIN kept = 1..Len(kept)
        /\ DOMAIN more = 1..(Len(kept) + 1)
        /\ \A k \in 1..Len(kept) : more[k] = kept[k] /\ kept[k] \in SignalRecords
        /\ more[Len(kept) + 1] = s
    OBVIOUS
  <2>2. \A u \in SignalRecords : u.entry \in Nat
    BY DEF SignalRecords
  <2> HIDE DEF more
  <2> QED
    BY <2>1, <2>2
<1> HIDE DEF more
<1>2. f \in Seq(Nat) /\ Len(f) = Len(kept)
  BY <1>1
<1>3. g \in Seq(Nat) /\ Len(g) = Len(kept) + 1
  BY <1>1
<1>4. g[Len(g)] = s.entry /\ \A i \in 1..Len(f) : g[i] = f[i]
  BY <1>1, <1>2, <1>3
<1>5. PremiumOf(kept) = Total(f) /\ PremiumOf(more) = Total(g)
  BY DEF PremiumOf
<1> HIDE DEF f, g
<1>6. Total(f) \in Nat /\ Total(g) = Total(f) + g[Len(g)]
  BY <1>2, <1>3, <1>4, TotalType, TotalGrows
<1> QED
  BY <1>4, <1>5, <1>6 DEF more

(* What _apply_exposure_gate keeps fits, with the whole book, under both   *)
(* caps.                                                                   *)
LEMMA ExposureRoom ==
    ASSUME NEW cands \in Seq(SignalRecords), ExposureMode = "hard",
           IsFiniteSet(DOMAIN rows), OpenPremium(rows, day) \in Nat
    PROVE  LET out == ExposureGate(rows, day, cands)
           IN  out # <<>> =>
                 /\ MaxOpenPositions # 0 =>
                       Cardinality(OpenTrades(rows, day)) + Len(out) <= MaxOpenPositions
                 /\ MaxOpenPremium # 0 =>
                       OpenPremium(rows, day) + PremiumOf(out) <= MaxOpenPremium
<1> DEFINE open == Cardinality(OpenTrades(rows, day))
           deployed == OpenPremium(rows, day)
           Admits(kept, s) ==
               /\ MaxOpenPositions # 0 => open + Len(kept) < MaxOpenPositions
               /\ MaxOpenPremium # 0 => deployed + PremiumOf(kept) + s.entry <= MaxOpenPremium
           admitted == [kept \in Selections(cands) |-> {s \in ToSet(cands) : Admits(kept, s)}]
<1>1. ExposureGate(rows, day, cands) = Gate("hard", admitted, cands)
  BY DEF ExposureGate
<1>2. PICK kept : /\ KeptSoFar(admitted, cands, Len(cands), kept)
                  /\ Gate("hard", admitted, cands) = kept[Len(cands)]
  <2> HIDE DEF admitted
  <2> QED
    BY GateKeeps
<1> DEFINE Fits(list) ==
             list # <<>> =>
                 /\ MaxOpenPositions # 0 => open + Len(list) <= MaxOpenPositions
                 /\ MaxOpenPremium # 0 => deployed + PremiumOf(list) <= MaxOpenPremium
           S == {n \in 0..Len(cands) : Fits(kept[n])}
<1>3. open \in Nat /\ deployed \in Nat
  <2>1. OpenTrades(rows, day) \subseteq DOMAIN rows
    BY DEF OpenTrades
  <2> QED
    BY <2>1, FS_Subset, FS_CardinalityType
<1>4. MaxOpenPositions \in Nat /\ MaxOpenPremium \in Nat /\ Len(cands) \in Nat
  BY EntryGatesAssumption
<1> HIDE DEF open, deployed
<1>5. 0 \in S
  BY <1>2, <1>4 DEF KeptSoFar
<1>6. ASSUME NEW n \in 1..Len(cands), n - 1 \in S PROVE n \in S
  <2> DEFINE before == kept[n - 1]
             s == cands[n]
  <2>1. n \in 0..Len(cands) /\ n - 1 \in 0..Len(cands) /\ s \in SignalRecords
    BY <1>4
  <2>2. before \in Selections(cands) /\ before \in Seq(SignalRecords)
    <3>1. before \in Selections(cands)
      BY <1>2, <2>1 DEF KeptSoFar
    <3>2. ToSet(cands) \subseteq SignalRecords
      BY DEF ToSet
    <3> QED
      BY <3>1, <3>2 DEF Selections
  <2>3. Fits(before)
    BY <1>6
  <2>4. CASE cands[n] \notin admitted[before]
    <3>1. kept[n] = before
      BY <1>2, <2>4 DEF KeptSoFar
    <3> HIDE DEF Fits, before
    <3> QED
      BY <3>1, <2>1, <2>3
  <2>5. CASE cands[n] \in admitted[before]
    <3>1. kept[n] = Append(before, s)
      BY <1>2, <2>5 DEF KeptSoFar
    <3>2. Admits(before, s)
      BY <2>2, <2>5
    <3> HIDE DEF admitted, before, s
    <3>3. Len(Append(before, s)) = Len(before) + 1 /\ Len(before) \in Nat
      BY <2>2
    <3>4. PremiumOf(Append(before, s)) = PremiumOf(before) + s.entry /\ PremiumOf(before) \in Nat
      BY <2>1, <2>2, PremiumGrows
    <3>5. s.entry \in Nat
      BY <2>1 DEF SignalRecords
    <3>6. Fits(Append(before, s))
      BY <3>2, <3>3, <3>4, <3>5, <1>3, <1>4
    <3> QED
      BY <3>1, <3>6, <2>1
  <2> QED
    BY <2>4, <2>5
<1>7. Fits(kept[Len(cands)])
  <2>1. \A n \in 1..Len(cands) : n - 1 \in S => n \in S
    BY <1>6
  <2>2. \A n \in 0..Len(cands) : n \in S
    <3> HIDE DEF S
    <3> QED
      BY <1>4, <1>5, <2>1, CountUp
  <2> QED
    BY <1>4, <2>2
<1> HIDE DEF admitted
<1> QED
  BY <1>1, <1>2, <1>7 DEF open, deployed

(* What dropping candidates does to the number bought and to the premium.  *)

(* A candidate list has finitely many candidates.                          *)
LEMMA BoughtIsFinite ==
    ASSUME NEW cands \in Seq(SignalRecords), NEW side
    PROVE  IsFiniteSet(Bought(cands, side)) /\ Cardinality(Bought(cands, side)) \in Nat
<1>1. IsFiniteSet(1..Len(cands))
  BY FS_Interval
<1>2. Bought(cands, side) \subseteq 1..Len(cands)
  BY DEF Bought
<1> QED
  BY <1>1, <1>2, FS_Subset, FS_CardinalityType

(* Dropping candidates can only lower the number bought on a side.         *)
LEMMA SelectedBought ==
    ASSUME NEW cands \in Seq(SignalRecords), NEW out \in Seq(SignalRecords),
           Selection(out, cands), NEW side
    PROVE  /\ Cardinality(Bought(out, side)) <= Cardinality(Bought(cands, side))
           /\ Bought(out, side) # {} => Bought(cands, side) # {}
<1>1. PICK pick \in [DOMAIN out -> DOMAIN cands] :
              /\ \A j, k \in DOMAIN out : pick[j] = pick[k] => j = k
              /\ \A k \in DOMAIN out : out[k] = cands[pick[k]]
  BY DEF Selection
<1> DEFINE f == [k \in Bought(out, side) |-> pick[k]]
<1>2. \A k \in Bought(out, side) : k \in DOMAIN out /\ pick[k] \in Bought(cands, side)
  BY <1>1 DEF Bought
<1>3. f \in [Bought(out, side) -> Bought(cands, side)]
  BY <1>2
<1>4. \A j, k \in Bought(out, side) : f[j] = f[k] => j = k
  BY <1>1, <1>2
<1>5. f \in Injection(Bought(out, side), Bought(cands, side))
  <2> HIDE DEF f
  <2> QED
    BY <1>3, <1>4 DEF Injection, IsInjective
<1>6. Cardinality(Bought(out, side)) <= Cardinality(Bought(cands, side))
  <2> HIDE DEF f
  <2> QED
    BY <1>5, BoughtIsFinite, FS_Injection
<1> QED
  BY <1>2, <1>6

(* The candidates without their head: its share of each quantity is gone.  *)
LEMMA RestEffect ==
    ASSUME NEW cands \in Seq(SignalRecords), cands # <<>>
    PROVE  /\ Tail(cands) \in Seq(SignalRecords) /\ Head(cands) \in SignalRecords
           /\ Len(Tail(cands)) = Len(cands) - 1
           /\ \A side :
                 /\ Cardinality(Bought(Tail(cands), side))
                       + (IF ~IsShort(Head(cands)) /\ Head(cands).side = side THEN 1 ELSE 0)
                      = Cardinality(Bought(cands, side))
                 /\ Bought(Tail(cands), side) # {} => Bought(cands, side) # {}
                 /\ ~IsShort(Head(cands)) /\ Head(cands).side = side => Bought(cands, side) # {}
           /\ PremiumOf(cands) = Head(cands).entry + PremiumOf(Tail(cands))
           /\ PremiumOf(Tail(cands)) \in Nat
<1> DEFINE rest == Tail(cands)
           s == Head(cands)
<1>1. /\ rest \in Seq(SignalRecords) /\ s \in SignalRecords /\ Len(cands) \in Nat \ {0}
      /\ Len(rest) = Len(cands) - 1 /\ Len(rest) \in Nat
      /\ s = cands[1] /\ \A k \in 1..Len(rest) : rest[k] = cands[k + 1]
      /\ DOMAIN rest = 1..Len(rest) /\ DOMAIN cands = 1..Len(cands)
  OBVIOUS
<1> HIDE DEF rest, s
<1>2. ASSUME NEW side
      PROVE  /\ Cardinality(Bought(rest, side))
                  + (IF ~IsShort(s) /\ s.side = side THEN 1 ELSE 0)
                   = Cardinality(Bought(cands, side))
             /\ Bought(rest, side) # {} => Bought(cands, side) # {}
             /\ ~IsShort(s) /\ s.side = side => Bought(cands, side) # {}
  <2> DEFINE later == Bought(cands, side) \ {1}
             f == [k \in Bought(rest, side) |-> k + 1]
  <2>1. \A k \in Bought(rest, side) : k \in 1..Len(rest) /\ k + 1 \in later
    BY <1>1 DEF Bought
  <2>2. \A k \in later : k - 1 \in Bought(rest, side) /\ (k - 1) + 1 = k
    BY <1>1 DEF Bought
  <2> HIDE DEF later
  <2>3. f \in [Bought(rest, side) -> later]
    BY <2>1
  <2>4. \A j, k \in Bought(rest, side) : f[j] = f[k] => j = k
    BY <2>1
  <2>5. \A k \in later : \E j \in Bought(rest, side) : f[j] = k
    BY <2>2
  <2>6. f \in Injection(Bought(rest, side), later) /\ f \in Surjection(Bought(rest, side), later)
    <3> HIDE DEF f
    <3> QED
      BY <2>3, <2>4, <2>5 DEF Injection, Surjection, IsInjective
  <2>7. IsFiniteSet(Bought(cands, side)) /\ IsFiniteSet(later)
    BY BoughtIsFinite, FS_Subset DEF later
  <2>8. Cardinality(Bought(rest, side)) = Cardinality(later)
    <3> HIDE DEF f
    <3> QED
      BY <2>6, <2>7, FS_Injection
  <2>9. Cardinality(later) \in Nat
    BY <2>7, FS_CardinalityType
  <2>10. CASE ~IsShort(s) /\ s.side = side
    <3>1. Bought(cands, side) = later \cup {1} /\ 1 \notin later
      BY <1>1, <2>10 DEF Bought, later
    <3>2. Cardinality(Bought(cands, side)) = Cardinality(later) + 1
      BY <3>1, <2>7, FS_AddElement
    <3> QED
      BY <2>10, <3>1, <3>2, <2>8
  <2>11. CASE ~(~IsShort(s) /\ s.side = side)
    <3>1. Bought(cands, side) = later
      BY <1>1, <2>11 DEF Bought, later
    <3>2. Bought(rest, side) # {} => later # {}
      BY <2>1
    <3> QED
      BY <2>11, <3>1, <3>2, <2>8, <2>9
  <2> QED
    BY <2>10, <2>11
<1>3. PremiumOf(cands) = s.entry + PremiumOf(rest) /\ PremiumOf(rest) \in Nat
  <2> DEFINE f == [k \in DOMAIN cands |-> cands[k].entry]
             g == [k \in DOMAIN rest |-> rest[k].entry]
  <2>1. /\ \A k \in 1..Len(cands) : cands[k] \in SignalRecords
        /\ \A k \in 1..Len(rest) : rest[k] \in SignalRecords
    BY <1>1
  <2>2. \A u \in SignalRecords : u.entry \in Nat
    BY DEF SignalRecords
  <2>3. f \in Seq(Nat) /\ Len(f) = Len(cands)
    BY <1>1, <2>1, <2>2
  <2>4. g \in Seq(Nat) /\ Len(g) = Len(rest)
    BY <1>1, <2>1, <2>2
  <2>5. f[1] = s.entry /\ \A k \in 1..Len(g) : g[k] = f[k + 1]
    BY <1>1, <2>4
  <2>6. PremiumOf(cands) = Total(f) /\ PremiumOf(rest) = Total(g)
    BY DEF PremiumOf
  <2> HIDE DEF f, g
  <2> QED
    BY <1>1, <2>3, <2>4, <2>5, <2>6, TotalOfRest, TotalType
<1> QED
  BY <1>1, <1>2, <1>3 DEF rest, s

-------------------------------------------------------------------------------
(* The inductive invariant.                                                *)

Rows ==
    [sym : DOMAIN SectorOf, side : Sides, strike : Nat, combo : Nat, day : Nat,
     trade : Trades]

(* The book: what has not been closed has realised nothing.                *)
BookInv ==
    /\ rows \in Seq(Rows)
    /\ \A i \in DOMAIN rows :
          /\ rows[i].day \in 1..day
          /\ rows[i].combo \in 0..Len(rows)
          /\ rows[i].trade.entry \in Nat
          /\ IsOpen(rows, i) => rows[i].trade.realized = 0 /\ rows[i].trade.reason = "none"
    /\ live \subseteq DOMAIN rows
    /\ day \in 1..MaxDay /\ late \in BOOLEAN
    /\ flattened \in 0..day /\ lossAlerted \in 0..day

(* The scan thread: it books only what it has at hand.                     *)
Submissions ==
    [pc : {"idle", "lockout", "quality", "concentration", "exposure", "book",
           "subscribe", "hedge"},
     path : {"none", "batch", "external", "hedged", "legs"},
     cands : Seq(SignalRecords), rest : Seq(SignalRecords),
     hedge : SignalRecords \cup {NoSignal}, combo : Nat]

SubInv ==
    /\ sub \in Submissions
    /\ sub.combo <= Len(rows) + 1
    /\ sub.pc \in {"subscribe", "hedge"} =>
          /\ rows # <<>> /\ sub.cands # <<>> /\ sub.combo <= Len(rows)
    /\ sub.pc = "hedge" => sub.hedge # NoSignal
    /\ sub.pc = "book" /\ sub.path # "batch" => sub.cands # <<>>

(* The trades the monitor holds, those it has still to save, the spreads   *)
(* among them.                                                             *)
Ids == DOMAIN trk.snap
Pending == {trk.pend[k] : k \in DOMAIN trk.pend}
Pairs == ComboPairs(rows, Ids)

(* The monitor thread: one trade, or the two legs of a spread, wait to be  *)
(* saved.                                                                  *)
TrkInv ==
    /\ trk = [pc |-> trk.pc, squareOff |-> trk.squareOff, snap |-> trk.snap,
              quote |-> trk.quote, todo |-> trk.todo, partner |-> trk.partner,
              pend |-> trk.pend]
    /\ trk.pc \in {"idle", "combos", "legs", "flatten", "oi", "sonar"}
    /\ trk.squareOff \in BOOLEAN
    /\ trk.snap \in [Ids -> Trades]
    /\ Ids \subseteq DOMAIN rows /\ trk.todo \subseteq Ids /\ trk.partner \subseteq Ids
    /\ trk.pc \in {"combos", "legs"} => trk.quote \in [Ids -> Prices \cup {NoQuote}]
    /\ trk.pend # <<>> =>
          \E i \in Ids : trk.pend = <<i>> \/ \E j \in Ids \ {i} : trk.pend = <<i, j>>
    /\ trk.pc = "idle" => trk.todo = {} /\ trk.partner = {} /\ trk.pend = <<>>

(* The copies of the monitor and the book.                                 *)
Fresh(i) == trk.snap[i] = rows[i].trade

CopyInv ==
    /\ \A i \in Ids : /\ trk.snap[i].dir = rows[i].trade.dir
                      /\ trk.snap[i].entry = rows[i].trade.entry
    /\ trk.pc \in {"combos", "legs"} \/ ~SaveMayFail => \A i \in Ids \ Pending : Fresh(i)
    /\ \A i \in trk.todo \cup trk.partner : i \notin Pending /\ Fresh(i) /\ IsOpen(rows, i)
    /\ \A i \in Pending : IsOpen(rows, i) /\ Successor(rows[i].trade, trk.snap[i])

(* What is left to do in each phase of a pass.                             *)
PhaseInv ==
    /\ trk.pc \notin {"oi", "sonar"} => trk.partner = {}
    /\ trk.pc = "combos" =>
          /\ trk.squareOff => trk.todo = {}
          /\ \A l \in trk.todo : \E pair \in Pairs :
                /\ pair[1] = l /\ pair[2] \notin Pending
                /\ PairReason(trk.snap, trk.quote, pair) # "none"
    /\ trk.pc = "legs" /\ trk.squareOff => \A i \in Ids \ trk.todo : Closed(trk.snap[i])

(* In the risk exits the other leg of a spread that is still on the list,  *)
(* or is being closed, has not been closed either.                         *)
PartnerInv ==
    trk.pc \in {"oi", "sonar"} =>
        /\ \A i \in trk.todo : \A j \in Partner(rows, Ids, i) :
              j \notin Pending /\ Fresh(j) /\ IsOpen(rows, j)
        /\ \A j \in trk.partner : /\ trk.partner = {j} /\ j \notin trk.todo
                                  /\ Partner(rows, Ids, j) \cap trk.todo = {}

MonitorInv == TrkInv /\ CopyInv /\ PhaseInv /\ PartnerInv

IInv == BookInv /\ SubInv /\ MonitorInv

-------------------------------------------------------------------------------
(* What the scan thread does to the book.                                  *)

(* The table after an INSERT of the signal s with the combo c.             *)
Grown(s, c) == s \in SignalRecords /\ c \in 0..(Len(rows) + 1) /\ rows' = OpenTrade(rows, s, c, day)

(* What every step of the scan thread does to the rest of the state.       *)
BookKept ==
    /\ UNCHANGED <<day, late, trk, flattened>>
    /\ lossAlerted' \in {lossAlerted, day}
    /\ live' \subseteq DOMAIN rows
    /\ rows' = rows \/ \E s, c : Grown(s, c)

(* A booking appends one well-formed row and leaves the others alone.      *)
LEMMA GrownEffect ==
    ASSUME rows \in Seq(Rows), day \in Nat, NEW s, NEW c, Grown(s, c)
    PROVE  /\ rows' \in Seq(Rows) /\ Len(rows') = Len(rows) + 1 /\ Len(rows) \in Nat
           /\ DOMAIN rows = 1..Len(rows) /\ DOMAIN rows' = 1..(Len(rows) + 1)
           /\ \A i \in DOMAIN rows : rows'[i] = rows[i]
           /\ rows'[Len(rows) + 1] = Row(s, c, day)
           /\ NewTrade(s) \in Trades
<1>1. NewTrade(s) \in Trades
  BY DEF Grown, SignalRecords, NewTrade, Trades, Statuses, Reasons, Directions
<1>2. Row(s, c, day) \in Rows
  BY <1>1 DEF Grown, SignalRecords, Row, Rows
<1> QED
  BY <1>1, <1>2 DEF Grown, OpenTrade

(* What follows a submission is well formed and carries no other combo or  *)
(* hedge.                                                                  *)
LEMMA NextSubmissionEffect ==
    ASSUME SubInv, NEW booked \in BOOLEAN
    PROVE  LET next == NextSubmission(booked)
           IN  /\ next \in Submissions /\ next.pc \in {"idle", "lockout"}
               /\ next.combo \in {NoCombo, sub.combo} /\ next.hedge \in {NoSignal, sub.hedge}
<1>1. IdleSub \in Submissions /\ IdleSub.pc = "idle" /\ IdleSub.combo = NoCombo
      /\ IdleSub.hedge = NoSignal
  BY DEF IdleSub, Submissions, NoCombo
<1>2. CASE sub.rest # <<>> /\ (sub.path = "legs" \/ booked)
  <2>1. /\ sub \in Submissions /\ sub.rest \in Seq(SignalRecords)
    BY DEF SubInv, Submissions
  <2>2. <<Head(sub.rest)>> \in Seq(SignalRecords) /\ Tail(sub.rest) \in Seq(SignalRecords)
    BY <1>2, <2>1
  <2>3. NextSubmission(booked) =
          [sub EXCEPT !.pc = "lockout", !.cands = <<Head(sub.rest)>>, !.rest = Tail(sub.rest)]
    BY <1>2 DEF NextSubmission
  <2> QED
    BY <2>1, <2>2, <2>3 DEF Submissions
<1>3. CASE ~(sub.rest # <<>> /\ (sub.path = "legs" \/ booked))
  BY <1>1, <1>3 DEF NextSubmission
<1> QED
  BY <1>2, <1>3

(* A new submission.                                                       *)
LEMMA SubmitEffect ==
    ASSUME BookInv, SubInv,
           SubmitSignals \/ SubmitExternalSignal \/ SubmitWithHedge \/ SubmitStrangle
    PROVE  BookKept /\ SubInv' /\ rows' = rows
<1>1. ASSUME NEW path \in {"batch", "external", "hedged", "legs"},
             NEW cands \in Seq(SignalRecords), NEW rest \in Seq(SignalRecords),
             NEW combo \in {NoCombo, FreshCombo}, Submit(path, cands, rest, combo)
      PROVE  BookKept /\ SubInv' /\ rows' = rows
  <2>1. combo \in Nat /\ combo <= Len(rows) + 1
    BY DEF BookInv, FreshCombo, NoCombo
  <2>2. sub' = [pc |-> "lockout", path |-> path, cands |-> cands, rest |-> rest,
                hedge |-> NoSignal, combo |-> combo]
    BY <1>1 DEF Submit, IdleSub
  <2>3. SubInv'
    BY <2>1, <2>2, <1>1 DEF SubInv, Submissions, Submit
  <2> QED
    BY <2>3, <1>1 DEF Submit, BookKept, BookInv, clock, dedup
<1>2. CASE SubmitSignals
  <2>1. PICK batch \in Batches : Submit("batch", batch, <<>>, NoCombo)
    BY <1>2 DEF SubmitSignals
  <2>2. batch \in Seq(SignalRecords) /\ <<>> \in Seq(SignalRecords)
    BY SignalsAreRecords
  <2> QED
    BY <2>1, <2>2, <1>1
<1>3. CASE SubmitExternalSignal
  <2>1. PICK s \in Signals : Submit("external", <<s>>, <<>>, NoCombo)
    BY <1>3 DEF SubmitExternalSignal
  <2>2. <<s>> \in Seq(SignalRecords) /\ <<>> \in Seq(SignalRecords)
    BY SignalsAreRecords
  <2> QED
    BY <2>1, <2>2, <1>1
<1>4. ASSUME NEW pair \in Spreads \cup Strangles
      PROVE  /\ <<pair[1]>> \in Seq(SignalRecords) /\ <<pair[2]>> \in Seq(SignalRecords)
  BY SignalsAreRecords
<1>5. CASE SubmitWithHedge
  <2>1. PICK pair \in Spreads : \/ Submit("hedged", <<pair[1]>>, <<pair[2]>>, FreshCombo)
                                \/ Submit("hedged", <<pair[1]>>, <<>>, FreshCombo)
    BY <1>5 DEF SubmitWithHedge
  <2>2. <<>> \in Seq(SignalRecords)
    OBVIOUS
  <2> QED
    BY <2>1, <2>2, <1>1, <1>4
<1>6. CASE SubmitStrangle
  BY <1>1, <1>4, <1>6 DEF SubmitStrangle
<1> QED
  BY <1>2, <1>3, <1>5, <1>6

(* A gate, whether it works or raises, books nothing and keeps the         *)
(* submission well formed.                                                 *)
LEMMA GatesEffect ==
    ASSUME BookInv, SubInv,
           CheckLockout \/ LockoutFails \/ QualityGates \/ CheckConcentration
           \/ CheckExposure \/ GateFails \/ EndBatch
    PROVE  BookKept /\ SubInv' /\ rows' = rows
<1>1. /\ BookKept /\ rows' = rows
  BY DEF BookKept, BookInv, CheckLockout, LockoutFails, QualityGates, CheckConcentration,
         CheckExposure, GateFails, EndBatch, clock, dedup
<1>2. sub \in Submissions /\ sub.cands \in Seq(SignalRecords)
  BY DEF SubInv, Submissions
<1>3. /\ sub.combo <= Len(rows) + 1 /\ NoCombo <= Len(rows) + 1
  BY DEF SubInv, BookInv, NoCombo
<1>4. IdleSub \in Submissions /\ IdleSub.pc = "idle" /\ IdleSub.combo = NoCombo
  BY DEF IdleSub, Submissions, NoCombo
<1> DEFINE OK(new) == /\ new \in Submissions /\ new.combo \in {NoCombo, sub.combo}
                      /\ new.pc \notin {"subscribe", "hedge"}
                      /\ new.pc = "book" /\ new.path # "batch" => new.cands # <<>>
<1>5. \A new : OK(new) /\ sub' = new => SubInv'
  BY <1>1, <1>3 DEF SubInv
<1>6. OK(IdleSub)
  BY <1>4
<1>7. OK(NextSubmission(FALSE))
  BY NextSubmissionEffect
<1>8. \A pc \in {"quality", "concentration", "exposure"}, cands \in Seq(SignalRecords) :
         OK([sub EXCEPT !.pc = pc, !.cands = cands])
  BY <1>2 DEF Submissions
<1>9. \A cands \in Seq(SignalRecords) : OK(AfterGates(cands))
  <2> TAKE cands \in Seq(SignalRecords)
  <2>1. CASE AfterGates(cands) = [sub EXCEPT !.pc = "book", !.cands = cands]
             /\ (sub.path = "batch" \/ cands # <<>>)
    BY <1>2, <2>1 DEF Submissions
  <2>2. \/ AfterGates(cands) = IdleSub \/ AfterGates(cands) = NextSubmission(FALSE)
        \/ AfterGates(cands) = [sub EXCEPT !.pc = "book", !.cands = cands]
             /\ (sub.path = "batch" \/ cands # <<>>)
    BY DEF AfterGates
  <2> QED
    BY <2>1, <2>2, <1>6, <1>7
<1>10. \A pc : [sub EXCEPT !.pc = pc] = [sub EXCEPT !.pc = pc, !.cands = sub.cands]
  BY <1>2 DEF Submissions
<1> HIDE DEF OK
<1>11. CASE CheckLockout
  <2>1. sub' \in {IdleSub, NextSubmission(FALSE), [sub EXCEPT !.pc = "quality"]}
    BY <1>11 DEF CheckLockout
  <2> QED
    BY <2>1, <1>1, <1>2, <1>5, <1>6, <1>7, <1>8, <1>10
<1>12. CASE LockoutFails
  BY <1>1, <1>2, <1>5, <1>8, <1>10, <1>12 DEF LockoutFails
<1>13. CASE QualityGates
  <2>1. PICK cands \in Seq(SignalRecords) :
             sub' = [sub EXCEPT !.pc = "concentration", !.cands = cands]
    <3>1. PICK good, against, agreed \in SUBSET ToSet(sub.cands),
               raised \in Raised({"pre-market", "breadth", "entry"}) :
            LET sound == IF "pre-market" \in raised THEN sub.cands
                         ELSE PreMarketGate(rows, day, sub.cands, good, sub.path = "batch")
                withTape == IF "breadth" \in raised THEN sound
                            ELSE BreadthGate(sound, against)
            IN  sub' = [sub EXCEPT !.pc = "concentration",
                                   !.cands = IF sub.path # "batch" \/ "entry" \in raised
                                             THEN withTape ELSE EntryGate(withTape, agreed)]
      BY <1>13 DEF QualityGates
    <3> DEFINE sound == IF "pre-market" \in raised THEN sub.cands
                        ELSE PreMarketGate(rows, day, sub.cands, good, sub.path = "batch")
               withTape == IF "breadth" \in raised THEN sound
                           ELSE BreadthGate(sound, against)
               out == IF sub.path # "batch" \/ "entry" \in raised
                      THEN withTape ELSE EntryGate(withTape, agreed)
    <3>2. sound \in Seq(SignalRecords)
      BY <1>2, FilterEffect
    <3>3. withTape \in Seq(SignalRecords)
      <4> HIDE DEF sound
      <4> QED
        BY <3>2, FilterEffect
    <3>4. out \in Seq(SignalRecords)
      <4> HIDE DEF withTape
      <4> QED
        BY <3>3, FilterEffect
    <3>5. sub' = [sub EXCEPT !.pc = "concentration", !.cands = out]
      BY <3>1
    <3> HIDE DEF out
    <3> QED
      BY <3>4, <3>5
  <2> QED
    BY <2>1, <1>1, <1>5, <1>8
<1>14. CASE CheckConcentration
  BY <1>1, <1>2, <1>5, <1>8, <1>14, FilterEffect DEF CheckConcentration
<1>15. CASE CheckExposure
  BY <1>1, <1>2, <1>5, <1>9, <1>15, FilterEffect DEF CheckExposure
<1>16. CASE GateFails
  BY <1>1, <1>2, <1>5, <1>8, <1>9, <1>10, <1>16 DEF GateFails
<1>17. CASE EndBatch
  BY <1>1, <1>5, <1>6, <1>17 DEF EndBatch
<1> QED
  BY <1>11, <1>12, <1>13, <1>14, <1>15, <1>16, <1>17

(* The booking steps keep the submission well formed and change the book   *)
(* only by an INSERT.                                                      *)
LEMMA BookingEffect ==
    ASSUME BookInv, SubInv, BookSignal \/ BookBatchHead \/ InsertHedge \/ SubscribeLiveQuote
    PROVE  BookKept /\ SubInv'
<1> DEFINE count == Len(rows)
           OK(new, n) ==
               /\ new \in Submissions /\ new.combo <= n + 1
               /\ new.pc \in {"subscribe", "hedge"} =>
                     n # 0 /\ new.cands # <<>> /\ new.combo <= n
               /\ new.pc = "hedge" => new.hedge # NoSignal
               /\ new.pc = "book" /\ new.path # "batch" => new.cands # <<>>
<1>1. /\ sub \in Submissions /\ sub.cands \in Seq(SignalRecords)
      /\ sub.hedge \in SignalRecords \cup {NoSignal} /\ sub.combo \in 0..(count + 1)
      /\ rows \in Seq(Rows) /\ count \in Nat /\ day \in Nat /\ live \subseteq DOMAIN rows
  BY DEF SubInv, Submissions, BookInv
<1>2. /\ sub.cands # <<>> => Head(sub.cands) \in SignalRecords /\ Tail(sub.cands) \in Seq(SignalRecords)
      /\ sub.pc \in {"subscribe", "hedge"} => count # 0 /\ sub.cands # <<>> /\ sub.combo <= count
      /\ sub.pc = "hedge" => sub.hedge # NoSignal
      /\ sub.pc = "book" /\ sub.path # "batch" => sub.cands # <<>>
  BY <1>1 DEF SubInv
<1>3. ASSUME NEW s, NEW c, Grown(s, c)
      PROVE  rows' \in Seq(Rows) /\ Len(rows') = count + 1
  BY <1>1, <1>3, GrownEffect
<1>4. ASSUME NEW new, NEW n \in Nat, OK(new, n), sub' = new, Len(rows') = n, rows' \in Seq(Rows)
      PROVE  SubInv'
  <2>1. n # 0 => rows' # <<>>
    BY <1>4
  <2> QED
    BY <2>1, <1>4 DEF SubInv
<1>5. OK(NextSubmission(FALSE), count) /\ OK(NextSubmission(TRUE), count)
  <2>1. ASSUME NEW booked \in BOOLEAN PROVE OK(NextSubmission(booked), count)
    <3> DEFINE next == NextSubmission(booked)
    <3>1. next \in Submissions /\ next.pc \in {"idle", "lockout"} /\ next.combo \in {0, sub.combo}
      BY NextSubmissionEffect DEF NoCombo
    <3> HIDE DEF next
    <3>2. next.combo <= count + 1
      BY <1>1, <3>1
    <3> QED
      BY <3>1, <3>2 DEF next
  <2> QED
    BY <2>1
<1>6. ASSUME NEW hedge \in SignalRecords \cup {NoSignal}, NEW combo \in 0..(count + 1),
             sub.cands # <<>>
      PROVE  OK([sub EXCEPT !.pc = "subscribe", !.hedge = hedge, !.combo = combo], count + 1)
  <2> DEFINE new == [sub EXCEPT !.pc = "subscribe", !.hedge = hedge, !.combo = combo]
  <2>1. new \in Submissions /\ new.pc = "subscribe" /\ new.combo = combo
        /\ new.cands = sub.cands
    <3>1. sub \in Submissions /\ combo \in Nat
      BY <1>1
    <3> QED
      BY <3>1 DEF Submissions
  <2> HIDE DEF new
  <2>2. new.combo <= (count + 1) + 1 /\ new.combo <= count + 1 /\ count + 1 # 0
    BY <1>1, <2>1
  <2>3. OK(new, count + 1)
    BY <1>6, <2>1, <2>2
  <2> QED
    BY <2>3 DEF new
<1>7. /\ [sub EXCEPT !.pc = "subscribe"]
           = [sub EXCEPT !.pc = "subscribe", !.hedge = sub.hedge, !.combo = sub.combo]
      /\ [sub EXCEPT !.pc = "subscribe", !.hedge = NoSignal]
           = [sub EXCEPT !.pc = "subscribe", !.hedge = NoSignal, !.combo = sub.combo]
  BY <1>1 DEF Submissions
<1> HIDE DEF OK, count
<1>8. CASE BookSignal
  <2>1. sub.pc = "book" /\ sub.path # "batch" /\ UNCHANGED <<live, day, late, trk, dedup>>
    BY <1>8 DEF BookSignal, clock
  <2>2. sub.cands # <<>>
    BY <2>1, <1>2
  <2>3. CASE rows' = OpenTrade(rows, Head(sub.cands), sub.combo, day)
             /\ sub' = [sub EXCEPT !.pc = "subscribe"]
    <3>1. Grown(Head(sub.cands), sub.combo)
      BY <1>1, <1>2, <2>2, <2>3 DEF Grown, count
    <3>2. OK(sub', count + 1)
      BY <1>1, <1>6, <1>7, <2>2, <2>3
    <3>3. SubInv'
      BY <1>1, <3>1, <3>2, <1>3, <1>4
    <3> QED
      BY <3>1, <3>3, <2>1, <1>1 DEF BookKept, dedup
  <2>4. CASE sub' = NextSubmission(FALSE) /\ rows' = rows
    <3>1. SubInv'
      BY <1>1, <1>4, <1>5, <2>4 DEF count
    <3> QED
      BY <3>1, <2>1, <2>4, <1>1 DEF BookKept, dedup
  <2> QED
    BY <2>3, <2>4, <1>8 DEF BookSignal
<1>9. CASE BookBatchHead
  <2>1. /\ sub.pc = "book" /\ sub.path = "batch" /\ UNCHANGED <<live, day, late, trk, dedup>>
        /\ sub.cands # <<>>
    BY <1>9 DEF BookBatchHead, BatchOver, clock
  <2>2. CASE sub' = [sub EXCEPT !.cands = Tail(sub.cands)] /\ rows' = rows
    <3> DEFINE rest == Tail(sub.cands)
    <3>1. rest \in Seq(SignalRecords) /\ sub' = [sub EXCEPT !.cands = rest]
      BY <1>2, <2>1, <2>2
    <3> HIDE DEF rest
    <3>2. sub' \in Submissions /\ sub'.pc = "book" /\ sub'.path = "batch" /\ sub'.combo = sub.combo
      BY <1>1, <2>1, <3>1 DEF Submissions
    <3>3. OK(sub', count)
      BY <1>1, <3>2 DEF OK
    <3>4. SubInv'
      BY <1>1, <1>4, <2>2, <3>3 DEF count
    <3> QED
      BY <3>4, <2>1, <2>2, <1>1 DEF BookKept, dedup
  <2>3. CASE \E h \in HedgesFor(Head(sub.cands)) :
               LET combo == IF HedgeBatch THEN FreshCombo ELSE NoCombo
               IN  /\ rows' = OpenTrade(rows, Head(sub.cands), combo, day)
                   /\ sub' = [sub EXCEPT !.pc = "subscribe", !.hedge = h, !.combo = combo]
    <3> DEFINE combo == IF HedgeBatch THEN FreshCombo ELSE NoCombo
    <3>1. PICK h \in HedgesFor(Head(sub.cands)) :
                   /\ rows' = OpenTrade(rows, Head(sub.cands), combo, day)
                   /\ sub' = [sub EXCEPT !.pc = "subscribe", !.hedge = h, !.combo = combo]
      BY <2>3
    <3>2. h \in SignalRecords \cup {NoSignal}
      BY SignalsAreRecords DEF HedgesFor
    <3>3. combo \in 0..(count + 1)
      BY <1>1 DEF FreshCombo, NoCombo, count
    <3> HIDE DEF combo
    <3>4. Grown(Head(sub.cands), combo)
      BY <3>1, <3>3, <2>1, <1>2 DEF Grown, count
    <3>5. OK(sub', count + 1)
      BY <1>6, <2>1, <3>1, <3>2, <3>3
    <3>6. SubInv'
      BY <1>1, <3>4, <3>5, <1>3, <1>4
    <3> QED
      BY <3>4, <3>6, <2>1, <1>1 DEF BookKept, dedup
  <2> QED
    BY <2>2, <2>3, <1>9 DEF BookBatchHead
<1>10. CASE InsertHedge
  <2>1. /\ sub.pc = "hedge" /\ UNCHANGED <<live, day, late, trk, dedup>>
        /\ rows' = OpenTrade(rows, sub.hedge, sub.combo, day)
        /\ sub' = [sub EXCEPT !.pc = "subscribe", !.hedge = NoSignal]
    BY <1>10 DEF InsertHedge, clock
  <2>2. sub.hedge \in SignalRecords /\ sub.cands # <<>>
    BY <2>1, <1>1, <1>2
  <2>3. Grown(sub.hedge, sub.combo)
    BY <1>1, <2>1, <2>2 DEF Grown, count
  <2>4. OK(sub', count + 1)
    BY <1>1, <1>6, <1>7, <2>1, <2>2
  <2>5. SubInv'
    BY <1>1, <2>3, <2>4, <1>3, <1>4
  <2> QED
    BY <2>3, <2>5, <2>1, <1>1 DEF BookKept, dedup
<1>11. CASE SubscribeLiveQuote
  <2>1. /\ sub.pc = "subscribe" /\ UNCHANGED <<rows, day, late, trk, dedup>>
        /\ live' \in {live, live \cup {Len(rows)}}
    BY <1>11 DEF SubscribeLiveQuote, clock
  <2>2. count # 0 /\ sub.cands # <<>> /\ sub.combo <= count
    BY <2>1, <1>2
  <2>3. live' \subseteq DOMAIN rows
    BY <1>1, <2>1, <2>2 DEF count
  <2>4. OK(sub', count)
    <3>1. CASE sub' = NextSubmission(TRUE)
      BY <1>5, <3>1
    <3>2. CASE sub.hedge # NoSignal /\ sub' = [sub EXCEPT !.pc = "hedge"]
      BY <1>1, <2>1, <2>2, <3>2 DEF OK, Submissions
    <3>3. CASE sub.path = "batch"
               /\ sub' = [sub EXCEPT !.pc = "book", !.cands = Tail(sub.cands), !.combo = NoCombo]
      <4> DEFINE rest == Tail(sub.cands)
      <4>1. rest \in Seq(SignalRecords) /\ sub.path = "batch" /\ sub \in Submissions
            /\ sub' = [sub EXCEPT !.pc = "book", !.cands = rest, !.combo = 0]
        BY <1>1, <1>2, <2>2, <3>3 DEF NoCombo
      <4> HIDE DEF rest
      <4>2. sub' \in Submissions /\ sub'.pc = "book" /\ sub'.path = "batch" /\ sub'.combo = 0
        BY <4>1 DEF Submissions
      <4> QED
        BY <1>1, <4>2 DEF OK
    <3> QED
      BY <3>1, <3>2, <3>3, <1>11 DEF SubscribeLiveQuote
  <2>5. SubInv'
    BY <1>1, <1>4, <2>1, <2>4 DEF count
  <2> QED
    BY <2>1, <2>3, <2>5, <1>1 DEF BookKept, dedup
<1> QED
  BY <1>8, <1>9, <1>10, <1>11

-------------------------------------------------------------------------------
(* The monitor, while the scan thread books.                               *)

(* Same rows as far as the monitor has copies of them.                     *)
LEMMA BookKeptEffect ==
    ASSUME BookInv, BookKept
    PROVE  /\ BookInv'
           /\ DOMAIN rows \subseteq DOMAIN rows'
           /\ \A i \in DOMAIN rows : rows'[i] = rows[i]
<1>1. /\ rows \in Seq(Rows) /\ Len(rows) \in Nat /\ DOMAIN rows = 1..Len(rows) /\ day \in Nat
  BY DEF BookInv
<1>2. CASE rows' = rows
  BY <1>2 DEF BookInv, BookKept, IsOpen
<1>3. CASE rows' # rows
  <2>1. PICK s, c : Grown(s, c)
    BY <1>3 DEF BookKept
  <2>2. /\ rows' \in Seq(Rows) /\ Len(rows') = Len(rows) + 1
        /\ DOMAIN rows' = 1..(Len(rows) + 1)
        /\ \A i \in DOMAIN rows : rows'[i] = rows[i]
        /\ rows'[Len(rows) + 1] = Row(s, c, day)
    BY <1>1, <2>1, GrownEffect
  <2>3. /\ Row(s, c, day).day = day /\ Row(s, c, day).combo = c /\ c \in 0..(Len(rows) + 1)
        /\ Row(s, c, day).trade.entry = s.entry /\ s.entry \in Nat
        /\ Row(s, c, day).trade.realized = 0 /\ Row(s, c, day).trade.reason = "none"
    BY <2>1 DEF Grown, Row, NewTrade, SignalRecords
  <2>4. /\ UNCHANGED <<day, late, trk, flattened>>
        /\ lossAlerted' \in {lossAlerted, day} /\ live' \subseteq DOMAIN rows
    BY DEF BookKept
  <2>5. ASSUME NEW i \in DOMAIN rows'
        PROVE  /\ rows'[i].day \in 1..day
               /\ rows'[i].combo \in 0..(Len(rows) + 1)
               /\ rows'[i].trade.entry \in Nat
               /\ IsOpen(rows', i) => rows'[i].trade.realized = 0 /\ rows'[i].trade.reason = "none"
    <3>1. CASE i \in DOMAIN rows
      <4>1. rows'[i] = rows[i]
        BY <2>2, <3>1
      <4> QED
        BY <4>1, <3>1, <1>1 DEF BookInv, IsOpen
    <3>2. CASE i = Len(rows) + 1
      BY <2>2, <2>3, <3>2 DEF BookInv
    <3> QED
      BY <1>1, <2>2, <3>1, <3>2
  <2>6. live' \subseteq DOMAIN rows' /\ day' \in 1..MaxDay /\ late' \in BOOLEAN
        /\ flattened' \in 0..day' /\ lossAlerted' \in 0..day'
    BY <1>1, <2>2, <2>4 DEF BookInv
  <2>7. BookInv'
    BY <2>2, <2>4, <2>5, <2>6 DEF BookInv
  <2> QED
    BY <1>1, <2>2, <2>7
<1> QED
  BY <1>2, <1>3

(* Which trades make a spread does not change.                             *)
LEMMA PairsStable ==
    ASSUME NEW r, NEW q, NEW ids,
           \A i \in ids : q[i].combo = r[i].combo /\ q[i].trade.dir = r[i].trade.dir
    PROVE  ComboPairs(q, ids) = ComboPairs(r, ids)
<1>1. \A c : {i \in ids : q[i].combo = c} = {i \in ids : r[i].combo = c}
  OBVIOUS
<1>2. \A pair \in ids \X ids : pair[1] \in ids /\ pair[2] \in ids
  OBVIOUS
<1> QED
  BY <1>1, <1>2 DEF ComboPairs

(* A leg belongs to one debit spread at most.                              *)
LEMMA PairFacts ==
    ASSUME NEW r, NEW ids, NEW pair \in ComboPairs(r, ids)
    PROVE  /\ pair[1] \in ids /\ pair[2] \in ids /\ pair = <<pair[1], pair[2]>>
           /\ r[pair[1]].trade.dir = "long" /\ r[pair[2]].trade.dir = "short"
           /\ pair[1] # pair[2]
           /\ \A other \in ComboPairs(r, ids) :
                 {pair[1], pair[2]} \cap {other[1], other[2]} # {} => other = pair
<1>1. ASSUME NEW p \in ComboPairs(r, ids)
      PROVE  /\ p[1] \in ids /\ p[2] \in ids /\ p = <<p[1], p[2]>>
             /\ r[p[1]].trade.dir = "long" /\ r[p[2]].trade.dir = "short"
             /\ {i \in ids : r[i].combo = r[p[1]].combo} = {p[1], p[2]}
  BY DEF ComboPairs
<1>2. pair[1] # pair[2]
  <2>1. "long" # "short"
    OBVIOUS
  <2> QED
    BY <1>1, <2>1
<1>3. ASSUME NEW other \in ComboPairs(r, ids),
             {pair[1], pair[2]} \cap {other[1], other[2]} # {}
      PROVE  other = pair
  <2>1. PICK i : i \in {pair[1], pair[2]} /\ i \in {other[1], other[2]}
    BY <1>3
  <2>2. r[i].combo = r[pair[1]].combo /\ r[i].combo = r[other[1]].combo
    BY <1>1, <2>1
  <2>3. {pair[1], pair[2]} = {other[1], other[2]}
    BY <1>1, <2>2
  <2>4. pair[1] = other[1] /\ pair[2] = other[2]
    <3>1. /\ r[pair[1]].trade.dir = "long" /\ r[pair[2]].trade.dir = "short"
          /\ r[other[1]].trade.dir = "long" /\ r[other[2]].trade.dir = "short"
      BY <1>1
    <3> QED
      BY <2>3, <3>1
  <2> QED
    BY <1>1, <2>4
<1> QED
  BY <1>1, <1>2, <1>3

(* Whatever the monitor knows stays true while the scan thread inserts.    *)
LEMMA MonitorUndisturbed ==
    ASSUME MonitorInv, trk' = trk, DOMAIN rows \subseteq DOMAIN rows',
           \A i \in DOMAIN rows : rows'[i] = rows[i]
    PROVE  MonitorInv'
<1>1. Ids' = Ids /\ Pending' = Pending /\ Ids \subseteq DOMAIN rows
      /\ \A i \in Ids : rows'[i] = rows[i]
  BY DEF MonitorInv, TrkInv, Ids, Pending
<1>2. Pairs' = Pairs
  BY <1>1, PairsStable DEF Pairs
<1>3. TrkInv'
  BY <1>1 DEF MonitorInv, TrkInv
<1>4. trk.todo \subseteq Ids /\ trk.partner \subseteq Ids /\ Pending \subseteq Ids
  BY DEF MonitorInv, TrkInv, Pending
<1>5. \A i \in Ids : Fresh(i)' = Fresh(i) /\ IsOpen(rows, i)' = IsOpen(rows, i)
  BY <1>1 DEF Fresh, IsOpen
<1>6. CopyInv'
  <2>1. \A i \in Ids : /\ trk'.snap[i].dir = rows'[i].trade.dir
                       /\ trk'.snap[i].entry = rows'[i].trade.entry
    BY <1>1 DEF MonitorInv, CopyInv
  <2>2. trk'.pc \in {"combos", "legs"} \/ ~SaveMayFail => \A i \in Ids \ Pending : Fresh(i)'
    BY <1>5 DEF MonitorInv, CopyInv
  <2>3. \A i \in trk'.todo \cup trk'.partner :
           i \notin Pending /\ Fresh(i)' /\ IsOpen(rows, i)'
    BY <1>4, <1>5 DEF MonitorInv, CopyInv
  <2>4. \A i \in Pending : IsOpen(rows, i)' /\ Successor(rows'[i].trade, trk'.snap[i])
    BY <1>1, <1>4, <1>5 DEF MonitorInv, CopyInv
  <2> QED
    BY <1>1, <2>1, <2>2, <2>3, <2>4 DEF CopyInv
<1>7. \A pair \in Pairs : PairReason(trk.snap, trk.quote, pair)' = PairReason(trk.snap, trk.quote, pair)
  <2> TAKE pair \in Pairs
  <2>1. pair[1] \in Ids /\ pair[2] \in Ids
    BY PairFacts DEF Pairs
  <2> QED
    BY <1>1, <2>1 DEF PairReason
<1>8. PhaseInv'
  BY <1>1, <1>2, <1>7 DEF MonitorInv, PhaseInv
<1>9. PartnerInv'
  <2>1. \A i : Partner(rows, Ids, i)' = Partner(rows, Ids, i)
    BY <1>1, <1>2 DEF Partner, Pairs
  <2>2. \A i : Partner(rows, Ids, i) \subseteq Ids
    BY DEF Partner
  <2> QED
    BY <1>1, <1>5, <2>1, <2>2 DEF MonitorInv, PartnerInv
<1> QED
  BY <1>3, <1>6, <1>8, <1>9 DEF MonitorInv

-------------------------------------------------------------------------------
(* The phases of a monitor pass.                                           *)

(* The steps of the monitor.                                               *)

(* An idle monitor, also after a crash, knows nothing it could be wrong    *)
(* about.                                                                  *)
LEMMA IdleEffect ==
    ASSUME trk' = IdleTrk
    PROVE  MonitorInv'
<1>1. /\ trk'.pc = "idle" /\ trk'.snap = <<>> /\ trk'.todo = {} /\ trk'.partner = {}
      /\ trk'.pend = <<>> /\ Ids' = {} /\ Pending' = {}
  BY DEF IdleTrk, Ids, Pending
<1>2. TrkInv'
  BY <1>1 DEF IdleTrk, TrkInv, Ids
<1>3. CopyInv'
  BY <1>1 DEF CopyInv
<1>4. PhaseInv'
  BY <1>1 DEF PhaseInv
<1>5. PartnerInv'
  BY <1>1 DEF PartnerInv
<1> QED
  BY <1>2, <1>3, <1>4, <1>5 DEF MonitorInv

(* A fresh list of open trades, nothing saved yet.                         *)
LEMMA CopiesEffect ==
    ASSUME BookInv, NEW ids, ids \subseteq OpenTrades(rows, day)
    PROVE  /\ ids \subseteq DOMAIN rows /\ Copies(ids) \in [ids -> Trades]
           /\ DOMAIN Copies(ids) = ids
           /\ \A i \in ids : Copies(ids)[i] = rows[i].trade /\ IsOpen(rows, i)
<1>1. \A i \in ids : i \in DOMAIN rows /\ IsOpen(rows, i)
  BY DEF OpenTrades
<1>2. \A i \in DOMAIN rows : rows[i].trade \in Trades
  <2>1. \A i \in DOMAIN rows : rows[i] \in Rows
    BY DEF BookInv
  <2>2. \A row \in Rows : row.trade \in Trades
    BY DEF Rows
  <2> QED
    BY <2>1, <2>2
<1> QED
  BY <1>1, <1>2 DEF Copies

(* A pass begins with fresh copies and with every spread that is due.      *)
LEMMA StartPassEffect ==
    ASSUME BookInv, NEW squareOff \in BOOLEAN, StartPass(squareOff)
    PROVE  MonitorInv'
<1> DEFINE ids == OpenTrades(rows, day)
           due(quote) == {pair[1] : pair \in {q \in ComboPairs(rows, ids) :
                              /\ ~squareOff
                              /\ PairReason(Copies(ids), quote, q) # "none"}}
<1>1. PICK quote \in [ids -> Prices \cup {NoQuote}] :
         trk' = [IdleTrk EXCEPT !.pc = "combos", !.squareOff = squareOff,
                                !.snap = Copies(ids), !.quote = quote, !.todo = due(quote)]
  BY DEF StartPass
<1>2. rows' = rows
  BY DEF StartPass
<1>3. /\ ids \subseteq DOMAIN rows /\ Copies(ids) \in [ids -> Trades] /\ DOMAIN Copies(ids) = ids
      /\ \A i \in ids : Copies(ids)[i] = rows[i].trade /\ IsOpen(rows, i)
  BY CopiesEffect
<1>4. \A l \in due(quote) : /\ ~squareOff /\ l \in ids
                            /\ \E pair \in ComboPairs(rows, ids) :
                                 /\ pair[1] = l /\ pair[2] \in ids
                                 /\ PairReason(Copies(ids), quote, pair) # "none"
  BY PairFacts
<1> DEFINE todo == due(quote)
<1> HIDE DEF ids, todo, due
<1>5. trk' = [pc |-> "combos", squareOff |-> squareOff, snap |-> Copies(ids), quote |-> quote,
              todo |-> todo, partner |-> {}, pend |-> <<>>]
  BY <1>1 DEF IdleTrk, todo
<1>6. Ids' = ids /\ Pending' = {} /\ Pairs' = ComboPairs(rows, ids)
  BY <1>2, <1>3, <1>5 DEF Ids, Pending, Pairs
<1>7. TrkInv'
  BY <1>2, <1>3, <1>4, <1>5, <1>6 DEF TrkInv, todo
<1>8. CopyInv'
  BY <1>2, <1>3, <1>4, <1>5, <1>6 DEF CopyInv, Fresh, todo
<1>9. PhaseInv'
  <2>1. \A pair : PairReason(trk.snap, trk.quote, pair)' = PairReason(Copies(ids), quote, pair)
    BY <1>2, <1>5 DEF PairReason
  <2> QED
    BY <1>2, <1>4, <1>5, <1>6, <2>1 DEF PhaseInv, todo
<1>10. PartnerInv'
  BY <1>5 DEF PartnerInv
<1> QED
  BY <1>7, <1>8, <1>9, <1>10 DEF MonitorInv

(* The next phase of a pass: only what it read open is doomed.             *)
LEMMA EnterEffect ==
    ASSUME BookInv, MonitorInv, Drained, rows' = rows,
           NEW phase \in {"flatten", "oi", "sonar"},
           NEW ids, ids = OpenTrades(rows, day), NEW doomed, doomed \subseteq ids,
           Enter(phase, ids, doomed)
    PROVE  MonitorInv'
<1>1. trk' = [pc |-> phase, squareOff |-> trk.squareOff, snap |-> Copies(ids), quote |-> <<>>,
              todo |-> doomed, partner |-> {}, pend |-> <<>>]
  BY DEF Enter, Drained, MonitorInv, TrkInv
<1>2. /\ ids \subseteq DOMAIN rows /\ Copies(ids) \in [ids -> Trades] /\ DOMAIN Copies(ids) = ids
      /\ \A i \in ids : Copies(ids)[i] = rows[i].trade /\ IsOpen(rows, i)
  BY CopiesEffect
<1>3. Ids' = ids /\ Pending' = {} /\ trk.squareOff \in BOOLEAN
  BY <1>1, <1>2 DEF Ids, Pending, MonitorInv, TrkInv
<1>4. TrkInv'
  BY <1>1, <1>2, <1>3 DEF TrkInv
<1>5. CopyInv'
  BY <1>1, <1>2, <1>3 DEF CopyInv, Fresh
<1>6. PhaseInv'
  BY <1>1, <1>2, <1>3 DEF PhaseInv
<1>7. PartnerInv'
  <2>1. \A i : Partner(rows, Ids, i)' \subseteq ids
    BY <1>3 DEF Partner
  <2> QED
    BY <1>1, <1>2, <1>3, <2>1 DEF PartnerInv, Fresh
<1> QED
  BY <1>4, <1>5, <1>6, <1>7 DEF MonitorInv

(* The flatten, OI and sonar exits begin with positions that are open in   *)
(* memory and in the book.                                                 *)
LEMMA BeginEffect ==
    ASSUME BookInv, MonitorInv, BeginFlatten \/ BeginOiExits \/ BeginSonarExits
    PROVE  MonitorInv'
<1> DEFINE ids == OpenTrades(rows, day)
<1>1. CASE BeginFlatten
  <2>1. Drained /\ rows' = rows
    BY <1>1 DEF BeginFlatten
  <2>2. CASE Enter("flatten", ids, {})
    BY <2>1, <2>2, EnterEffect
  <2>3. CASE Enter("flatten", ids, IF flattened = day THEN {} ELSE ids)
    BY <2>1, <2>3, EnterEffect
  <2> QED
    BY <1>1, <2>2, <2>3 DEF BeginFlatten
<1>2. ASSUME NEW mode, NEW phase \in {"oi", "sonar"}, BeginRiskExits(mode, phase), Drained,
             rows' = rows
      PROVE  MonitorInv'
  <2>1. PICK doomed : doomed \subseteq ids /\ Enter(phase, ids, doomed)
    <3>1. CASE mode = "hard"
      <4>1. PICK against \in Reads :
               Enter(phase, ids, {i \in ids : Contradicted(Copies(ids), against, i)})
        BY <1>2, <3>1 DEF BeginRiskExits
      <4> QED
        BY <4>1
    <3>2. CASE mode # "hard"
      BY <1>2, <3>2 DEF BeginRiskExits
    <3> QED
      BY <3>1, <3>2
  <2> QED
    BY <1>2, <2>1, EnterEffect
<1>3. CASE BeginOiExits
  BY <1>2, <1>3 DEF BeginOiExits
<1>4. CASE BeginSonarExits
  BY <1>2, <1>4 DEF BeginSonarExits
<1> QED
  BY <1>1, <1>3, <1>4

(* A quote that is there is a positive number.                             *)
LEMMA PricesAreNumbers == \A p \in Prices : p \in Int
<1>1. Prices \subseteq Nat \ {0}
  BY OrderManagerAssumption, Zenon
<1> QED
  BY <1>1

(* The next position of the list is one the monitor has a fresh copy of.   *)
LEMMA ReadyEffect ==
    ASSUME BookInv, MonitorInv, Ready
    PROVE  /\ trk.pend = <<>> /\ trk.partner = {} /\ Pending = {}
           /\ Min(trk.todo) \in trk.todo /\ Min(trk.todo) \in Ids
<1>1. trk.pend = <<>> /\ trk.partner = {} /\ trk.todo # {}
  BY DEF Ready
<1>2. trk.todo \subseteq Ids /\ Ids \subseteq DOMAIN rows /\ DOMAIN rows \subseteq Nat
  BY DEF MonitorInv, TrkInv, BookInv
<1>3. Min(trk.todo) \in trk.todo
  BY <1>1, <1>2, MinIsIn
<1> QED
  BY <1>1, <1>2, <1>3 DEF Pending

(* The legs no spread exit has handled come next; of a square-off that is  *)
(* every open one.                                                         *)
LEMMA BeginLegsEffect ==
    ASSUME MonitorInv, BeginLegs
    PROVE  MonitorInv'
<1> DEFINE todo == {i \in Ids : ~Closed(trk.snap[i])}
<1>1. /\ trk.pc = "combos" /\ trk.todo = {} /\ trk.partner = {} /\ trk.pend = <<>>
      /\ rows' = rows
  BY DEF BeginLegs, Drained
<1>2. trk' = [pc |-> "legs", squareOff |-> trk.squareOff, snap |-> trk.snap, quote |-> trk.quote,
              todo |-> todo, partner |-> {}, pend |-> <<>>]
  BY <1>1 DEF BeginLegs, MonitorInv, TrkInv, Ids
<1>3. Ids' = Ids /\ Pending = {} /\ Pending' = {}
  BY <1>1, <1>2 DEF Ids, Pending
<1>4. TrkInv'
  BY <1>1, <1>2, <1>3 DEF TrkInv, MonitorInv
<1>5. CopyInv'
  <2>1. \A i \in Ids : Fresh(i) /\ trk.snap[i] \in Trades
    BY <1>1, <1>3 DEF MonitorInv, CopyInv, TrkInv
  <2>2. \A i \in todo : IsOpen(rows, i)
    BY <2>1 DEF Closed, Fresh, IsOpen, Trades, Statuses
  <2> QED
    BY <1>1, <1>2, <1>3, <2>1, <2>2 DEF CopyInv, MonitorInv, Fresh
<1>6. PhaseInv'
  BY <1>1, <1>2, <1>3 DEF PhaseInv
<1>7. PartnerInv'
  BY <1>2 DEF PartnerInv
<1> QED
  BY <1>4, <1>5, <1>6, <1>7 DEF MonitorInv

(* Judging one leg keeps the copies and the book in step.                  *)
LEMMA TickLegEffect ==
    ASSUME BookInv, MonitorInv, TickLeg
    PROVE  MonitorInv'
<1> DEFINE i == Min(trk.todo)
           known == IF trk.quote[i] = NoQuote THEN trk.snap[i].last ELSE trk.quote[i]
           t == ApplyTick(trk.snap[i], known, trk.squareOff)
<1>1. /\ trk.pc = "legs" /\ trk.pend = <<>> /\ trk.partner = {} /\ Pending = {}
      /\ i \in trk.todo /\ i \in Ids /\ rows' = rows
  BY ReadyEffect DEF TickLeg
<1>2. /\ trk.squareOff \in BOOLEAN /\ trk.snap \in [Ids -> Trades] /\ Ids \subseteq DOMAIN rows
      /\ trk.quote \in [Ids -> Prices \cup {NoQuote}] /\ trk.todo \subseteq Ids
  BY <1>1 DEF MonitorInv, TrkInv
<1>3. /\ trk.snap[i] \in Trades /\ known \in Int /\ trk.snap[i].status = "open"
      /\ IsOpen(rows, i) /\ trk.snap[i] = rows[i].trade
  <2>1. trk.snap[i] = rows[i].trade /\ IsOpen(rows, i) /\ trk.snap[i] \in Trades
    BY <1>1, <1>2 DEF MonitorInv, CopyInv, Fresh
  <2>2. trk.snap[i].last \in Int
    BY <2>1 DEF Trades
  <2>3. trk.quote[i] # NoQuote => trk.quote[i] \in Int
    <3>1. trk.quote[i] \in Prices \cup {NoQuote}
      <4> HIDE DEF i
      <4> QED
        BY <1>1, <1>2
    <3>2. \A p \in Prices : p \in Int
      BY PricesAreNumbers
    <3> QED
      BY <3>1, <3>2
  <2> QED
    BY <2>1, <2>2, <2>3 DEF IsOpen
<1>4. \A j \in Ids : Fresh(j)
  BY <1>1 DEF MonitorInv, CopyInv
<1>5. CASE trk.quote[i] = NoQuote /\ ~trk.squareOff
  <2>1. trk' = [trk EXCEPT !.todo = @ \ {i}]
    BY <1>5 DEF TickLeg
  <2>2. trk' = [pc |-> trk.pc, squareOff |-> trk.squareOff, snap |-> trk.snap,
                quote |-> trk.quote, todo |-> trk.todo \ {i}, partner |-> trk.partner,
                pend |-> trk.pend]
    BY <2>1 DEF MonitorInv, TrkInv
  <2> HIDE DEF i
  <2>3. Ids' = Ids /\ Pending' = {}
    BY <1>1, <2>2 DEF Ids, Pending
  <2>4. TrkInv'
    BY <1>1, <2>2, <2>3 DEF MonitorInv, TrkInv
  <2>5. CopyInv'
    BY <1>1, <2>2, <2>3 DEF MonitorInv, CopyInv, Fresh
  <2>6. PhaseInv'
    BY <1>1, <1>5, <2>2, <2>3 DEF MonitorInv, PhaseInv
  <2>7. PartnerInv'
    BY <1>1, <2>2 DEF PartnerInv
  <2> QED
    BY <2>4, <2>5, <2>6, <2>7 DEF MonitorInv
<1>6. CASE ~(trk.quote[i] = NoQuote /\ ~trk.squareOff)
  <2>1. trk' = [trk EXCEPT !.snap[i] = t, !.todo = @ \ {i}, !.pend = <<i>>]
    BY <1>6 DEF TickLeg
  <2>2. Successor(rows[i].trade, t) /\ (trk.squareOff => Closed(t)) /\ t \in Trades
    BY <1>2, <1>3, TickEffect DEF Successor
  <2> HIDE DEF i, t
  <2>3. trk' = [pc |-> trk.pc, squareOff |-> trk.squareOff, snap |-> [trk.snap EXCEPT ![i] = t],
                quote |-> trk.quote, todo |-> trk.todo \ {i}, partner |-> trk.partner,
                pend |-> <<i>>]
    BY <2>1 DEF MonitorInv, TrkInv
  <2>4. Ids' = Ids /\ Pending' = {i}
    BY <1>2, <2>3 DEF Ids, Pending
  <2>5. /\ trk'.snap[i] = t /\ \A j \in Ids : j # i => trk'.snap[j] = trk.snap[j]
        /\ trk'.snap \in [Ids -> Trades]
    BY <1>1, <1>2, <2>2, <2>3
  <2>6. TrkInv'
    BY <1>1, <1>2, <2>3, <2>4, <2>5 DEF TrkInv
  <2>7. CopyInv'
    <3>1. \A j \in Ids : /\ trk'.snap[j].dir = rows[j].trade.dir
                         /\ trk'.snap[j].entry = rows[j].trade.entry
      BY <1>4, <2>2, <2>5 DEF Successor, Fresh
    <3>2. \A j \in Ids \ {i} : trk'.snap[j] = rows[j].trade
      BY <1>4, <2>5 DEF Fresh
    <3>3. \A j \in trk.todo : IsOpen(rows, j)
      BY DEF MonitorInv, CopyInv
    <3> QED
      BY <1>1, <1>2, <1>3, <2>2, <2>3, <2>4, <2>5, <3>1, <3>2, <3>3 DEF CopyInv, Fresh
  <2>8. PhaseInv'
    BY <1>1, <2>2, <2>3, <2>4, <2>5 DEF MonitorInv, PhaseInv
  <2>9. PartnerInv'
    BY <1>1, <2>3 DEF PartnerInv
  <2> QED
    BY <2>6, <2>7, <2>8, <2>9 DEF MonitorInv
<1> QED
  BY <1>5, <1>6

(* Closing both legs of a spread keeps the copies and the book in step.    *)
LEMMA CloseComboEffect ==
    ASSUME BookInv, MonitorInv, CloseCombo
    PROVE  MonitorInv'
<1> DEFINE l == Min(trk.todo)
           pair == CHOOSE q \in ComboPairs(rows, DOMAIN trk.snap) : q[1] = l
           why == PairReason(trk.snap, trk.quote, pair)
           s == pair[2]
           exit(i) == CloseAt(trk.snap[i], trk.quote[i], why)
           u == exit(l)
           v == exit(s)
<1>1. /\ trk.pc = "combos" /\ trk.pend = <<>> /\ trk.partner = {} /\ Pending = {}
      /\ l \in trk.todo /\ l \in Ids /\ rows' = rows /\ ~trk.squareOff
  BY ReadyEffect DEF CloseCombo, PhaseInv, MonitorInv
<1>2. /\ trk.squareOff \in BOOLEAN /\ trk.snap \in [Ids -> Trades] /\ Ids \subseteq DOMAIN rows
      /\ trk.quote \in [Ids -> Prices \cup {NoQuote}] /\ trk.todo \subseteq Ids
  BY <1>1 DEF MonitorInv, TrkInv
<1>3. pair \in Pairs /\ pair[1] = l /\ why # "none"
  <2>1. PICK q \in Pairs : q[1] = l /\ PairReason(trk.snap, trk.quote, q) # "none"
    BY <1>1 DEF MonitorInv, PhaseInv
  <2>2. \E p \in ComboPairs(rows, DOMAIN trk.snap) : p[1] = l
    BY <2>1 DEF Pairs, Ids
  <2>3. pair \in ComboPairs(rows, DOMAIN trk.snap) /\ pair[1] = l
    <3> HIDE DEF l
    <3> QED
      BY <2>2, Zenon
  <2>4. pair \in Pairs /\ pair[1] = l
    BY <2>3 DEF Pairs, Ids
  <2> HIDE DEF pair, l
  <2>5. pair = q
    <3>1. q \in ComboPairs(rows, Ids) /\ pair \in ComboPairs(rows, Ids)
      BY <2>1, <2>4 DEF Pairs
    <3>2. pair[1] \in {pair[1], pair[2]} \cap {q[1], q[2]}
      BY <2>1, <2>4
    <3> QED
      BY <3>1, <3>2, PairFacts
  <2> QED
    BY <2>1, <2>4, <2>5
<1>4. trk' = [trk EXCEPT !.snap[l] = u, !.snap[s] = v, !.todo = @ \ {l}, !.pend = pair]
  BY DEF CloseCombo
<1> HIDE DEF pair, l
<1>5. /\ pair = <<l, s>> /\ s \in Ids /\ l # s
      /\ rows[l].trade.dir = "long" /\ rows[s].trade.dir = "short"
      /\ \A other \in Pairs : {l, s} \cap {other[1], other[2]} # {} => other = pair
  BY <1>3, PairFacts DEF Pairs
<1>6. /\ trk.quote[l] \in Prices /\ trk.quote[s] \in Prices
      /\ why \in Reasons \ {"none"}
      /\ trk.snap[l].status = "open" /\ trk.snap[s].status = "open"
  <2>1. /\ trk.quote[l] # NoQuote /\ trk.quote[s] # NoQuote
        /\ why = ComboReason(trk.snap[l], trk.snap[s], StrikeWidth(rows[l].strike, rows[s].strike),
                             trk.quote[l], trk.quote[s])
    BY <1>3, <1>5 DEF PairReason
  <2>2. trk.quote[l] \in Prices /\ trk.quote[s] \in Prices
    BY <1>1, <1>2, <1>5, <2>1
  <2> HIDE DEF why
  <2>3. /\ why \in {"SPREAD_SL", "SPREAD_TARGET"}
        /\ trk.snap[l].status = "open" /\ trk.snap[s].status = "open"
    BY <1>3, <2>1 DEF ComboReason
  <2> QED
    BY <2>2, <2>3 DEF Reasons
<1> HIDE DEF why, s
<1>7. \A i \in Ids : Fresh(i)
  BY <1>1 DEF MonitorInv, CopyInv
<1>8. /\ Successor(rows[l].trade, u) /\ u \in Trades /\ IsOpen(rows, l)
      /\ Successor(rows[s].trade, v) /\ v \in Trades /\ IsOpen(rows, s)
  <2>1. /\ trk.snap[l] = rows[l].trade /\ trk.snap[s] = rows[s].trade
        /\ trk.snap[l] \in Trades /\ trk.snap[s] \in Trades
    BY <1>1, <1>2, <1>5, <1>7 DEF Fresh
  <2>2. trk.quote[l] \in Int /\ trk.quote[s] \in Int
    BY <1>6, PricesAreNumbers
  <2>3. Successor(trk.snap[l], u) /\ Successor(trk.snap[s], v)
    BY <1>6, <2>1, <2>2, CloseEffect
  <2> QED
    BY <1>6, <2>1, <2>3 DEF Successor, IsOpen
<1> HIDE DEF exit, u, v
<1> DEFINE snap == [[trk.snap EXCEPT ![l] = u] EXCEPT ![s] = v]
<1>9. trk' = [pc |-> trk.pc, squareOff |-> trk.squareOff, snap |-> snap,
              quote |-> trk.quote, todo |-> trk.todo \ {l}, partner |-> trk.partner,
              pend |-> pair]
  BY <1>4 DEF MonitorInv, TrkInv
<1>10. /\ snap \in [Ids -> Trades] /\ DOMAIN snap = Ids
       /\ snap[l] = u /\ snap[s] = v
       /\ \A i \in Ids \ {l, s} : snap[i] = trk.snap[i]
  BY <1>1, <1>2, <1>5, <1>8
<1> HIDE DEF snap
<1>11. Ids' = Ids /\ Pending' = {l, s} /\ Pairs' = Pairs
  BY <1>1, <1>5, <1>9, <1>10 DEF Ids, Pending, Pairs
<1>12. s \notin trk.todo
  <2>1. \A i \in trk.todo : rows[i].trade.dir = "long"
    <3>1. \A i \in trk.todo : \E q \in Pairs : q[1] = i
      BY <1>1 DEF MonitorInv, PhaseInv
    <3>2. \A q \in Pairs : rows[q[1]].trade.dir = "long"
      BY PairFacts DEF Pairs
    <3> QED
      BY <3>1, <3>2
  <2> QED
    BY <2>1, <1>5
<1>13. TrkInv'
  BY <1>1, <1>2, <1>5, <1>9, <1>10, <1>11 DEF TrkInv
<1>14. CopyInv'
  <2>1. \A i \in Ids : /\ snap[i].dir = rows[i].trade.dir
                       /\ snap[i].entry = rows[i].trade.entry
    BY <1>7, <1>8, <1>10 DEF Successor, Fresh
  <2>2. \A i \in Ids \ {l, s} : snap[i] = rows[i].trade
    BY <1>7, <1>10 DEF Fresh
  <2>3. \A i \in trk.todo : IsOpen(rows, i)
    BY DEF MonitorInv, CopyInv
  <2> QED
    BY <1>1, <1>2, <1>8, <1>9, <1>10, <1>11, <1>12, <2>1, <2>2, <2>3 DEF CopyInv, Fresh
<1>15. PhaseInv'
  <2>1. ASSUME NEW i \in trk.todo \ {l}
        PROVE  \E q \in Pairs : /\ q[1] = i /\ q[2] \notin {l, s}
                                /\ PairReason(snap, trk.quote, q) # "none"
    <3>1. PICK q \in Pairs : q[1] = i /\ PairReason(trk.snap, trk.quote, q) # "none"
      BY <1>1, <2>1 DEF MonitorInv, PhaseInv
    <3>2. q # pair
      BY <1>5, <2>1, <3>1
    <3>3. {l, s} \cap {q[1], q[2]} = {}
      BY <1>5, <3>2
    <3>4. q[1] \in Ids \ {l, s} /\ q[2] \in Ids \ {l, s}
      BY <3>1, <3>3, PairFacts DEF Pairs
    <3>5. snap[q[1]] = trk.snap[q[1]] /\ snap[q[2]] = trk.snap[q[2]]
      BY <1>10, <3>4
    <3>6. PairReason(snap, trk.quote, q) = PairReason(trk.snap, trk.quote, q)
      BY <3>5 DEF PairReason
    <3> QED
      BY <3>1, <3>4, <3>6
  <2>2. \A q : PairReason(trk.snap, trk.quote, q)' = PairReason(snap, trk.quote, q)
    BY <1>1, <1>9 DEF PairReason
  <2> QED
    BY <1>1, <1>9, <1>11, <2>1, <2>2 DEF PhaseInv
<1>16. PartnerInv'
  BY <1>1, <1>9 DEF PartnerInv
<1> QED
  BY <1>13, <1>14, <1>15, <1>16 DEF MonitorInv

(* The partner of a leg is the other leg of its spread, and only that.     *)
LEMMA PartnerFacts ==
    ASSUME NEW r, NEW ids, NEW i, NEW j \in Partner(r, ids, i)
    PROVE  /\ j \in ids /\ j # i /\ Partner(r, ids, i) = {j} /\ Partner(r, ids, j) = {i}
<1>1. j \in ids
  BY DEF Partner
<1>2. PICK pair \in ComboPairs(r, ids) : {pair[1], pair[2]} = {i, j}
  BY DEF Partner
<1>3. j # i /\ i \in ids
  BY <1>2, PairFacts
<1>4. ASSUME NEW a \in {i, j}, NEW k \in Partner(r, ids, a)
      PROVE  k \in {i, j} /\ k # a
  <2>1. PICK other \in ComboPairs(r, ids) : {other[1], other[2]} = {a, k}
    BY <1>4 DEF Partner
  <2>2. other = pair
    <3>1. a \in {pair[1], pair[2]} \cap {other[1], other[2]}
      BY <1>2, <1>4, <2>1
    <3> QED
      BY <3>1, PairFacts
  <2>3. other[1] # other[2]
    BY PairFacts
  <2> QED
    BY <1>2, <2>1, <2>2, <2>3
<1>5. i \in Partner(r, ids, j)
  BY <1>2, <1>3 DEF Partner
<1> QED
  BY <1>1, <1>3, <1>4, <1>5

(* One position is closed in memory.                                       *)
LEMMA CloseOneEffect ==
    ASSUME BookInv, MonitorInv, trk.pc \in {"flatten", "oi", "sonar"}, trk.pend = <<>>,
           NEW i \in trk.todo \cup trk.partner, NEW rest, rest \subseteq trk.todo \ {i},
           NEW others, others \subseteq Ids, CloseOne(i, rest, others),
           \A j \in others : Fresh(j) /\ IsOpen(rows, j) /\ j # i,
           trk.pc = "flatten" => others = {},
           trk.pc # "flatten" => \A k \in rest : i \notin Partner(rows, Ids, k),
           \A j \in others : others = {j} /\ j \notin rest
                             /\ Partner(rows, Ids, j) \cap rest = {}
    PROVE  /\ MonitorInv' /\ rows' = rows /\ Ids' = Ids /\ trk'.pc = trk.pc
           /\ trk'.partner = others /\ Pending = {} /\ Pending' = {i}
           /\ Closed(trk'.snap[i]) /\ \A j \in Ids \ {i} : trk'.snap[j] = trk.snap[j]
<1>1. /\ Pending = {} /\ i \in Ids /\ trk.snap \in [Ids -> Trades] /\ Ids \subseteq DOMAIN rows
      /\ rows' = rows /\ trk.todo \subseteq Ids
      /\ trk.snap[i] = rows[i].trade /\ IsOpen(rows, i) /\ trk.snap[i] \in Trades
  BY DEF CloseOne, Pending, MonitorInv, TrkInv, CopyInv, Fresh
<1>2. PICK p \in Fill(trk.snap[i]) :
          trk' = [trk EXCEPT !.snap[i] = CloseAt(trk.snap[i], p, ExitReason),
                             !.todo = rest, !.partner = others, !.pend = <<i>>]
  BY DEF CloseOne
<1> DEFINE t == CloseAt(trk.snap[i], p, ExitReason)
<1>3. /\ Successor(rows[i].trade, t) /\ t \in Trades /\ Closed(t)
  <2>1. p \in Int
    <3>1. trk.snap[i].last \in Int
      BY <1>1 DEF Trades
    <3> QED
      BY <3>1, PricesAreNumbers DEF Fill
  <2>2. ExitReason \in Reasons \ {"none"}
    BY DEF ExitReason, Reasons
  <2> QED
    BY <1>1, <2>1, <2>2, CloseEffect DEF Successor, Closed
<1> HIDE DEF t
<1> DEFINE snap == [trk.snap EXCEPT ![i] = t]
<1>4. trk' = [pc |-> trk.pc, squareOff |-> trk.squareOff, snap |-> snap, quote |-> trk.quote,
              todo |-> rest, partner |-> others, pend |-> <<i>>]
  BY <1>2 DEF MonitorInv, TrkInv, t
<1>5. /\ snap \in [Ids -> Trades] /\ DOMAIN snap = Ids /\ snap[i] = t
      /\ \A j \in Ids \ {i} : snap[j] = trk.snap[j]
  BY <1>1, <1>3
<1> HIDE DEF snap
<1>6. Ids' = Ids /\ Pending' = {i} /\ Pairs' = Pairs
  BY <1>1, <1>4, <1>5 DEF Ids, Pending, Pairs
<1>7. TrkInv'
  <2>1. trk.squareOff \in BOOLEAN
    BY DEF MonitorInv, TrkInv
  <2> QED
    BY <1>1, <1>4, <1>5, <1>6, <2>1 DEF TrkInv
<1>8. CopyInv'
  <2>1. \A j \in Ids : /\ trk.snap[j].dir = rows[j].trade.dir
                       /\ trk.snap[j].entry = rows[j].trade.entry
                       /\ ~SaveMayFail => trk.snap[j] = rows[j].trade
    BY <1>1 DEF MonitorInv, CopyInv, Fresh
  <2>2. \A j \in Ids : /\ snap[j].dir = rows[j].trade.dir
                       /\ snap[j].entry = rows[j].trade.entry
    BY <1>3, <1>5, <2>1 DEF Successor
  <2>3. \A j \in rest \cup others : j \in Ids \ {i} /\ trk.snap[j] = rows[j].trade /\ IsOpen(rows, j)
    BY <1>1 DEF MonitorInv, CopyInv, Fresh
  <2> QED
    BY <1>1, <1>3, <1>4, <1>5, <1>6, <2>1, <2>2, <2>3 DEF CopyInv, Fresh
<1>9. PhaseInv'
  BY <1>4 DEF PhaseInv
<1>10. PartnerInv'
  <2>1. \A k : Partner(rows, Ids, k)' = Partner(rows, Ids, k)
    BY <1>1, <1>6 DEF Partner, Pairs
  <2>2. ASSUME trk.pc # "flatten", NEW k \in rest, NEW j \in Partner(rows, Ids, k)
        PROVE  j # i /\ snap[j] = rows[j].trade /\ IsOpen(rows, j)
    <3>1. j \in Ids
      BY DEF Partner
    <3>2. Fresh(j) /\ IsOpen(rows, j)
      BY <2>2 DEF MonitorInv, PartnerInv
    <3> QED
      BY <1>5, <2>2, <3>1, <3>2 DEF Fresh
  <2> QED
    BY <1>1, <1>4, <1>6, <2>1, <2>2 DEF PartnerInv, Fresh
<1> QED
  BY <1>1, <1>3, <1>4, <1>5, <1>6, <1>7, <1>8, <1>9, <1>10 DEF MonitorInv

(* A risk exit closes one position in memory and puts its partner next.    *)
LEMMA ClosePositionEffect ==
    ASSUME BookInv, MonitorInv, ClosePosition
    PROVE  \E i \in trk.todo :
              /\ MonitorInv' /\ rows' = rows /\ Ids' = Ids /\ trk'.pc = trk.pc
              /\ trk'.partner = (IF trk.pc = "flatten" THEN {} ELSE Partner(rows, Ids, i))
              /\ Pending = {} /\ Pending' = {i}
              /\ Closed(trk'.snap[i]) /\ \A j \in Ids \ {i} : trk'.snap[j] = trk.snap[j]
<1> DEFINE i == Min(trk.todo)
           others == IF trk.pc = "flatten" THEN {} ELSE Partner(rows, Ids, i)
           rest == trk.todo \ ({i} \cup others)
<1>1. /\ trk.pc \in {"flatten", "oi", "sonar"} /\ trk.pend = <<>> /\ i \in trk.todo /\ Pending = {}
  BY ReadyEffect DEF ClosePosition
<1>2. CloseOne(i, rest, others)
  BY DEF ClosePosition, Ids
<1> HIDE DEF i
<1>3. \A j \in others : /\ j \in Ids /\ j # i /\ others = {j} /\ Partner(rows, Ids, j) = {i}
                        /\ Fresh(j) /\ IsOpen(rows, j)
  <2> TAKE j \in others
  <2>1. trk.pc # "flatten" /\ j \in Partner(rows, Ids, i)
    OBVIOUS
  <2>2. j \in Ids /\ j # i /\ Partner(rows, Ids, i) = {j} /\ Partner(rows, Ids, j) = {i}
    BY <2>1, PartnerFacts
  <2>3. Fresh(j) /\ IsOpen(rows, j)
    BY <1>1, <2>1 DEF MonitorInv, PartnerInv
  <2> QED
    BY <2>1, <2>2, <2>3
<1>4. trk.pc # "flatten" => \A k \in rest : i \notin Partner(rows, Ids, k)
  <2> SUFFICES ASSUME trk.pc # "flatten", NEW k \in rest, i \in Partner(rows, Ids, k) PROVE FALSE
    OBVIOUS
  <2>1. Partner(rows, Ids, i) = {k}
    BY PartnerFacts
  <2> QED
    BY <2>1
<1> HIDE DEF rest
<1>5. rest \subseteq trk.todo \ {i} /\ \A j \in others : j \notin rest
  BY DEF rest
<1> HIDE DEF others
<1>6. /\ others \subseteq Ids /\ i \in trk.todo \cup trk.partner
      /\ \A j \in others : others = {j} /\ j \notin rest /\ Partner(rows, Ids, j) \cap rest = {}
      /\ \A j \in others : Fresh(j) /\ IsOpen(rows, j) /\ j # i
  BY <1>1, <1>3, <1>5
<1>7. trk.pc = "flatten" => others = {}
  BY DEF others
<1>8. /\ MonitorInv' /\ rows' = rows /\ Ids' = Ids /\ trk'.pc = trk.pc
      /\ trk'.partner = others
      /\ Pending = {} /\ Pending' = {i}
      /\ Closed(trk'.snap[i]) /\ \A j \in Ids \ {i} : trk'.snap[j] = trk.snap[j]
  BY <1>1, <1>2, <1>4, <1>5, <1>6, <1>7, CloseOneEffect
<1> QED
  BY <1>1, <1>8, Zenon DEF others

(* The partner is closed after the position it is paired with.             *)
LEMMA ClosePartnerEffect ==
    ASSUME BookInv, MonitorInv, ClosePartner
    PROVE  \E i \in trk.partner :
              /\ MonitorInv' /\ rows' = rows /\ Ids' = Ids /\ trk'.pc = trk.pc
              /\ trk'.partner = {}
              /\ Pending = {} /\ Pending' = {i}
              /\ Closed(trk'.snap[i]) /\ \A j \in Ids \ {i} : trk'.snap[j] = trk.snap[j]
<1>1. PICK i \in trk.partner : trk.pend = <<>> /\ CloseOne(i, trk.todo, {})
  BY DEF ClosePartner
<1>2. /\ trk.pc \in {"oi", "sonar"} /\ i \notin trk.todo
      /\ Partner(rows, Ids, i) \cap trk.todo = {}
  BY <1>1 DEF MonitorInv, PhaseInv, PartnerInv
<1>3. \A k \in trk.todo : i \notin Partner(rows, Ids, k)
  <2> SUFFICES ASSUME NEW k \in trk.todo, i \in Partner(rows, Ids, k) PROVE FALSE
    OBVIOUS
  <2>1. Partner(rows, Ids, i) = {k}
    BY PartnerFacts
  <2> QED
    BY <1>2, <2>1
<1>4. trk.todo \subseteq trk.todo \ {i}
  BY <1>2
<1> DEFINE none == {}
<1>5. none \subseteq Ids /\ (\A j \in none : FALSE) /\ i \in trk.todo \cup trk.partner
  OBVIOUS
<1>6. /\ MonitorInv' /\ rows' = rows /\ Ids' = Ids /\ trk'.pc = trk.pc
      /\ trk'.partner = {}
      /\ Pending = {} /\ Pending' = {i}
      /\ Closed(trk'.snap[i]) /\ \A j \in Ids \ {i} : trk'.snap[j] = trk.snap[j]
  BY <1>1, <1>2, <1>3, <1>4, <1>5, CloseOneEffect
<1> QED
  BY <1>6, Zenon

-------------------------------------------------------------------------------
(* Saves.                                                                  *)

(* The columns save_runtime does not write.                                *)
SameColumns(a, b) ==
    /\ a.sym = b.sym /\ a.side = b.side /\ a.strike = b.strike
    /\ a.combo = b.combo /\ a.day = b.day
    /\ a.trade.dir = b.trade.dir /\ a.trade.entry = b.trade.entry

(* A save writes the runtime columns of one open trade.                    *)
Saved(i) ==
    /\ i \in Pending /\ i \in DOMAIN rows /\ IsOpen(rows, i)
    /\ Successor(rows[i].trade, trk.snap[i])
    /\ rows' \in Seq(Rows) /\ DOMAIN rows' = DOMAIN rows /\ Len(rows') = Len(rows)
    /\ rows'[i].trade = trk.snap[i]
    /\ \A j \in DOMAIN rows \ {i} : rows'[j] = rows[j]
    /\ \A j \in DOMAIN rows : SameColumns(rows'[j], rows[j])

(* save_runtime writes one waiting copy into its open row and no other.    *)
LEMMA SaveEffect ==
    ASSUME BookInv, MonitorInv, Save
    PROVE  /\ \E i \in Pending : Saved(i) /\ i \notin Pending' /\ Pending' = Pending \ {i}
           /\ trk' = [pc |-> trk.pc, squareOff |-> trk.squareOff, snap |-> trk.snap,
                      quote |-> trk.quote, todo |-> trk.todo, partner |-> trk.partner,
                      pend |-> trk'.pend]
           /\ trk'.pend # <<>> => \E j \in Ids : trk'.pend = <<j>>
           /\ UNCHANGED <<live, day, late, sub, flattened, lossAlerted>>
<1>1. /\ trk.pend # <<>> /\ UNCHANGED <<live, day, late, sub, flattened, lossAlerted>>
      /\ rows' = SaveRuntime(rows, Head(trk.pend), trk.snap[Head(trk.pend)])
      /\ trk' = [trk EXCEPT !.pend = Tail(@)]
  BY DEF Save, clock, dedup
<1> DEFINE i == Head(trk.pend)
<1>2. /\ trk' = [pc |-> trk.pc, squareOff |-> trk.squareOff, snap |-> trk.snap,
                 quote |-> trk.quote, todo |-> trk.todo, partner |-> trk.partner,
                 pend |-> Tail(trk.pend)]
  BY <1>1 DEF MonitorInv, TrkInv
<1>3. PICK a \in Ids : trk.pend = <<a>> \/ \E b \in Ids \ {a} : trk.pend = <<a, b>>
  BY <1>1 DEF MonitorInv, TrkInv
<1>4. /\ i \in Ids /\ i \in Pending /\ Pending' = Pending \ {i}
      /\ Tail(trk.pend) # <<>> => \E j \in Ids : Tail(trk.pend) = <<j>>
  <2>1. CASE trk.pend = <<a>>
    <3>1. i = a /\ Tail(trk.pend) = <<>> /\ Pending = {a}
      BY <2>1 DEF Pending
    <3>2. Pending' = {}
      BY <1>2, <3>1 DEF Pending
    <3> QED
      BY <3>1, <3>2
  <2>2. ASSUME NEW b \in Ids \ {a}, trk.pend = <<a, b>>
        PROVE  /\ i \in Ids /\ i \in Pending /\ Pending' = Pending \ {i}
               /\ Tail(trk.pend) # <<>> => \E j \in Ids : Tail(trk.pend) = <<j>>
    <3>1. i = a /\ Tail(trk.pend) = <<b>> /\ Pending = {a, b}
      BY <2>2 DEF Pending
    <3>2. Pending' = {b}
      <4>1. trk'.pend = <<b>>
        BY <1>2, <3>1
      <4>2. DOMAIN <<b>> = {1} /\ <<b>>[1] = b
        OBVIOUS
      <4> QED
        BY <4>1 DEF Pending
    <3> QED
      BY <3>1, <3>2
  <2> QED
    BY <1>3, <2>1, <2>2
<1> HIDE DEF i
<1>5. /\ rows \in Seq(Rows) /\ i \in DOMAIN rows /\ IsOpen(rows, i)
      /\ Successor(rows[i].trade, trk.snap[i]) /\ trk.snap[i] \in Trades
  BY <1>4 DEF BookInv, MonitorInv, TrkInv, CopyInv, Successor
<1> DEFINE row == [rows[i] EXCEPT !.trade = trk.snap[i]]
<1>6. rows[i] \in Rows
  BY <1>5
<1>7. row \in Rows /\ row.trade = trk.snap[i] /\ SameColumns(row, rows[i])
  BY <1>5, <1>6 DEF Rows, SameColumns, Successor
<1>8. rows' = [rows EXCEPT ![i] = row]
  BY <1>1 DEF SaveRuntime, i
<1> HIDE DEF row
<1>9. /\ rows' \in Seq(Rows) /\ DOMAIN rows' = DOMAIN rows /\ Len(rows') = Len(rows)
      /\ rows'[i] = row /\ \A j \in DOMAIN rows \ {i} : rows'[j] = rows[j]
  BY <1>5, <1>7, <1>8
<1>10. \A j \in DOMAIN rows : SameColumns(rows'[j], rows[j])
  BY <1>7, <1>9 DEF SameColumns
<1>11. Saved(i)
  BY <1>4, <1>5, <1>7, <1>9, <1>10 DEF Saved
<1> QED
  BY <1>1, <1>2, <1>4, <1>11

(* A save keeps book and copies in step.                                   *)
LEMMA SaveKeeps ==
    ASSUME BookInv, MonitorInv, Save
    PROVE  BookInv' /\ MonitorInv'
<1>1. PICK i \in Pending : Saved(i) /\ i \notin Pending' /\ Pending' = Pending \ {i}
  BY SaveEffect
<1>2. /\ trk' = [pc |-> trk.pc, squareOff |-> trk.squareOff, snap |-> trk.snap,
                 quote |-> trk.quote, todo |-> trk.todo, partner |-> trk.partner,
                 pend |-> trk'.pend]
      /\ trk'.pend # <<>> => \E j \in Ids : trk'.pend = <<j>>
      /\ UNCHANGED <<live, day, late, flattened, lossAlerted>>
  BY SaveEffect
<1>3. /\ Ids' = Ids /\ trk'.snap = trk.snap /\ trk'.pc = trk.pc /\ trk'.todo = trk.todo
      /\ trk'.partner = trk.partner /\ trk'.quote = trk.quote /\ trk'.squareOff = trk.squareOff
  BY <1>2 DEF Ids
<1>4. /\ IsOpen(rows, i) /\ Successor(rows[i].trade, trk.snap[i]) /\ i \in DOMAIN rows
      /\ rows' \in Seq(Rows) /\ DOMAIN rows' = DOMAIN rows /\ Len(rows') = Len(rows)
      /\ rows'[i].trade = trk.snap[i]
      /\ \A j \in DOMAIN rows \ {i} : rows'[j] = rows[j]
      /\ \A j \in DOMAIN rows : SameColumns(rows'[j], rows[j])
  BY <1>1 DEF Saved
<1>5. Ids \subseteq DOMAIN rows /\ Pairs' = Pairs
  <2>1. Ids \subseteq DOMAIN rows
    BY DEF MonitorInv, TrkInv
  <2>2. \A j \in Ids : rows'[j].combo = rows[j].combo /\ rows'[j].trade.dir = rows[j].trade.dir
    BY <1>4, <2>1 DEF SameColumns
  <2> QED
    BY <1>3, <2>1, <2>2, PairsStable DEF Pairs
<1>6. BookInv'
  <2>1. ASSUME NEW j \in DOMAIN rows, IsOpen(rows', j)
        PROVE  rows'[j].trade.realized = 0 /\ rows'[j].trade.reason = "none"
    <3>1. CASE j = i
      BY <1>4, <2>1, <3>1 DEF BookInv, Successor, IsOpen
    <3>2. CASE j # i
      BY <1>4, <2>1, <3>2 DEF BookInv, IsOpen
    <3> QED
      BY <3>1, <3>2
  <2>2. ASSUME NEW j \in DOMAIN rows
        PROVE  /\ rows'[j].day \in 1..day /\ rows'[j].combo \in 0..Len(rows)
               /\ rows'[j].trade.entry \in Nat
    BY <1>4 DEF BookInv, SameColumns
  <2> QED
    BY <1>2, <1>4, <2>1, <2>2 DEF BookInv
<1>7. TrkInv'
  <2>1. trk.pc # "idle"
    BY <1>1 DEF MonitorInv, TrkInv, Pending
  <2>2. /\ trk.pc \in {"combos", "legs", "flatten", "oi", "sonar"} /\ trk.squareOff \in BOOLEAN
        /\ trk.snap \in [Ids -> Trades]
        /\ Ids \subseteq DOMAIN rows /\ trk.todo \subseteq Ids /\ trk.partner \subseteq Ids
        /\ trk.pc \in {"combos", "legs"} => trk.quote \in [Ids -> Prices \cup {NoQuote}]
    BY <2>1 DEF MonitorInv, TrkInv
  <2>3. trk' = [pc |-> trk'.pc, squareOff |-> trk'.squareOff, snap |-> trk'.snap,
                quote |-> trk'.quote, todo |-> trk'.todo, partner |-> trk'.partner,
                pend |-> trk'.pend]
    BY <1>2, <1>3
  <2>4. DOMAIN rows' = DOMAIN rows
    BY <1>4
  <2> QED
    BY <1>2, <1>3, <2>2, <2>3, <2>4 DEF TrkInv
<1>8. \A j \in Ids \ {i} : Fresh(j)' = Fresh(j) /\ IsOpen(rows, j)' = IsOpen(rows, j)
  BY <1>3, <1>4, <1>5 DEF Fresh, IsOpen
<1>9. Fresh(i)'
  BY <1>3, <1>4 DEF Fresh
<1>10. CopyInv'
  <2>1. \A j \in Ids : /\ trk.snap[j].dir = rows'[j].trade.dir
                       /\ trk.snap[j].entry = rows'[j].trade.entry
    BY <1>4, <1>5 DEF MonitorInv, CopyInv, SameColumns
  <2>2. trk.pc \in {"combos", "legs"} \/ ~SaveMayFail => \A j \in Ids \ Pending' : Fresh(j)'
    BY <1>1, <1>8, <1>9 DEF MonitorInv, CopyInv
  <2>3. \A j \in trk.todo \cup trk.partner : j \notin Pending' /\ Fresh(j)' /\ IsOpen(rows, j)'
    <3>1. trk.todo \cup trk.partner \subseteq Ids
      BY DEF MonitorInv, TrkInv
    <3>2. \A j \in trk.todo \cup trk.partner : j # i /\ j \notin Pending
      BY DEF MonitorInv, CopyInv
    <3> QED
      BY <1>1, <1>8, <3>1, <3>2 DEF MonitorInv, CopyInv
  <2>4. \A j \in Pending' : IsOpen(rows, j)' /\ Successor(rows'[j].trade, trk.snap[j])
    <3>1. \A j \in Pending' : j \in Pending /\ j # i /\ j \in Ids
      BY <1>1 DEF MonitorInv, TrkInv, Pending
    <3>2. \A j \in Pending' : rows'[j] = rows[j]
      BY <1>4, <1>5, <3>1
    <3> QED
      BY <1>8, <3>1, <3>2 DEF MonitorInv, CopyInv
  <2> QED
    BY <1>3, <2>1, <2>2, <2>3, <2>4 DEF CopyInv
<1>11. PhaseInv'
  <2>1. ASSUME NEW pair \in Pairs
        PROVE  PairReason(trk.snap, trk.quote, pair)' = PairReason(trk.snap, trk.quote, pair)
    <3>1. pair[1] \in Ids /\ pair[2] \in Ids
      BY PairFacts DEF Pairs
    <3>2. rows'[pair[1]].strike = rows[pair[1]].strike /\ rows'[pair[2]].strike = rows[pair[2]].strike
      BY <1>4, <1>5, <3>1 DEF SameColumns
    <3> QED
      BY <1>3, <3>2 DEF PairReason
  <2> QED
    BY <1>1, <1>3, <1>5, <2>1 DEF MonitorInv, PhaseInv
<1>12. PartnerInv'
  <2>1. \A k : Partner(rows, Ids, k)' = Partner(rows, Ids, k) /\ Partner(rows, Ids, k) \subseteq Ids
    BY <1>3, <1>5 DEF Partner, Pairs
  <2> QED
    BY <1>1, <1>3, <1>8, <2>1 DEF MonitorInv, PartnerInv
<1> QED
  BY <1>6, <1>7, <1>10, <1>11, <1>12 DEF MonitorInv

-------------------------------------------------------------------------------
(* All steps together.                                                     *)

(* The steps by who takes them.                                            *)
ScanStep ==
    SubmitSignals \/ SubmitExternalSignal \/ SubmitWithHedge \/ SubmitStrangle \/ SubStep

MonitorStep == (\E squareOff \in BOOLEAN : StartPass(squareOff)) \/ TrkStep

ClockStep == PassCutoff \/ NextDay \/ Crash

(* The inductive invariant under the steps of the scan thread, which only  *)
(* ever insert.                                                            *)
LEMMA ScanKeeps ==
    ASSUME IInv, ScanStep
    PROVE  IInv' /\ BookKept
<1>1. BookKept /\ SubInv'
  BY SubmitEffect, GatesEffect, BookingEffect DEF IInv, ScanStep, SubStep
<1>2. /\ BookInv' /\ DOMAIN rows \subseteq DOMAIN rows'
      /\ \A i \in DOMAIN rows : rows'[i] = rows[i]
  BY <1>1, BookKeptEffect DEF IInv
<1>3. MonitorInv'
  BY <1>1, <1>2, MonitorUndisturbed DEF IInv, BookKept
<1> QED
  BY <1>1, <1>2, <1>3 DEF IInv

(* Apart from a save the monitor leaves the table alone.                   *)
LEMMA MonitorKeepsRows ==
    ASSUME MonitorStep
    PROVE  /\ UNCHANGED <<day, late, sub>>
           /\ Save \/ (rows' = rows /\ live' \subseteq live)
           /\ flattened' \in {flattened, day} /\ lossAlerted' \in {lossAlerted, day}
<1>1. CASE \E squareOff \in BOOLEAN : StartPass(squareOff)
  BY <1>1 DEF StartPass, clock, dedup
<1>2. CASE CloseCombo \/ BeginLegs
  BY <1>2 DEF CloseCombo, BeginLegs, clock, dedup
<1>3. CASE TickLeg
  <2>1. UNCHANGED <<rows, day, late, sub, flattened, lossAlerted>>
    BY <1>3 DEF TickLeg, clock, dedup
  <2>2. live' \subseteq live
    BY <1>3 DEF TickLeg
  <2> QED
    BY <2>1, <2>2
<1>4. CASE Save
  BY <1>4 DEF Save, clock, dedup
<1>5. CASE SaveFails \/ EndSquareOff \/ EndPass
  BY <1>5 DEF SaveFails, EndSquareOff, EndPass, clock, dedup
<1>6. CASE BeginFlatten \/ BeginOiExits \/ BeginSonarExits
  BY <1>6 DEF BeginFlatten, BeginOiExits, BeginSonarExits, clock, dedup
<1>7. CASE ClosePosition \/ ClosePartner
  <2>1. \E i, rest, others : CloseOne(i, rest, others)
    BY <1>7 DEF ClosePosition, ClosePartner
  <2> QED
    BY <2>1 DEF CloseOne, clock, dedup
<1> QED
  BY <1>1, <1>2, <1>3, <1>4, <1>5, <1>6, <1>7 DEF MonitorStep, TrkStep

(* The inductive invariant under the steps of the monitor thread.          *)
LEMMA MonitorKeeps ==
    ASSUME IInv, MonitorStep
    PROVE  IInv'
<1>1. BookInv /\ SubInv /\ MonitorInv
  BY DEF IInv
<1>2. UNCHANGED <<day, late, sub>>
  BY MonitorKeepsRows
<1>3. CASE Save
  <2>1. Len(rows') = Len(rows) /\ (rows' # <<>> <=> rows # <<>>)
    <3>1. PICK i \in Pending : Saved(i)
      BY <1>1, <1>3, SaveEffect
    <3>2. rows \in Seq(Rows) /\ rows' \in Seq(Rows) /\ Len(rows') = Len(rows)
      BY <1>1, <3>1 DEF Saved, BookInv
    <3> QED
      BY <3>2
  <2>2. SubInv'
    BY <1>1, <1>2, <2>1 DEF SubInv
  <2> QED
    BY <1>1, <1>3, <2>2, SaveKeeps DEF IInv
<1>4. CASE ~Save
  <2>1. /\ rows' = rows /\ live' \subseteq live
        /\ flattened' \in {flattened, day} /\ lossAlerted' \in {lossAlerted, day}
    BY <1>4, MonitorKeepsRows
  <2>2. BookInv'
    <3>1. /\ live' \subseteq DOMAIN rows /\ day \in 1..MaxDay
          /\ flattened' \in 0..day /\ lossAlerted' \in 0..day
      BY <1>1, <2>1 DEF BookInv
    <3> QED
      BY <1>1, <1>2, <2>1, <3>1 DEF BookInv, IsOpen
  <2>3. SubInv'
    BY <1>1, <1>2, <2>1 DEF SubInv
  <2>4. MonitorInv'
    <3>1. CASE \E squareOff \in BOOLEAN : StartPass(squareOff)
      BY <1>1, <3>1, StartPassEffect
    <3>2. CASE CloseCombo
      BY <1>1, <3>2, CloseComboEffect
    <3>3. CASE BeginLegs
      BY <1>1, <3>3, BeginLegsEffect
    <3>4. CASE TickLeg
      BY <1>1, <3>4, TickLegEffect
    <3>5. CASE SaveFails
      <4>1. CASE trk' = IdleTrk
        BY <4>1, IdleEffect
      <4>2. CASE trk' # IdleTrk
        <5>1. /\ SaveMayFail /\ trk.pc \notin {"combos", "legs"}
              /\ trk' = [trk EXCEPT !.todo = {}, !.partner = {}, !.pend = <<>>]
          BY <3>5, <4>2 DEF SaveFails
        <5>2. trk' = [pc |-> trk.pc, squareOff |-> trk.squareOff, snap |-> trk.snap,
                      quote |-> trk.quote, todo |-> {}, partner |-> {}, pend |-> <<>>]
          BY <1>1, <5>1 DEF MonitorInv, TrkInv
        <5>3. Ids' = Ids /\ Pending' = {}
          BY <5>2 DEF Ids, Pending
        <5>4. TrkInv'
          BY <1>1, <2>1, <5>1, <5>2, <5>3 DEF MonitorInv, TrkInv
        <5>5. CopyInv'
          BY <1>1, <2>1, <5>1, <5>2, <5>3 DEF MonitorInv, CopyInv
        <5>6. PhaseInv'
          BY <5>1, <5>2 DEF PhaseInv
        <5>7. PartnerInv'
          BY <5>2 DEF PartnerInv
        <5> QED
          BY <5>4, <5>5, <5>6, <5>7 DEF MonitorInv
      <4> QED
        BY <4>1, <4>2
    <3>6. CASE EndSquareOff \/ EndPass
      BY <3>6, IdleEffect DEF EndSquareOff, EndPass
    <3>7. CASE BeginFlatten \/ BeginOiExits \/ BeginSonarExits
      BY <1>1, <3>7, BeginEffect
    <3>8. CASE ClosePosition
      BY <1>1, <3>8, ClosePositionEffect
    <3>9. CASE ClosePartner
      BY <1>1, <3>9, ClosePartnerEffect
    <3> QED
      BY <1>4, <3>1, <3>2, <3>3, <3>4, <3>5, <3>6, <3>7, <3>8, <3>9 DEF MonitorStep, TrkStep
  <2> QED
    BY <2>2, <2>3, <2>4 DEF IInv
<1> QED
  BY <1>3, <1>4

(* The inductive invariant under the clock and a crash.                    *)
LEMMA ClockKeeps ==
    ASSUME IInv, ClockStep
    PROVE  IInv' /\ rows' = rows /\ UNCHANGED live
<1>1. BookInv /\ SubInv /\ MonitorInv
  BY DEF IInv
<1>2. rows' = rows /\ live' = live
  BY DEF ClockStep, PassCutoff, NextDay, Crash
<1>3. BookInv'
  <2>1. /\ day' \in {day, day + 1} /\ day' \in 1..MaxDay /\ late' \in BOOLEAN /\ day \in Nat
        /\ flattened' \in {0, flattened} /\ lossAlerted' \in {0, lossAlerted}
    <3>1. day \in 1..MaxDay /\ late \in BOOLEAN /\ MaxDay \in Nat \ {0}
      <4>1. MaxDay \in Nat \ {0}
        BY OrderManagerAssumption, Zenon
      <4> QED
        BY <1>1, <4>1 DEF BookInv
    <3>2. CASE PassCutoff
      BY <3>1, <3>2 DEF PassCutoff, dedup
    <3>3. CASE NextDay
      <4>1. /\ day < MaxDay /\ day' = day + 1 /\ flattened' = flattened /\ lossAlerted' = lossAlerted
        BY <3>3 DEF NextDay, dedup
      <4>2. late' \in BOOLEAN
        BY <3>3 DEF NextDay
      <4>3. day + 1 \in 1..MaxDay /\ day \in Nat
        BY <3>1, <4>1
      <4> QED
        BY <4>1, <4>2, <4>3
    <3>4. CASE Crash
      BY <3>1, <3>4 DEF Crash, clock
    <3> QED
      BY <3>2, <3>3, <3>4 DEF ClockStep
  <2>2. flattened' \in 0..day' /\ lossAlerted' \in 0..day' /\ 1..day \subseteq 1..day'
    BY <1>1, <2>1 DEF BookInv
  <2> QED
    BY <1>1, <1>2, <2>1, <2>2 DEF BookInv, IsOpen
<1>4. SubInv'
  <2>1. CASE sub' = sub
    BY <1>1, <1>2, <2>1 DEF SubInv
  <2>2. CASE sub' = IdleSub
    <3>1. IdleSub \in Submissions /\ IdleSub.pc = "idle" /\ IdleSub.combo = 0
      BY DEF IdleSub, Submissions, NoCombo
    <3>2. Len(rows') \in Nat
      BY <1>1, <1>2 DEF BookInv
    <3> QED
      BY <2>2, <3>1, <3>2 DEF SubInv
  <2> QED
    BY <2>1, <2>2 DEF ClockStep, PassCutoff, NextDay, Crash
<1>5. MonitorInv'
  <2>1. CASE trk' = trk
    BY <1>1, <1>2, <2>1, MonitorUndisturbed
  <2>2. CASE trk' = IdleTrk
    BY <2>2, IdleEffect
  <2> QED
    BY <2>1, <2>2 DEF ClockStep, PassCutoff, NextDay, Crash
<1> QED
  BY <1>2, <1>3, <1>4, <1>5 DEF IInv

(* The inductive invariant at the start.                                   *)
LEMMA InitIsSound == Init => IInv
<1> SUFFICES ASSUME Init PROVE IInv
  OBVIOUS
<1>1. MaxDay \in Nat \ {0}
  BY OrderManagerAssumption, Zenon
<1>2. BookInv
  <2>1. /\ rows = <<>> /\ DOMAIN rows = {} /\ rows \in Seq(Rows)
        /\ live = {} /\ day = 1 /\ late = FALSE /\ flattened = 0 /\ lossAlerted = 0
    BY DEF Init
  <2>2. 1 \in 1..MaxDay /\ 0 \in 0..1
    BY <1>1
  <2> QED
    BY <2>1, <2>2 DEF BookInv
<1>3. SubInv
  <2>1. IdleSub \in Submissions /\ IdleSub.pc = "idle" /\ IdleSub.combo = 0
    BY DEF IdleSub, Submissions, NoCombo
  <2>2. sub = IdleSub /\ Len(rows) = 0
    BY DEF Init
  <2> QED
    BY <2>1, <2>2 DEF SubInv
<1>4. /\ trk.pc = "idle" /\ trk.snap = <<>> /\ trk.todo = {} /\ trk.partner = {}
      /\ trk.pend = <<>> /\ Ids = {} /\ Pending = {} /\ trk = IdleTrk
  BY DEF Init, IdleTrk, Ids, Pending
<1>5. TrkInv
  BY <1>4 DEF IdleTrk, TrkInv, Ids
<1>6. CopyInv /\ PhaseInv /\ PartnerInv
  BY <1>4 DEF CopyInv, PhaseInv, PartnerInv
<1> QED
  BY <1>2, <1>3, <1>5, <1>6 DEF IInv, MonitorInv

(* The inductive invariant under a stuttering step.                        *)
LEMMA Stutter == IInv /\ UNCHANGED vars => IInv'
<1> SUFFICES ASSUME IInv, UNCHANGED vars PROVE IInv'
  OBVIOUS
<1>1. UNCHANGED <<rows, live, day, late, sub, trk, flattened, lossAlerted>>
  BY DEF vars
<1>2. BookInv' /\ SubInv'
  BY <1>1 DEF IInv, BookInv, SubInv, IsOpen
<1>3. MonitorInv'
  BY <1>1, MonitorUndisturbed DEF IInv
<1> QED
  BY <1>2, <1>3 DEF IInv

(* A step is one of the scan thread, of the monitor thread or of the world.*)
LEMMA Steps == Next => ScanStep \/ MonitorStep \/ ClockStep
BY DEF Next, ScanStep, MonitorStep, ClockStep

(* The inductive invariant holds for every strategy, cap, mode and failure *)
(* the constants allow.                                                    *)
THEOREM Invariance == Spec => []IInv
<1>1. IInv /\ [Next]_vars => IInv'
  BY Stutter, Steps, ScanKeeps, MonitorKeeps, ClockKeeps
<1> QED
  BY InitIsSound, <1>1, PTL DEF Spec

(* Type correctness of the order manager (order_manager.py over            *)
(* PaperTradeBook).                                                        *)
THEOREM TypeCorrect == Spec => []TypeOK
<1>1. IInv => TypeOK
  <2> SUFFICES ASSUME IInv PROVE TypeOK
    OBVIOUS
  <2>1. BookInv /\ SubInv /\ TrkInv
    BY DEF IInv, MonitorInv
  <2>2. \A i \in DOMAIN rows : rows[i].trade \in Trades
    <3>1. \A i \in DOMAIN rows : rows[i] \in Rows
      BY <2>1 DEF BookInv
    <3> QED
      BY <3>1 DEF Rows
  <2>3. sub.pc \in {"idle", "lockout", "quality", "concentration", "exposure", "book",
                    "subscribe", "hedge"}
    BY <2>1 DEF SubInv, Submissions
  <2> QED
    BY <2>1, <2>2, <2>3 DEF TypeOK, BookInv, TrkInv, Ids
<1> QED
  BY Invariance, <1>1, PTL

(* monitor with square_off: once through its list, a square-off has closed *)
(* every position that was open when it began, quoted or not, under every  *)
(* interleaving with the scan thread, crashes and failing saves (a failed  *)
(* save ends the pass).                                                    *)
THEOREM SquareOffIsComplete == Spec => []SquareOffClosesAll
<1>1. IInv => SquareOffClosesAll
  <2> SUFFICES ASSUME IInv, trk.pc = "legs", trk.squareOff, Drained, NEW i \in Ids
               PROVE  ~IsOpen(rows, i)
    BY DEF SquareOffClosesAll, Ids
  <2>1. Pending = {}
    BY DEF Drained, Pending
  <2>2. Closed(trk.snap[i]) /\ trk.snap[i] = rows[i].trade
    BY <2>1 DEF IInv, MonitorInv, PhaseInv, CopyInv, Fresh, Drained
  <2> QED
    BY <2>2 DEF Closed, IsOpen
<1> QED
  BY Invariance, <1>1, PTL

-------------------------------------------------------------------------------
(* Whole spreads.                                                          *)

(* The read-modify-write of the monitor loses no update: while saves       *)
(* succeed, a copy of the monitor and its row differ only by what is still *)
(* to be saved (save_runtime overwrites every runtime column, and the scan *)
(* thread inserts meanwhile).                                              *)
THEOREM NoUpdateIsLost ==
    ASSUME SaveMayFail = FALSE
    PROVE  Spec => []CopiesAreSaved
<1>1. IInv => CopiesAreSaved
  <2> SUFFICES ASSUME IInv PROVE CopiesAreSaved
    OBVIOUS
  <2>1. \A i \in Ids \ Pending : rows[i].trade = trk.snap[i]
    BY DEF IInv, MonitorInv, CopyInv, Fresh
  <2>2. Range(trk.pend) = Pending
    BY Zenon DEF Range, Pending
  <2> QED
    BY <2>1, <2>2 DEF CopiesAreSaved, Ids
<1> QED
  BY Invariance, <1>1, PTL

(* A spread that a risk exit has begun to close is being closed.           *)
WholeSpreads ==
    trk.pc \in {"oi", "sonar"} =>
        \A pair \in Pairs :
            LET legs == {pair[1], pair[2]}
            IN  IF legs \cap trk.partner = {}
                THEN Closed(trk.snap[pair[1]]) <=> Closed(trk.snap[pair[2]])
                ELSE \E i \in legs : i \notin trk.partner /\ Closed(trk.snap[i])

(* While saves succeed, a spread of the pass is whole, or its other leg is *)
(* next.                                                                   *)
LEMMA WholeSpreadsKept ==
    ASSUME SaveMayFail = FALSE, IInv, WholeSpreads, Next
    PROVE  WholeSpreads'
<1>1. BookInv /\ MonitorInv /\ Ids \subseteq DOMAIN rows
  BY DEF IInv, MonitorInv, TrkInv
<1>2. CASE ScanStep
  <2>1. trk' = trk /\ \A i \in DOMAIN rows : rows'[i] = rows[i]
    BY <1>1, <1>2, ScanKeeps, BookKeptEffect DEF BookKept
  <2>2. Pairs' = Pairs
    BY <1>1, <2>1, PairsStable DEF Pairs, Ids
  <2> QED
    BY <2>1, <2>2 DEF WholeSpreads
<1>3. CASE Save
  <2>1. PICK i \in Pending : Saved(i)
    BY <1>1, <1>3, SaveEffect
  <2>2. /\ trk'.snap = trk.snap /\ trk'.pc = trk.pc /\ trk'.partner = trk.partner /\ Ids' = Ids
    BY <1>1, <1>3, SaveEffect DEF Ids
  <2>3. \A j \in Ids : rows'[j].combo = rows[j].combo /\ rows'[j].trade.dir = rows[j].trade.dir
    BY <1>1, <2>1 DEF Saved, SameColumns
  <2>4. Pairs' = Pairs
    BY <2>2, <2>3, PairsStable DEF Pairs
  <2> QED
    BY <2>2, <2>4 DEF WholeSpreads
<1>4. CASE BeginOiExits \/ BeginSonarExits
  <2>1. PICK phase, ids, doomed : ids = OpenTrades(rows, day) /\ Enter(phase, ids, doomed)
    BY <1>4 DEF BeginOiExits, BeginSonarExits, BeginRiskExits
  <2>2. trk'.snap = Copies(ids) /\ trk'.partner = {}
    BY <1>1, <1>4, <2>1 DEF Enter, BeginOiExits, BeginSonarExits, Drained, MonitorInv, TrkInv
  <2>3. Ids' = ids /\ \A i \in ids : ~Closed(trk'.snap[i])
    BY <1>1, <2>1, <2>2, CopiesEffect DEF Ids, Closed, IsOpen
  <2>4. \A pair \in Pairs' : pair[1] \in ids /\ pair[2] \in ids
    BY <2>3, PairFacts DEF Pairs
  <2> QED
    BY <2>2, <2>3, <2>4 DEF WholeSpreads
<1>5. ASSUME NEW i \in Ids, rows' = rows, Ids' = Ids, trk'.pc = trk.pc,
             Closed(trk'.snap[i]), \A j \in Ids \ {i} : trk'.snap[j] = trk.snap[j]
      PROVE  /\ Pairs' = Pairs
             /\ \A pair \in Pairs : i \notin {pair[1], pair[2]} =>
                   /\ trk'.snap[pair[1]] = trk.snap[pair[1]]
                   /\ trk'.snap[pair[2]] = trk.snap[pair[2]]
             /\ \A pair \in Pairs : i \in {pair[1], pair[2]} =>
                   \E j : /\ {pair[1], pair[2]} = {i, j} /\ j # i /\ j \in Ids
                          /\ Partner(rows, Ids, i) = {j}
                          /\ trk'.snap[j] = trk.snap[j]
  <2>1. \A pair \in Pairs : pair[1] \in Ids /\ pair[2] \in Ids /\ pair[1] # pair[2]
    BY PairFacts DEF Pairs
  <2>2. ASSUME NEW pair \in Pairs, i \in {pair[1], pair[2]}
        PROVE  \E j : /\ {pair[1], pair[2]} = {i, j} /\ j # i /\ j \in Ids
                      /\ Partner(rows, Ids, i) = {j}
                      /\ trk'.snap[j] = trk.snap[j]
    <3>1. PICK j \in Ids : {pair[1], pair[2]} = {i, j} /\ j # i
      BY <2>1, <2>2
    <3>2. j \in Partner(rows, Ids, i)
      BY <3>1 DEF Partner, Pairs
    <3>3. Partner(rows, Ids, i) = {j}
      BY <3>2, PartnerFacts
    <3>4. trk'.snap[j] = trk.snap[j]
      BY <1>5, <3>1
    <3> QED
      BY <3>1, <3>3, <3>4
  <2> QED
    BY <1>5, <2>1, <2>2 DEF Pairs
<1>6. CASE ClosePosition /\ trk.pc \in {"oi", "sonar"}
  <2>1. PICK i \in trk.todo :
              /\ rows' = rows /\ Ids' = Ids /\ trk'.pc = trk.pc
              /\ trk'.partner = Partner(rows, Ids, i)
              /\ Closed(trk'.snap[i]) /\ \A j \in Ids \ {i} : trk'.snap[j] = trk.snap[j]
    <3>1. "flatten" \notin {"oi", "sonar"}
      OBVIOUS
    <3> QED
      BY <1>1, <1>6, <3>1, ClosePositionEffect
  <2>2. i \in Ids /\ trk.partner = {}
    BY <1>1, <1>6, <2>1 DEF MonitorInv, TrkInv, ClosePosition, Ready
  <2>3. Pairs' = Pairs
    BY <2>1, <2>2, <1>5
  <2>4. ASSUME NEW pair \in Pairs, i \in {pair[1], pair[2]}
        PROVE  i \notin trk'.partner /\ {pair[1], pair[2]} \cap trk'.partner # {}
    BY <2>1, <2>2, <2>4, <1>5
  <2>5. ASSUME NEW pair \in Pairs, i \notin {pair[1], pair[2]}
        PROVE  /\ {pair[1], pair[2]} \cap trk'.partner = {}
               /\ Closed(trk'.snap[pair[1]]) <=> Closed(trk'.snap[pair[2]])
    <3>1. Closed(trk.snap[pair[1]]) <=> Closed(trk.snap[pair[2]])
      BY <1>6, <2>2 DEF WholeSpreads
    <3>2. \A j \in Partner(rows, Ids, i) : j \notin {pair[1], pair[2]}
      <4> SUFFICES ASSUME NEW j \in Partner(rows, Ids, i), j \in {pair[1], pair[2]} PROVE FALSE
        OBVIOUS
      <4>1. Partner(rows, Ids, j) = {i} /\ j \in Ids
        BY PartnerFacts
      <4>2. PICK k \in Ids : {pair[1], pair[2]} = {j, k}
        BY PairFacts DEF Pairs
      <4>3. k \in Partner(rows, Ids, j)
        BY <4>2 DEF Partner, Pairs
      <4> QED
        BY <2>5, <4>1, <4>2, <4>3
    <3>3. trk'.snap[pair[1]] = trk.snap[pair[1]] /\ trk'.snap[pair[2]] = trk.snap[pair[2]]
      BY <2>1, <2>2, <2>5, <1>5
    <3> QED
      BY <2>1, <3>1, <3>2, <3>3
  <2> QED
    BY <2>1, <2>3, <2>4, <2>5 DEF WholeSpreads
<1>7. CASE ClosePartner
  <2>1. PICK i \in trk.partner :
              /\ rows' = rows /\ Ids' = Ids /\ trk'.pc = trk.pc
              /\ trk'.partner = {}
              /\ Closed(trk'.snap[i]) /\ \A j \in Ids \ {i} : trk'.snap[j] = trk.snap[j]
    BY <1>1, <1>7, ClosePartnerEffect
  <2>2. i \in Ids /\ trk.pc \in {"oi", "sonar"} /\ trk.partner = {i}
    BY <1>1, <2>1 DEF MonitorInv, TrkInv, PhaseInv, PartnerInv
  <2>3. Pairs' = Pairs
    BY <2>1, <2>2, <1>5
  <2>4. ASSUME NEW pair \in Pairs
        PROVE  Closed(trk'.snap[pair[1]]) <=> Closed(trk'.snap[pair[2]])
    <3>1. CASE i \in {pair[1], pair[2]}
      <4>1. PICK j : /\ {pair[1], pair[2]} = {i, j} /\ j # i /\ trk'.snap[j] = trk.snap[j]
        BY <2>1, <2>2, <3>1, <1>5
      <4>2. \E k \in {pair[1], pair[2]} : k # i /\ Closed(trk.snap[k])
        BY <2>2, <3>1 DEF WholeSpreads
      <4> QED
        BY <2>1, <4>1, <4>2
    <3>2. CASE i \notin {pair[1], pair[2]}
      <4>1. Closed(trk.snap[pair[1]]) <=> Closed(trk.snap[pair[2]])
        BY <2>2, <3>2 DEF WholeSpreads
      <4>2. trk'.snap[pair[1]] = trk.snap[pair[1]] /\ trk'.snap[pair[2]] = trk.snap[pair[2]]
        BY <2>1, <2>2, <3>2, <1>5
      <4> QED
        BY <4>1, <4>2
    <3> QED
      BY <3>1, <3>2
  <2> QED
    BY <2>1, <2>3, <2>4 DEF WholeSpreads
<1>8. CASE trk'.pc \notin {"oi", "sonar"}
  BY <1>8 DEF WholeSpreads
<1>9. ASSUME MonitorStep, trk'.pc \in {"oi", "sonar"}
      PROVE  \/ Save \/ BeginOiExits \/ BeginSonarExits \/ ClosePartner
             \/ ClosePosition /\ trk.pc \in {"oi", "sonar"}
  <2>1. trk = [pc |-> trk.pc, squareOff |-> trk.squareOff, snap |-> trk.snap,
               quote |-> trk.quote, todo |-> trk.todo, partner |-> trk.partner,
               pend |-> trk.pend]
    BY <1>1 DEF MonitorInv, TrkInv
  <2>2. ~(\E squareOff \in BOOLEAN : StartPass(squareOff))
    BY <1>9 DEF StartPass, IdleTrk
  <2>3. ~CloseCombo /\ ~BeginLegs /\ ~TickLeg
    BY <1>9, <2>1 DEF CloseCombo, BeginLegs, TickLeg
  <2>4. ~SaveFails
    BY DEF SaveFails
  <2>5. ~EndSquareOff /\ ~EndPass
    BY <1>9 DEF EndSquareOff, EndPass, IdleTrk
  <2>6. ~BeginFlatten
    BY <1>9, <2>1 DEF BeginFlatten, Enter
  <2>7. ClosePosition => trk'.pc = trk.pc
    BY <1>1, ClosePositionEffect
  <2> QED
    BY <1>9, <2>2, <2>3, <2>4, <2>5, <2>6, <2>7 DEF MonitorStep, TrkStep
<1>10. CASE ClockStep
  <2>1. trk' = IdleTrk \/ (trk' = trk /\ rows' = rows)
    BY <1>10 DEF ClockStep, PassCutoff, NextDay, Crash
  <2>2. CASE trk' = IdleTrk
    BY <2>2 DEF WholeSpreads, IdleTrk
  <2>3. CASE trk' = trk /\ rows' = rows
    BY <2>3 DEF WholeSpreads, Pairs, Ids
  <2> QED
    BY <2>1, <2>2, <2>3
<1> QED
  BY <1>2, <1>3, <1>4, <1>6, <1>7, <1>8, <1>9, <1>10, Steps

(* _close_trade_and_partner: when the OI or the sonar exits have gone      *)
(* through their list, no spread has one leg closed and the other open, as *)
(* long as saves succeed.                                                  *)
THEOREM RiskExitsAreWhole ==
    ASSUME SaveMayFail = FALSE
    PROVE  Spec => []RiskExitTakesBothLegs
<1>1. Init => WholeSpreads
  BY DEF Init, IdleTrk, WholeSpreads
<1>2. IInv /\ WholeSpreads /\ [Next]_vars => WholeSpreads'
  <2>1. IInv /\ WholeSpreads /\ UNCHANGED vars => WholeSpreads'
    BY DEF vars, WholeSpreads, Pairs, Ids
  <2> QED
    BY <2>1, WholeSpreadsKept
<1>3. IInv /\ WholeSpreads => RiskExitTakesBothLegs
  <2> SUFFICES ASSUME IInv, WholeSpreads, trk.pc \in {"oi", "sonar"}, Drained,
                      NEW pair \in Pairs
               PROVE  IsOpen(rows, pair[1]) = IsOpen(rows, pair[2])
    BY DEF RiskExitTakesBothLegs, Pairs, Ids
  <2>1. Pending = {} /\ trk.partner = {}
    BY DEF Drained, Pending
  <2>2. pair[1] \in Ids /\ pair[2] \in Ids
    BY PairFacts DEF Pairs
  <2>3. /\ trk.snap[pair[1]] = rows[pair[1]].trade /\ trk.snap[pair[1]] \in Trades
        /\ trk.snap[pair[2]] = rows[pair[2]].trade /\ trk.snap[pair[2]] \in Trades
    BY <2>1, <2>2 DEF IInv, MonitorInv, CopyInv, TrkInv, Fresh
  <2>4. Closed(trk.snap[pair[1]]) <=> Closed(trk.snap[pair[2]])
    BY <2>1 DEF WholeSpreads
  <2>5. IsOpen(rows, pair[1]) <=> IsOpen(rows, pair[2])
    BY <2>3, <2>4 DEF Closed, IsOpen, Trades, Statuses
  <2> QED
    BY <2>5 DEF IsOpen
<1> QED
  BY Invariance, <1>1, <1>2, <1>3, PTL DEF Spec

-------------------------------------------------------------------------------
(* The refinement of the ledger.                                           *)

(* A row as the ledger shows it.                                           *)
Entry(t) == [status |-> t.status, pnl |-> t.realized, why |-> t.reason]

(* A booking opens one entry of the ledger.                                *)
LEMMA BookingOpens ==
    ASSUME BookInv, NEW s, NEW c, Grown(s, c)
    PROVE  Ledger!Open
<1> DEFINE n == Len(rows)
           now == [i \in 1..n |-> Entry(rows[i].trade)]
           next == [i \in 1..(n + 1) |-> Entry(rows'[i].trade)]
<1>1. /\ n \in Nat /\ DOMAIN rows = 1..n /\ DOMAIN rows' = 1..(n + 1)
      /\ \A i \in 1..n : rows'[i] = rows[i]
      /\ rows'[n + 1] = Row(s, c, day)
  BY GrownEffect DEF BookInv
<1>2. LedgerView = now /\ LedgerView' = next
  BY <1>1 DEF LedgerView, Entry
<1>3. Entry(rows'[n + 1].trade) = Ledger!OpenEntry
  BY <1>1 DEF Row, NewTrade, Entry, Ledger!OpenEntry
<1> HIDE DEF n
<1>4. next = Append(now, Ledger!OpenEntry)
  <2>1. now \in Seq({now[i] : i \in 1..n}) /\ Len(now) = n
    BY <1>1
  <2>2. \A i \in 1..n : next[i] = now[i]
    BY <1>1
  <2>3. next[n + 1] = Ledger!OpenEntry
    BY <1>1, <1>3
  <2> DEFINE more == Append(now, Ledger!OpenEntry)
  <2>4. /\ DOMAIN more = 1..(n + 1) /\ more = [i \in DOMAIN more |-> more[i]]
        /\ \A i \in 1..n : more[i] = now[i]
        /\ more[n + 1] = Ledger!OpenEntry
    BY <2>1, <1>1
  <2>5. \A i \in 1..(n + 1) : more[i] = next[i]
    <3> HIDE DEF more, next, now
    <3> QED
      BY <1>1, <2>2, <2>3, <2>4
  <2>6. next = [i \in 1..(n + 1) |-> next[i]]
    OBVIOUS
  <2> HIDE DEF more, next, now
  <2> QED
    BY <2>4, <2>5, <2>6, Zenon DEF more
<1> QED
  BY <1>2, <1>4 DEF Ledger!Open

(* A save closes one entry or changes nothing the ledger shows.            *)
LEMMA SaveCloses ==
    ASSUME BookInv, NEW i, Saved(i)
    PROVE  Ledger!Close(i) \/ LedgerView' = LedgerView
<1>1. /\ i \in DOMAIN rows /\ rows[i].trade.status = "open"
      /\ Successor(rows[i].trade, trk.snap[i])
      /\ DOMAIN rows' = DOMAIN rows /\ rows'[i].trade = trk.snap[i]
      /\ \A j \in DOMAIN rows \ {i} : rows'[j] = rows[j]
  BY DEF Saved, IsOpen
<1>2. /\ LedgerView = [j \in DOMAIN rows |-> Entry(rows[j].trade)]
      /\ LedgerView' = [j \in DOMAIN rows |-> Entry(rows'[j].trade)]
  BY <1>1 DEF LedgerView, Entry
<1>3. CASE trk.snap[i].status = "open"
  <2>1. Entry(rows'[i].trade) = Entry(rows[i].trade)
    BY <1>1, <1>3 DEF Successor, Entry
  <2>2. \A j \in DOMAIN rows : Entry(rows'[j].trade) = Entry(rows[j].trade)
    BY <1>1, <2>1
  <2> QED
    BY <1>2, <2>2, Zenon
<1>4. CASE trk.snap[i].status # "open"
  <2>1. /\ trk.snap[i].status = "closed" /\ trk.snap[i].reason \in Reasons \ {"none"}
        /\ trk.snap[i].realized \in Int
    BY <1>1, <1>4 DEF Successor, Trades
  <2>2. LedgerView[i].status = "open"
    BY <1>1, <1>2 DEF Entry
  <2>3. LedgerView'[i] \in Ledger!ClosedEntries
    BY <1>1, <1>2, <2>1 DEF Entry, Ledger!ClosedEntries
  <2>4. LedgerView' = [LedgerView EXCEPT ![i] = LedgerView'[i]]
    BY <1>1, <1>2
  <2> QED
    BY <2>2, <2>3, <2>4 DEF Ledger!Close
<1> QED
  BY <1>3, <1>4

(* Refinement: the paper_trades table, under both threads, crashes and     *)
(* failing saves, implements the abstract ledger: rows are only added, and *)
(* a trade is closed once, with a result and a reason that never change.   *)
THEOREM BookImplementsLedger == Spec => BookIsLedger
<1>1. Init => Ledger!Init
  BY DEF Init, LedgerView, Ledger!Init
<1>2. IInv /\ [Next]_vars => [Ledger!Next]_LedgerView
  <2> SUFFICES ASSUME IInv, [Next]_vars PROVE [Ledger!Next]_LedgerView
    OBVIOUS
  <2>1. BookInv /\ MonitorInv
    BY DEF IInv
  <2>2. CASE rows' = rows
    BY <2>2 DEF LedgerView
  <2>3. ASSUME NEW s, NEW c, Grown(s, c) PROVE Ledger!Next
    BY <2>1, <2>3, BookingOpens DEF Ledger!Next
  <2>4. CASE Save
    <3>1. PICK i \in Pending : Saved(i)
      BY <2>1, <2>4, SaveEffect
    <3>2. i \in DOMAIN LedgerView
      BY <3>1 DEF Saved, LedgerView
    <3> QED
      BY <2>1, <3>1, <3>2, SaveCloses DEF Ledger!Next
  <2>5. CASE ScanStep
    <3>1. rows' = rows \/ \E s, c : Grown(s, c)
      BY <2>5, ScanKeeps DEF BookKept
    <3> QED
      BY <2>2, <2>3, <3>1
  <2>6. CASE MonitorStep
    BY <2>2, <2>4, <2>6, MonitorKeepsRows
  <2>7. CASE ClockStep
    BY <2>2, <2>7, ClockKeeps
  <2>8. CASE UNCHANGED vars
    BY <2>2, <2>8 DEF vars
  <2> QED
    BY <2>5, <2>6, <2>7, <2>8, Steps
<1> QED
  BY Invariance, <1>1, <1>2, PTL DEF Spec, BookIsLedger, Ledger!Spec

-------------------------------------------------------------------------------
(* One trade per contract.                                                 *)

(* Without a hedge chain no batch books a hedge leg.                       *)
NoHedges == sub.hedge = NoSignal /\ sub.pc # "hedge"

(* A scan without a hedge fetcher never has a hedge leg at hand.           *)
LEMMA NoHedgesKept ==
    ASSUME HedgeBatch = FALSE, IInv, NoHedges, Next
    PROVE  NoHedges'
<1> DEFINE Plain(new) == new.hedge = NoSignal /\ new.pc # "hedge"
           calm == {"quality", "concentration", "exposure", "book", "subscribe"}
<1>1. sub \in Submissions /\ Plain(sub)
  BY DEF IInv, SubInv, NoHedges
<1>2. Plain(IdleSub) /\ Plain(NextSubmission(TRUE)) /\ Plain(NextSubmission(FALSE))
  BY NextSubmissionEffect DEF IInv, NoHedges, IdleSub
<1>3. \A pc \in calm : \A cands, combo :
         /\ Plain([sub EXCEPT !.pc = pc])
         /\ Plain([sub EXCEPT !.pc = pc, !.cands = cands])
         /\ Plain([sub EXCEPT !.pc = pc, !.cands = cands, !.combo = combo])
         /\ Plain([sub EXCEPT !.pc = pc, !.hedge = NoSignal, !.combo = combo])
         /\ Plain([sub EXCEPT !.cands = cands])
  BY <1>1 DEF Submissions
<1>4. Plain(sub') => NoHedges'
  BY DEF NoHedges
<1> HIDE DEF Plain
<1>5. ASSUME NEW path, NEW cands, NEW rest, NEW combo, Submit(path, cands, rest, combo)
      PROVE  Plain(sub')
  BY <1>5 DEF Submit, IdleSub, Plain
<1>6. CASE SubmitSignals \/ SubmitExternalSignal \/ SubmitWithHedge \/ SubmitStrangle
  <2>1. CASE SubmitSignals \/ SubmitExternalSignal
    BY <1>4, <1>5, <2>1 DEF SubmitSignals, SubmitExternalSignal
  <2>2. CASE SubmitWithHedge
    BY <1>4, <1>5, <2>2 DEF SubmitWithHedge
  <2>3. CASE SubmitStrangle
    BY <1>4, <1>5, <2>3 DEF SubmitStrangle
  <2> QED
    BY <1>6, <2>1, <2>2, <2>3
<1>7. CASE CheckLockout \/ LockoutFails
  <2>1. sub' = IdleSub \/ sub' = NextSubmission(FALSE) \/ sub' = [sub EXCEPT !.pc = "quality"]
    BY <1>7 DEF CheckLockout, LockoutFails
  <2>2. Plain([sub EXCEPT !.pc = "quality"])
    BY <1>3
  <2> QED
    BY <1>2, <1>4, <2>1, <2>2, Zenon
<1>8. CASE QualityGates \/ CheckConcentration
  <2>1. \E pc \in calm : \E cands : sub' = [sub EXCEPT !.pc = pc, !.cands = cands]
    BY <1>8, Zenon DEF QualityGates, CheckConcentration
  <2> QED
    BY <1>3, <1>4, <2>1, Zenon
<1>9. \A cands : Plain(AfterGates(cands))
  <2> TAKE cands
  <2>1. Plain([sub EXCEPT !.pc = "book", !.cands = cands])
    BY <1>3
  <2> QED
    BY <1>2, <2>1 DEF AfterGates
<1>10. CASE CheckExposure
  BY <1>4, <1>9, <1>10 DEF CheckExposure
<1>11. CASE GateFails
  <2>1. sub' = [sub EXCEPT !.pc = "exposure"] \/ sub' = AfterGates(sub.cands)
    BY <1>11 DEF GateFails
  <2>2. Plain([sub EXCEPT !.pc = "exposure"])
    BY <1>3
  <2> QED
    BY <1>4, <1>9, <2>1, <2>2, Zenon
<1>12. CASE EndBatch
  BY <1>2, <1>4, <1>12 DEF EndBatch
<1>13. CASE BookSignal
  <2>1. sub' = NextSubmission(FALSE) \/ sub' = [sub EXCEPT !.pc = "subscribe"]
    BY <1>13 DEF BookSignal
  <2>2. Plain([sub EXCEPT !.pc = "subscribe"])
    BY <1>3
  <2> QED
    BY <1>2, <1>4, <2>1, <2>2, Zenon
<1>14. CASE BookBatchHead
  <2>1. HedgesFor(Head(sub.cands)) = {NoSignal}
    BY DEF HedgesFor
  <2>2. \/ sub' = [sub EXCEPT !.cands = Tail(sub.cands)]
        \/ \E combo : sub' = [sub EXCEPT !.pc = "subscribe", !.hedge = NoSignal, !.combo = combo]
    BY <1>14, <2>1 DEF BookBatchHead
  <2>3. Plain([sub EXCEPT !.cands = Tail(sub.cands)])
    BY <1>3
  <2>4. \A combo : Plain([sub EXCEPT !.pc = "subscribe", !.hedge = NoSignal, !.combo = combo])
    BY <1>3
  <2> QED
    BY <1>4, <2>2, <2>3, <2>4, Zenon
<1>15. CASE InsertHedge
  BY <1>15 DEF InsertHedge, NoHedges
<1>16. CASE SubscribeLiveQuote
  <2>1. \/ sub' = NextSubmission(TRUE)
        \/ sub' = [sub EXCEPT !.pc = "book", !.cands = Tail(sub.cands), !.combo = NoCombo]
    BY <1>16 DEF SubscribeLiveQuote, NoHedges
  <2>2. Plain([sub EXCEPT !.pc = "book", !.cands = Tail(sub.cands), !.combo = NoCombo])
    BY <1>3
  <2> QED
    BY <1>2, <1>4, <2>1, <2>2, Zenon
<1>17. CASE MonitorStep
  BY <1>17, MonitorKeepsRows DEF NoHedges
<1>18. CASE ClockStep
  <2>1. sub' = sub \/ sub' = IdleSub
    BY <1>18 DEF ClockStep, PassCutoff, NextDay, Crash
  <2> QED
    BY <1>1, <1>2, <1>4, <2>1, Zenon
<1> QED
  BY <1>6, <1>7, <1>8, <1>10, <1>11, <1>12, <1>13, <1>14, <1>15, <1>16, <1>17, <1>18, Steps
     DEF ScanStep, SubStep

(* Every booking has passed the guards of its path.                        *)
Booked ==
    /\ sub.pc = "book" /\ sub.cands # <<>> /\ Bookable(Head(sub.cands))
    /\ \E c : Grown(Head(sub.cands), c)
    /\ sub'.pc = "subscribe" /\ sub'.cands = sub.cands

(* Every INSERT of the scan thread is that of a candidate that has passed  *)
(* the checks of its path.                                                 *)
LEMMA BookingsAreChecked ==
    ASSUME IInv, NoHedges, ScanStep
    PROVE  rows' = rows \/ Booked
<1>1. /\ sub \in Submissions /\ sub.combo \in 0..(Len(rows) + 1) /\ Len(rows) \in Nat
      /\ sub.cands \in Seq(SignalRecords)
  BY DEF IInv, SubInv, Submissions, BookInv
<1>2. sub.cands # <<>> => Head(sub.cands) \in SignalRecords
  BY <1>1
<1>3. CASE BookSignal
  <2>1. sub.cands # <<>>
    BY <1>3 DEF BookSignal, IInv, SubInv
  <2>2. CASE Bookable(Head(sub.cands)) /\ rows' = OpenTrade(rows, Head(sub.cands), sub.combo, day)
             /\ sub' = [sub EXCEPT !.pc = "subscribe"]
    <3>1. Grown(Head(sub.cands), sub.combo)
      BY <1>1, <1>2, <2>1, <2>2 DEF Grown
    <3>2. sub'.pc = "subscribe" /\ sub'.cands = sub.cands
      BY <1>1, <2>2 DEF Submissions
    <3>3. sub.pc = "book"
      BY <1>3 DEF BookSignal
    <3> QED
      BY <2>1, <2>2, <3>1, <3>2, <3>3 DEF Booked
  <2> QED
    BY <1>3, <2>2 DEF BookSignal
<1>4. CASE BookBatchHead
  <2>1. sub.cands # <<>> /\ sub.pc = "book"
    BY <1>4 DEF BookBatchHead, BatchOver
  <2>2. CASE Bookable(Head(sub.cands)) /\ \E h \in HedgesFor(Head(sub.cands)) :
                LET combo == IF HedgeBatch THEN FreshCombo ELSE NoCombo
                IN  /\ rows' = OpenTrade(rows, Head(sub.cands), combo, day)
                    /\ sub' = [sub EXCEPT !.pc = "subscribe", !.hedge = h, !.combo = combo]
    <3> DEFINE combo == IF HedgeBatch THEN FreshCombo ELSE NoCombo
    <3>1. PICK h \in HedgesFor(Head(sub.cands)) :
                /\ rows' = OpenTrade(rows, Head(sub.cands), combo, day)
                /\ sub' = [sub EXCEPT !.pc = "subscribe", !.hedge = h, !.combo = combo]
      BY <2>2
    <3>2. combo \in 0..(Len(rows) + 1)
      BY <1>1 DEF FreshCombo, NoCombo
    <3> HIDE DEF combo
    <3>3. Grown(Head(sub.cands), combo)
      BY <1>2, <2>1, <3>1, <3>2 DEF Grown
    <3>4. sub'.pc = "subscribe" /\ sub'.cands = sub.cands
      BY <1>1, <3>1 DEF Submissions
    <3> QED
      BY <2>1, <2>2, <3>3, <3>4 DEF Booked
  <2> QED
    BY <1>4, <2>2 DEF BookBatchHead
<1>5. CASE SubmitSignals \/ SubmitExternalSignal \/ SubmitWithHedge \/ SubmitStrangle
  BY <1>5, SubmitEffect DEF IInv
<1>6. CASE CheckLockout \/ LockoutFails \/ QualityGates \/ CheckConcentration
           \/ CheckExposure \/ GateFails \/ EndBatch
  BY <1>6, GatesEffect DEF IInv
<1>7. CASE SubscribeLiveQuote
  BY <1>7 DEF SubscribeLiveQuote
<1>8. CASE InsertHedge
  BY <1>8 DEF InsertHedge, NoHedges
<1> QED
  BY <1>3, <1>4, <1>5, <1>6, <1>7, <1>8 DEF ScanStep, SubStep

(* An INSERT adds no second trade of a contract, and a save changes no     *)
(* contract.                                                               *)
LEMMA OneTradeKept ==
    ASSUME IInv, NoHedges, OneTradePerContract, Next
    PROVE  OneTradePerContract'
<1>1. BookInv /\ MonitorInv /\ rows \in Seq(Rows) /\ day \in Nat
  BY DEF IInv, BookInv
<1>2. CASE rows' = rows
  BY <1>2 DEF OneTradePerContract
<1>3. CASE Booked
  <2>1. PICK c : Grown(Head(sub.cands), c)
    BY <1>3 DEF Booked
  <2> DEFINE n == Len(rows) + 1
             s == Head(sub.cands)
  <2>2. /\ DOMAIN rows' = 1..n /\ DOMAIN rows = 1..Len(rows) /\ Len(rows) \in Nat
        /\ \A i \in DOMAIN rows : rows'[i] = rows[i]
        /\ rows'[n] = Row(s, c, day)
    BY <1>1, <2>1, GrownEffect
  <2>3. \A i \in DOMAIN rows : rows[i].day = day => ~SameContract(rows[i], s)
    BY <1>3 DEF Booked, Bookable, HasTradeToday, AllTrades
  <2>4. /\ rows'[n].day = day /\ rows'[n].sym = s.sym /\ rows'[n].side = s.side
        /\ rows'[n].strike = s.strike
    BY <2>2 DEF Row
  <2> HIDE DEF n, s
  <2>5. \A i \in DOMAIN rows : rows'[i].day = rows'[n].day =>
           ~SameContract(rows'[i], rows'[n]) /\ ~SameContract(rows'[n], rows'[i])
    BY <2>2, <2>3, <2>4 DEF SameContract
  <2>6. \A i \in DOMAIN rows' : i \in DOMAIN rows \/ i = n
    BY <2>2 DEF n
  <2> QED
    BY <2>2, <2>5, <2>6 DEF OneTradePerContract
<1>4. CASE Save
  <2>1. PICK i \in Pending : Saved(i)
    BY <1>1, <1>4, SaveEffect
  <2> QED
    BY <2>1 DEF Saved, SameColumns, OneTradePerContract, SameContract
<1> QED
  BY <1>2, <1>3, <1>4, Steps, BookingsAreChecked, MonitorKeepsRows, ClockKeeps

(* has_trade_today: no contract is traded twice in a day, whatever paths   *)
(* the signals take, with batches booked without hedge legs (the leg of a  *)
(* batch goes straight to open_trade, unchecked).                          *)
THEOREM ContractsTradedOnce ==
    ASSUME HedgeBatch = FALSE
    PROVE  Spec => []OneTradePerContract
<1>1. Init => NoHedges /\ OneTradePerContract
  BY DEF Init, NoHedges, IdleSub, OneTradePerContract
<1>2. IInv /\ NoHedges /\ [Next]_vars => NoHedges'
  <2>1. NoHedges /\ UNCHANGED vars => NoHedges'
    BY DEF vars, NoHedges
  <2> QED
    BY <2>1, NoHedgesKept
<1>3. IInv /\ NoHedges /\ OneTradePerContract /\ [Next]_vars => OneTradePerContract'
  <2>1. OneTradePerContract /\ UNCHANGED vars => OneTradePerContract'
    BY DEF vars, OneTradePerContract
  <2> QED
    BY <2>1, OneTradeKept
<1> QED
  BY Invariance, <1>1, <1>2, <1>3, PTL DEF Spec

-------------------------------------------------------------------------------
(* The caps.                                                               *)

(* The quantities the caps are about: bought positions open on a side,     *)
(* premium deployed, trades of a symbol in a day.                          *)
Held(side) == {i \in OpenIds : rows[i].side = side /\ rows[i].trade.dir = "long"}

Deployed == Total([i \in DOMAIN rows |-> IF i \in OpenIds THEN rows[i].trade.entry ELSE 0])

OfSymbol(d, sym) == {i \in AllTrades(rows, d) : rows[i].sym = sym}

(* The quantities the caps are about are finite numbers, and the ones the  *)
(* gates look at.                                                          *)
LEMMA BookSize ==
    ASSUME BookInv
    PROVE  /\ IsFiniteSet(DOMAIN rows) /\ OpenIds \subseteq DOMAIN rows
           /\ OpenTrades(rows, day) = OpenIds
           /\ OpenPremium(rows, day) = Deployed /\ Deployed \in Nat
           /\ IsFiniteSet(OpenIds) /\ Cardinality(OpenIds) \in Nat
           /\ \A side : IsFiniteSet(Held(side)) /\ Cardinality(Held(side)) \in Nat
           /\ \A d, sym : IsFiniteSet(OfSymbol(d, sym)) /\ Cardinality(OfSymbol(d, sym)) \in Nat
<1>1. /\ Len(rows) \in Nat /\ DOMAIN rows = 1..Len(rows) /\ day \in Nat
      /\ \A i \in DOMAIN rows : rows[i].day \in 1..day /\ rows[i].trade.entry \in Nat
  BY DEF BookInv
<1>2. IsFiniteSet(DOMAIN rows)
  BY <1>1, FS_Interval
<1>3. OpenTrades(rows, day) = OpenIds
  BY <1>1 DEF OpenTrades, OpenIds
<1>4. OpenPremium(rows, day) = Deployed
  BY <1>3 DEF OpenPremium, Deployed
<1>5. Deployed \in Nat
  <2> DEFINE f == [i \in DOMAIN rows |-> IF i \in OpenIds THEN rows[i].trade.entry ELSE 0]
  <2>1. f \in Seq(Nat)
    BY <1>1
  <2> HIDE DEF f
  <2>2. Total(f) \in Nat
    BY <2>1, TotalType
  <2> QED
    BY <2>2 DEF f, Deployed
<1>6. OpenIds \subseteq DOMAIN rows /\ \A side : Held(side) \subseteq DOMAIN rows
  BY DEF OpenIds, Held
<1>7. \A d, sym : OfSymbol(d, sym) \subseteq DOMAIN rows
  BY DEF OfSymbol, AllTrades
<1> QED
  BY <1>2, <1>3, <1>4, <1>5, <1>6, <1>7, FS_Subset, FS_CardinalityType

(* A save opens nothing.                                                   *)
LEMMA SavesShrink ==
    ASSUME BookInv, BookInv', NEW i, Saved(i)
    PROVE  /\ Cardinality(OpenIds') \in 0..Cardinality(OpenIds)
           /\ \A side : Cardinality(Held(side)') \in 0..Cardinality(Held(side))
           /\ Deployed' \in 0..Deployed
           /\ \A d, sym : OfSymbol(d, sym)' = OfSymbol(d, sym)
<1>1. /\ DOMAIN rows' = DOMAIN rows /\ Len(rows') = Len(rows)
      /\ \A j \in DOMAIN rows : SameColumns(rows'[j], rows[j])
      /\ \A j \in DOMAIN rows \ {i} : rows'[j] = rows[j]
      /\ IsOpen(rows, i)
      /\ Len(rows) \in Nat /\ DOMAIN rows = 1..Len(rows)
      /\ \A j \in DOMAIN rows : rows[j].trade.entry \in Nat
  BY DEF Saved, BookInv
<1>2. OpenIds' \subseteq OpenIds
  BY <1>1 DEF OpenIds, IsOpen
<1>3. \A side : Held(side)' \subseteq Held(side)
  BY <1>1, <1>2 DEF Held, OpenIds, SameColumns
<1>4. \A d, sym : OfSymbol(d, sym)' = OfSymbol(d, sym)
  BY <1>1 DEF OfSymbol, AllTrades, SameColumns
<1>5. Deployed' \in 0..Deployed
  <2> DEFINE f == [j \in DOMAIN rows |-> IF j \in OpenIds THEN rows[j].trade.entry ELSE 0]
             g == [j \in DOMAIN rows' |-> IF j \in OpenIds' THEN rows'[j].trade.entry ELSE 0]
  <2>1. f \in Seq(Nat) /\ Len(f) = Len(rows)
    BY <1>1
  <2>2. \A j \in DOMAIN rows : rows'[j].trade.entry = rows[j].trade.entry
    BY <1>1 DEF SameColumns
  <2>3. g \in Seq(Nat) /\ Len(g) = Len(rows)
    BY <1>1, <2>2
  <2>4. \A j \in 1..Len(f) : g[j] <= f[j]
    BY <1>1, <1>2, <2>1, <2>2
  <2> HIDE DEF f, g
  <2>5. Total(g) <= Total(f) /\ Total(g) \in Nat /\ Total(f) \in Nat
    BY <2>1, <2>3, <2>4, TotalMonotone, TotalType
  <2> QED
    BY <2>5 DEF f, g, Deployed
<1>6. /\ IsFiniteSet(OpenIds) /\ Cardinality(OpenIds) \in Nat
      /\ \A side : IsFiniteSet(Held(side)) /\ Cardinality(Held(side)) \in Nat
  BY BookSize
<1>7. Cardinality(OpenIds') \in 0..Cardinality(OpenIds)
  BY <1>2, <1>6, FS_Subset, FS_CardinalityType
<1>8. \A side : Cardinality(Held(side)') \in 0..Cardinality(Held(side))
  BY <1>3, <1>6, FS_Subset, FS_CardinalityType
<1> QED
  BY <1>4, <1>5, <1>7, <1>8

(* A booking adds one position.                                            *)
LEMMA BookingsGrow ==
    ASSUME BookInv, NEW s, NEW c, Grown(s, c)
    PROVE  /\ Cardinality(OpenIds') = Cardinality(OpenIds) + 1
           /\ \A side : Cardinality(Held(side)') =
                 Cardinality(Held(side)) + (IF ~IsShort(s) /\ s.side = side THEN 1 ELSE 0)
           /\ Deployed' = Deployed + s.entry
           /\ \A d, sym : Cardinality(OfSymbol(d, sym)') =
                 Cardinality(OfSymbol(d, sym)) + (IF d = day /\ s.sym = sym THEN 1 ELSE 0)
<1> DEFINE n == Len(rows) + 1
<1>1. rows \in Seq(Rows) /\ day \in Nat
  BY DEF BookInv
<1>2. /\ Len(rows) \in Nat /\ DOMAIN rows = 1..Len(rows) /\ DOMAIN rows' = 1..n /\ Len(rows') = n
      /\ \A i \in DOMAIN rows : rows'[i] = rows[i]
      /\ rows'[n] = Row(s, c, day)
  BY <1>1, GrownEffect
<1>3. /\ rows'[n].trade.status = "open" /\ rows'[n].trade.dir = s.dir /\ rows'[n].trade.entry = s.entry
      /\ rows'[n].sym = s.sym /\ rows'[n].side = s.side /\ rows'[n].day = day
  BY <1>2 DEF Row, NewTrade
<1>4. s.entry \in Nat /\ s.dir \in {"long", "short"}
  BY DEF Grown, SignalRecords, Directions
<1>5. n \notin DOMAIN rows /\ DOMAIN rows' = DOMAIN rows \cup {n} /\ n \in Nat
  BY <1>2
<1> HIDE DEF n
<1>6. OpenIds' = OpenIds \cup {n} /\ n \notin OpenIds
  BY <1>2, <1>3, <1>5 DEF OpenIds, IsOpen
<1>7. ASSUME NEW side
      PROVE  Cardinality(Held(side)') =
                 Cardinality(Held(side)) + (IF ~IsShort(s) /\ s.side = side THEN 1 ELSE 0)
  <2>1. \A i \in OpenIds : rows'[i] = rows[i]
    BY <1>2 DEF OpenIds
  <2>2. n \notin Held(side) /\ IsFiniteSet(Held(side)) /\ Cardinality(Held(side)) \in Nat
    BY <1>6, BookSize DEF Held
  <2>3. CASE ~IsShort(s) /\ s.side = side
    <3>1. Held(side)' = Held(side) \cup {n}
      BY <1>3, <1>4, <1>6, <2>1, <2>3 DEF Held, IsShort
    <3> QED
      BY <2>2, <2>3, <3>1, FS_AddElement
  <2>4. CASE ~(~IsShort(s) /\ s.side = side)
    <3>1. Held(side)' = Held(side)
      BY <1>3, <1>4, <1>6, <2>1, <2>4 DEF Held, IsShort
    <3> QED
      BY <2>2, <2>4, <3>1
  <2> QED
    BY <2>3, <2>4
<1>8. ASSUME NEW d, NEW sym
      PROVE  Cardinality(OfSymbol(d, sym)') =
                 Cardinality(OfSymbol(d, sym)) + (IF d = day /\ s.sym = sym THEN 1 ELSE 0)
  <2>1. n \notin OfSymbol(d, sym) /\ IsFiniteSet(OfSymbol(d, sym)) /\ Cardinality(OfSymbol(d, sym)) \in Nat
    BY <1>5, BookSize DEF OfSymbol, AllTrades
  <2>2. CASE d = day /\ s.sym = sym
    <3>1. OfSymbol(d, sym)' = OfSymbol(d, sym) \cup {n}
      BY <1>2, <1>3, <1>5, <2>2 DEF OfSymbol, AllTrades
    <3> QED
      BY <2>1, <2>2, <3>1, FS_AddElement
  <2>3. CASE ~(d = day /\ s.sym = sym)
    <3>1. OfSymbol(d, sym)' = OfSymbol(d, sym)
      BY <1>2, <1>3, <1>5, <2>3 DEF OfSymbol, AllTrades
    <3> QED
      BY <2>1, <2>3, <3>1
  <2> QED
    BY <2>2, <2>3
<1>9. Deployed' = Deployed + s.entry
  <2> DEFINE f == [j \in DOMAIN rows |-> IF j \in OpenIds THEN rows[j].trade.entry ELSE 0]
             g == [j \in DOMAIN rows' |-> IF j \in OpenIds' THEN rows'[j].trade.entry ELSE 0]
  <2>1. \A j \in DOMAIN rows : rows[j].trade.entry \in Nat
    BY DEF BookInv
  <2>2. f \in Seq(Nat) /\ Len(f) = Len(rows)
    BY <1>2, <2>1
  <2>3. \A j \in DOMAIN rows' : (j \in DOMAIN rows /\ rows'[j] = rows[j]) \/ j = n
    BY <1>2, <1>5
  <2>4. \A j \in DOMAIN rows' : rows'[j].trade.entry \in Nat
    BY <2>1, <2>3, <1>3, <1>4
  <2>5. g \in Seq(Nat) /\ Len(g) = n
    BY <1>2, <1>5, <2>4
  <2>6. g[n] = s.entry
    BY <1>3, <1>5, <1>6
  <2>7. \A j \in DOMAIN rows : g[j] = f[j]
    BY <1>2, <1>5, <1>6
  <2> HIDE DEF f, g
  <2>8. Total(g) = Total(f) + g[Len(g)]
    BY <1>2, <2>2, <2>5, <2>7, TotalGrows DEF n
  <2>9. Total(f) = Deployed /\ Total(g) = Deployed'
    BY DEF f, g, Deployed
  <2> QED
    BY <2>5, <2>6, <2>8, <2>9
<1> QED
  BY <1>6, <1>7, <1>8, <1>9, BookSize, FS_AddElement

(* What the scan thread does to its candidates, the gates at work.         *)

(* Positions of the scan thread before a gate has counted anything.        *)
Early == {"idle", "lockout", "quality", "concentration"}

ScanMove ==
    \/ sub'.pc \in Early
    \/ /\ sub'.pc = "exposure"
       /\ sub'.cands = ConcentrationGate(rows, day, sub.cands)
    \/ /\ sub.pc = "exposure" /\ sub'.pc = "book"
       /\ sub'.cands = ExposureGate(rows, day, sub.cands)
    \/ /\ sub.pc \in {"book", "subscribe"} /\ sub'.pc = "book"
       /\ sub.cands # <<>> /\ sub'.cands = Tail(sub.cands)

(* A booking is never a stuttering step of the table.                      *)
LEMMA NothingBooked ==
    ASSUME IInv, NEW s, NEW c
    PROVE  OpenTrade(rows, s, c, day) # rows
<1>1. Len(rows) \in Nat /\ rows \in Seq(Rows)
  BY DEF IInv, BookInv
<1>2. DOMAIN OpenTrade(rows, s, c, day) = 1..(Len(rows) + 1) /\ DOMAIN rows = 1..Len(rows)
  BY <1>1 DEF OpenTrade
<1> QED
  BY <1>1, <1>2

(* Between bookings the candidates move on, dwindle or pass a gate that    *)
(* works.                                                                  *)
LEMMA ScanMoves ==
    ASSUME GateMayFail = FALSE, IInv, NoHedges, ScanStep
    PROVE  Booked \/ (rows' = rows /\ ScanMove)
<1>1. sub \in Submissions /\ sub.hedge = NoSignal /\ sub.pc # "hedge"
      /\ (sub.pc \in {"subscribe", "hedge"} => sub.cands # <<>>)
  BY DEF IInv, SubInv, NoHedges
<1>2. IdleSub.pc \in Early /\ NextSubmission(TRUE).pc \in Early /\ NextSubmission(FALSE).pc \in Early
  BY NextSubmissionEffect DEF IInv, IdleSub, Early
<1>3. \A pc, cands, combo :
         /\ [sub EXCEPT !.pc = pc].pc = pc
         /\ [sub EXCEPT !.pc = pc, !.cands = cands].pc = pc
         /\ [sub EXCEPT !.pc = pc, !.cands = cands].cands = cands
         /\ [sub EXCEPT !.cands = cands].pc = sub.pc
         /\ [sub EXCEPT !.cands = cands].cands = cands
         /\ [sub EXCEPT !.pc = pc, !.cands = cands, !.combo = combo].pc = pc
         /\ [sub EXCEPT !.pc = pc, !.cands = cands, !.combo = combo].cands = cands
  BY <1>1 DEF Submissions
<1>4. rows' = rows \/ Booked
  BY BookingsAreChecked
<1>5. CASE SubmitSignals \/ SubmitExternalSignal \/ SubmitWithHedge \/ SubmitStrangle
  <2>1. ASSUME NEW path, NEW cands, NEW rest, NEW combo, Submit(path, cands, rest, combo)
        PROVE  rows' = rows /\ sub'.pc \in Early
    BY <2>1 DEF Submit, IdleSub, Early
  <2>2. CASE SubmitSignals \/ SubmitExternalSignal
    BY <2>1, <2>2 DEF SubmitSignals, SubmitExternalSignal, ScanMove
  <2>3. CASE SubmitWithHedge
    BY <2>1, <2>3 DEF SubmitWithHedge, ScanMove
  <2>4. CASE SubmitStrangle
    BY <2>1, <2>4 DEF SubmitStrangle, ScanMove
  <2> QED
    BY <1>5, <2>2, <2>3, <2>4
<1>6. CASE CheckLockout \/ LockoutFails
  <2>1. sub' = IdleSub \/ sub' = NextSubmission(FALSE) \/ sub' = [sub EXCEPT !.pc = "quality"]
    BY <1>6 DEF CheckLockout, LockoutFails
  <2>2. sub'.pc \in Early
    BY <1>2, <1>3, <2>1 DEF Early
  <2> QED
    BY <1>6, <2>2 DEF CheckLockout, LockoutFails, ScanMove
<1>7. CASE QualityGates
  <2>1. \E cands : sub' = [sub EXCEPT !.pc = "concentration", !.cands = cands]
    BY <1>7, Zenon DEF QualityGates
  <2>2. sub'.pc = "concentration"
    BY <1>3, <2>1
  <2> QED
    BY <1>7, <2>2 DEF QualityGates, ScanMove, Early
<1>8. CASE CheckConcentration
  <2> DEFINE out == ConcentrationGate(rows, day, sub.cands)
  <2>1. rows' = rows /\ sub' = [sub EXCEPT !.pc = "exposure", !.cands = out]
    BY <1>8 DEF CheckConcentration
  <2> HIDE DEF out
  <2>2. sub'.pc = "exposure" /\ sub'.cands = out
    BY <1>3, <2>1
  <2> QED
    BY <2>1, <2>2 DEF ScanMove, out
<1>9. CASE CheckExposure
  <2> DEFINE out == ExposureGate(rows, day, sub.cands)
  <2>1. rows' = rows /\ sub.pc = "exposure" /\ sub' = AfterGates(out)
    BY <1>9 DEF CheckExposure
  <2> HIDE DEF out
  <2>2. sub'.pc \in Early \/ sub' = [sub EXCEPT !.pc = "book", !.cands = out]
    BY <1>2, <2>1 DEF AfterGates
  <2>3. [sub EXCEPT !.pc = "book", !.cands = out].pc = "book"
        /\ [sub EXCEPT !.pc = "book", !.cands = out].cands = out
    BY <1>3
  <2>4. sub'.pc \in Early \/ (sub'.pc = "book" /\ sub'.cands = out)
    BY <2>2, <2>3
  <2> QED
    BY <2>1, <2>4 DEF ScanMove, out
<1>10. CASE EndBatch
  BY <1>2, <1>10 DEF EndBatch, ScanMove
<1>11. CASE BookSignal
  <2>1. CASE rows' = rows
    <3>1. sub' = NextSubmission(FALSE)
      BY <1>11, <2>1, NothingBooked DEF BookSignal
    <3> QED
      BY <1>2, <2>1, <3>1 DEF ScanMove
  <2> QED
    BY <1>4, <2>1
<1>12. CASE BookBatchHead
  <2>1. CASE rows' = rows
    <3> DEFINE rest == Tail(sub.cands)
    <3>1. sub.pc = "book" /\ sub.cands # <<>>
      BY <1>12 DEF BookBatchHead, BatchOver
    <3>2. sub' = [sub EXCEPT !.cands = rest]
      BY <1>12, <2>1, NothingBooked DEF BookBatchHead
    <3> HIDE DEF rest
    <3>3. sub'.pc = "book" /\ sub'.cands = rest
      BY <1>3, <3>1, <3>2
    <3> QED
      BY <2>1, <3>1, <3>3 DEF ScanMove, rest
  <2> QED
    BY <1>4, <2>1
<1>13. CASE SubscribeLiveQuote
  <2> DEFINE rest == Tail(sub.cands)
  <2>1. /\ rows' = rows /\ sub.pc = "subscribe" /\ sub.cands # <<>>
        /\ \/ sub' = NextSubmission(TRUE)
           \/ sub' = [sub EXCEPT !.pc = "book", !.cands = rest, !.combo = NoCombo]
    BY <1>1, <1>13 DEF SubscribeLiveQuote
  <2> HIDE DEF rest
  <2>2. [sub EXCEPT !.pc = "book", !.cands = rest, !.combo = NoCombo].pc = "book"
        /\ [sub EXCEPT !.pc = "book", !.cands = rest, !.combo = NoCombo].cands = rest
    BY <1>3
  <2>3. sub'.pc \in Early \/ (sub'.pc = "book" /\ sub'.cands = rest)
    BY <1>2, <2>1, <2>2
  <2> QED
    BY <2>1, <2>3 DEF ScanMove, rest
<1> QED
  BY <1>1, <1>5, <1>6, <1>7, <1>8, <1>9, <1>10, <1>11, <1>12, <1>13
     DEF ScanStep, SubStep, GateFails, InsertHedge

(* The candidates still to be booked.                                      *)
Waiting == IF sub.pc = "subscribe" THEN Tail(sub.cands) ELSE sub.cands

(* Whether the concentration gate caps the sides at all.                   *)
SideCapped == PortfolioMode = "hard" /\ MaxSameDirection # 0

(* There is room for all of list.                                          *)
SideRoom(list) ==
    SideCapped => \A side \in Sides :
        Bought(list, side) # {} =>
            Cardinality(Held(side)) + Cardinality(Bought(list, side)) <= MaxSameDirection

BookRoom(list) ==
    ExposureMode = "hard" /\ list # <<>> =>
        /\ MaxOpenPositions # 0 => Cardinality(OpenIds) + Len(list) <= MaxOpenPositions
        /\ MaxOpenPremium # 0 => Deployed + PremiumOf(list) <= MaxOpenPremium

(* Once a gate has counted, there is room for all that is waiting; CapInv  *)
(* adds the caps themselves.                                               *)
RoomInv ==
    /\ sub.pc \in {"exposure", "book", "subscribe"} => SideRoom(Waiting)
    /\ sub.pc \in {"book", "subscribe"} => BookRoom(Waiting)

SymbolCap == MaxPerSymbol # 0 => \A d, sym : Cardinality(OfSymbol(d, sym)) <= MaxPerSymbol

SideCap == SideCapped => \A side \in Sides : Cardinality(Held(side)) <= MaxSameDirection

BookCap ==
    ExposureMode = "hard" =>
        /\ MaxOpenPositions # 0 => Cardinality(OpenIds) <= MaxOpenPositions
        /\ MaxOpenPremium # 0 => Deployed <= MaxOpenPremium

CapInv == SymbolCap /\ SideCap /\ BookCap /\ RoomInv

(* The caps as the invariant has them are those of the property.           *)
LEMMA CapsAreHeld ==
    ASSUME BookInv, CapInv
    PROVE  CapsHold
<1>1. \A i \in DOMAIN rows : CountSymbolToday(rows, rows[i].day, rows[i].sym)
                               = Cardinality(OfSymbol(rows[i].day, rows[i].sym))
  BY DEF CountSymbolToday, OfSymbol
<1>2. \A side : {i \in OpenTrades(rows, day) : rows[i].side = side /\ rows[i].trade.dir = "long"}
                  = Held(side)
  BY BookSize DEF Held
<1>3. MaxPerSymbol # 0 =>
          \A i \in DOMAIN rows : CountSymbolToday(rows, rows[i].day, rows[i].sym) <= MaxPerSymbol
  BY <1>1 DEF CapInv, SymbolCap
<1>4. PortfolioMode = "hard" /\ MaxSameDirection # 0 =>
          \A side \in Sides :
              Cardinality({i \in OpenTrades(rows, day) :
                              rows[i].side = side /\ rows[i].trade.dir = "long"})
                  <= MaxSameDirection
  BY <1>2 DEF CapInv, SideCap, SideCapped
<1> QED
  BY <1>3, <1>4, BookSize DEF CapInv, BookCap, CapsHold

(* Fewer candidates need less room.                                        *)
LEMMA RoomOfRest ==
    ASSUME BookInv, NEW cands \in Seq(SignalRecords), cands # <<>>
    PROVE  /\ SideRoom(cands) => SideRoom(Tail(cands))
           /\ BookRoom(cands) => BookRoom(Tail(cands))
<1> DEFINE rest == Tail(cands)
<1>1. /\ Cardinality(OpenIds) \in Nat /\ Deployed \in Nat
      /\ \A side : Cardinality(Held(side)) \in Nat
  BY BookSize
<1>2. /\ MaxSameDirection \in Nat /\ MaxOpenPositions \in Nat /\ MaxOpenPremium \in Nat
  BY EntryGatesAssumption
<1>3. /\ rest \in Seq(SignalRecords) /\ Head(cands) \in SignalRecords /\ Head(cands).entry \in Nat
      /\ Len(rest) = Len(cands) - 1 /\ Len(rest) \in Nat
      /\ PremiumOf(cands) = Head(cands).entry + PremiumOf(rest) /\ PremiumOf(rest) \in Nat
  <2>1. \A u \in SignalRecords : u.entry \in Nat
    BY DEF SignalRecords
  <2> QED
    BY <2>1, RestEffect
<1>4. ASSUME NEW side
      PROVE  /\ Cardinality(Bought(rest, side)) <= Cardinality(Bought(cands, side))
             /\ Bought(rest, side) # {} => Bought(cands, side) # {}
             /\ Cardinality(Bought(rest, side)) \in Nat /\ Cardinality(Bought(cands, side)) \in Nat
  <2>1. Cardinality(Bought(rest, side)) \in Nat /\ Cardinality(Bought(cands, side)) \in Nat
    BY <1>3, BoughtIsFinite
  <2> QED
    BY <2>1, RestEffect
<1> HIDE DEF rest
<1>5. SideRoom(cands) => SideRoom(rest)
  BY <1>1, <1>2, <1>4 DEF SideRoom
<1>6. BookRoom(cands) => BookRoom(rest)
  <2> DEFINE n == Len(cands)
             p == PremiumOf(cands)
             q == PremiumOf(rest)
             e == Head(cands).entry
  <2>1. n \in Nat /\ Len(rest) = n - 1 /\ p = e + q /\ e \in Nat /\ q \in Nat
    BY <1>3
  <2> HIDE DEF n, p, q, e
  <2>2. MaxOpenPositions # 0 /\ Cardinality(OpenIds) + n <= MaxOpenPositions
          => Cardinality(OpenIds) + Len(rest) <= MaxOpenPositions
    BY <1>1, <1>2, <2>1
  <2>3. MaxOpenPremium # 0 /\ Deployed + p <= MaxOpenPremium
          => Deployed + q <= MaxOpenPremium
    BY <1>1, <1>2, <2>1
  <2> QED
    BY <2>2, <2>3 DEF BookRoom, n, p, q
<1> QED
  BY <1>5, <1>6 DEF rest

(* Closing positions makes room.                                           *)
Shrunk ==
    /\ Cardinality(OpenIds') \in 0..Cardinality(OpenIds)
    /\ \A side : Cardinality(Held(side)') \in 0..Cardinality(Held(side))
    /\ Deployed' \in 0..Deployed
    /\ \A d, sym : OfSymbol(d, sym)' = OfSymbol(d, sym)

(* Room for the candidates stays room while positions close.               *)
LEMMA RoomIsMade ==
    ASSUME BookInv, Shrunk, NEW list \in Seq(SignalRecords)
    PROVE  (SideRoom(list) => SideRoom(list)') /\ (BookRoom(list) => BookRoom(list)')
<1>1. /\ Cardinality(OpenIds) \in Nat /\ Deployed \in Nat
      /\ \A side : Cardinality(Held(side)) \in Nat
  BY BookSize
<1>2. /\ MaxSameDirection \in Nat /\ MaxOpenPositions \in Nat /\ MaxOpenPremium \in Nat
  BY EntryGatesAssumption
<1>3. \A side : Cardinality(Bought(list, side)) \in Nat
  BY BoughtIsFinite
<1>4. Len(list) \in Nat /\ PremiumOf(list) \in Nat
  <2>1. CASE list = <<>>
    <3>1. [k \in DOMAIN list |-> list[k].entry] \in Seq(Nat)
      BY <2>1
    <3> QED
      BY <3>1, TotalType DEF PremiumOf
  <2>2. CASE list # <<>>
    <3>1. \A u \in SignalRecords : u.entry \in Nat
      BY DEF SignalRecords
    <3>2. Head(list).entry \in Nat /\ PremiumOf(Tail(list)) \in Nat
          /\ PremiumOf(list) = Head(list).entry + PremiumOf(Tail(list))
      BY <2>2, <3>1, RestEffect
    <3> QED
      BY <3>2
  <2> QED
    BY <2>1, <2>2
<1>5. ASSUME SideRoom(list) PROVE SideRoom(list)'
  <2>1. ASSUME SideCapped, NEW side \in Sides, Bought(list, side) # {}
        PROVE  Cardinality(Held(side)') + Cardinality(Bought(list, side)) <= MaxSameDirection
    <3>1. Cardinality(Held(side)) + Cardinality(Bought(list, side)) <= MaxSameDirection
      BY <1>5, <2>1 DEF SideRoom
    <3>2. Cardinality(Held(side)') \in 0..Cardinality(Held(side))
      BY DEF Shrunk
    <3> QED
      BY <3>1, <3>2, <1>1, <1>2, <1>3
  <2>2. SideCapped => \A side \in Sides : Bought(list, side) # {} =>
            Cardinality(Held(side)') + Cardinality(Bought(list, side)) <= MaxSameDirection
    BY <2>1
  <2> QED
    BY <2>2 DEF SideRoom
<1>6. ASSUME BookRoom(list) PROVE BookRoom(list)'
  <2> DEFINE p == PremiumOf(list)
  <2>1. p \in Nat /\ Cardinality(OpenIds') \in 0..Cardinality(OpenIds) /\ Deployed' \in 0..Deployed
    BY <1>4 DEF Shrunk
  <2>2. Cardinality(OpenIds) + Len(list) <= MaxOpenPositions
          => Cardinality(OpenIds') + Len(list) <= MaxOpenPositions
    BY <1>1, <1>2, <1>4, <2>1
  <2> HIDE DEF p
  <2>3. \A x \in Nat : \A y \in 0..x : x + p <= MaxOpenPremium => y + p <= MaxOpenPremium
    BY <1>2, <2>1
  <2>4. Deployed + p <= MaxOpenPremium => Deployed' + p <= MaxOpenPremium
    BY <1>1, <2>1, <2>3, Zenon
  <2> QED
    BY <1>6, <2>2, <2>4 DEF BookRoom, p
<1> QED
  BY <1>5, <1>6

(* Closing positions breaks no cap.                                        *)
LEMMA ShrinkingKeepsCaps ==
    ASSUME BookInv, SubInv, CapInv, Shrunk
    PROVE  /\ SymbolCap' /\ SideCap' /\ BookCap'
           /\ sub' = sub \/ sub'.pc \in Early => RoomInv'
<1>1. /\ Cardinality(OpenIds) \in Nat /\ Deployed \in Nat
      /\ \A side : Cardinality(Held(side)) \in Nat
  BY BookSize
<1>2. /\ MaxSameDirection \in Nat /\ MaxOpenPositions \in Nat /\ MaxOpenPremium \in Nat
  BY EntryGatesAssumption
<1>3. SymbolCap'
  BY DEF Shrunk, CapInv, SymbolCap
<1>4. SideCap'
  BY <1>1, <1>2 DEF Shrunk, CapInv, SideCap, SideCapped
<1>5. BookCap'
  BY <1>1, <1>2 DEF Shrunk, CapInv, BookCap
<1>6. ASSUME sub' = sub \/ sub'.pc \in Early PROVE RoomInv'
  <2>1. CASE sub' = sub
    <3>1. Waiting \in Seq(SignalRecords)
      <4>1. sub.cands \in Seq(SignalRecords) /\ (sub.pc = "subscribe" => sub.cands # <<>>)
        BY DEF SubInv, Submissions
      <4> QED
        BY <4>1 DEF Waiting
    <3>2. PICK list \in Seq(SignalRecords) : list = Waiting
      BY <3>1
    <3>3. Waiting' = list /\ sub'.pc = sub.pc
      BY <2>1, <3>2 DEF Waiting
    <3>4. (SideRoom(list) => SideRoom(list)') /\ (BookRoom(list) => BookRoom(list)')
      BY RoomIsMade
    <3>5. /\ sub.pc \in {"exposure", "book", "subscribe"} => SideRoom(list)
          /\ sub.pc \in {"book", "subscribe"} => BookRoom(list)
      BY <3>2 DEF CapInv, RoomInv
    <3>6. /\ SideRoom(list)' => SideRoom(Waiting)'
          /\ BookRoom(list)' => BookRoom(Waiting)'
      BY <3>3 DEF SideRoom, BookRoom
    <3> QED
      BY <3>3, <3>4, <3>5, <3>6 DEF RoomInv
  <2>2. CASE sub'.pc \in Early
    BY <2>2 DEF RoomInv, Early
  <2> QED
    BY <1>6, <2>1, <2>2
<1> QED
  BY <1>3, <1>4, <1>5, <1>6

(* A step that leaves the table alone leaves the quantities alone.         *)
LEMMA SameBook ==
    ASSUME BookInv, rows' = rows
    PROVE  Shrunk
<1>1. OpenIds' = OpenIds /\ \A side : Held(side)' = Held(side)
  BY DEF OpenIds, Held
<1>2. Deployed' = Deployed /\ \A d, sym : OfSymbol(d, sym)' = OfSymbol(d, sym)
  BY <1>1 DEF Deployed, OfSymbol, AllTrades
<1>3. /\ Cardinality(OpenIds) \in Nat /\ Deployed \in Nat
      /\ \A side : Cardinality(Held(side)) \in Nat
  BY BookSize
<1>4. \A n \in Nat : n \in 0..n
  OBVIOUS
<1> QED
  BY <1>1, <1>2, <1>3, <1>4 DEF Shrunk

(* _apply_concentration_gate leaves room on each side for all it keeps.    *)
LEMMA ConcentrationLeavesRoom ==
    ASSUME BookInv, NEW cands \in Seq(SignalRecords)
    PROVE  SideRoom(ConcentrationGate(rows, day, cands))
<1> DEFINE out == ConcentrationGate(rows, day, cands)
<1> SUFFICES ASSUME SideCapped, NEW side \in Sides, Bought(out, side) # {}
             PROVE  Cardinality(Held(side)) + Cardinality(Bought(out, side)) <= MaxSameDirection
  BY DEF SideRoom
<1> DEFINE open == {i \in OpenTrades(rows, day) : rows[i].side = side}
<1>1. Cardinality(open) + Cardinality(Bought(out, side)) <= MaxSameDirection
  BY BookSize, ConcentrationRoom DEF SideCapped
<1>2. Held(side) \subseteq open /\ open \subseteq DOMAIN rows
  BY BookSize DEF Held, OpenTrades
<1>3. out \in Seq(SignalRecords)
  BY FilterEffect
<1> HIDE DEF out, open
<1>4. Cardinality(Bought(out, side)) \in Nat
  BY <1>3, BoughtIsFinite
<1>5. /\ Cardinality(Held(side)) <= Cardinality(open)
      /\ Cardinality(Held(side)) \in Nat /\ Cardinality(open) \in Nat
  <2>1. IsFiniteSet(DOMAIN rows) /\ Cardinality(Held(side)) \in Nat
    BY BookSize
  <2>2. IsFiniteSet(open)
    BY <1>2, <2>1, FS_Subset
  <2> QED
    BY <1>2, <2>1, <2>2, FS_Subset, FS_CardinalityType
<1>6. MaxSameDirection \in Nat
  BY EntryGatesAssumption
<1>7. Cardinality(Held(side)) + Cardinality(Bought(out, side)) <= MaxSameDirection
  BY <1>1, <1>4, <1>5, <1>6
<1> QED
  BY <1>7 DEF out

(* _apply_exposure_gate leaves room in the book for all it keeps, and takes*)
(* none from a side.                                                       *)
LEMMA ExposureLeavesRoom ==
    ASSUME BookInv, NEW cands \in Seq(SignalRecords)
    PROVE  LET out == ExposureGate(rows, day, cands)
           IN  BookRoom(out) /\ (SideRoom(cands) => SideRoom(out))
<1> DEFINE out == ExposureGate(rows, day, cands)
<1>1. out \in Seq(SignalRecords) /\ Selection(out, cands)
  BY FilterEffect
<1>2. BookRoom(out)
  <2> SUFFICES ASSUME ExposureMode = "hard", out # <<>>
               PROVE  /\ MaxOpenPositions # 0 => Cardinality(OpenIds) + Len(out) <= MaxOpenPositions
                      /\ MaxOpenPremium # 0 => Deployed + PremiumOf(out) <= MaxOpenPremium
    BY DEF BookRoom
  <2>1. /\ IsFiniteSet(DOMAIN rows) /\ OpenPremium(rows, day) = Deployed
        /\ Deployed \in Nat /\ OpenTrades(rows, day) = OpenIds
    BY BookSize
  <2>2. /\ MaxOpenPositions # 0 =>
              Cardinality(OpenTrades(rows, day)) + Len(out) <= MaxOpenPositions
        /\ MaxOpenPremium # 0 =>
              OpenPremium(rows, day) + PremiumOf(out) <= MaxOpenPremium
    BY <2>1, ExposureRoom
  <2> HIDE DEF out
  <2> QED
    BY <2>1, <2>2
<1> HIDE DEF out
<1>3. ASSUME SideRoom(cands), SideCapped, NEW side \in Sides, Bought(out, side) # {}
      PROVE  Cardinality(Held(side)) + Cardinality(Bought(out, side)) <= MaxSameDirection
  <2>1. /\ Cardinality(Bought(out, side)) <= Cardinality(Bought(cands, side))
        /\ Bought(cands, side) # {}
    BY <1>1, <1>3, SelectedBought
  <2>2. Cardinality(Held(side)) + Cardinality(Bought(cands, side)) <= MaxSameDirection
    BY <1>3, <2>1 DEF SideRoom
  <2>3. /\ Cardinality(Bought(out, side)) \in Nat /\ Cardinality(Bought(cands, side)) \in Nat
        /\ Cardinality(Held(side)) \in Nat /\ MaxSameDirection \in Nat
    BY <1>1, BoughtIsFinite, BookSize, EntryGatesAssumption
  <2> QED
    BY <2>1, <2>2, <2>3
<1>4. SideRoom(cands) => SideRoom(out)
  BY <1>3 DEF SideRoom
<1> QED
  BY <1>2, <1>4 DEF out

(* A booking takes the room its candidate was given.                       *)
LEMMA BookingKeepsCaps ==
    ASSUME IInv, CapInv, Booked
    PROVE  CapInv'
<1> DEFINE s == Head(sub.cands)
           rest == Tail(sub.cands)
<1>1. BookInv /\ sub.cands \in Seq(SignalRecords) /\ sub.cands # <<>> /\ sub.pc = "book"
      /\ Bookable(s) /\ day \in Nat
  BY DEF IInv, SubInv, Submissions, Booked, BookInv
<1>2. SideRoom(sub.cands) /\ BookRoom(sub.cands)
  BY <1>1 DEF CapInv, RoomInv, Waiting
<1>3. sub'.pc = "subscribe" /\ sub'.cands = sub.cands /\ Waiting' = rest
  BY DEF Booked, Waiting
<1>4. /\ s \in SignalRecords /\ rest \in Seq(SignalRecords) /\ s.entry \in Nat /\ s.side \in Sides
      /\ Len(rest) = Len(sub.cands) - 1 /\ Len(rest) \in Nat
      /\ PremiumOf(sub.cands) = s.entry + PremiumOf(rest) /\ PremiumOf(rest) \in Nat
  <2>1. \A u \in SignalRecords : u.entry \in Nat /\ u.side \in Sides
    BY DEF SignalRecords
  <2> QED
    BY <1>1, <2>1, RestEffect
<1>5. /\ Cardinality(OpenIds) \in Nat /\ Deployed \in Nat
      /\ \A side : Cardinality(Held(side)) \in Nat
      /\ \A d, sym : Cardinality(OfSymbol(d, sym)) \in Nat
  BY <1>1, BookSize
<1>6. /\ MaxSameDirection \in Nat /\ MaxOpenPositions \in Nat /\ MaxOpenPremium \in Nat
  BY EntryGatesAssumption
<1>7. MaxPerSymbol \in Nat
  <2>1. {MinPremium, MaxRisk, MaxPerDay, MaxPerSymbol, DailyLossLimit, MaxProfitPct} \subseteq Nat
    BY OrderManagerAssumption, Zenon
  <2> QED
    BY <2>1
<1>8. PICK c : Grown(s, c)
  BY DEF Booked
<1>9. /\ Cardinality(OpenIds') = Cardinality(OpenIds) + 1
      /\ \A side : Cardinality(Held(side)') =
            Cardinality(Held(side)) + (IF ~IsShort(s) /\ s.side = side THEN 1 ELSE 0)
      /\ Deployed' = Deployed + s.entry
      /\ \A d, sym : Cardinality(OfSymbol(d, sym)') =
            Cardinality(OfSymbol(d, sym)) + (IF d = day /\ s.sym = sym THEN 1 ELSE 0)
  BY <1>1, <1>8, BookingsGrow
<1>10. \A side :
          /\ Cardinality(Bought(rest, side)) + (IF ~IsShort(s) /\ s.side = side THEN 1 ELSE 0)
                = Cardinality(Bought(sub.cands, side))
          /\ Bought(rest, side) # {} => Bought(sub.cands, side) # {}
          /\ ~IsShort(s) /\ s.side = side => Bought(sub.cands, side) # {}
          /\ Cardinality(Bought(rest, side)) \in Nat
  BY <1>1, <1>4, RestEffect, BoughtIsFinite
<1>11. SymbolCap'
  <2>1. MaxPerSymbol # 0 => Cardinality(OfSymbol(day, s.sym)) < MaxPerSymbol
    <3>1. CountSymbolToday(rows, day, s.sym) = Cardinality(OfSymbol(day, s.sym))
      BY DEF CountSymbolToday, OfSymbol
    <3>2. MaxPerSymbol # 0 => ~(CountSymbolToday(rows, day, s.sym) >= MaxPerSymbol)
      BY <1>1 DEF Bookable, SymbolFull
    <3> HIDE DEF s
    <3> QED
      BY <1>5, <1>7, <3>1, <3>2
  <2>2. ASSUME MaxPerSymbol # 0, NEW d, NEW sym
        PROVE  Cardinality(OfSymbol(d, sym)') <= MaxPerSymbol
    <3> HIDE DEF s
    <3>1. Cardinality(OfSymbol(d, sym)) <= MaxPerSymbol
      BY <2>2 DEF CapInv, SymbolCap
    <3> QED
      BY <1>5, <1>7, <1>9, <2>1, <2>2, <3>1
  <2> QED
    BY <2>2 DEF SymbolCap
<1> HIDE DEF s, rest
<1>12. ASSUME SideCapped, NEW side \in Sides
       PROVE  /\ Cardinality(Held(side)') <= MaxSameDirection
              /\ Bought(rest, side) # {} =>
                    Cardinality(Held(side)') + Cardinality(Bought(rest, side)) <= MaxSameDirection
  <2> DEFINE held == Cardinality(Held(side))
             now == Cardinality(Held(side)')
             left == Cardinality(Bought(rest, side))
             all == Cardinality(Bought(sub.cands, side))
             more == IF ~IsShort(s) /\ s.side = side THEN 1 ELSE 0
  <2>1. /\ held \in Nat /\ left \in Nat /\ now = held + more /\ left + more = all
        /\ held <= MaxSameDirection
        /\ Bought(rest, side) # {} \/ more = 1 => held + all <= MaxSameDirection
    <3>1. held \in Nat /\ left \in Nat /\ now = held + more /\ left + more = all
      BY <1>5, <1>9, <1>10
    <3>2. held <= MaxSameDirection
      BY <1>12 DEF CapInv, SideCap
    <3>3. Bought(rest, side) # {} \/ more = 1 => Bought(sub.cands, side) # {}
      BY <1>10
    <3>4. Bought(sub.cands, side) # {} => held + all <= MaxSameDirection
      BY <1>2, <1>12 DEF SideRoom
    <3> QED
      BY <3>1, <3>2, <3>3, <3>4
  <2>2. more \in {0, 1}
    OBVIOUS
  <2> HIDE DEF held, now, left, all, more
  <2>3. now <= MaxSameDirection /\ (Bought(rest, side) # {} => now + left <= MaxSameDirection)
    BY <1>6, <2>1, <2>2
  <2> QED
    BY <2>3 DEF now, left
<1>13. SideCap'
  BY <1>12 DEF SideCap
<1>14. SideRoom(Waiting)'
  <2>1. SideCapped => \A side \in Sides : Bought(rest, side) # {} =>
            Cardinality(Held(side)') + Cardinality(Bought(rest, side)) <= MaxSameDirection
    BY <1>12
  <2> QED
    BY <1>3, <2>1 DEF SideRoom
<1>15. ASSUME ExposureMode = "hard"
       PROVE  /\ MaxOpenPositions # 0 =>
                    /\ Cardinality(OpenIds') <= MaxOpenPositions
                    /\ Cardinality(OpenIds') + Len(rest) <= MaxOpenPositions
              /\ MaxOpenPremium # 0 =>
                    /\ Deployed' <= MaxOpenPremium
                    /\ Deployed' + PremiumOf(rest) <= MaxOpenPremium
  <2> DEFINE p == PremiumOf(sub.cands)
             q == PremiumOf(rest)
             n == Len(sub.cands)
             m == Len(rest)
  <2>1. /\ MaxOpenPositions # 0 => Cardinality(OpenIds) + n <= MaxOpenPositions
        /\ MaxOpenPremium # 0 => Deployed + p <= MaxOpenPremium
    BY <1>1, <1>2, <1>15 DEF BookRoom
  <2>2. /\ m \in Nat /\ n = m + 1
        /\ p = s.entry + q /\ q \in Nat /\ s.entry \in Nat
    <3>1. Len(sub.cands) \in Nat
      BY <1>1
    <3> QED
      BY <1>4, <3>1
  <2> HIDE DEF p, q, n, m
  <2>3. MaxOpenPositions # 0 => /\ Cardinality(OpenIds') <= MaxOpenPositions
                                /\ Cardinality(OpenIds') + m <= MaxOpenPositions
    BY <1>5, <1>6, <1>9, <2>1, <2>2
  <2>4. MaxOpenPremium # 0 => Deployed' <= MaxOpenPremium /\ Deployed' + q <= MaxOpenPremium
    BY <1>5, <1>6, <1>9, <2>1, <2>2
  <2> QED
    BY <2>3, <2>4 DEF q, m
<1>16. BookCap'
  BY <1>15 DEF BookCap
<1>17. BookRoom(Waiting)'
  BY <1>3, <1>15 DEF BookRoom
<1> QED
  BY <1>3, <1>11, <1>13, <1>14, <1>16, <1>17 DEF CapInv, RoomInv

(* The caps under the steps of the scan thread: the gates counted the book *)
(* before the candidates were booked, and the monitor has only closed      *)
(* positions since.                                                        *)
LEMMA ScanKeepsCaps ==
    ASSUME GateMayFail = FALSE, IInv, NoHedges, CapInv, ScanStep
    PROVE  CapInv'
<1>1. BookInv /\ SubInv /\ sub.cands \in Seq(SignalRecords)
  BY DEF IInv, SubInv, Submissions
<1>2. CASE rows' = rows /\ ScanMove
  <2>1. Shrunk
    BY <1>1, <1>2, SameBook
  <2>2. SymbolCap' /\ SideCap' /\ BookCap'
    BY <1>1, <2>1, ShrinkingKeepsCaps
  <2>3. ASSUME NEW list \in Seq(SignalRecords), sub'.pc \in {"exposure", "book"},
               sub'.cands = list, SideRoom(list), sub'.pc = "book" => BookRoom(list)
        PROVE  RoomInv'
    <3>1. Waiting' = list
      BY <2>3 DEF Waiting
    <3>2. (SideRoom(list) => SideRoom(list)') /\ (BookRoom(list) => BookRoom(list)')
      BY <1>1, <2>1, RoomIsMade
    <3>3. /\ SideRoom(list)' => SideRoom(Waiting)'
          /\ BookRoom(list)' => BookRoom(Waiting)'
      BY <3>1 DEF SideRoom, BookRoom
    <3> QED
      BY <2>3, <3>2, <3>3 DEF RoomInv
  <2>4. CASE sub'.pc \in Early
    BY <1>1, <2>1, <2>2, <2>4, ShrinkingKeepsCaps DEF CapInv
  <2>5. CASE sub'.pc = "exposure" /\ sub'.cands = ConcentrationGate(rows, day, sub.cands)
    <3>1. ConcentrationGate(rows, day, sub.cands) \in Seq(SignalRecords)
      BY <1>1, FilterEffect
    <3>2. SideRoom(ConcentrationGate(rows, day, sub.cands))
      BY <1>1, ConcentrationLeavesRoom
    <3> QED
      BY <2>2, <2>3, <2>5, <3>1, <3>2 DEF CapInv
  <2>6. CASE /\ sub.pc = "exposure" /\ sub'.pc = "book"
             /\ sub'.cands = ExposureGate(rows, day, sub.cands)
    <3>1. ExposureGate(rows, day, sub.cands) \in Seq(SignalRecords)
      BY <1>1, FilterEffect
    <3>2. SideRoom(sub.cands)
      BY <2>6 DEF CapInv, RoomInv, Waiting
    <3>3. /\ SideRoom(ExposureGate(rows, day, sub.cands))
          /\ BookRoom(ExposureGate(rows, day, sub.cands))
      BY <1>1, <3>2, ExposureLeavesRoom
    <3> QED
      BY <2>2, <2>3, <2>6, <3>1, <3>3 DEF CapInv
  <2>7. CASE /\ sub.pc \in {"book", "subscribe"} /\ sub'.pc = "book"
             /\ sub.cands # <<>> /\ sub'.cands = Tail(sub.cands)
    <3>1. Tail(sub.cands) \in Seq(SignalRecords)
      BY <1>1, <2>7
    <3>2. SideRoom(Tail(sub.cands)) /\ BookRoom(Tail(sub.cands))
      <4>1. CASE sub.pc = "book"
        <5>1. SideRoom(sub.cands) /\ BookRoom(sub.cands)
          BY <4>1 DEF CapInv, RoomInv, Waiting
        <5> QED
          BY <1>1, <2>7, <5>1, RoomOfRest
      <4>2. CASE sub.pc = "subscribe"
        BY <4>2 DEF CapInv, RoomInv, Waiting
      <4> QED
        BY <2>7, <4>1, <4>2
    <3> QED
      BY <2>2, <2>3, <2>7, <3>1, <3>2 DEF CapInv
  <2> QED
    BY <1>2, <2>4, <2>5, <2>6, <2>7 DEF ScanMove
<1>3. CASE Booked
  BY <1>3, BookingKeepsCaps
<1> QED
  BY <1>2, <1>3, ScanMoves

(* The caps under every step.                                              *)
LEMMA CapsKept ==
    ASSUME GateMayFail = FALSE, IInv, NoHedges, CapInv, Next
    PROVE  CapInv'
<1>1. BookInv /\ SubInv /\ MonitorInv
  BY DEF IInv
<1>2. CASE ScanStep
  BY <1>2, ScanKeepsCaps
<1>3. CASE MonitorStep
  <2>1. sub' = sub
    BY <1>3, MonitorKeepsRows
  <2>2. CASE Save
    <3>1. PICK i \in Pending : Saved(i)
      BY <1>1, <2>2, SaveEffect
    <3>2. BookInv'
      BY <1>3, MonitorKeeps DEF IInv
    <3>3. Shrunk
      BY <1>1, <3>1, <3>2, SavesShrink DEF Shrunk
    <3> QED
      BY <1>1, <2>1, <3>3, ShrinkingKeepsCaps DEF CapInv
  <2>3. CASE rows' = rows
    BY <1>1, <2>1, <2>3, SameBook, ShrinkingKeepsCaps DEF CapInv
  <2> QED
    BY <1>3, <2>2, <2>3, MonitorKeepsRows
<1>4. CASE ClockStep
  <2>1. rows' = rows /\ (sub' = sub \/ sub'.pc \in Early)
    BY <1>4 DEF ClockStep, PassCutoff, NextDay, Crash, IdleSub, Early
  <2> QED
    BY <1>1, <2>1, SameBook, ShrinkingKeepsCaps DEF CapInv
<1> QED
  BY <1>2, <1>3, <1>4, Steps

(* The caps of the book (book_signal, process_signals,                     *)
(* _apply_concentration_gate, _apply_exposure_gate) hold at every moment   *)
(* though the gates count before the batch is booked, as long as no gate   *)
(* raises (a gate that raises passes its input through) and batches are    *)
(* booked without hedge legs (which pass no gate).                         *)
THEOREM CapsAreKept ==
    ASSUME HedgeBatch = FALSE, GateMayFail = FALSE
    PROVE  Spec => []CapsHold
<1>1. Init => NoHedges
  BY DEF Init, NoHedges, IdleSub
<1>2. Init => CapInv
  <2> SUFFICES ASSUME Init PROVE CapInv
    OBVIOUS
  <2>1. OpenIds = {} /\ (\A side : Held(side) = {}) /\ (\A d, sym : OfSymbol(d, sym) = {})
    BY DEF Init, OpenIds, Held, OfSymbol, AllTrades
  <2>2. Cardinality({}) = 0
    BY FS_EmptySet
  <2>3. Deployed = 0
    <3>1. rows = <<>>
      BY DEF Init
    <3> DEFINE f == [i \in DOMAIN rows |-> IF i \in OpenIds THEN rows[i].trade.entry ELSE 0]
    <3>2. f \in Seq(Nat) /\ Len(f) = 0
      BY <3>1
    <3> HIDE DEF f
    <3>3. PICK sum : Sums(f, sum) /\ Total(f) = sum[Len(f)]
      BY <3>2, TotalIsSum
    <3> QED
      BY <3>2, <3>3 DEF f, Deployed, Sums, Upto
  <2>4. RoomInv
    BY DEF Init, IdleSub, RoomInv
  <2>5. /\ MaxSameDirection \in Nat /\ MaxOpenPositions \in Nat /\ MaxOpenPremium \in Nat
    BY EntryGatesAssumption
  <2>6. MaxPerSymbol \in Nat
    <3>1. {MinPremium, MaxRisk, MaxPerDay, MaxPerSymbol, DailyLossLimit, MaxProfitPct} \subseteq Nat
      BY OrderManagerAssumption, Zenon
    <3> QED
      BY <3>1
  <2> QED
    BY <2>1, <2>2, <2>3, <2>4, <2>5, <2>6 DEF CapInv, SymbolCap, SideCap, BookCap
<1>3. IInv /\ NoHedges /\ [Next]_vars => NoHedges'
  <2>1. NoHedges /\ UNCHANGED vars => NoHedges'
    BY DEF vars, NoHedges
  <2> QED
    BY <2>1, NoHedgesKept
<1>4. IInv /\ NoHedges /\ CapInv /\ [Next]_vars => CapInv'
  <2>1. ASSUME IInv, CapInv, UNCHANGED vars PROVE CapInv'
    <3>1. BookInv /\ SubInv /\ rows' = rows /\ sub' = sub
      BY <2>1 DEF IInv, vars
    <3> QED
      BY <2>1, <3>1, SameBook, ShrinkingKeepsCaps DEF CapInv
  <2> QED
    BY <2>1, CapsKept
<1>5. IInv /\ CapInv => CapsHold
  BY CapsAreHeld DEF IInv
<1> QED
  BY Invariance, <1>1, <1>2, <1>3, <1>4, <1>5, PTL DEF Spec

(* The cap on a symbol does not depend on the gates: it is tested with     *)
(* every INSERT.                                                           *)
LEMMA SymbolCapKept ==
    ASSUME IInv, NoHedges, SymbolCap, Next
    PROVE  SymbolCap'
<1>1. BookInv /\ MonitorInv
  BY DEF IInv
<1>2. CASE rows' = rows
  BY <1>1, <1>2, SameBook DEF Shrunk, SymbolCap
<1>3. CASE Booked
  <2> DEFINE s == Head(sub.cands)
  <2>1. PICK c : Grown(s, c)
    BY <1>3 DEF Booked
  <2>2. /\ \A d, sym : Cardinality(OfSymbol(d, sym)) \in Nat
        /\ \A d, sym : Cardinality(OfSymbol(d, sym)') =
              Cardinality(OfSymbol(d, sym)) + (IF d = day /\ s.sym = sym THEN 1 ELSE 0)
    BY <1>1, <2>1, BookSize, BookingsGrow
  <2>3. MaxPerSymbol # 0 => ~(CountSymbolToday(rows, day, s.sym) >= MaxPerSymbol)
    BY <1>3 DEF Booked, Bookable, SymbolFull
  <2>4. CountSymbolToday(rows, day, s.sym) = Cardinality(OfSymbol(day, s.sym))
    BY DEF CountSymbolToday, OfSymbol
  <2>5. MaxPerSymbol \in Nat
    <3>1. {MinPremium, MaxRisk, MaxPerDay, MaxPerSymbol, DailyLossLimit, MaxProfitPct} \subseteq Nat
      BY OrderManagerAssumption, Zenon
    <3> QED
      BY <3>1
  <2> HIDE DEF s
  <2>6. ASSUME MaxPerSymbol # 0, NEW d, NEW sym
        PROVE  Cardinality(OfSymbol(d, sym)') <= MaxPerSymbol
    <3>1. Cardinality(OfSymbol(d, sym)) <= MaxPerSymbol
      BY <2>6 DEF SymbolCap
    <3> QED
      BY <2>2, <2>3, <2>4, <2>5, <2>6, <3>1
  <2> QED
    BY <2>6 DEF SymbolCap
<1>4. CASE Save
  <2>1. PICK i \in Pending : Saved(i)
    BY <1>1, <1>4, SaveEffect
  <2>2. BookInv'
    BY <1>4, MonitorKeeps DEF IInv, MonitorStep, TrkStep
  <2>3. \A d, sym : OfSymbol(d, sym)' = OfSymbol(d, sym)
    BY <1>1, <2>1, <2>2, SavesShrink
  <2> QED
    BY <2>3 DEF SymbolCap
<1> QED
  BY <1>2, <1>3, <1>4, Steps, BookingsAreChecked, MonitorKeepsRows, ClockKeeps

(* No symbol is traded more often in a day than its cap allows             *)
(* (book_signal, process_signals), whatever gates raise and let pass, in   *)
(* batches without hedge legs.                                             *)
THEOREM SymbolsAreCapped ==
    ASSUME HedgeBatch = FALSE
    PROVE  Spec => [](MaxPerSymbol # 0 =>
                          \A i \in DOMAIN rows : CountSymbolToday(rows, rows[i].day, rows[i].sym) <= MaxPerSymbol)
<1> DEFINE Capped == MaxPerSymbol # 0 =>
                         \A i \in DOMAIN rows : CountSymbolToday(rows, rows[i].day, rows[i].sym) <= MaxPerSymbol
<1>1. Init => NoHedges /\ SymbolCap
  <2> SUFFICES ASSUME Init PROVE NoHedges /\ SymbolCap
    OBVIOUS
  <2>1. \A d, sym : OfSymbol(d, sym) = {}
    BY DEF Init, OfSymbol, AllTrades
  <2>2. MaxPerSymbol \in Nat
    <3>1. {MinPremium, MaxRisk, MaxPerDay, MaxPerSymbol, DailyLossLimit, MaxProfitPct} \subseteq Nat
      BY OrderManagerAssumption, Zenon
    <3> QED
      BY <3>1
  <2>3. Cardinality({}) = 0
    BY FS_EmptySet
  <2>4. SymbolCap
    BY <2>1, <2>2, <2>3 DEF SymbolCap
  <2> QED
    BY <2>4 DEF Init, NoHedges, IdleSub
<1>2. IInv /\ NoHedges /\ [Next]_vars => NoHedges'
  <2>1. NoHedges /\ UNCHANGED vars => NoHedges'
    BY DEF vars, NoHedges
  <2> QED
    BY <2>1, NoHedgesKept
<1>3. IInv /\ NoHedges /\ SymbolCap /\ [Next]_vars => SymbolCap'
  <2>1. IInv /\ SymbolCap /\ UNCHANGED vars => SymbolCap'
    BY SameBook DEF IInv, vars, Shrunk, SymbolCap
  <2> QED
    BY <2>1, SymbolCapKept
<1>4. SymbolCap => Capped
  BY DEF SymbolCap, CountSymbolToday, OfSymbol
<1> HIDE DEF Capped
<1>5. Spec => []Capped
  BY Invariance, <1>1, <1>2, <1>3, <1>4, PTL DEF Spec
<1> QED
  BY <1>5 DEF Capped

-------------------------------------------------------------------------------
(* Hedge legs and their primaries.                                         *)

(* A bought leg of the combo c in the underlying sym.                      *)
HasPrimary(r, c, sym) ==
    \E j \in DOMAIN r : r[j].combo = c /\ r[j].sym = sym /\ r[j].trade.dir = "long"

(* What a submission t may still sell is covered by the book r.            *)
Covered(r, t) ==
    /\ t.path # "legs"
    /\ t.path = "batch" => t.rest = <<>>
    /\ \A k \in DOMAIN t.cands :
          /\ \/ t.cands[k].dir = "long"
             \/ t.path # "batch" /\ HasPrimary(r, t.combo, t.cands[k].sym)
          /\ t.rest # <<>> =>
                t.cands[k].dir = "long" /\ t.cands[k].sym = Head(t.rest).sym
    /\ t.rest # <<>> => Tail(t.rest) = <<>>
    /\ t.rest # <<>> /\ t.pc = "subscribe" => HasPrimary(r, t.combo, Head(t.rest).sym)
    /\ t.hedge # NoSignal =>
          /\ t.pc \in {"subscribe", "hedge"} /\ t.path = "batch"
          /\ HasPrimary(r, t.combo, t.hedge.sym)

(* The strategies emit bought candidates only, and no strangles.           *)
OnlyBuyers ==
    /\ Strangles = {}
    /\ \A s \in Signals : s.dir = "long"
    /\ \A batch \in Batches : \A k \in DOMAIN batch : batch[k].dir = "long"

(* Every candidate of out is one of cands.                                 *)
Drawn(out, cands) == \A k \in DOMAIN out : \E j \in DOMAIN cands : out[k] = cands[j]

(* A book with more primaries covers what was covered.                     *)
LEMMA CoveredStays ==
    ASSUME NEW r, NEW q, NEW t, Covered(r, t),
           \A c, sym : HasPrimary(r, c, sym) => HasPrimary(q, c, sym)
    PROVE  Covered(q, t)
BY DEF Covered

(* A gate or a veto uncovers nothing.                                      *)
LEMMA NarrowedIsCovered ==
    ASSUME NEW r, NEW t \in Submissions, Covered(r, t), t.pc \notin {"subscribe", "hedge"},
           NEW pc, pc \notin {"subscribe", "hedge"}, NEW out, Drawn(out, t.cands)
    PROVE  Covered(r, [t EXCEPT !.pc = pc, !.cands = out])
<1> DEFINE u == [t EXCEPT !.pc = pc, !.cands = out]
<1>1. /\ u.pc = pc /\ u.path = t.path /\ u.cands = out /\ u.rest = t.rest
      /\ u.hedge = t.hedge /\ u.combo = t.combo
  BY DEF Submissions
<1> HIDE DEF u
<1>2. \A k \in DOMAIN out :
          /\ \/ out[k].dir = "long"
             \/ t.path # "batch" /\ HasPrimary(r, t.combo, out[k].sym)
          /\ t.rest # <<>> => out[k].dir = "long" /\ out[k].sym = Head(t.rest).sym
  BY DEF Covered, Drawn
<1>3. Covered(r, u)
  BY <1>1, <1>2 DEF Covered
<1> QED
  BY <1>3 DEF u

(* What the gates keep, and the rest after the head, comes from the        *)
(* candidates.                                                             *)
LEMMA FiltersDraw ==
    ASSUME NEW cands \in Seq(SignalRecords), NEW good, NEW enforceCap
    PROVE  /\ Drawn(PreMarketGate(rows, day, cands, good, enforceCap), cands)
           /\ Drawn(BreadthGate(cands, good), cands)
           /\ Drawn(EntryGate(cands, good), cands)
           /\ Drawn(ConcentrationGate(rows, day, cands), cands)
           /\ Drawn(ExposureGate(rows, day, cands), cands)
           /\ Drawn(cands, cands)
           /\ cands # <<>> => Drawn(Tail(cands), cands)
<1>1. ASSUME NEW out, Selection(out, cands) PROVE Drawn(out, cands)
  BY <1>1 DEF Selection, Drawn
<1>2. Drawn(cands, cands)
  BY DEF Drawn
<1>3. ASSUME cands # <<>> PROVE Drawn(Tail(cands), cands)
  <2> DEFINE rest == Tail(cands)
  <2>1. /\ DOMAIN rest = 1..(Len(cands) - 1) /\ DOMAIN cands = 1..Len(cands) /\ Len(cands) \in Nat
        /\ \A k \in 1..(Len(cands) - 1) : rest[k] = cands[k + 1]
    BY <1>3
  <2> HIDE DEF rest
  <2>2. \A k \in DOMAIN rest : k + 1 \in DOMAIN cands /\ rest[k] = cands[k + 1]
    BY <2>1
  <2> QED
    BY <2>2 DEF Drawn, rest
<1> QED
  BY <1>1, <1>2, <1>3, FilterEffect

(* Rows stay, with their primaries.                                        *)
LEMMA PrimariesStay ==
    ASSUME BookInv, rows' = rows \/ (\E s, c : Grown(s, c)) \/ (\E i : Saved(i))
    PROVE  \A c, sym : HasPrimary(rows, c, sym) => HasPrimary(rows', c, sym)
<1>1. rows \in Seq(Rows) /\ day \in Nat
  BY DEF BookInv
<1>2. ASSUME NEW s, NEW c, Grown(s, c)
      PROVE  DOMAIN rows \subseteq DOMAIN rows' /\ \A i \in DOMAIN rows : rows'[i] = rows[i]
  BY <1>1, <1>2, GrownEffect
<1>3. CASE \E s, c : Grown(s, c)
  BY <1>2, <1>3 DEF HasPrimary
<1>4. CASE \E i : Saved(i)
  BY <1>4 DEF HasPrimary, Saved, SameColumns
<1>5. CASE rows' = rows
  BY <1>5 DEF HasPrimary
<1> QED
  BY <1>3, <1>4, <1>5

(* A booking of a bought leg, or of a sold one whose primary is there,     *)
(* leaves no hedge alone.                                                  *)
LEMMA BookingKeepsPrimaries ==
    ASSUME BookInv, HedgeHasPrimary, NEW s, NEW c, Grown(s, c),
           s.dir = "long" \/ HasPrimary(rows, c, s.sym)
    PROVE  /\ HedgeHasPrimary'
           /\ s.dir = "long" => HasPrimary(rows', c, s.sym)
<1> DEFINE n == Len(rows) + 1
<1>1. rows \in Seq(Rows) /\ day \in Nat
  BY DEF BookInv
<1>2. /\ Len(rows) \in Nat /\ DOMAIN rows = 1..Len(rows) /\ DOMAIN rows' = 1..n
      /\ \A i \in DOMAIN rows : rows'[i] = rows[i]
      /\ rows'[n] = Row(s, c, day)
  BY <1>1, GrownEffect
<1>3. rows'[n].combo = c /\ rows'[n].sym = s.sym /\ rows'[n].trade.dir = s.dir
  BY <1>2 DEF Row, NewTrade
<1>4. "long" # "short"
  OBVIOUS
<1>5. n \in DOMAIN rows' /\ n \in Nat /\ \A i \in DOMAIN rows' : i \in DOMAIN rows \/ i = n
  BY <1>2
<1>6. \A i \in DOMAIN rows : 1..(i - 1) \subseteq DOMAIN rows
  BY <1>2
<1>7. 1..(n - 1) = DOMAIN rows
  BY <1>2
<1> HIDE DEF n
<1>8. ASSUME NEW i \in DOMAIN rows', rows'[i].trade.dir = "short"
      PROVE  \E j \in 1..(i - 1) : /\ rows'[j].combo = rows'[i].combo
                                  /\ rows'[j].sym = rows'[i].sym
                                  /\ rows'[j].trade.dir = "long"
  <2>1. CASE i \in DOMAIN rows
    <3>1. rows'[i] = rows[i]
      BY <1>2, <2>1
    <3>2. PICK j \in 1..(i - 1) : /\ rows[j].combo = rows[i].combo
                                 /\ rows[j].sym = rows[i].sym
                                 /\ rows[j].trade.dir = "long"
      BY <1>8, <2>1, <3>1 DEF HedgeHasPrimary
    <3>3. rows'[j] = rows[j]
      BY <1>2, <1>6, <2>1
    <3> QED
      BY <3>1, <3>2, <3>3
  <2>2. CASE i = n
    <3>1. HasPrimary(rows, c, s.sym)
      BY <1>3, <1>4, <1>8, <2>2
    <3>2. PICK j \in DOMAIN rows : rows[j].combo = c /\ rows[j].sym = s.sym /\ rows[j].trade.dir = "long"
      BY <3>1 DEF HasPrimary
    <3>3. rows'[j] = rows[j] /\ j \in 1..(n - 1)
      BY <1>2, <1>7
    <3> QED
      BY <1>3, <2>2, <3>2, <3>3
  <2> QED
    BY <1>5, <2>1, <2>2
<1>9. HedgeHasPrimary'
  BY <1>8 DEF HedgeHasPrimary
<1> QED
  BY <1>3, <1>5, <1>9 DEF HasPrimary

(* What the scan thread has at hand is covered by the table.               *)
HedgeInv == Covered(rows, sub)

(* What the submission of long candidates is.                              *)
LEMMA SubmissionsAreCovered ==
    ASSUME OnlyBuyers,
           SubmitSignals \/ SubmitExternalSignal \/ SubmitWithHedge \/ SubmitStrangle
    PROVE  HedgeInv' /\ rows' = rows
<1>1. ASSUME NEW path \in {"batch", "external", "hedged"}, NEW cands, NEW rest, NEW combo,
             Submit(path, cands, rest, combo),
             \A k \in DOMAIN cands :
                cands[k].dir = "long" /\ (rest # <<>> => cands[k].sym = Head(rest).sym),
             rest # <<>> => path = "hedged" /\ Tail(rest) = <<>>
      PROVE  HedgeInv' /\ rows' = rows
  <2>1. sub' = [pc |-> "lockout", path |-> path, cands |-> cands, rest |-> rest,
                hedge |-> NoSignal, combo |-> combo]
    BY <1>1 DEF Submit, IdleSub
  <2>2. rows' = rows
    BY <1>1 DEF Submit
  <2>3. /\ sub'.pc = "lockout" /\ sub'.path = path /\ sub'.cands = cands /\ sub'.rest = rest
        /\ sub'.hedge = NoSignal
    BY <2>1
  <2>4. path # "legs" /\ (path = "batch" => rest = <<>>) /\ "lockout" # "subscribe"
    BY <1>1
  <2>5. \A k \in DOMAIN cands : rest # <<>> =>
            cands[k].dir = "long" /\ cands[k].sym = Head(rest).sym
    BY <1>1, Zenon
  <2>6. /\ \A k \in DOMAIN sub'.cands :
              /\ \/ sub'.cands[k].dir = "long"
                 \/ sub'.path # "batch" /\ HasPrimary(rows', sub'.combo, sub'.cands[k].sym)
              /\ sub'.rest # <<>> =>
                    sub'.cands[k].dir = "long" /\ sub'.cands[k].sym = Head(sub'.rest).sym
    BY <1>1, <2>3, <2>5, Zenon
  <2>7. /\ sub'.path # "legs" /\ (sub'.path = "batch" => sub'.rest = <<>>)
        /\ sub'.rest # <<>> => Tail(sub'.rest) = <<>>
        /\ sub'.pc # "subscribe" /\ sub'.hedge = NoSignal
    BY <1>1, <2>3, <2>4, Zenon
  <2>8. Covered(rows', sub')
    BY <2>6, <2>7, Zenon DEF Covered
  <2> QED
    BY <2>2, <2>8 DEF HedgeInv
<1>2. CASE SubmitSignals
  <2>1. PICK batch \in Batches : Submit("batch", batch, <<>>, NoCombo)
    BY <1>2 DEF SubmitSignals
  <2>2. \A k \in DOMAIN batch : batch[k].dir = "long"
    BY DEF OnlyBuyers
  <2> QED
    BY <1>1, <2>1, <2>2
<1>3. ASSUME NEW s, s.dir = "long"
      PROVE  \A k \in DOMAIN <<s>> : <<s>>[k].dir = "long"
  BY <1>3
<1>4. CASE SubmitExternalSignal
  <2>1. PICK s \in Signals : Submit("external", <<s>>, <<>>, NoCombo)
    BY <1>4 DEF SubmitExternalSignal
  <2>2. \A k \in DOMAIN <<s>> : <<s>>[k].dir = "long"
    BY <1>3 DEF OnlyBuyers
  <2> QED
    BY <1>1, <2>1, <2>2
<1>5. CASE SubmitWithHedge
  <2>1. PICK pair \in Spreads : \/ Submit("hedged", <<pair[1]>>, <<pair[2]>>, FreshCombo)
                                \/ Submit("hedged", <<pair[1]>>, <<>>, FreshCombo)
    BY <1>5 DEF SubmitWithHedge
  <2>2. pair[1].dir = "long" /\ pair[1].sym = pair[2].sym
    BY SpreadsAreDebitSpreads
  <2>3. PICK p, q : p = pair[1] /\ q = pair[2]
    OBVIOUS
  <2>4. \A k \in DOMAIN <<p>> : <<p>>[k].dir = "long" /\ <<p>>[k].sym = Head(<<q>>).sym
    BY <2>2, <2>3
  <2>5. Tail(<<q>>) = <<>>
    OBVIOUS
  <2>6. CASE Submit("hedged", <<p>>, <<q>>, FreshCombo)
    BY <1>1, <2>4, <2>5, <2>6
  <2>7. CASE Submit("hedged", <<p>>, <<>>, FreshCombo)
    BY <1>1, <2>4, <2>7
  <2> QED
    BY <2>1, <2>3, <2>6, <2>7
<1>6. CASE SubmitStrangle
  BY <1>6 DEF SubmitStrangle, OnlyBuyers
<1> QED
  BY <1>2, <1>4, <1>5, <1>6

(* The next submission of a spread is its hedge leg.                       *)
LEMMA NextIsCovered ==
    ASSUME BookInv, SubInv, HedgeInv
    PROVE  /\ Covered(rows, IdleSub)
           /\ sub.hedge = NoSignal => Covered(rows, NextSubmission(FALSE))
           /\ sub.hedge = NoSignal /\ sub.pc = "subscribe" /\ sub.path # "batch"
                => Covered(rows, NextSubmission(TRUE))
<1>1. sub \in Submissions /\ sub.path # "legs" /\ sub.rest \in Seq(SignalRecords)
  BY DEF SubInv, HedgeInv, Covered, Submissions
<1>2. Covered(rows, IdleSub)
  BY DEF IdleSub, Covered
<1>3. NextSubmission(FALSE) = IdleSub
  BY <1>1 DEF NextSubmission
<1>4. ASSUME sub.hedge = NoSignal, sub.pc = "subscribe", sub.path # "batch"
      PROVE  Covered(rows, NextSubmission(TRUE))
  <2>1. CASE sub.rest = <<>>
    <3>1. NextSubmission(TRUE) = IdleSub
      BY <2>1 DEF NextSubmission
    <3> QED
      BY <1>2, <3>1
  <2>2. CASE sub.rest # <<>>
    <3> DEFINE h == Head(sub.rest)
               u == [pc |-> "lockout", path |-> sub.path, cands |-> <<h>>, rest |-> <<>>,
                     hedge |-> NoSignal, combo |-> sub.combo]
    <3>1. Tail(sub.rest) = <<>> /\ HasPrimary(rows, sub.combo, h.sym)
      BY <1>4, <2>2 DEF HedgeInv, Covered
    <3>2. NextSubmission(TRUE) = u
      <4>1. NextSubmission(TRUE) = [sub EXCEPT !.pc = "lockout", !.cands = <<h>>, !.rest = <<>>]
        BY <2>2, <3>1 DEF NextSubmission
      <4> HIDE DEF h
      <4> QED
        BY <1>1, <1>4, <4>1 DEF Submissions
    <3> HIDE DEF h
    <3>3. Covered(rows, u)
      BY <1>1, <1>4, <3>1 DEF Covered
    <3> QED
      BY <3>2, <3>3
  <2> QED
    BY <2>1, <2>2
<1> QED
  BY <1>2, <1>3, <1>4

(* Gates, working or raising, leave the submission covered.                *)
LEMMA GatesKeepCover ==
    ASSUME BookInv, SubInv, HedgeInv,
           CheckLockout \/ LockoutFails \/ QualityGates \/ CheckConcentration
           \/ CheckExposure \/ GateFails \/ EndBatch
    PROVE  HedgeInv'
<1>1. /\ sub \in Submissions /\ sub.cands \in Seq(SignalRecords) /\ Covered(rows, sub)
      /\ sub.pc \in {"lockout", "quality", "concentration", "exposure", "book"}
  BY DEF SubInv, Submissions, HedgeInv, CheckLockout, LockoutFails, QualityGates,
         CheckConcentration, CheckExposure, GateFails, EndBatch
<1>2. rows' = rows
  BY GatesEffect
<1>3. sub.hedge = NoSignal
  BY <1>1 DEF Covered
<1>4. Covered(rows, IdleSub) /\ Covered(rows, NextSubmission(FALSE))
  BY <1>3, NextIsCovered
<1>5. ASSUME NEW pc \in {"quality", "concentration", "exposure", "book"}, NEW out,
             Drawn(out, sub.cands)
      PROVE  Covered(rows, [sub EXCEPT !.pc = pc, !.cands = out])
  BY <1>1, <1>5, NarrowedIsCovered
<1>6. ASSUME NEW pc \in {"quality", "concentration", "exposure", "book"}
      PROVE  Covered(rows, [sub EXCEPT !.pc = pc])
  <2>1. [sub EXCEPT !.pc = pc] = [sub EXCEPT !.pc = pc, !.cands = sub.cands]
    BY <1>1 DEF Submissions
  <2>2. Drawn(sub.cands, sub.cands)
    BY DEF Drawn
  <2> QED
    BY <1>5, <2>1, <2>2
<1>7. ASSUME NEW out, Drawn(out, sub.cands)
      PROVE  Covered(rows, AfterGates(out))
  <2>1. Covered(rows, [sub EXCEPT !.pc = "book", !.cands = out])
    BY <1>5, <1>7
  <2> QED
    BY <1>4, <2>1 DEF AfterGates
<1>8. Covered(rows, sub') => HedgeInv'
  BY <1>2 DEF HedgeInv
<1>9. CASE CheckLockout \/ LockoutFails
  <2>1. sub' = IdleSub \/ sub' = NextSubmission(FALSE) \/ sub' = [sub EXCEPT !.pc = "quality"]
    BY <1>9 DEF CheckLockout, LockoutFails
  <2>2. Covered(rows, [sub EXCEPT !.pc = "quality"])
    BY <1>6
  <2> QED
    BY <1>4, <1>8, <2>1, <2>2, Zenon
<1>10. CASE QualityGates
  <2>1. \E out : Drawn(out, sub.cands) /\ sub' = [sub EXCEPT !.pc = "concentration", !.cands = out]
    <3>1. PICK good, against, agreed \in SUBSET ToSet(sub.cands),
               raised \in Raised({"pre-market", "breadth", "entry"}) :
            LET sound == IF "pre-market" \in raised THEN sub.cands
                         ELSE PreMarketGate(rows, day, sub.cands, good, sub.path = "batch")
                withTape == IF "breadth" \in raised THEN sound
                            ELSE BreadthGate(sound, against)
            IN  sub' = [sub EXCEPT !.pc = "concentration",
                                   !.cands = IF sub.path # "batch" \/ "entry" \in raised
                                             THEN withTape ELSE EntryGate(withTape, agreed)]
      BY <1>10, Zenon DEF QualityGates
    <3> DEFINE sound == IF "pre-market" \in raised THEN sub.cands
                        ELSE PreMarketGate(rows, day, sub.cands, good, sub.path = "batch")
               withTape == IF "breadth" \in raised THEN sound ELSE BreadthGate(sound, against)
               out == IF sub.path # "batch" \/ "entry" \in raised
                      THEN withTape ELSE EntryGate(withTape, agreed)
    <3>2. sound \in Seq(SignalRecords) /\ Drawn(sound, sub.cands)
      BY <1>1, FilterEffect, FiltersDraw
    <3>3. withTape \in Seq(SignalRecords) /\ Drawn(withTape, sub.cands)
      <4> HIDE DEF sound
      <4>1. /\ BreadthGate(sound, against) \in Seq(SignalRecords)
            /\ Drawn(BreadthGate(sound, against), sound)
        BY <3>2, FilterEffect, FiltersDraw
      <4>2. Drawn(BreadthGate(sound, against), sub.cands)
        BY <3>2, <4>1 DEF Drawn
      <4> QED
        BY <3>2, <4>1, <4>2
    <3>4. Drawn(out, sub.cands)
      <4> HIDE DEF withTape
      <4>1. Drawn(EntryGate(withTape, agreed), withTape)
        BY <3>3, FiltersDraw
      <4>2. Drawn(EntryGate(withTape, agreed), sub.cands)
        BY <3>3, <4>1 DEF Drawn
      <4> QED
        BY <3>3, <4>2
    <3>5. sub' = [sub EXCEPT !.pc = "concentration", !.cands = out]
      BY <3>1
    <3> HIDE DEF out
    <3> QED
      BY <3>4, <3>5
  <2> QED
    BY <1>5, <1>8, <2>1
<1>11. CASE CheckConcentration
  <2>1. sub' = [sub EXCEPT !.pc = "exposure", !.cands = ConcentrationGate(rows, day, sub.cands)]
    BY <1>11 DEF CheckConcentration
  <2>2. Drawn(ConcentrationGate(rows, day, sub.cands), sub.cands)
    BY <1>1, FiltersDraw
  <2> QED
    BY <1>5, <1>8, <2>1, <2>2
<1>12. CASE CheckExposure
  <2>1. sub' = AfterGates(ExposureGate(rows, day, sub.cands))
    BY <1>12 DEF CheckExposure
  <2>2. Drawn(ExposureGate(rows, day, sub.cands), sub.cands)
    BY <1>1, FiltersDraw
  <2> QED
    BY <1>7, <1>8, <2>1, <2>2
<1>13. CASE GateFails
  <2>1. sub' = [sub EXCEPT !.pc = "exposure"] \/ sub' = AfterGates(sub.cands)
    BY <1>13 DEF GateFails
  <2>2. Drawn(sub.cands, sub.cands)
    BY DEF Drawn
  <2>3. Covered(rows, AfterGates(sub.cands)) /\ Covered(rows, [sub EXCEPT !.pc = "exposure"])
    BY <1>6, <1>7, <2>2
  <2> QED
    BY <1>8, <2>1, <2>3, Zenon
<1>14. CASE EndBatch
  BY <1>4, <1>8, <1>14 DEF EndBatch
<1> QED
  BY <1>9, <1>10, <1>11, <1>12, <1>13, <1>14

(* The booking steps: a hedge leg is reached only behind its booked        *)
(* primary.                                                                *)
LEMMA BookingsKeepCover ==
    ASSUME BookInv, SubInv, HedgeInv, HedgeHasPrimary,
           BookSignal \/ BookBatchHead \/ InsertHedge \/ SubscribeLiveQuote
    PROVE  HedgeInv' /\ HedgeHasPrimary'
<1> DEFINE s == Head(sub.cands)
<1>1. /\ sub \in Submissions /\ sub.cands \in Seq(SignalRecords) /\ Covered(rows, sub)
      /\ sub.pc \in {"subscribe", "hedge"} => sub.cands # <<>> /\ sub.combo <= Len(rows)
      /\ sub.pc = "hedge" => sub.hedge \in SignalRecords
      /\ sub.pc = "book" /\ sub.path # "batch" => sub.cands # <<>>
      /\ sub.combo \in 0..(Len(rows) + 1) /\ Len(rows) \in Nat
  BY DEF SubInv, Submissions, HedgeInv, BookInv
<1>2. sub.cands # <<>> =>
          /\ s \in SignalRecords
          /\ s.dir = "long" \/ (sub.path # "batch" /\ HasPrimary(rows, sub.combo, s.sym))
          /\ sub.rest # <<>> => s.dir = "long" /\ s.sym = Head(sub.rest).sym
  <2>1. ASSUME sub.cands # <<>> PROVE 1 \in DOMAIN sub.cands /\ s = sub.cands[1] /\ s \in SignalRecords
    BY <1>1, <2>1
  <2> HIDE DEF s
  <2> QED
    BY <1>1, <2>1 DEF Covered
<1>3. CASE rows' = rows
  <2>1. HedgeHasPrimary'
    BY <1>3 DEF HedgeHasPrimary
  <2>2. CASE BookSignal
    <3>1. sub' = NextSubmission(FALSE) /\ sub.pc = "book"
      <4>1. OpenTrade(rows, s, sub.combo, day) # rows
        <5>1. rows \in Seq(Rows)
          BY DEF BookInv
        <5>2. DOMAIN OpenTrade(rows, s, sub.combo, day) = 1..(Len(rows) + 1)
              /\ DOMAIN rows = 1..Len(rows)
          BY <5>1 DEF OpenTrade
        <5> QED
          BY <1>1, <5>2
      <4> QED
        BY <1>3, <2>2, <4>1 DEF BookSignal
    <3>2. sub.hedge = NoSignal
      BY <1>1, <3>1 DEF Covered
    <3> QED
      BY <1>3, <2>1, <3>1, <3>2, NextIsCovered DEF HedgeInv
  <2>3. CASE BookBatchHead
    <3> DEFINE rest == Tail(sub.cands)
    <3>1. sub.pc = "book" /\ sub.cands # <<>>
      BY <2>3 DEF BookBatchHead, BatchOver
    <3>2. sub' = [sub EXCEPT !.cands = rest]
      <4>1. \A h, c : OpenTrade(rows, h, c, day) # rows
        <5>1. rows \in Seq(Rows)
          BY DEF BookInv
        <5>2. DOMAIN rows = 1..Len(rows)
              /\ \A h, c : DOMAIN OpenTrade(rows, h, c, day) = 1..(Len(rows) + 1)
          BY <5>1 DEF OpenTrade
        <5> QED
          BY <1>1, <5>2
      <4> QED
        BY <1>3, <2>3, <4>1 DEF BookBatchHead
    <3>3. Drawn(rest, sub.cands)
      BY <1>1, <3>1, FiltersDraw
    <3> HIDE DEF rest
    <3>4. [sub EXCEPT !.cands = rest] = [sub EXCEPT !.pc = "book", !.cands = rest]
      BY <1>1, <3>1 DEF Submissions
    <3>5. Covered(rows, [sub EXCEPT !.pc = "book", !.cands = rest])
      BY <1>1, <3>1, <3>3, NarrowedIsCovered
    <3> QED
      BY <1>3, <2>1, <3>2, <3>4, <3>5 DEF HedgeInv
  <2>4. CASE InsertHedge
    <3>1. rows' = OpenTrade(rows, sub.hedge, sub.combo, day) /\ rows \in Seq(Rows)
      BY <2>4 DEF InsertHedge, BookInv
    <3>2. DOMAIN OpenTrade(rows, sub.hedge, sub.combo, day) = 1..(Len(rows) + 1)
          /\ DOMAIN rows = 1..Len(rows)
      BY <3>1 DEF OpenTrade
    <3> QED
      BY <1>1, <1>3, <3>1, <3>2
  <2>5. CASE SubscribeLiveQuote
    <3> DEFINE rest == Tail(sub.cands)
    <3>1. sub.pc = "subscribe" /\ sub.cands # <<>>
      BY <1>1, <2>5 DEF SubscribeLiveQuote
    <3>2. CASE sub.path # "batch"
      <4>1. sub' = NextSubmission(TRUE) /\ sub.hedge = NoSignal
        BY <1>1, <2>5, <3>2 DEF SubscribeLiveQuote, Covered
      <4> QED
        BY <1>3, <2>1, <3>1, <3>2, <4>1, NextIsCovered DEF HedgeInv
    <3>3. CASE sub.path = "batch" /\ sub.hedge # NoSignal
      <4>1. sub' = [sub EXCEPT !.pc = "hedge"]
        BY <2>5, <3>3 DEF SubscribeLiveQuote
      <4>2. /\ sub'.pc = "hedge" /\ sub'.path = sub.path /\ sub'.cands = sub.cands
            /\ sub'.rest = sub.rest /\ sub'.hedge = sub.hedge /\ sub'.combo = sub.combo
        BY <1>1, <4>1 DEF Submissions
      <4>3. Covered(rows, sub')
        BY <1>1, <4>2 DEF Covered
      <4> QED
        BY <1>3, <2>1, <4>3 DEF HedgeInv
    <3>4. CASE sub.path = "batch" /\ sub.hedge = NoSignal
      <4>1. sub' = [sub EXCEPT !.pc = "book", !.cands = rest, !.combo = NoCombo]
        BY <2>5, <3>4 DEF SubscribeLiveQuote
      <4>2. Drawn(rest, sub.cands)
        BY <1>1, <3>1, FiltersDraw
      <4> HIDE DEF rest
      <4>3. /\ sub'.pc = "book" /\ sub'.path = "batch" /\ sub'.cands = rest
            /\ sub'.rest = sub.rest /\ sub'.hedge = NoSignal
        BY <1>1, <3>4, <4>1 DEF Submissions
      <4>4. sub.rest = <<>> /\ \A k \in DOMAIN rest : rest[k].dir = "long"
        BY <1>1, <3>4, <4>2 DEF Covered, Drawn
      <4>5. Covered(rows, sub')
        BY <4>3, <4>4 DEF Covered
      <4> QED
        BY <1>3, <2>1, <4>5 DEF HedgeInv
    <3> QED
      BY <3>2, <3>3, <3>4
  <2> QED
    BY <2>2, <2>3, <2>4, <2>5
<1>4. CASE BookSignal /\ rows' # rows
  <2>1. /\ sub.pc = "book" /\ sub.path # "batch" /\ sub.cands # <<>>
        /\ rows' = OpenTrade(rows, s, sub.combo, day)
        /\ sub' = [sub EXCEPT !.pc = "subscribe"]
    BY <1>1, <1>4 DEF BookSignal
  <2>2. Grown(s, sub.combo)
    BY <1>1, <1>2, <2>1 DEF Grown
  <2>3. HedgeHasPrimary' /\ (s.dir = "long" => HasPrimary(rows', sub.combo, s.sym))
    BY <1>2, <2>1, <2>2, BookingKeepsPrimaries
  <2>4. Covered(rows', sub)
    <3>1. \A c, sym : HasPrimary(rows, c, sym) => HasPrimary(rows', c, sym)
      BY <2>2, PrimariesStay
    <3> QED
      BY <1>1, <3>1, CoveredStays
  <2>5. /\ sub'.pc = "subscribe" /\ sub'.path = sub.path /\ sub'.cands = sub.cands
        /\ sub'.rest = sub.rest /\ sub'.hedge = sub.hedge /\ sub'.combo = sub.combo
    BY <1>1, <2>1 DEF Submissions
  <2>6. sub.rest # <<>> => HasPrimary(rows', sub.combo, Head(sub.rest).sym)
    BY <1>2, <2>1, <2>3
  <2>7. Covered(rows', sub')
    BY <2>4, <2>5, <2>6 DEF Covered
  <2> QED
    BY <2>3, <2>7 DEF HedgeInv
<1>5. CASE BookBatchHead /\ rows' # rows
  <2> DEFINE combo == IF HedgeBatch THEN FreshCombo ELSE NoCombo
  <2>1. /\ sub.pc = "book" /\ sub.path = "batch" /\ sub.cands # <<>>
        /\ \E h \in HedgesFor(s) :
              /\ rows' = OpenTrade(rows, s, combo, day)
              /\ sub' = [sub EXCEPT !.pc = "subscribe", !.hedge = h, !.combo = combo]
    BY <1>5 DEF BookBatchHead, BatchOver
  <2>2. PICK h \in HedgesFor(s) :
              /\ rows' = OpenTrade(rows, s, combo, day)
              /\ sub' = [sub EXCEPT !.pc = "subscribe", !.hedge = h, !.combo = combo]
    BY <2>1
  <2>3. combo \in 0..(Len(rows) + 1)
    BY <1>1 DEF FreshCombo, NoCombo
  <2>4. s.dir = "long" /\ s \in SignalRecords
    BY <1>2, <2>1
  <2>5. h # NoSignal => h.sym = s.sym
    <3>1. CASE h \in {pair[2] : pair \in {q \in Spreads : q[1] = s}}
      BY <3>1, SpreadsAreDebitSpreads
    <3> QED
      BY <3>1 DEF HedgesFor
  <2> HIDE DEF combo, s
  <2>6. Grown(s, combo)
    BY <2>2, <2>3, <2>4 DEF Grown
  <2>7. HedgeHasPrimary' /\ HasPrimary(rows', combo, s.sym)
    BY <2>4, <2>6, BookingKeepsPrimaries
  <2>8. /\ sub'.pc = "subscribe" /\ sub'.path = "batch" /\ sub'.cands = sub.cands
        /\ sub'.rest = sub.rest /\ sub'.hedge = h /\ sub'.combo = combo
    BY <1>1, <2>1, <2>2 DEF Submissions
  <2>9. sub.rest = <<>> /\ \A k \in DOMAIN sub.cands : sub.cands[k].dir = "long"
    BY <1>1, <2>1 DEF Covered
  <2>10. Covered(rows', sub')
    BY <2>5, <2>7, <2>8, <2>9 DEF Covered
  <2> QED
    BY <2>7, <2>10 DEF HedgeInv
<1>6. CASE InsertHedge /\ rows' # rows
  <2>1. /\ sub.pc = "hedge" /\ rows' = OpenTrade(rows, sub.hedge, sub.combo, day)
        /\ sub' = [sub EXCEPT !.pc = "subscribe", !.hedge = NoSignal]
    BY <1>6 DEF InsertHedge
  <2>2. Grown(sub.hedge, sub.combo)
    BY <1>1, <2>1 DEF Grown
  <2>3. /\ sub.hedge # NoSignal
    BY <2>1 DEF SubInv
  <2>4. sub.path = "batch" /\ HasPrimary(rows, sub.combo, sub.hedge.sym)
    BY <1>1, <2>3 DEF Covered
  <2>5. HedgeHasPrimary'
    BY <2>2, <2>4, BookingKeepsPrimaries
  <2>6. /\ sub'.pc = "subscribe" /\ sub'.path = "batch" /\ sub'.cands = sub.cands
        /\ sub'.rest = sub.rest /\ sub'.hedge = NoSignal
    BY <1>1, <2>1, <2>4 DEF Submissions
  <2>7. sub.rest = <<>> /\ \A k \in DOMAIN sub.cands : sub.cands[k].dir = "long"
    BY <1>1, <2>4 DEF Covered
  <2>8. Covered(rows', sub')
    BY <2>6, <2>7 DEF Covered
  <2> QED
    BY <2>5, <2>8 DEF HedgeInv
<1> QED
  BY <1>3, <1>4, <1>5, <1>6 DEF SubscribeLiveQuote

(* No step books a hedge leg without its primary.                          *)
LEMMA PrimariesKept ==
    ASSUME OnlyBuyers, IInv, HedgeInv, HedgeHasPrimary, Next
    PROVE  HedgeInv' /\ HedgeHasPrimary'
<1>1. BookInv /\ SubInv /\ MonitorInv /\ Covered(rows, sub)
  BY DEF IInv, HedgeInv
<1>2. CASE rows' = rows /\ HedgeInv'
  BY <1>2 DEF HedgeHasPrimary
<1>3. CASE ScanStep
  <2>1. CASE SubmitSignals \/ SubmitExternalSignal \/ SubmitWithHedge \/ SubmitStrangle
    BY <1>2, <2>1, SubmissionsAreCovered
  <2>2. CASE CheckLockout \/ LockoutFails \/ QualityGates \/ CheckConcentration
             \/ CheckExposure \/ GateFails \/ EndBatch
    BY <1>1, <1>2, <2>2, GatesEffect, GatesKeepCover
  <2>3. CASE BookSignal \/ BookBatchHead \/ InsertHedge \/ SubscribeLiveQuote
    BY <1>1, <2>3, BookingsKeepCover
  <2> QED
    BY <1>3, <2>1, <2>2, <2>3 DEF ScanStep, SubStep
<1>4. CASE MonitorStep
  <2>1. sub' = sub
    BY <1>4, MonitorKeepsRows
  <2>2. CASE rows' = rows
    BY <1>2, <2>1, <2>2 DEF HedgeInv
  <2>3. CASE Save
    <3>1. PICK i \in Pending : Saved(i)
      BY <1>1, <2>3, SaveEffect
    <3>2. \A c, sym : HasPrimary(rows, c, sym) => HasPrimary(rows', c, sym)
      BY <1>1, <3>1, PrimariesStay
    <3>3. HedgeInv'
      BY <1>1, <2>1, <3>2, CoveredStays DEF HedgeInv
    <3>4. /\ DOMAIN rows' = DOMAIN rows /\ \A j \in DOMAIN rows : SameColumns(rows'[j], rows[j])
          /\ \A j \in DOMAIN rows : 1..(j - 1) \subseteq DOMAIN rows
      <4>1. Len(rows) \in Nat /\ DOMAIN rows = 1..Len(rows)
        BY <1>1 DEF BookInv
      <4> QED
        BY <3>1, <4>1 DEF Saved
    <3>5. HedgeHasPrimary'
      <4>1. ASSUME NEW j \in DOMAIN rows', rows'[j].trade.dir = "short"
            PROVE  \E l \in 1..(j - 1) : /\ rows'[l].combo = rows'[j].combo
                                        /\ rows'[l].sym = rows'[j].sym
                                        /\ rows'[l].trade.dir = "long"
        <5>1. rows[j].trade.dir = "short" /\ j \in DOMAIN rows
          BY <3>4, <4>1 DEF SameColumns
        <5>2. PICK l \in 1..(j - 1) : /\ rows[l].combo = rows[j].combo
                                     /\ rows[l].sym = rows[j].sym
                                     /\ rows[l].trade.dir = "long"
          BY <5>1 DEF HedgeHasPrimary
        <5>3. SameColumns(rows'[l], rows[l]) /\ SameColumns(rows'[j], rows[j])
          BY <3>4, <5>1
        <5> QED
          BY <5>2, <5>3 DEF SameColumns
      <4> QED
        BY <4>1 DEF HedgeHasPrimary
    <3> QED
      BY <3>3, <3>5
  <2> QED
    BY <1>4, <2>2, <2>3, MonitorKeepsRows
<1>5. CASE ClockStep
  <2>1. rows' = rows /\ (sub' = sub \/ sub' = IdleSub)
    BY <1>5 DEF ClockStep, PassCutoff, NextDay, Crash
  <2>2. Covered(rows, IdleSub)
    BY <1>1, NextIsCovered DEF HedgeInv
  <2> QED
    BY <1>1, <1>2, <2>1, <2>2 DEF HedgeInv
<1> QED
  BY <1>3, <1>4, <1>5, Steps

(* submit_with_hedge and the hedge legs of process_signals: a sold leg is  *)
(* never in the book without the bought leg it hedges, booked before it,   *)
(* under every gate, veto, crash and failing save; the strategies emit     *)
(* bought candidates and no strangles, whose legs are sold on purpose.     *)
THEOREM HedgesHavePrimaries ==
    ASSUME OnlyBuyers
    PROVE  Spec => []HedgeHasPrimary
<1>1. Init => HedgeInv /\ HedgeHasPrimary
  BY DEF Init, IdleSub, HedgeInv, Covered, HedgeHasPrimary
<1>2. IInv /\ HedgeInv /\ HedgeHasPrimary /\ [Next]_vars => HedgeInv' /\ HedgeHasPrimary'
  <2>1. HedgeInv /\ HedgeHasPrimary /\ UNCHANGED vars => HedgeInv' /\ HedgeHasPrimary'
    BY DEF vars, HedgeInv, HedgeHasPrimary
  <2> QED
    BY <2>1, PrimariesKept
<1> QED
  BY Invariance, <1>1, <1>2, PTL DEF Spec

(***************************************************************************)
(* One paper trade, from entry to exit.                                    *)
(***************************************************************************)

(* The strengthening the safety properties need: an open trade still holds *)
(* its whole quantity and has booked nothing, the entry premium is never   *)
(* zero, and the stop never lies beyond the target, open or closed.        *)
WholeWhileOpen ==
    trade.status = "open" => /\ trade.qty = 1
                             /\ trade.booked = 0

LevelsOrdered ==
    /\ trade.entry # 0
    /\ IF trade.dir = "short" THEN trade.t1 <= trade.sl ELSE trade.sl <= trade.t1

TradeInv == /\ TradeTypeOK
        /\ WholeWhileOpen
        /\ LevelsOrdered
        /\ OpenBetweenLevels
        /\ ArmedStopFollowsPeak
        /\ BookedMatchesReason

-------------------------------------------------------------------------------

SameButStop(t, u) ==
    /\ u.dir = t.dir       /\ u.entry = t.entry  /\ u.t1 = t.t1
    /\ u.status = t.status /\ u.qty = t.qty      /\ u.booked = t.booked
    /\ u.last = t.last     /\ u.reason = t.reason

(* The trailing stop changes the peak and the stop only, never loosens the *)
(* stop, never carries it past the target, and leaves an armed trade with  *)
(* its stop at the ratchet level or tighter.                               *)
LEMMA TrailingEffect ==
    ASSUME NEW t \in Trades, NEW p \in Int,
           IF t.dir = "short" THEN t.t1 <= t.sl ELSE t.sl <= t.t1
    PROVE  LET u == ApplyTrailing(t, p) IN
           /\ u \in Trades
           /\ SameButStop(t, u)
           /\ IF t.dir = "short" THEN u.sl <= t.sl /\ t.t1 <= u.sl
                                 ELSE t.sl <= u.sl /\ u.sl <= t.t1
           /\ TrailingEnabled /\ t.entry # 0 /\ Armed(u)
                => IF t.dir = "short" THEN u.sl <= RatchetLevel(u)
                                      ELSE u.sl >= RatchetLevel(u)
<1> DEFINE seen == [t EXCEPT !.peak = BestPrice(t, p)]
           tight == [seen EXCEPT !.sl = RatchetStop(seen)]
<1>1. BestPrice(t, p) \in Int
  BY LevelTypes
<1>2. seen \in Trades /\ seen.dir = t.dir /\ seen.sl = t.sl /\ seen.t1 = t.t1
  BY <1>1 DEF Trades
<1>3. RatchetLevel(seen) \in Int /\ RatchetStop(seen) \in Int
  <2> HIDE DEF seen
  <2> QED BY <1>2, LevelTypes
<1>4. CASE ~TrailingEnabled \/ t.entry = 0
  <2>1. ApplyTrailing(t, p) = t
    BY <1>4 DEF ApplyTrailing
  <2> QED
    BY <2>1, <1>4 DEF SameButStop, Trades
<1>5. CASE TrailingEnabled /\ t.entry # 0 /\ ~Armed(seen)
  <2>1. ApplyTrailing(t, p) = seen
    BY <1>5 DEF ApplyTrailing
  <2>2. SameButStop(t, seen)
    BY <1>1 DEF Trades, SameButStop
  <2> HIDE DEF seen
  <2> QED
    BY <2>1, <2>2, <1>2, <1>5 DEF Trades
<1>6. CASE TrailingEnabled /\ t.entry # 0 /\ Armed(seen)
  <2>1. ApplyTrailing(t, p) = tight
    BY <1>6 DEF ApplyTrailing
  <2>2. /\ tight \in Trades
        /\ tight.sl = RatchetStop(seen)
        /\ tight.peak = seen.peak
        /\ tight.dir = t.dir
        /\ tight.entry = seen.entry
        /\ tight.t1 = seen.t1
        /\ SameButStop(t, tight)
    BY <1>1, <1>2, <1>3 DEF Trades, SameButStop
  <2>3. IF t.dir = "short" THEN seen.t1 <= RatchetLevel(seen)
                           ELSE RatchetLevel(seen) <= seen.t1
    <3>1. Giveback(seen) \in Int /\ seen.peak \in Int /\ seen.t1 \in Int
      <4> HIDE DEF seen
      <4> QED BY <1>2, LevelTypes DEF Trades
    <3> HIDE DEF seen
    <3> QED
      BY <1>2, <3>1 DEF RatchetLevel, Lesser, Greater
  <2>4. IF t.dir = "short"
        THEN /\ RatchetStop(seen) <= t.sl /\ t.t1 <= RatchetStop(seen)
             /\ RatchetStop(seen) <= RatchetLevel(seen)
        ELSE /\ t.sl <= RatchetStop(seen) /\ RatchetStop(seen) <= t.t1
             /\ RatchetStop(seen) >= RatchetLevel(seen)
    <3> HIDE DEF seen
    <3> QED
      BY <1>2, <1>3, <2>3 DEF RatchetStop, Lesser, Greater, Trades
  <2>5. RatchetLevel(tight) = RatchetLevel(seen)
    BY <2>2, <1>2 DEF RatchetLevel, Giveback
  <2> HIDE DEF seen, tight
  <2> QED
    BY <2>1, <2>2, <2>4, <2>5, <1>2
<1> QED
  BY <1>4, <1>5, <1>6

-------------------------------------------------------------------------------

(* Booking a whole open position at premium q and finalising it.           *)
Exit(t, q, why) == Finalize(Book(t, 1, q), why)

(* c is the trade t after such an exit: nothing is left open, it realises  *)
(* exactly the points of the premium q, and nothing else has changed.      *)
Exited(t, q, why, c) ==
    /\ c \in Trades
    /\ c.status = "closed" /\ c.qty = 0 /\ c.reason = why
    /\ c.booked = Points(t, q)
    /\ c.realized = c.booked - ExitCost
    /\ c.dir = t.dir /\ c.entry = t.entry /\ c.last = t.last
    /\ c.sl = t.sl /\ c.t1 = t.t1 /\ c.peak = t.peak

(* Closing a whole, unbooked position leaves exactly that.                 *)
LEMMA CloseWhole ==
    ASSUME NEW t \in Trades, t.qty = 1, t.booked = 0,
           NEW q \in Int, NEW why \in Reasons
    PROVE  Exited(t, q, why, Exit(t, q, why))
<1> DEFINE b == [t EXCEPT !.booked = Points(t, q), !.qty = 0]
<1>1. Points(t, q) \in Int
  BY LevelTypes
<1>2. Book(t, 1, q) = b
  <2>1. Lesser(1, t.qty) = 1 /\ Greater(t.qty - 1, 0) = 0
    BY DEF Lesser, Greater
  <2>2. t.booked + 1 * Points(t, q) = Points(t, q)
    BY <1>1
  <2>3. ~(1 <= 0)
    OBVIOUS
  <2> HIDE DEF b
  <2>4. Book(t, 1, q) = [t EXCEPT !.booked = t.booked + 1 * Points(t, q), !.qty = 0]
    BY <2>1, <2>3, Zenon DEF Book
  <2> QED
    BY <2>2, <2>4, Zenon DEF b
<1>3. /\ b \in Trades
      /\ b.dir = t.dir /\ b.entry = t.entry /\ b.last = t.last
      /\ b.sl = t.sl /\ b.t1 = t.t1 /\ b.peak = t.peak
      /\ b.qty = 0 /\ b.booked = Points(t, q)
  BY <1>1 DEF Trades
<1> HIDE DEF b
<1>4. b.booked - ExitCost \in Int
  BY <1>1, <1>3, ExitEngineAssumption
<1>5. Finalize(b, why) \in Trades
  BY <1>3, <1>4 DEF Finalize, Trades, Statuses
<1> QED
  BY <1>2, <1>3, <1>4, <1>5 DEF Finalize, Trades, Exit, Exited

(* What the level checks of one tick may turn an open trade t into: it     *)
(* stays as it is strictly between its levels, or it closes once, for the  *)
(* points its exit reason stands for.                                      *)
Settled(t, p, squareOff, c) ==
    /\ c \in Trades
    /\ c.dir = t.dir /\ c.entry = t.entry /\ c.sl = t.sl /\ c.t1 = t.t1
    /\ c.peak = t.peak /\ c.last = p
    /\ \/ /\ c = t /\ ~squareOff
          /\ ~SlHit(t, p) /\ ~TargetHit(t, p)
       \/ /\ c.status = "closed" /\ c.qty = 0
          /\ c.realized = c.booked - ExitCost
          /\ \/ c.reason = "SL" /\ c.booked = Points(t, StopFill(t, p))
             \/ c.reason = "Target" /\ c.booked = Points(t, t.t1)
             \/ c.reason = "Time 15:20" /\ c.booked = Points(t, p)

(* CheckLevels settles every open trade already marked at its premium.     *)
LEMMA TradeLevelsEffect ==
    ASSUME NEW t \in Trades, NEW p \in Int, NEW squareOff \in BOOLEAN,
           t.status = "open", t.qty = 1, t.booked = 0, t.last = p
    PROVE  Settled(t, p, squareOff, CheckLevels(t, p, squareOff))
<1>1. StopFill(t, p) \in Int /\ t.t1 \in Int
  BY DEF StopFill, Lesser, Greater, Trades
<1>2. "SL" \in Reasons /\ "Target" \in Reasons /\ "Time 15:20" \in Reasons
  BY DEF Reasons
<1>3. CASE SlHit(t, p)
  <2>1. CheckLevels(t, p, squareOff) = Exit(t, StopFill(t, p), "SL")
    BY <1>3 DEF CheckLevels, Exit
  <2>2. Exited(t, StopFill(t, p), "SL", CheckLevels(t, p, squareOff))
    BY <2>1, <1>1, <1>2, CloseWhole
  <2> QED
    BY <2>2, <1>1 DEF Settled, Exited
<1>4. CASE ~SlHit(t, p) /\ TargetHit(t, p)
  <2>1. CheckLevels(t, p, squareOff) = Exit(t, t.t1, "Target")
    BY <1>4 DEF CheckLevels, Exit
  <2>2. Exited(t, t.t1, "Target", CheckLevels(t, p, squareOff))
    BY <2>1, <1>1, <1>2, CloseWhole
  <2> QED
    BY <2>2, <1>1 DEF Settled, Exited
<1>5. CASE ~SlHit(t, p) /\ ~TargetHit(t, p) /\ squareOff
  <2>1. CheckLevels(t, p, squareOff) = Exit(t, p, "Time 15:20")
    BY <1>5 DEF CheckLevels, Exit
  <2>2. Exited(t, p, "Time 15:20", CheckLevels(t, p, squareOff))
    BY <2>1, <1>2, CloseWhole
  <2> QED
    BY <2>2, <1>1 DEF Settled, Exited
<1>6. CASE ~SlHit(t, p) /\ ~TargetHit(t, p) /\ ~squareOff
  <2>1. CheckLevels(t, p, squareOff) = t
    BY <1>6 DEF CheckLevels
  <2> QED
    BY <2>1, <1>6 DEF Settled
<1> QED
  BY <1>3, <1>4, <1>5, <1>6

-------------------------------------------------------------------------------

(* A trade opened on any plan satisfies the invariant.                     *)
LEMMA TradeStarts == TradeInit => TradeInv
<1> SUFFICES ASSUME NEW plan \in Plans, trade = NewTrade(plan)
             PROVE  TradeInv
  BY DEF TradeInit
<1>1. /\ plan.dir \in Directions /\ plan.entry \in Nat /\ plan.entry > 0
      /\ plan.sl \in Nat /\ plan.t1 \in Nat
      /\ IF plan.dir = "short" THEN plan.t1 < plan.entry /\ plan.entry < plan.sl
                               ELSE plan.sl < plan.entry /\ plan.entry < plan.t1
  BY PaperTradeAssumption
<1>2. TradeTypeOK
  BY <1>1 DEF TradeTypeOK, NewTrade, Trades, Statuses, Reasons
<1>3. LevelsOrdered /\ OpenBetweenLevels
  BY <1>1 DEF LevelsOrdered, OpenBetweenLevels, NewTrade
<1>4. WholeWhileOpen /\ ArmedStopFollowsPeak /\ BookedMatchesReason
  BY DEF WholeWhileOpen, ArmedStopFollowsPeak, BookedMatchesReason, NewTrade
<1> QED
  BY <1>2, <1>3, <1>4 DEF TradeInv

(* What one tick or one square-off does to an open trade.                  *)
LEMMA TradeStepEffect ==
    ASSUME TradeInv, trade.status = "open", NEW p \in Premiums, NEW squareOff \in BOOLEAN,
           trade' = ApplyTick(trade, p, squareOff)
    PROVE  /\ TradeInv'
           /\ IF trade.dir = "short" THEN trade'.sl <= trade.sl /\ trade'.sl >= trade.t1
                                     ELSE trade'.sl >= trade.sl /\ trade'.sl <= trade.t1
<1> DEFINE marked == [trade EXCEPT !.last = p]
           trailed == IF squareOff THEN marked ELSE ApplyTrailing(marked, p)
<1>1. p \in Int
  BY PaperTradeAssumption
<1>2. /\ marked \in Trades /\ marked.last = p
      /\ marked.dir = trade.dir /\ marked.entry = trade.entry
      /\ marked.sl = trade.sl /\ marked.t1 = trade.t1
      /\ marked.peak = trade.peak /\ marked.status = "open"
      /\ marked.qty = 1 /\ marked.booked = 0
  BY <1>1 DEF TradeInv, TradeTypeOK, WholeWhileOpen, Trades
<1>3. trade' = CheckLevels(trailed, p, squareOff)
  BY DEF ApplyTick
<1>4. IF trade.dir = "short" THEN marked.t1 <= marked.sl ELSE marked.sl <= marked.t1
  BY <1>2 DEF TradeInv, LevelsOrdered
<1> HIDE DEF marked
<1>5. /\ trailed \in Trades /\ SameButStop(marked, trailed)
      /\ IF trade.dir = "short" THEN trailed.sl <= trade.sl /\ trade.t1 <= trailed.sl
                                ELSE trade.sl <= trailed.sl /\ trailed.sl <= trade.t1
      /\ ~squareOff /\ TrailingEnabled /\ trade.entry # 0 /\ Armed(trailed)
            => IF trade.dir = "short" THEN trailed.sl <= RatchetLevel(trailed)
                                      ELSE trailed.sl >= RatchetLevel(trailed)
  <2>1. CASE squareOff
    BY <2>1, <1>2, <1>4 DEF SameButStop, Trades
  <2>2. CASE ~squareOff
    BY <2>2, <1>1, <1>2, <1>4, TrailingEffect
  <2> QED
    BY <2>1, <2>2
<1>6. /\ trailed.status = "open" /\ trailed.qty = 1 /\ trailed.booked = 0
      /\ trailed.last = p /\ trailed.dir = trade.dir
      /\ trailed.entry = trade.entry /\ trailed.t1 = trade.t1
  BY <1>2, <1>5 DEF SameButStop
<1> HIDE DEF trailed
<1> DEFINE after == trade'
<1>7. Settled(trailed, p, squareOff, after)
  <2>1. trailed \in Trades
    BY <1>5
  <2> QED
    BY <2>1, <1>1, <1>3, <1>6, TradeLevelsEffect
<1>8. IF trade.dir = "short" THEN after.sl <= trade.sl /\ after.sl >= trade.t1
                             ELSE after.sl >= trade.sl /\ after.sl <= trade.t1
  BY <1>5, <1>7 DEF Settled, TradeInv, TradeTypeOK, Trades
<1>9. TradeTypeOK' /\ LevelsOrdered'
  BY <1>6, <1>7, <1>8 DEF Settled, TradeTypeOK, LevelsOrdered, TradeInv, Trades
<1>10. WholeWhileOpen'
  BY <1>6, <1>7 DEF Settled, WholeWhileOpen
<1>11. OpenBetweenLevels'
  <2> SUFFICES ASSUME after.status = "open"
               PROVE  OpenBetweenLevels'
    BY DEF OpenBetweenLevels
  <2>1. after = trailed /\ ~SlHit(trailed, p) /\ ~TargetHit(trailed, p)
    BY <1>7 DEF Settled
  <2> QED
    BY <2>1, <1>1, <1>5, <1>6 DEF OpenBetweenLevels, SlHit, TargetHit, Trades
<1>12. ArmedStopFollowsPeak'
  <2> SUFFICES ASSUME TrailingEnabled, after.status = "open", Armed(after),
                      after.peak # after.entry
               PROVE  ArmedStopFollowsPeak'
    BY DEF ArmedStopFollowsPeak
  <2>1. after = trailed /\ ~squareOff
    BY <1>7 DEF Settled
  <2>2. trade.entry # 0
    BY DEF TradeInv, LevelsOrdered
  <2> QED
    BY <2>1, <2>2, <1>5, <1>6 DEF ArmedStopFollowsPeak
<1>13. BookedMatchesReason'
  <2>1. CASE after.status = "open"
    BY <2>1 DEF BookedMatchesReason
  <2>2. CASE after.status # "open"
    <3>1. \A q \in Int : Points(after, q) = Points(trailed, q)
      BY <1>6, <1>7 DEF Settled, Points
    <3>2. /\ Points(trailed, StopFill(trailed, p)) <= Points(trailed, trailed.sl)
          /\ Points(trailed, StopFill(trailed, p)) <= Points(trailed, p)
      BY <1>1, <1>5 DEF Points, StopFill, Lesser, Greater, Trades
    <3>3. after.sl \in Int /\ after.t1 \in Int /\ after.last \in Int
      BY <1>7 DEF Settled, Trades
    <3> QED
      BY <2>2, <3>1, <3>2, <3>3, <1>6, <1>7 DEF Settled, BookedMatchesReason
  <2> QED
    BY <2>1, <2>2
<1> QED
  BY <1>8, <1>9, <1>10, <1>11, <1>12, <1>13 DEF TradeInv

-------------------------------------------------------------------------------

(* Every step of the trade: a closed one does not change, an open one      *)
(* keeps the invariant and only tightens its stop.                         *)
LEMMA TradeNextEffect ==
    ASSUME TradeInv, [TradeNext]_tradeVars
    PROVE  /\ TradeInv'
           /\ trade' # trade =>
                /\ trade.status = "open"
                /\ IF trade.dir = "short"
                   THEN trade'.sl <= trade.sl /\ trade'.sl >= trade.t1
                   ELSE trade'.sl >= trade.sl /\ trade'.sl <= trade.t1
<1>1. CASE UNCHANGED tradeVars
  BY <1>1 DEF tradeVars, TradeInv, TradeTypeOK, WholeWhileOpen, LevelsOrdered, OpenBetweenLevels,
              ArmedStopFollowsPeak, BookedMatchesReason
<1>2. CASE trade.status # "open" /\ TradeNext
  <2>1. trade' = trade
    BY <1>2 DEF TradeNext, Tick, SquareOff, ApplyTick
  <2> QED
    BY <2>1, <1>1 DEF tradeVars
<1>3. CASE trade.status = "open" /\ TradeNext
  <2>1. PICK p \in Premiums, squareOff \in BOOLEAN : trade' = ApplyTick(trade, p, squareOff)
    BY <1>3 DEF TradeNext, Tick, SquareOff
  <2> QED
    BY <2>1, <1>3, TradeStepEffect
<1> QED
  BY <1>1, <1>2, <1>3

(* The inductive invariant holds in every state of every trade.            *)
THEOREM TradeInvariance == TradeSpec => []TradeInv
<1>1. TradeInv /\ [TradeNext]_tradeVars => TradeInv'
  BY TradeNextEffect
<1> QED
  BY <1>1, TradeStarts, PTL DEF TradeSpec

(* Whatever the levels and the prices, the record a trade carries through  *)
(* apply_tick keeps its shape, and its quantity is the whole or nothing.   *)
THEOREM TradeTypeCorrect == TradeSpec => []TradeTypeOK
<1>1. TradeInv => TradeTypeOK
  BY DEF TradeInv
<1> QED
  BY <1>1, TradeInvariance, PTL

(* No sequence of ticks leaves a position open at a premium that should    *)
(* have closed it, wherever the ratchet has moved the stop.                *)
THEOREM OpenLiesBetweenLevels == TradeSpec => []OpenBetweenLevels
<1>1. TradeInv => OpenBetweenLevels
  BY DEF TradeInv
<1> QED
  BY <1>1, TradeInvariance, PTL

(* Once armed, the stop of an open trade stays within the giveback of the  *)
(* best premium seen.                                                      *)
THEOREM ArmedStopIsTight == TradeSpec => []ArmedStopFollowsPeak
<1>1. TradeInv => ArmedStopFollowsPeak
  BY DEF TradeInv
<1> QED
  BY <1>1, TradeInvariance, PTL

(* A closed trade has booked exactly what its exit reason promises.        *)
THEOREM BookingIsExact == TradeSpec => []BookedMatchesReason
<1>1. TradeInv => BookedMatchesReason
  BY DEF TradeInv
<1> QED
  BY <1>1, TradeInvariance, PTL

(* No step ever loosens a stop or carries it past the target.              *)
THEOREM StopsOnlyTighten == TradeSpec => StopOnlyTightens
<1> DEFINE Tighter == IF trade.dir = "short"
                      THEN trade'.sl <= trade.sl /\ trade'.sl >= trade.t1
                      ELSE trade'.sl >= trade.sl /\ trade'.sl <= trade.t1
<1>1. TradeInv /\ [TradeNext]_tradeVars => [Tighter]_tradeVars
  BY TradeNextEffect DEF tradeVars
<1> QED
  BY <1>1, TradeInvariance, PTL DEF TradeSpec, StopOnlyTightens

(* No step touches a trade once it is closed.                              *)
THEOREM ClosedIsFinal == TradeSpec => ClosedForGood
<1>1. TradeInv /\ [TradeNext]_tradeVars => [trade.status = "open"]_tradeVars
  BY TradeNextEffect DEF tradeVars
<1> QED
  BY <1>1, TradeInvariance, PTL DEF TradeSpec, ClosedForGood

===============================================================================
