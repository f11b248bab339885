----------------------------- MODULE MCPaperTrade -----------------------------
(***************************************************************************)
(* Small instance of PaperTrade: one bought option and one written option  *)
(* with the stop and target multiples the IV-percentile strategy uses, and *)
(* premiums on a grid that lands on, between and far beyond every level.   *)
(***************************************************************************)
EXTENDS PaperTrade

MCPlans ==
    { [dir |-> "long",  entry |-> 100, sl |-> 30,  t1 |-> 130],
      [dir |-> "long",  entry |-> 100, sl |-> 60,  t1 |-> 200],
      [dir |-> "short", entry |-> 100, sl |-> 150, t1 |-> 50] }

MCPremiums == { 10 * k : k \in 1..22 }

===============================================================================
