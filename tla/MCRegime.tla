------------------------------- MODULE MCRegime -------------------------------
(***************************************************************************)
(* Small instances of RegimeEngine: per axis the feature vectors on both   *)
(* sides of each bar, inside its band, and without inputs.                 *)
(***************************************************************************)
EXTENDS RegimeEngine

MCReadings == [
    trend         |-> [er : {None, 10, 25}, score : {-40, 40}]
                        \cup {[er |-> 40, score |-> 0], [er |-> None, score |-> None]},
    volatility    |-> [pctile : {20, 30, 70, 97}, ratio : {None}]
                        \cup [pctile : {None}, ratio : {None, 120, 220}],
    liquidity     |-> [spread : {None, 20, 50, 70, 80, 95}],
    participation |-> [volume : {None, 50, 150}, trades : {None, 100}],
    positioning   |-> [nifty : {None, "LONG_BUILDUP", "NEUTRAL"},
                       banknifty : {Unknown, "SHORT_BUILDUP", "LONG_BUILDUP"}],
    breadth       |-> [advancing : {None, 20, 40, 50, 60, 80}]]

===============================================================================
