-------------------------------- MODULE MCGates --------------------------------
(***************************************************************************)
(* One trading container, two switches, and markets and candidates on both *)
(* sides of every threshold of the gates.                                  *)
(***************************************************************************)
EXTENDS GateSwitches

trader == "iv-percentile"
keys == {PmgKey, BreadthKey}
env == [p \in {trader} |-> [k \in keys |-> IF k = BreadthKey THEN "hard" ELSE Absent]]

Call(name, rank, iv, hv, spot, strike) ==
    [name |-> name, side |-> "CE", dir |-> "long", skips |-> FALSE, rank |-> rank,
     iv |-> iv, hv |-> hv, spot |-> spot, strike |-> strike]

Fair == Call("SBIN", 35, 30, 30, 1000, 1025)
Dear == Call("SBIN", 36, 30, 30, 1000, 1000)
Rich == Call("TCS", None, 31, 30, 1000, 1000)
Far == Call("TCS", 10, None, 30, 1000, 1026)
Blind == Call("INFY", None, 20, 0, None, 1000)
batches ==
    {<<Fair, Dear>>, <<Rich, Far>>, <<Blind, [Far EXCEPT !.side = "PUT"]>>,
     <<[Dear EXCEPT !.dir = "short"], [Rich EXCEPT !.skips = TRUE]>>,
     <<[Dear EXCEPT !.side = "X"], [Fair EXCEPT !.spot = 0]>>}

sector == [n \in {"SBIN", "TCS", "INFY"} |-> IF n = "SBIN" THEN "banks"
                                             ELSE IF n = "TCS" THEN "it" ELSE None]
(* The opening and the latest spot of each name, and one of the day before. *)
Tape(sbin, tcs, infy) ==
    {[name |-> n, day |-> 2, at |-> 1, price |-> 1000] : n \in {"SBIN", "TCS", "INFY"}}
    \cup {[name |-> "SBIN", day |-> 1, at |-> 2, price |-> 500],
          [name |-> "SBIN", day |-> 2, at |-> 2, price |-> sbin],
          [name |-> "TCS", day |-> 2, at |-> 2, price |-> tcs],
          [name |-> "INFY", day |-> 2, at |-> 2, price |-> infy]}

Market(snapshot, spots, composite) ==
    [snapshot |-> snapshot, spots |-> spots, composite |-> composite]
markets ==
    {Market(None, {}, None),
     Market([callOi |-> 0, putOi |-> 5], Tape(1003, 1002, 1004),
            [grade |-> "A", score |-> 45, direction |-> None]),
     Market([callOi |-> 1000, putOi |-> 549], Tape(997, 996, 1001),
            [grade |-> "WEAK", score |-> 90, direction |-> "CE"]),
     Market([callOi |-> 1000, putOi |-> 1501], Tape(997, 1003, 1003),
            [grade |-> "B", score |-> 50, direction |-> "PE"])}
===============================================================================
