---------------------------- MODULE MCIVCollector ----------------------------
(* One index with a calendar of its own and one stock on the shared calendar; *)
(* one contract expires on the first day and one on the second, so that the   *)
(* one tracked on the first day has lapsed on the second.                       *)
EXTENDS IVCollector

MCIndices == {"NIFTY"}
MCStocks == {"RELIANCE"}
MCExpiries == {1, 2}

(* The bulk deals in time or late; the bhavcopy at once, late or never.       *)
MCPublications ==
  {[block |-> 1035, bulk |-> b, vix |-> 0, bhav |-> d] :
     b \in {1545, 1830}, d \in {1900, 2200, None}}
=============================================================================
