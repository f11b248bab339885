----------------------------- MODULE MCUpstoxToken -----------------------------
(***************************************************************************)
(* Three processes around three o'clock of two nights, with two failures   *)
(* or crashes in each slot.                                                *)
(***************************************************************************)
EXTENDS UpstoxToken

CONSTANTS context, collector, strategy, free

MCProcs == {context, collector, strategy}

===============================================================================
