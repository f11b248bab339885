------------------------------ MODULE SteadyLabel ------------------------------
(***************************************************************************)
(* What a published regime label promises: once adopted it is held for     *)
(* MinDwell minutes before it gives way to another one.  A restart forgets *)
(* the label and the credit it has earned.                                 *)
(***************************************************************************)
EXTENDS Integers

CONSTANTS Labels, NoLabel, MinDwell

VARIABLES label, held       \* held stops counting at MinDwell minutes

Init == label = NoLabel /\ held = 0

Minute ==
    /\ held < MinDwell
    /\ held' = held + 1
    /\ UNCHANGED label

Adopt ==
    /\ label = NoLabel
    /\ label' \in Labels
    /\ held' = 0

Change ==
    /\ label # NoLabel /\ held = MinDwell
    /\ label' \in Labels \ {label}
    /\ held' = 0

Forget == label' = NoLabel /\ held' = 0

Next == Minute \/ Adopt \/ Change \/ Forget

Spec == Init /\ [][Next]_<<label, held>>

===============================================================================
