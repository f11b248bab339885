----------------------------- MODULE RegimeEngine -----------------------------
(***************************************************************************)
(* The regime engine of market_context/regime: each snapshot classifies    *)
(* the features of the moment, folds the reading into the tracker of its   *)
(* axis (hysteresis.py) and appends a row to mc_regime (engine.py).  A     *)
(* restart starts warm from today's last row.  The six trackers share      *)
(* nothing but the row, so one behaviour follows one axis, any of the six. *)
(* Minutes are counted only as far as they matter: a tracker is "young"    *)
(* for MinDwell minutes.                                                   *)
(***************************************************************************)
EXTENDS RegimeAxes, Sequences

CONSTANTS
    Readings,           \* per axis, the feature vectors it may meet
    MinDwell, ConfirmationCount, ConfirmationWindow,
    MaxFaults           \* bound: restarts, failed reads and failed writes

ASSUME RegimeAssumption ==
    /\ DOMAIN Readings = Axes
    /\ MinDwell \in Nat \ {0}
    /\ ConfirmationWindow \in Nat /\ ConfirmationCount \in 1..ConfirmationWindow
    /\ MaxFaults \in Nat

VARIABLES
    axis,               \* the axis this behaviour follows
    fv,                 \* what the feature builder would find now
    warm,               \* _warm_started, FALSE in a process just started
    tracker,            \* the AxisTracker
    due,                \* a snapshot interval has passed
    row,                \* today's newest row of mc_regime, and whether it is today's
    faults

vars == <<axis, fv, warm, tracker, due, row, faults>>

States == StatesOf[axis]
Fresh == [state |-> Unknown, dwell |-> 0, seen |-> <<>>]
NoRow == [state |-> Unknown, today |-> FALSE]

Init ==
    /\ axis \in Axes
    /\ fv \in Readings[axis]
    /\ warm = FALSE /\ tracker = Fresh /\ due = TRUE
    /\ row = NoRow /\ faults = 0

Fault == faults < MaxFaults /\ faults' = faults + 1

-------------------------------------------------------------------------------
(* AxisTracker.update.  Only the last ConfirmationWindow readings count,   *)
(* the present one among them.                                             *)

Window(t, raw) == Append(t.seen, raw)

Remember(t, raw) ==
    LET all == Window(t, raw)
    IN  IF Len(all) < ConfirmationWindow THEN all ELSE Tail(all)

Confirmed(t, raw) ==
    Len(SelectSeq(Window(t, raw), LAMBDA r : r = raw)) >= ConfirmationCount

(* No reading, the first one, the label again, a rival that is too seldom, *)
(* a rival that comes too soon, and a rival that wins.                     *)
Verdict(t, raw) ==
    IF raw = Unknown THEN "blind"
    ELSE IF t.state = Unknown THEN "adopt"
    ELSE IF raw = t.state THEN "same"
    ELSE IF ~Confirmed(t, raw) THEN "ambiguous"
    ELSE IF t.dwell < MinDwell THEN "young"
    ELSE "flip"

(* Mutant: the dwell of the outgoing label is not asked for.               *)
UpdateMutant(t, raw) ==
    [state |-> IF Verdict(t, raw) \in {"adopt", "flip", "young"} THEN raw ELSE t.state,
     dwell |-> IF Verdict(t, raw) \in {"adopt", "flip", "young"} THEN 0 ELSE t.dwell,
     seen  |-> Remember(t, raw)]

Update(t, raw) ==
    LET wins == Verdict(t, raw) \in {"adopt", "flip"}
    IN  [state |-> IF wins THEN raw ELSE t.state,
         dwell |-> IF wins THEN 0 ELSE t.dwell,
         seen  |-> Remember(t, raw)]

Published(t, raw) ==
    IF Verdict(t, raw) = "ambiguous" THEN Transitioning ELSE Update(t, raw).state

-------------------------------------------------------------------------------
(* RegimeEngine.run.  A warm start adopts whatever label today's last row  *)
(* shows; the row may be unreadable, and then the start is cold for good.  *)

(* Mutant: the row of a prior session is adopted as well.                  *)
WarmedMutant == [Fresh EXCEPT !.state = row.state]

Warmed ==
    IF row.today /\ row.state # Unknown THEN [Fresh EXCEPT !.state = row.state] ELSE Fresh


Start == IF warm THEN tracker ELSE Warmed

Row(state) == [state |-> state, today |-> TRUE]

(* One snapshot in which everything works.                                 *)
Snapshot ==
    /\ due
    /\ LET raw == Classify(axis, fv, Start.state)
       IN  tracker' = Update(Start, raw) /\ row' = Row(Published(Start, raw))
    /\ warm' = TRUE /\ due' = FALSE
    /\ UNCHANGED <<axis, fv, faults>>

(* The last row cannot be read, the classifier raises, or the new row      *)
(* cannot be written.                                                      *)
SnapshotFails ==
    /\ due /\ Fault
    /\ \E t \in {Start} \cup (IF warm THEN {} ELSE {Fresh}) :
       \E raw \in {Unknown, Classify(axis, fv, t.state)} :
          /\ tracker' = Update(t, raw)
          /\ row' \in {row, Row(Published(t, raw))}
    /\ warm' = TRUE /\ due' = FALSE
    /\ UNCHANGED <<axis, fv>>

(* The features cannot be built or stored: the run ends after the warm     *)
(* start, and no tracker sees a reading.                                   *)
FeaturesFail ==
    /\ due /\ Fault
    /\ tracker' \in {Start} \cup (IF warm THEN {} ELSE {Fresh})
    /\ warm' = TRUE /\ due' = FALSE
    /\ UNCHANGED <<axis, fv, row>>

Restart ==
    /\ Fault
    /\ warm' = FALSE /\ tracker' = Fresh /\ due' = TRUE
    /\ UNCHANGED <<axis, fv, row>>

-------------------------------------------------------------------------------

(* dwell_minutes: since is None until a label has been adopted.            *)
MinutePasses ==
    /\ tracker' = [tracker EXCEPT !.dwell =
                     IF tracker.state # Unknown /\ @ < MinDwell THEN @ + 1 ELSE @]
    /\ due' = TRUE
    /\ UNCHANGED <<axis, fv, warm, row, faults>>

(* The trackers of a running process know nothing of a new day.            *)
Midnight ==
    /\ row' = [row EXCEPT !.today = FALSE]
    /\ UNCHANGED <<axis, fv, warm, tracker, due, faults>>

MarketMoves ==
    /\ fv' \in Readings[axis] \ {fv}
    /\ UNCHANGED <<axis, warm, tracker, due, row, faults>>

Next ==
    \/ Snapshot \/ SnapshotFails \/ FeaturesFail \/ Restart
    \/ MinutePasses \/ Midnight \/ MarketMoves

(* Time passes and the loop of the service comes round to its snapshot.    *)
Spec ==
    /\ Init /\ [][Next]_vars
    /\ WF_vars(Snapshot) /\ WF_vars(MinutePasses)

-------------------------------------------------------------------------------

TypeOK ==
    /\ axis \in Axes /\ fv \in Readings[axis]
    /\ {warm, due, row.today} \subseteq BOOLEAN
    /\ tracker.state \in States \cup {Transitioning, Unknown}
    /\ tracker.dwell \in 0..MinDwell
    /\ Len(tracker.seen) < ConfirmationWindow
    /\ \A i \in DOMAIN tracker.seen : tracker.seen[i] \in States \cup {Unknown}
    /\ row.state \in States \cup {Transitioning, Unknown}
    /\ faults \in 0..MaxFaults

Labels == (UNION {StatesOf[a] : a \in Axes}) \cup {Transitioning}

Steady == INSTANCE SteadyLabel WITH
    NoLabel <- Unknown,
    label <- tracker.state, held <- tracker.dwell

(* Whatever the readings, restarts and failures are, a label an axis has   *)
(* adopted is held for the minimum dwell (hysteresis.py, "MIN_DWELL":      *)
(* the outgoing state must have been held), and a restart earns no credit  *)
(* (engine.py, "dwell restarts").                                          *)
LabelIsSteady == Steady!Spec

(* A restart within the day does not flip the label consumers see, and a   *)
(* start on a new day takes nothing over (warm_start).                     *)
RestartKeepsTheLabelOfTheDay ==
    [][~warm /\ warm' /\ faults' = faults =>
          row'.state \in IF row.today /\ row.state # Unknown
                         THEN {row.state, Transitioning}
                         ELSE {Classify(axis, fv, Unknown)}]_vars

(* When the market stands still the label settles on what the classifier   *)
(* makes of it, also on a threshold: the asymmetric bands do not chatter   *)
(* (axes.py, "ASYMMETRIC BANDS").                                          *)
Settled ==
    LET raw == Classify(axis, fv, tracker.state)
    IN  raw # Unknown => tracker.state = raw /\ row.state = raw

Settles == <>[][UNCHANGED fv]_fv => <>[]Settled

===============================================================================
