----------------------------- MODULE RegimeProofs -----------------------------
(***************************************************************************)
(* Proofs about the regime engine, for every dwell, every confirmation     *)
(* window and every set of readings an axis may meet.                      *)
(***************************************************************************)
EXTENDS RegimeEngine, SequenceTheorems, TLAPS

Trackers == [state : States \cup {Transitioning, Unknown}, dwell : 0..MinDwell,
             seen : Seq(States \cup {Unknown})]

(* The strengthening: the fields of the tracker are typed together, its    *)
(* memory is shorter than the window, and a process that has not started   *)
(* warm yet has forgotten its label and its credit.                        *)
TrackerInv == tracker \in Trackers /\ Len(tracker.seen) < ConfirmationWindow
RowInv == row \in [state : States \cup {Transitioning, Unknown}, today : BOOLEAN]
FlagsInv == warm \in BOOLEAN /\ due \in BOOLEAN
CountInv == axis \in Axes /\ fv \in Readings[axis] /\ faults \in 0..MaxFaults
ColdInv == ~warm => tracker = Fresh

IInv == TrackerInv /\ RowInv /\ FlagsInv /\ CountInv /\ ColdInv

-------------------------------------------------------------------------------

(* Every classifier answers with a state of its own axis or with nothing,  *)
(* whatever its inputs and its present label are.                          *)
LEMMA ClassifyType ==
    ASSUME NEW a \in Axes, NEW v, NEW current
    PROVE  Classify(a, v, current) \in StatesOf[a] \cup {Unknown}
<1>1. CASE a = "trend"
  BY <1>1 DEF Classify, TrendState, StatesOf
<1>2. CASE a = "volatility"
  BY <1>2 DEF Classify, VolatilityState, StatesOf
<1>3. CASE a = "liquidity"
  BY <1>3 DEF Classify, LiquidityState, StatesOf
<1>4. CASE a = "participation"
  BY <1>4 DEF Classify, ParticipationState, StatesOf
<1>5. CASE a = "positioning"
  BY <1>5 DEF Classify, PositioningState, StatesOf
<1>6. CASE a = "breadth"
  BY <1>6 DEF Classify, BreadthState, StatesOf
<1> QED
  BY <1>1, <1>2, <1>3, <1>4, <1>5, <1>6 DEF Axes


(* What Update makes of a tracker: a reading that is none keeps the label, *)
(* and a label gives way only to another one, after its dwell.             *)
LEMMA UpdateEffect ==
    ASSUME axis \in Axes,
           NEW t \in Trackers, Len(t.seen) < ConfirmationWindow,
           NEW raw \in States \cup {Unknown}
    PROVE  LET u == Update(t, raw) IN
           /\ u \in Trackers /\ Len(u.seen) < ConfirmationWindow
           /\ \/ u.state = t.state /\ u.dwell = t.dwell
              \/ t.state = Unknown /\ u.state = raw /\ u.state # Unknown /\ u.dwell = 0
              \/ /\ t.state # Unknown /\ t.dwell = MinDwell
                 /\ u.state = raw /\ raw \notin {Unknown, t.state} /\ u.dwell = 0
<1> DEFINE all == Append(t.seen, raw)
           u == Update(t, raw)
<1>1. /\ t.state \in States \cup {Transitioning, Unknown}
      /\ t.dwell \in 0..MinDwell /\ t.seen \in Seq(States \cup {Unknown})
  BY DEF Trackers
<1>2. all \in Seq(States \cup {Unknown}) /\ Len(all) = Len(t.seen) + 1
  BY <1>1
<1>3. /\ Remember(t, raw) \in Seq(States \cup {Unknown})
      /\ Len(Remember(t, raw)) < ConfirmationWindow
  <2>1. CASE Len(all) < ConfirmationWindow
    BY <1>2, <2>1 DEF Remember, Window
  <2>2. CASE ~(Len(all) < ConfirmationWindow)
    <3> HIDE DEF all
    <3>1. /\ Tail(all) \in Seq(States \cup {Unknown})
          /\ Len(Tail(all)) = Len(all) - 1
      <4>1. all # <<>>
        BY <1>1, <1>2
      <4> QED
        BY <1>2, <4>1, HeadTailProperties
    <3> QED
      BY <1>1, <1>2, <2>2, <3>1, RegimeAssumption DEF Remember, Window
  <2> QED
    BY <2>1, <2>2
<1>4. /\ u.state = IF Verdict(t, raw) \in {"adopt", "flip"} THEN raw ELSE t.state
      /\ u.dwell = IF Verdict(t, raw) \in {"adopt", "flip"} THEN 0 ELSE t.dwell
      /\ u.seen = Remember(t, raw)
      /\ u = [state |-> u.state, dwell |-> u.dwell, seen |-> u.seen]
  BY DEF Update
<1>5. /\ Verdict(t, raw) = "adopt" => t.state = Unknown /\ raw # Unknown
      /\ Verdict(t, raw) = "flip" => /\ t.state # Unknown /\ raw \notin {Unknown, t.state}
                                     /\ ~(t.dwell < MinDwell)
  BY DEF Verdict
<1> HIDE DEF u
<1>6. MinDwell \in Nat /\ 0 \in 0..MinDwell
  BY RegimeAssumption
<1>7. u \in Trackers /\ Len(u.seen) < ConfirmationWindow
  BY <1>1, <1>3, <1>4, <1>6 DEF Trackers
<1>8. ~(t.dwell < MinDwell) => t.dwell = MinDwell
  BY <1>1, <1>6
<1> QED
  BY <1>4, <1>5, <1>7, <1>8 DEF u


(* The tracker a snapshot starts from: the one there is, or one that shows *)
(* at most the label of today's row and has earned nothing.                *)
LEMMA StartEffect ==
    ASSUME IInv, NEW t \in {Start} \cup (IF warm THEN {} ELSE {Fresh})
    PROVE  /\ t \in Trackers /\ Len(t.seen) < ConfirmationWindow
           /\ warm => t = tracker
           /\ ~warm => t.dwell = 0 /\ tracker.state = Unknown /\ tracker.dwell = 0
<1>1. MinDwell \in Nat /\ ConfirmationWindow \in Nat \ {0}
  BY RegimeAssumption
<1>2. /\ Fresh \in Trackers /\ Fresh.dwell = 0 /\ Fresh.state = Unknown
      /\ Len(Fresh.seen) < ConfirmationWindow
  BY <1>1 DEF Fresh, Trackers
<1>3. CASE warm
  BY <1>3 DEF Start, IInv, TrackerInv
<1>4. CASE ~warm
  <2>1. t = Fresh \/ t = [Fresh EXCEPT !.state = row.state]
    BY <1>4 DEF Start, Warmed
  <2>2. /\ [Fresh EXCEPT !.state = row.state] \in Trackers
        /\ [Fresh EXCEPT !.state = row.state].dwell = 0
        /\ Len([Fresh EXCEPT !.state = row.state].seen) < ConfirmationWindow
    <3>1. row.state \in States \cup {Transitioning, Unknown}
      BY DEF IInv, RowInv
    <3> QED
      BY <1>1, <1>2, <3>1 DEF Fresh, Trackers
  <2>3. tracker = Fresh
    BY <1>4 DEF IInv, ColdInv
  <2> QED
    BY <1>1, <1>2, <1>4, <2>1, <2>2, <2>3
<1> QED
  BY <1>3, <1>4

(* One snapshot, from such a tracker and with any reading of the axis: the *)
(* tracker keeps its type, and the label it shows outside takes a step of  *)
(* the abstract specification or none.                                     *)
LEMMA SnapshotEffect ==
    ASSUME IInv, NEW t \in {Start} \cup (IF warm THEN {} ELSE {Fresh}),
           NEW raw \in States \cup {Unknown}, tracker' = Update(t, raw)
    PROVE  /\ tracker' \in Trackers /\ Len(tracker'.seen) < ConfirmationWindow
           /\ Published(t, raw) \in States \cup {Transitioning, Unknown}
           /\ Steady!Adopt \/ Steady!Change \/ UNCHANGED <<tracker.state, tracker.dwell>>
<1>1. axis \in Axes
  BY DEF IInv, CountInv
<1>2. /\ t \in Trackers /\ Len(t.seen) < ConfirmationWindow
      /\ warm => t = tracker
      /\ ~warm => t.dwell = 0 /\ tracker.state = Unknown /\ tracker.dwell = 0
  BY StartEffect
<1> DEFINE u == Update(t, raw)
<1>3. /\ u \in Trackers /\ Len(u.seen) < ConfirmationWindow
      /\ \/ u.state = t.state /\ u.dwell = t.dwell
         \/ t.state = Unknown /\ u.state = raw /\ u.state # Unknown /\ u.dwell = 0
         \/ /\ t.state # Unknown /\ t.dwell = MinDwell
            /\ u.state = raw /\ raw \notin {Unknown, t.state} /\ u.dwell = 0
  BY <1>1, <1>2, UpdateEffect
<1>4. Published(t, raw) \in States \cup {Transitioning, Unknown}
  BY <1>3 DEF Published, Trackers
<1> HIDE DEF u
<1>5. States \cup {Transitioning} \subseteq Labels
  BY <1>1 DEF Labels, States
<1>6. u.state \in Labels \/ u.state = Unknown
  BY <1>3, <1>5 DEF Trackers
<1>7. Steady!Adopt \/ Steady!Change \/ (u.state = tracker.state /\ u.dwell = tracker.dwell)
  <2>1. tracker' = u
    BY DEF u
  <2>2. CASE ~warm
    <3>1. u.dwell = 0
      BY <1>2, <1>3, <2>2, RegimeAssumption
    <3> QED
      BY <1>2, <1>6, <2>1, <2>2, <3>1 DEF Steady!Adopt
  <2>3. CASE warm /\ tracker.state = Unknown /\ u.state # Unknown
    BY <1>2, <1>3, <1>6, <2>1, <2>3 DEF Steady!Adopt
  <2>4. CASE warm /\ ~(tracker.state = Unknown /\ u.state # Unknown)
    BY <1>2, <1>3, <1>6, <2>1, <2>4 DEF Steady!Change
  <2> QED
    BY <2>2, <2>3, <2>4
<1> QED
  BY <1>3, <1>4, <1>7 DEF u


-------------------------------------------------------------------------------

(* A process that has just started has no row of its own and no label.     *)
LEMMA InitInvariant == Init => IInv
<1> SUFFICES ASSUME Init PROVE IInv
  OBVIOUS
<1>1. MinDwell \in Nat /\ ConfirmationWindow \in Nat \ {0} /\ MaxFaults \in Nat
  BY RegimeAssumption
<1>2. TrackerInv
  BY <1>1 DEF Init, TrackerInv, Fresh, Trackers
<1>3. RowInv
  BY DEF Init, RowInv, NoRow
<1>4. FlagsInv
  BY DEF Init, FlagsInv
<1>5. CountInv
  BY <1>1 DEF Init, CountInv
<1>6. ColdInv
  BY DEF Init, ColdInv
<1> QED
  BY <1>2, <1>3, <1>4, <1>5, <1>6 DEF IInv

(* Every step keeps the invariant, and the label the consumers see changes *)
(* as the abstract specification allows.                                   *)
LEMMA NextEffect ==
    ASSUME IInv, [Next]_vars
    PROVE  IInv' /\ [Steady!Next]_<<tracker.state, tracker.dwell>>
<1> USE DEF IInv
<1>0. /\ MinDwell \in Nat \ {0} /\ ConfirmationWindow \in Nat \ {0} /\ MaxFaults \in Nat
      /\ axis \in Axes
  BY RegimeAssumption DEF CountInv
<1>1. CASE UNCHANGED vars
  BY <1>1 DEF vars, TrackerInv, RowInv, FlagsInv, CountInv, ColdInv, States, Trackers
<1>2. ASSUME NEW t \in {Start} \cup (IF warm THEN {} ELSE {Fresh}),
             NEW raw \in States \cup {Unknown},
             tracker' = Update(t, raw), row' \in {row, Row(Published(t, raw))},
             warm' = TRUE, due' = FALSE, UNCHANGED <<axis, fv>>,
             faults' = faults \/ (faults < MaxFaults /\ faults' = faults + 1)
      PROVE  IInv' /\ [Steady!Next]_<<tracker.state, tracker.dwell>>
  <2>1. /\ tracker' \in Trackers /\ Len(tracker'.seen) < ConfirmationWindow
        /\ Published(t, raw) \in States \cup {Transitioning, Unknown}
        /\ Steady!Adopt \/ Steady!Change \/ UNCHANGED <<tracker.state, tracker.dwell>>
    BY <1>2, SnapshotEffect
  <2>2. TrackerInv'
    BY <1>2, <2>1 DEF TrackerInv, Trackers, States
  <2>3. RowInv'
    <3>1. States' = States
      BY <1>2 DEF States
    <3>2. Row(Published(t, raw)) \in [state : States \cup {Transitioning, Unknown},
                                      today : BOOLEAN]
      BY <2>1, TRUE \in BOOLEAN DEF Row
    <3> QED
      BY <1>2, <3>1, <3>2 DEF RowInv
  <2>4. FlagsInv' /\ ColdInv'
    BY <1>2 DEF FlagsInv, ColdInv
  <2>5. CountInv'
    BY <1>0, <1>2 DEF CountInv
  <2> QED
    BY <2>1, <2>2, <2>3, <2>4, <2>5 DEF Steady!Next
<1>3. CASE Snapshot
  <2> DEFINE raw == Classify(axis, fv, Start.state)
  <2>1. /\ Start \in {Start} \cup (IF warm THEN {} ELSE {Fresh})
        /\ raw \in States \cup {Unknown}
    BY <1>0, ClassifyType DEF States
  <2>2. /\ tracker' = Update(Start, raw) /\ row' = Row(Published(Start, raw))
        /\ warm' = TRUE /\ due' = FALSE /\ UNCHANGED <<axis, fv, faults>>
    BY <1>3 DEF Snapshot
  <2> HIDE DEF raw
  <2> QED
    BY <1>2, <2>1, <2>2
<1>4. CASE SnapshotFails
  <2>1. PICK t \in {Start} \cup (IF warm THEN {} ELSE {Fresh}) :
        \E raw \in {Unknown, Classify(axis, fv, t.state)} :
           tracker' = Update(t, raw) /\ row' \in {row, Row(Published(t, raw))}
    BY <1>4 DEF SnapshotFails
  <2>2. PICK raw \in {Unknown, Classify(axis, fv, t.state)} :
           tracker' = Update(t, raw) /\ row' \in {row, Row(Published(t, raw))}
    BY <2>1
  <2>3. /\ faults < MaxFaults /\ faults' = faults + 1
        /\ warm' = TRUE /\ due' = FALSE /\ UNCHANGED <<axis, fv>>
    BY <1>4 DEF SnapshotFails, Fault
  <2>4. raw \in States \cup {Unknown}
    BY <1>0, <2>2, ClassifyType DEF States
  <2> QED
    BY <1>2, <2>2, <2>3, <2>4
<1>9. CASE FeaturesFail
  <2>1. PICK t \in {Start} \cup (IF warm THEN {} ELSE {Fresh}) : tracker' = t
    BY <1>9 DEF FeaturesFail
  <2>2. /\ t \in Trackers /\ Len(t.seen) < ConfirmationWindow
        /\ warm => t = tracker
        /\ ~warm => t.dwell = 0 /\ tracker.state = Unknown /\ tracker.dwell = 0
    BY StartEffect
  <2>3. /\ faults < MaxFaults /\ faults' = faults + 1
        /\ warm' = TRUE /\ due' = FALSE /\ UNCHANGED <<axis, fv, row>>
    BY <1>9 DEF FeaturesFail, Fault
  <2>4. TrackerInv'
    BY <2>1, <2>2, <2>3 DEF TrackerInv, Trackers, States
  <2>5. RowInv' /\ FlagsInv' /\ ColdInv' /\ CountInv'
    <3>1. RowInv' /\ FlagsInv' /\ ColdInv'
      BY <2>3 DEF RowInv, FlagsInv, ColdInv, States
    <3>2. CountInv'
      BY <1>0, <2>3 DEF CountInv
    <3> QED
      BY <3>1, <3>2
  <2>6. Steady!Adopt \/ UNCHANGED <<tracker.state, tracker.dwell>>
    <3>1. t.state \in Labels \/ t.state = Unknown
      BY <1>0, <2>2 DEF Trackers, Labels, States
    <3> QED
      BY <2>1, <2>2, <3>1 DEF Steady!Adopt
  <2> QED
    BY <2>4, <2>5, <2>6 DEF Steady!Next
<1>5. CASE Restart
  <2>1. /\ tracker' = Fresh /\ tracker'.state = Unknown /\ tracker'.dwell = 0
        /\ Len(tracker'.seen) = 0
    BY <1>5 DEF Restart, Fresh
  <2>2. Steady!Forget
    BY <2>1 DEF Steady!Forget
  <2>3. TrackerInv'
    BY <1>0, <1>5, <2>1 DEF Restart, TrackerInv, Trackers, Fresh, States
  <2>4. RowInv'
    BY <1>5 DEF Restart, RowInv, States
  <2>5. FlagsInv' /\ ColdInv'
    BY <1>5 DEF Restart, FlagsInv, ColdInv, Fresh
  <2>6. CountInv'
    BY <1>0, <1>5 DEF Restart, Fault, CountInv
  <2> QED
    BY <2>2, <2>3, <2>4, <2>5, <2>6 DEF Steady!Next
<1>6. CASE MinutePasses
  <2>1. tracker \in Trackers /\ UNCHANGED <<axis, fv, warm, row, faults>> /\ due' = TRUE
    BY <1>6 DEF MinutePasses, TrackerInv
  <2>2. RowInv' /\ FlagsInv' /\ CountInv'
    BY <2>1 DEF RowInv, FlagsInv, CountInv, States
  <2>3. CASE tracker.state # Unknown /\ tracker.dwell < MinDwell
    <3>1. tracker' = [tracker EXCEPT !.dwell = tracker.dwell + 1]
      BY <1>6, <2>3 DEF MinutePasses
    <3>2. /\ tracker' \in Trackers /\ tracker'.seen = tracker.seen
          /\ tracker'.state = tracker.state /\ tracker'.dwell = tracker.dwell + 1
      BY <1>0, <2>1, <2>3, <3>1 DEF Trackers
    <3>3. Steady!Minute
      BY <2>3, <3>2 DEF Steady!Minute
    <3>4. warm
      BY <2>3 DEF ColdInv, Fresh
    <3>5. TrackerInv'
      BY <2>1, <3>2 DEF TrackerInv, Trackers, States
    <3>6. ColdInv'
      BY <2>1, <3>4 DEF ColdInv
    <3> QED
      BY <2>2, <3>3, <3>5, <3>6 DEF Steady!Next
  <2>4. CASE ~(tracker.state # Unknown /\ tracker.dwell < MinDwell)
    <3>1. tracker' = tracker
      BY <1>6, <2>1, <2>4 DEF MinutePasses, Trackers
    <3>2. TrackerInv' /\ ColdInv'
      BY <2>1, <3>1 DEF TrackerInv, ColdInv, Trackers, States, Fresh
    <3> QED
      BY <2>2, <3>1, <3>2
  <2> QED
    BY <2>3, <2>4
<1>7. CASE Midnight
  <2>1. RowInv'
    BY <1>7 DEF Midnight, RowInv, States
  <2> QED
    BY <1>7, <2>1 DEF Midnight, TrackerInv, FlagsInv, CountInv, ColdInv, States, Trackers
<1>8. CASE MarketMoves
  BY <1>8 DEF MarketMoves, TrackerInv, RowInv, FlagsInv, CountInv, ColdInv, States, Trackers
<1> QED
  BY <1>1, <1>3, <1>4, <1>5, <1>6, <1>7, <1>8, <1>9 DEF Next

(* The inductive invariant holds in every state of every behaviour.        *)
THEOREM Invariance == Spec => []IInv
<1>1. IInv /\ [Next]_vars => IInv'
  BY NextEffect
<1> QED
  BY <1>1, InitInvariant, PTL DEF Spec

(* The engine keeps its types: the window never holds more readings than   *)
(* it should, and every label is one of its axis.                          *)
THEOREM TypeCorrect == Spec => []TypeOK
<1>1. IInv => TypeOK
  BY DEF IInv, TrackerInv, RowInv, FlagsInv, CountInv, TypeOK, Trackers
<1> QED
  BY <1>1, Invariance, PTL

(* Whatever the readings, restarts and failed reads and writes are, a      *)
(* label that has been adopted is held for its minimum dwell: every step   *)
(* of the engine is a step of the abstract label, or none.                 *)
THEOREM EngineIsSteady == Spec => LabelIsSteady
<1>1. Init => Steady!Init
  BY DEF Init, Fresh, Steady!Init
<1>2. IInv /\ [Next]_vars => [Steady!Next]_<<tracker.state, tracker.dwell>>
  BY NextEffect
<1> QED
  BY <1>1, <1>2, Invariance, PTL DEF Spec, LabelIsSteady, Steady!Spec

(* The first snapshot after a restart that meets no failure shows the      *)
(* label of today's row, or a transition, and takes nothing over from an   *)
(* earlier day.                                                            *)
THEOREM RestartIsWarm == Spec => RestartKeepsTheLabelOfTheDay
<1> DEFINE Kept == ~warm /\ warm' /\ faults' = faults =>
                      row'.state \in IF row.today /\ row.state # Unknown
                                     THEN {row.state, Transitioning}
                                     ELSE {Classify(axis, fv, Unknown)}
<1>1. ASSUME IInv, [Next]_vars
      PROVE  [Kept]_vars
  <2> SUFFICES ASSUME Next, ~warm, warm', faults' = faults
               PROVE  row'.state \in IF row.today /\ row.state # Unknown
                                     THEN {row.state, Transitioning}
                                     ELSE {Classify(axis, fv, Unknown)}
    BY <1>1
  <2>1. Snapshot
    <3>1. ~Fault
      BY <1>1, RegimeAssumption DEF IInv, CountInv, Fault
    <3> QED
      BY <3>1, Zenon DEF Next, SnapshotFails, FeaturesFail, Restart, MinutePasses, Midnight, MarketMoves
  <2> DEFINE t == Warmed
             raw == Classify(axis, fv, t.state)
  <2>2. row'.state = Published(t, raw)
    BY <2>1 DEF Snapshot, Start, Row
  <2>3. /\ t.dwell = 0
        /\ t.state = IF row.today /\ row.state # Unknown THEN row.state ELSE Unknown
    BY DEF Warmed, Fresh
  <2>4. 0 < MinDwell
    BY RegimeAssumption
  <2> HIDE DEF t
  <2>5. CASE t.state = Unknown
    <3>1. Published(t, raw) = raw
      BY <2>5 DEF Published, Verdict, Update
    <3> QED
      BY <2>2, <2>3, <2>5, <3>1
  <2>6. CASE t.state # Unknown
    <3> HIDE DEF raw
    <3>1. Published(t, raw) \in {t.state, Transitioning}
      BY <2>3, <2>4, <2>6 DEF Published, Verdict, Update
    <3> QED
      BY <2>2, <2>3, <2>6, <3>1
  <2> QED
    BY <2>5, <2>6
<1> QED
  BY <1>1, Invariance, PTL DEF Spec, RestartKeepsTheLabelOfTheDay

===============================================================================
