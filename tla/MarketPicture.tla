----------------------------- MODULE MarketPicture -----------------------------
(***************************************************************************)
(* The snapshots of the market-context service (service._tick): from the   *)
(* last frame of each instrument to ticks, rows, features and the reading  *)
(* of the six axes.  The rows stay in the database from pass to pass and   *)
(* over night.                                                             *)
(***************************************************************************)
EXTENDS Features, AxisScores

CONSTANTS
    Moments,            \* what a snapshot may find, by name
    Lookback,           \* passes in BREADTH_THRUST_LOOKBACK_MIN
    MaxFailures,        \* bound: writes that fail, and vectors left unfinished
    MaxNight,           \* bound: nights
    NoPicture

(* A plan lists the stocks it streams, and None is no row of a table.      *)
ASSUME MarketPictureAssumption ==
    /\ {Lookback, MaxFailures, MaxNight} \subseteq Nat /\ NoPicture \notin DOMAIN Moments
    /\ \A n \in DOMAIN Moments :
          LET plan == Moments[n].plan
          IN  /\ plan[3] \in Seq(ToSet(plan[3]))
              /\ plan[3] # <<>> => Breadth(Changes(NormaliseMessage(Moments[n].frames), plan), Len(plan[3])) # None

VARIABLES
    newestRows,         \* the newest rows of each table, or None
    breadthPoints,      \* mc_breadth over the lookback, oldest first
    counted,            \* the moment whose stocks the newest row of mc_breadth counts
    failures,
    picture             \* the last snapshot: what it found and how it read it

pictureVars == <<newestRows, breadthPoints, counted, failures, picture>>

PictureInit ==
    /\ newestRows = [t \in Tables |-> None]
    /\ breadthPoints = <<>> /\ counted = NoPicture /\ failures = 0 /\ picture = NoPicture

(* A write that fails, if any, and how many fields the builder comes to.   *)
Failing == Tables \cup {"nothing"}
Built == 0..Len(Fields)
Faults(failing, built) == (IF failing = "nothing" THEN 0 ELSE 1) + (IF built = Len(Fields) THEN 0 ELSE 1)

MomentNames == DOMAIN Moments

LastTicks == [n \in MomentNames |-> NormaliseMessage(Moments[n].frames)]
Collected == [n \in MomentNames |-> [d \in 0..MaxNight |-> CollectAll(LastTicks[n], Moments[n].plan, d)]]
VixRows == {None} \cup {VixRow(LastTicks[n]) : n \in MomentNames}
OfBars(m, ticks, vix) == [trend |-> TrendAndVol(m, ticks, vix), liquidity |-> Liquidity(m), volume |-> Traded(m)]
FromBars == [n \in MomentNames |-> [vix \in VixRows |-> OfBars(Moments[n], LastTicks[n], vix)]]

(* collect_all, then the features, then the engine.                        *)
Thrusts(rows, failing) ==
    IF "breadth" \in Written(rows, failing) THEN Newest(Append(breadthPoints, rows["breadth"].advancing), Lookback)
    ELSE breadthPoints

FeaturesOf(n, stored, recent, built) == Build(FromBars[n][stored["vix"]], stored, recent, Moments[n].outage, built)
Reads(m, fv) == [axis \in Axes |-> Reading(axis, fv, m.held[axis], m.dwell, m.history)]

Take(n, failing, built, rows, stored, recent) ==
    /\ newestRows' = stored /\ breadthPoints' = recent
    /\ counted' = IF "breadth" \in Written(rows, failing) THEN n ELSE counted
    /\ \E fv \in {FeaturesOf(n, stored, recent, built)} :
          picture' = [moment |-> n, failing |-> failing, reads |-> Reads(Moments[n], fv), missing |-> fv.missing,
                      quality |-> fv.quality,
                      dispersion |-> IF failing = "sector" THEN None ELSE SectorDispersion(rows["sector"])]

TakePicture(day) ==
    /\ picture = NoPicture
    /\ \E n \in MomentNames, failing \in Failing, built \in Built :
        /\ failures' = failures + Faults(failing, built)
        /\ failures' <= MaxFailures
        /\ \E rows \in {Collected[n][day]} :
              Take(n, failing, built, rows, Stored(newestRows, rows, failing), Thrusts(rows, failing))

MinutePasses ==
    picture # NoPicture /\ picture' = NoPicture /\ UNCHANGED <<newestRows, breadthPoints, counted, failures>>

(* The lookback of the next session finds nothing of this one.             *)
NightPasses == breadthPoints' = <<>> /\ picture' = NoPicture /\ UNCHANGED <<newestRows, counted, failures>>

-------------------------------------------------------------------------------
(* Properties.                                                             *)

Ahead(changes) == Cardinality({i \in DOMAIN changes : changes[i].chg >= MinMove})
Behind(changes) == Cardinality({i \in DOMAIN changes : changes[i].chg <= -MinMove})

LeansAs(label, up, down) ==
    /\ label \in {"STRONG_POSITIVE", "POSITIVE"} => up > down /\ up + down >= MinNames
    /\ label \in {"STRONG_NEGATIVE", "NEGATIVE"} => down > up /\ up + down >= MinNames
    /\ up + down < MinNames => label = Unknown

SaysBreadth(label, ticks, plan) ==
    LeansAs(label, Ahead(Changes(ticks, plan)), Behind(Changes(ticks, plan)))

(* The label a snapshot's classifier reads off the newest row of           *)
(* mc_breadth, whatever its age, leans to the side that more stocks had    *)
(* moved to when they were counted last, and is UNKNOWN when too few had   *)
(* or none ever were.  They were counted in this snapshot unless its plan  *)
(* streams no stocks or the write of the row failed: then the row before   *)
(* stays in force (builder.py:473).  This is the classifier's reading; the *)
(* tracker of RegimeEngine decides what is published, and holds its label  *)
(* on UNKNOWN.                                                             *)
BreadthIsOfTheLastCount ==
    picture # NoPicture =>
        LET label == picture.reads["breadth"].label
        IN  /\ IF counted = NoPicture THEN label = Unknown
               ELSE SaysBreadth(label, LastTicks[counted], Moments[counted].plan)
            /\ Moments[picture.moment].plan[3] # <<>> /\ picture.failing # "breadth" => counted = picture.moment

===============================================================================
