----------------------------- MODULE DomeTracking -----------------------------
(***************************************************************************)
(* ReportGate behind a real dome: a dome that turns at most at the rate    *)
(* the gate is configured for, and a sensor ring that now and then         *)
(* misreads the angle.  It states what the gate is for: a misread must not *)
(* shift the continuous angle by a turn.                                   *)
(***************************************************************************)
EXTENDS ReportGate

CONSTANTS
  Apart,            \* good reports between two misreads
  MaxAngle          \* bound: how far the dome turns either way

ASSUME ApartAssumption == Apart \in Nat
ASSUME AngleAssumption == MaxAngle \in Nat

VARIABLES
  truth,            \* the continuous angle of the dome
  clean             \* good reports since the last misread, at most Apart

domeVars == <<vars, truth, clean>>

\* How far the reported angle moves in dt: reports read in one cycle were sent
\* one interval apart all the same, and the angle skips up to Wrap across 0.
Reach(dt, crosses) ==
  MaxRate * (IF dt = 0 THEN 1 ELSE dt) + (IF crosses THEN Wrap ELSE 0)

TruthStep(dt) ==
  \E step \in -Reach(dt, TRUE)..Reach(dt, TRUE) :
    /\ Magnitude(step) <= Reach(dt, CrossesZero(truth % Turn, step))
    /\ truth' = truth + step
    /\ Magnitude(truth') <= MaxAngle
    /\ arrived = 0 => step = 0      \* the angle is counted from the first report

DomeInit ==
  /\ Init
  /\ truth \in Degrees /\ clean = Apart

\* The ring reads the angle that the dome has.
GoodReport(dt) ==
  /\ TruthStep(dt)
  /\ HandlePositionReport(dt, truth' % Turn)
  /\ clean' = IF clean < Apart THEN clean + 1 ELSE clean

\* The ring reads any other angle.  The first report is good: nothing could
\* tell a misread from it.
Misread(dt) ==
  /\ clean = Apart /\ arrived > 0
  /\ TruthStep(dt)
  /\ \E d \in Degrees \ {truth' % Turn} : HandlePositionReport(dt, d)
  /\ clean' = 0

DomeNext == \E dt \in Gaps : GoodReport(dt) \/ Misread(dt)

DomeSpec == DomeInit /\ [][DomeNext]_domeVars

\* What lets the gate tell a misread from motion: it is on, eight of the steps
\* that it lets pass do not make a turn, misreads are at least two good reports
\* apart, and it waits for three disagreements.
Distinguishable ==
  /\ MaxRate > 0 /\ MinDt >= 1 /\ Apart >= 2 /\ ResyncAfter >= 3
  /\ \A dt \in Gaps : 8 * AllowedStep(dt, TRUE) < Turn

-----------------------------------------------------------------------------
\* After two good reports the continuous angle is the true one (up to the turn
\* the dome started in): no misread, held, rejected, accepted or confirmed
\* together with a real report, has shifted it.
AngleIsTrue ==
  clean >= 2 /\ arrived > 0 /\ held = NoReport => tracker.unwrapped = truth

\* Good reports in a row are never held for long: the dome that the gate is
\* configured for is not resynced.
NeverResynced == resyncCount = 0
===============================================================================
