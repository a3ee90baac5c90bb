------------------------------ MODULE ReportGate ------------------------------
(***************************************************************************)
(* The way of a position report from the serial reader to the telemetry:   *)
(* RoamadomeControl::handlePositionReport with the                         *)
(* ReportPlausibilityGate that keeps implausible reports back and the      *)
(* PositionTracker that unwraps the accepted ones.  All of it runs on the  *)
(* read path of the controller manager thread, so a report is one step.    *)
(*                                                                         *)
(* Time is counted in report intervals and angles in steps of a circle of  *)
(* Turn; the velocity (a regression over doubles) is left out.  The        *)
(* counters do not wrap: at one report per cycle 2^32 reports take years.  *)
(*                                                                         *)
(* A definition Name_Variant, placed before Name, is Name with a plausible *)
(* mistake in it; no other definition uses it.                             *)
(***************************************************************************)
EXTENDS Integers, Sequences

CONSTANTS
  Turn,             \* steps of the circle (360)
  MaxRate,          \* max_deg_s: steps per unit of time, 0 disables the gate
  MinDt,            \* min_dt_s: the report interval
  Slack,            \* slack_deg
  Wrap,             \* wrap_allowance_deg
  ResyncAfter,      \* kResyncAfter
  Gaps,             \* the times between two reports
  NoReport,         \* an absent report
  MaxReports        \* bound: reports per activation

ASSUME TurnAssumption == Turn \in Nat \ {0}
ASSUME RateAssumption == MaxRate \in Nat /\ MinDt \in Nat /\ Slack \in Nat /\ Wrap \in Nat
ASSUME ResyncAssumption == ResyncAfter \in Nat \ {0}
ASSUME GapsAssumption == Gaps \subseteq Nat
ASSUME NoReportAssumption ==
  NoReport \notin [number : Nat, time : Nat, degrees : 0..(Turn - 1)]
ASSUME ReportsBoundAssumption == MaxReports \in Nat

VARIABLES
  last, held, disagreements,                            \* the gate
  heldCount, rejectedCount, confirmedCount, resyncCount,
  diagnostics,      \* diagnosticsState_: what ~/diagnostics publishes of them
  tracker,          \* have_last_, last_deg_ and unwrapped_deg_
  telemetrySequence,
  now,              \* the clock
  arrived,          \* position_reports: how many reports have arrived
  delivered         \* the reports that the last arrival delivered

gateVars  == <<last, held, disagreements>>
countVars == <<heldCount, rejectedCount, confirmedCount, resyncCount>>
vars == <<gateVars, countVars, diagnostics, tracker, telemetrySequence,
          now, arrived, delivered>>

Degrees == 0..(Turn - 1)
\* number is the report's place in the order of arrival; the code has no such
\* field.
Report  == [number : Nat, time : Nat, degrees : Degrees]

-----------------------------------------------------------------------------
(* PositionTracker.                                                         *)

\* Shortest signed step on the circle.
ShortestDelta_NotWrapped(from, to) == to - from
ShortestDelta(from, to) == ((to - from + (Turn \div 2)) % Turn) - (Turn \div 2)

NoTrack == [have |-> FALSE, degrees |-> 0, unwrapped |-> 0]

TrackerUpdate(track, r) ==
  [have |-> TRUE, degrees |-> r.degrees,
   unwrapped |-> IF track.have
                 THEN track.unwrapped + ShortestDelta(track.degrees, r.degrees)
                 ELSE r.degrees]

-----------------------------------------------------------------------------
(* ReportPlausibilityGate.                                                  *)

Enabled == MaxRate > 0

CrossesZero(from, delta) == from + delta < 0 \/ from + delta >= Turn

AllowedStep_NoMinimum(dt, crosses) ==
  MaxRate * dt + Slack + (IF crosses THEN Wrap ELSE 0)
AllowedStep(dt, crosses) ==
  MaxRate * (IF dt < MinDt THEN MinDt ELSE dt) + Slack + (IF crosses THEN Wrap ELSE 0)

Magnitude(x) == IF x < 0 THEN -x ELSE x

Plausible(from, to) ==
  LET delta == ShortestDelta(from.degrees, to.degrees)
  IN  Magnitude(delta) <= AllowedStep(to.time - from.time, CrossesZero(from.degrees, delta))

Init ==
  /\ last = NoReport /\ held = NoReport /\ disagreements = 0
  /\ heldCount = 0 /\ rejectedCount = 0 /\ confirmedCount = 0 /\ resyncCount = 0
  /\ diagnostics = [held |-> 0, rejected |-> 0, confirmed |-> 0, resyncs |-> 0]
  /\ tracker = NoTrack /\ telemetrySequence = 0
  /\ now = 0 /\ arrived = 0 /\ delivered = <<>>

\* applyAcceptedReport, for one report or for a confirmed one and its witness.
ApplyOne(r) ==
  /\ delivered' = <<r>>
  /\ tracker' = TrackerUpdate(tracker, r)
  /\ telemetrySequence' = telemetrySequence + 1

ApplyTwo(h, r) ==
  /\ delivered' = <<h, r>>
  /\ tracker' = TrackerUpdate(TrackerUpdate(tracker, h), r)
  /\ telemetrySequence' = telemetrySequence + 2

ApplyNone ==
  /\ delivered' = <<>>
  /\ UNCHANGED <<tracker, telemetrySequence>>

\* accept(): the newest accepted report is the history from now on.
Accept(r) == last' = r /\ disagreements' = 0

\* drop(), if a report is held.
Drop_Uncounted == held' = NoReport /\ UNCHANGED rejectedCount
Drop ==
  /\ held' = NoReport
  /\ rejectedCount' = IF held = NoReport THEN rejectedCount ELSE rejectedCount + 1

\* The counters that handlePositionReport copies after a decision.
Publish ==
  diagnostics' = [held |-> heldCount', rejected |-> rejectedCount',
                  confirmed |-> confirmedCount', resyncs |-> resyncCount']

\* No history, or no gate: accepted at once.
AcceptFirst(r) ==
  /\ ~Enabled \/ last = NoReport
  /\ Accept(r) /\ ApplyOne(r)
  /\ UNCHANGED <<held, countVars, diagnostics>>

\* On the track of the history; a held report was a glitch.
AcceptPlausible(r) ==
  /\ Enabled /\ last # NoReport /\ Plausible(last, r)
  /\ Drop /\ Accept(r) /\ ApplyOne(r)
  /\ UNCHANGED <<heldCount, confirmedCount, resyncCount>>
  /\ IF held = NoReport THEN UNCHANGED diagnostics ELSE Publish

\* The new report agrees with the held one and not with the history.
Confirms(r) ==
  /\ Enabled /\ last # NoReport /\ held # NoReport
  /\ ~Plausible(last, r) /\ Plausible(held, r)

\* Both are accepted, the older one first.
ConfirmHeld_Swapped(r) ==
  /\ Confirms(r)
  /\ held' = NoReport /\ confirmedCount' = confirmedCount + 1
  /\ Accept(held) /\ ApplyTwo(r, held)
  /\ UNCHANGED <<heldCount, rejectedCount, resyncCount>>
  /\ Publish
ConfirmHeld(r) ==
  /\ Confirms(r)
  /\ held' = NoReport /\ confirmedCount' = confirmedCount + 1
  /\ Accept(r) /\ ApplyTwo(held, r)
  /\ UNCHANGED <<heldCount, rejectedCount, resyncCount>>
  /\ Publish

\* The new report agrees with nothing.
Disagrees(r) ==
  /\ Enabled /\ last # NoReport
  /\ ~Plausible(last, r)
  /\ held # NoReport => ~Plausible(held, r)

\* It is one too many: the history is what is wrong.
Resync(r) ==
  /\ Disagrees(r) /\ disagreements + 1 >= ResyncAfter
  /\ Drop /\ resyncCount' = resyncCount + 1
  /\ Accept(r) /\ ApplyOne(r)
  /\ UNCHANGED <<heldCount, confirmedCount>>
  /\ Publish

\* It is held until the next one.
Hold(r) ==
  /\ Disagrees(r) /\ disagreements + 1 < ResyncAfter
  /\ disagreements' = disagreements + 1 /\ heldCount' = heldCount + 1
  /\ held' = r
  /\ rejectedCount' = IF held = NoReport THEN rejectedCount ELSE rejectedCount + 1
  /\ UNCHANGED <<last, confirmedCount, resyncCount>> /\ ApplyNone
  /\ Publish

-----------------------------------------------------------------------------
\* A whole turn is a reading too.
Readings == 0..Turn

NewReport_Raw(dt, d) ==
  [number |-> arrived + 1, time |-> now + dt, degrees |-> d]
NewReport(dt, d) ==
  [number |-> arrived + 1, time |-> now + dt, degrees |-> d % Turn]

\* handlePositionReport, dt after the report before it.
HandlePositionReport(dt, d) ==
  /\ arrived < MaxReports
  /\ arrived' = arrived + 1 /\ now' = now + dt
  /\ LET r == NewReport(dt, d)
     IN  AcceptFirst(r) \/ AcceptPlausible(r) \/ ConfirmHeld(r) \/ Resync(r) \/ Hold(r)

\* on_activate: history, counters, tracker and sequence start anew.
OnActivate_HeldKept ==
  /\ last' = NoReport /\ disagreements' = 0 /\ UNCHANGED held
  /\ heldCount' = 0 /\ rejectedCount' = 0 /\ confirmedCount' = 0 /\ resyncCount' = 0
  /\ diagnostics' = [held |-> 0, rejected |-> 0, confirmed |-> 0, resyncs |-> 0]
  /\ tracker' = NoTrack /\ telemetrySequence' = 0
  /\ now' = 0 /\ arrived' = 0 /\ delivered' = <<>>
OnActivate_TrackerKept ==
  /\ last' = NoReport /\ held' = NoReport /\ disagreements' = 0
  /\ heldCount' = 0 /\ rejectedCount' = 0 /\ confirmedCount' = 0 /\ resyncCount' = 0
  /\ diagnostics' = [held |-> 0, rejected |-> 0, confirmed |-> 0, resyncs |-> 0]
  /\ telemetrySequence' = 0 /\ UNCHANGED tracker
  /\ now' = 0 /\ arrived' = 0 /\ delivered' = <<>>
OnActivate ==
  /\ last' = NoReport /\ held' = NoReport /\ disagreements' = 0
  /\ heldCount' = 0 /\ rejectedCount' = 0 /\ confirmedCount' = 0 /\ resyncCount' = 0
  /\ diagnostics' = [held |-> 0, rejected |-> 0, confirmed |-> 0, resyncs |-> 0]
  /\ tracker' = NoTrack /\ telemetrySequence' = 0
  /\ now' = 0 /\ arrived' = 0 /\ delivered' = <<>>

Next == OnActivate \/ \E dt \in Gaps, d \in Readings : HandlePositionReport(dt, d)

Spec == Init /\ [][Next]_vars

-----------------------------------------------------------------------------
(* Properties.                                                              *)

Counts == [held : Nat, rejected : Nat, confirmed : Nat, resyncs : Nat]

\* Every variable has a value of its type.
TypeOK ==
  /\ last \in Report \cup {NoReport} /\ held \in Report \cup {NoReport}
  /\ disagreements \in Nat
  /\ heldCount \in Nat /\ rejectedCount \in Nat
  /\ confirmedCount \in Nat /\ resyncCount \in Nat
  /\ diagnostics \in Counts
  /\ tracker \in [have : BOOLEAN, degrees : Degrees, unwrapped : Int]
  /\ telemetrySequence \in Nat /\ now \in Nat /\ arrived \in Nat
  /\ delivered \in Seq(Report)

One(holding) == IF holding THEN 1 ELSE 0

\* The counters that the diagnostics publish account for every report: one that
\* arrived since activation was applied to the tracker (and published), was
\* rejected, or is held, and one that was ever held was rejected, confirmed or
\* still is held.
EveryReportAccounted ==
  /\ arrived = telemetrySequence + diagnostics.rejected + One(held # NoReport)
  /\ diagnostics.held = diagnostics.rejected + diagnostics.confirmed + One(held # NoReport)

\* The tracker's history is the gate's history, so that the step that the gate
\* judged is the step that the tracker takes; and the reported angle is the
\* unwrapped one, whatever jumps were confirmed or resynced.
TrackerFollowsGate ==
  /\ tracker.have = (last # NoReport)
  /\ last # NoReport => tracker.degrees = last.degrees
  /\ tracker.unwrapped % Turn = tracker.degrees

\* The held report is the newest one, and it disagrees with the history.
HeldIsNews ==
  held # NoReport =>
    /\ last # NoReport /\ Enabled
    /\ held.number = arrived /\ held.time = now
    /\ ~Plausible(last, held)

\* The gate is the filter that its comment describes.
NumberOf(r) == IF r = NoReport THEN 0 ELSE r.number
Numbers(s)  == [i \in 1..Len(s) |-> s[i].number]

Filter == INSTANCE ReportFilter WITH
  Limit <- ResyncAfter, newest <- NumberOf(last), waiting <- NumberOf(held),
  delivered <- Numbers(delivered)

\* Reports reach the tracker in order, at most one report late, and one of every
\* kResyncAfter does: the gate implements ReportFilter.
GateIsFilter == Filter!Spec
===============================================================================
