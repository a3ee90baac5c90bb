--------------------------- MODULE ReportGate_proofs ---------------------------
(***************************************************************************)
(* Proofs about the plausibility gate, for every circle, rate, allowance,  *)
(* resync limit and sequence of reports.                                   *)
(*                                                                         *)
(* The inductive invariant GInv adds to the type invariant what connects   *)
(* the parts of the gate: the count of disagreements is the number of      *)
(* reports since the last accepted one, a report is held exactly while it  *)
(* is positive, and it is the newest one.                                  *)
(***************************************************************************)
EXTENDS ReportGate, TLAPS

DiagnosticsMatch ==
  diagnostics = [held |-> heldCount, rejected |-> rejectedCount,
                 confirmed |-> confirmedCount, resyncs |-> resyncCount]

HistoryInv ==
  /\ disagreements < ResyncAfter
  /\ last = NoReport => arrived = 0 /\ disagreements = 0
  /\ last # NoReport => /\ last.number \in 1..arrived
                        /\ disagreements = arrived - last.number

HeldInv ==
  /\ (held # NoReport) = (disagreements > 0)
  /\ HeldIsNews

CountInv ==
  /\ DiagnosticsMatch
  /\ arrived = telemetrySequence + rejectedCount + One(held # NoReport)
  /\ heldCount = rejectedCount + confirmedCount + One(held # NoReport)

GInv == TypeOK /\ HistoryInv /\ HeldInv /\ CountInv

\* A step on the circle is an integer.
LEMMA DeltaType ==
  ASSUME NEW a \in Degrees, NEW b \in Degrees
  PROVE  ShortestDelta(a, b) \in Int
<1>1. Turn \in Int /\ Turn > 0 /\ a \in Int /\ b \in Int
  BY TurnAssumption DEF Degrees
<1>2. b - a + (Turn \div 2) \in Int
  BY <1>1
<1> QED
  BY <1>1, <1>2 DEF ShortestDelta

\* Division with remainder, ...
LEMMA Division ==
  ASSUME NEW n \in Int
  PROVE  /\ n % Turn \in Degrees /\ n \div Turn \in Int
         /\ n % Turn = n - Turn * (n \div Turn)
<1>1. Turn \in Int /\ Turn > 0
  BY TurnAssumption
<1>2. n % Turn \in 0..(Turn - 1)
  BY <1>1
<1>3. n \div Turn \in Int
  BY <1>1
<1>4. n % Turn = n - Turn * (n \div Turn)
  BY <1>1
<1> QED
  BY <1>2, <1>3, <1>4 DEF Degrees

\* ... the multiples of a turn, ...
LEMMA Multiple ==
  ASSUME NEW k \in Int, k # 0
  PROVE  Turn * k >= Turn \/ Turn * k <= -Turn
<1>1. Turn \in Int /\ Turn > 0
  BY TurnAssumption
<1>2. CASE k >= 1
  <2>1. \A j \in Int : j >= 0 => Turn * j >= 0
    BY <1>1
  <2>2. Turn * (k - 1) >= 0
    BY <2>1, <1>2
  <2>3. Turn * k = Turn * (k - 1) + Turn
    BY <1>1
  <2> QED
    BY <2>2, <2>3, <1>1
<1>3. CASE k <= -1
  <2>1. \A j \in Int : j >= 0 => Turn * j >= 0
    BY <1>1
  <2>2. Turn * (-k - 1) >= 0
    BY <2>1, <1>3
  <2>3. Turn * k = -(Turn * (-k - 1)) - Turn
    BY <1>1
  <2>4. Turn * (-k - 1) \in Int
    BY <1>1
  <2> QED
    BY <2>2, <2>3, <2>4, <1>1
<1> QED
  BY <1>2, <1>3

\* ... and the angle that is a number of turns and b.
LEMMA Remainder ==
  ASSUME NEW k \in Int, NEW b \in Degrees
  PROVE  (Turn * k + b) % Turn = b
<1> DEFINE n == Turn * k + b
<1> DEFINE q == n \div Turn
<1>1. Turn \in Int /\ b \in Int /\ 0 <= b /\ b < Turn
  BY TurnAssumption DEF Degrees
<1>2. n \in Int
  BY <1>1
<1>3. n % Turn \in Degrees /\ q \in Int /\ n % Turn = n - Turn * q
  BY <1>2, Division
<1>4. q = k
  <2>1. Turn * (k - q) = (n % Turn) - b
    BY <1>1, <1>3 DEF Degrees
  <2>2. (n % Turn) - b < Turn /\ (n % Turn) - b > -Turn
    BY <1>1, <1>3 DEF Degrees
  <2> HIDE DEF q, n
  <2>3. k - q \in Int
    BY <1>3
  <2>4. SUFFICES ASSUME k - q # 0 PROVE FALSE
    BY <1>3
  <2> QED
    BY <2>1, <2>2, <2>3, <2>4, Multiple, <1>1, <1>3 DEF Degrees
<1> QED
  BY <1>1, <1>3, <1>4 DEF Degrees

\* The shortest step from a to b, taken from any turn of a, leads to b.
LEMMA StepArrives ==
  ASSUME NEW a \in Degrees, NEW b \in Degrees, NEW u \in Int, u % Turn = a
  PROVE  /\ ShortestDelta(a, b) \in Int
         /\ (u + ShortestDelta(a, b)) % Turn = b
<1> DEFINE h == Turn \div 2
<1> DEFINE x == b - a + h
<1> DEFINE q == x \div Turn
<1> DEFINE p == u \div Turn
<1>1. Turn \in Int /\ Turn > 0 /\ a \in Int /\ b \in Int /\ h \in Int
  BY TurnAssumption DEF Degrees
<1>2. x \in Int
  BY <1>1
<1>3. q \in Int /\ x % Turn = x - Turn * q /\ x % Turn \in Int
  BY <1>1, <1>2, Division DEF Degrees
<1>4. p \in Int /\ u = Turn * p + a
  <2>1. p \in Int /\ u % Turn = u - Turn * p
    BY Division
  <2> HIDE DEF p
  <2> QED
    BY <2>1, <1>1
<1>5. ShortestDelta(a, b) = (x % Turn) - h
  BY DEF ShortestDelta
<1> HIDE DEF p, q
<1>6. ShortestDelta(a, b) = b - a - Turn * q
  BY <1>1, <1>3, <1>5
<1>7. u + ShortestDelta(a, b) = Turn * (p - q) + b
  BY <1>1, <1>3, <1>4, <1>6
<1>8. p - q \in Int
  BY <1>3, <1>4
<1>9. (Turn * (p - q) + b) % Turn = b
  BY <1>8, Remainder
<1> QED
  BY <1>1, <1>3, <1>5, <1>7, <1>9
\* A reading makes a report.
LEMMA NewReportType ==
  ASSUME now \in Nat, arrived \in Nat, NEW dt \in Gaps, NEW d \in Readings
  PROVE  /\ NewReport(dt, d) \in Report
         /\ NewReport(dt, d) # NoReport
         /\ NewReport(dt, d).number = arrived + 1
         /\ NewReport(dt, d).time = now + dt
<1>1. d % Turn \in Degrees
  <2>1. d \in Int /\ Turn \in Int /\ Turn > 0
    BY TurnAssumption DEF Readings
  <2> QED
    BY <2>1 DEF Degrees
<1>2. dt \in Nat
  BY GapsAssumption
<1> QED
  BY <1>1, <1>2, NoReportAssumption DEF NewReport, Report, Degrees

\* The tracker keeps its type.
LEMMA TrackerType ==
  ASSUME NEW track \in [have : BOOLEAN, degrees : Degrees, unwrapped : Int],
         NEW r \in Report
  PROVE  /\ TrackerUpdate(track, r) \in [have : BOOLEAN, degrees : Degrees, unwrapped : Int]
         /\ TrackerUpdate(track, r).have
         /\ TrackerUpdate(track, r).degrees = r.degrees
<1>1. r.degrees \in Degrees
  BY DEF Report
<1>2. ShortestDelta(track.degrees, r.degrees) \in Int
  BY <1>1, DeltaType
<1>3. r.degrees \in Int
  BY <1>1 DEF Degrees
<1> QED
  BY <1>1, <1>2, <1>3 DEF TrackerUpdate

\* The invariant holds initially and after an activation.
LEMMA GateStarts == Init => GInv
<1> SUFFICES ASSUME Init PROVE GInv
  OBVIOUS
<1>1. 0 \in Degrees /\ 0 < ResyncAfter
  BY TurnAssumption, ResyncAssumption DEF Degrees
<1>2. <<>> \in Seq(Report)
  OBVIOUS
<1>3. TypeOK
  BY <1>1, <1>2 DEF Init, TypeOK, Counts, NoTrack
<1> QED
  BY <1>1, <1>3 DEF Init, GInv, HistoryInv, HeldInv, HeldIsNews, CountInv, DiagnosticsMatch, One

LEMMA GateRestarts == OnActivate => GInv'
<1> SUFFICES ASSUME OnActivate PROVE GInv'
  OBVIOUS
<1>1. 0 \in Degrees /\ 0 < ResyncAfter
  BY TurnAssumption, ResyncAssumption DEF Degrees
<1>2. <<>> \in Seq(Report)
  OBVIOUS
<1>3. TypeOK'
  BY <1>1, <1>2 DEF OnActivate, TypeOK, Counts, NoTrack
<1> QED
  BY <1>1, <1>3
  DEF OnActivate, GInv, HistoryInv, HeldInv, HeldIsNews, CountInv, DiagnosticsMatch, One

\* What the five cases of update() share: they judge a report r that has just
\* arrived.
Judged(r) ==
  /\ r \in Report /\ r # NoReport
  /\ r.number = arrived + 1 /\ arrived' = arrived + 1
  /\ now' \in Nat /\ r.time = now'

\* No history, or no gate.
LEMMA AcceptFirstStep ==
  ASSUME GInv, NEW r, Judged(r), AcceptFirst(r)
  PROVE  GInv'
<1> USE DEF GInv, Judged
<1>1. held = NoReport
  BY DEF AcceptFirst, HeldInv, HeldIsNews
<1>2. TypeOK'
  BY TrackerType DEF TypeOK, AcceptFirst, Accept, ApplyOne, countVars
<1>3. HistoryInv'
  BY ResyncAssumption DEF TypeOK, HistoryInv, AcceptFirst, Accept
<1>4. HeldInv'
  BY <1>1 DEF HeldInv, HeldIsNews, AcceptFirst, Accept
<1>5. CountInv'
  BY <1>1 DEF TypeOK, CountInv, DiagnosticsMatch, One, AcceptFirst, ApplyOne, countVars
<1> QED
  BY <1>2, <1>3, <1>4, <1>5

\* A report on the track of the history.
LEMMA AcceptPlausibleStep ==
  ASSUME GInv, NEW r, Judged(r), AcceptPlausible(r)
  PROVE  GInv'
<1> USE DEF GInv, Judged
<1>1. rejectedCount' = rejectedCount + One(held # NoReport) /\ held' = NoReport
  BY DEF AcceptPlausible, Drop, One, TypeOK
<1>2. DiagnosticsMatch'
  <2>1. CASE held = NoReport
    <3>1. rejectedCount' = rejectedCount /\ diagnostics' = diagnostics
      BY <2>1 DEF AcceptPlausible, Drop
    <3> QED
      BY <3>1 DEF AcceptPlausible, CountInv, DiagnosticsMatch
  <2>2. CASE held # NoReport
    BY <2>2 DEF AcceptPlausible, Publish, DiagnosticsMatch
  <2> QED
    BY <2>1, <2>2
<1>3. TypeOK'
  <2>1. rejectedCount' \in Nat
    BY <1>1 DEF One, TypeOK
  <2>2. diagnostics' \in Counts
    BY <1>2, <2>1 DEF DiagnosticsMatch, Counts, AcceptPlausible, TypeOK
  <2> QED
    BY <1>1, <2>1, <2>2, TrackerType DEF TypeOK, AcceptPlausible, Accept, ApplyOne
<1>4. HistoryInv'
  BY ResyncAssumption DEF TypeOK, HistoryInv, AcceptPlausible, Accept
<1>5. HeldInv'
  BY <1>1 DEF HeldInv, HeldIsNews, AcceptPlausible, Accept
<1>6. CountInv'
  BY <1>1, <1>2 DEF TypeOK, CountInv, One, AcceptPlausible, ApplyOne
<1> QED
  BY <1>3, <1>4, <1>5, <1>6

\* A report that confirms the held one.
LEMMA ConfirmHeldStep ==
  ASSUME GInv, NEW r, Judged(r), ConfirmHeld(r)
  PROVE  GInv'
<1> USE DEF GInv, Judged
<1>1. held # NoReport /\ held \in Report /\ held' = NoReport
  BY DEF ConfirmHeld, Confirms, TypeOK
<1>2. DiagnosticsMatch'
  BY DEF ConfirmHeld, Publish, DiagnosticsMatch
<1>3. TypeOK'
  <2>1. diagnostics' \in Counts
    BY <1>2 DEF DiagnosticsMatch, Counts, ConfirmHeld, TypeOK
  <2>2. tracker' \in [have : BOOLEAN, degrees : Degrees, unwrapped : Int]
    BY <1>1, TrackerType DEF TypeOK, ConfirmHeld, ApplyTwo
  <2>3. delivered' \in Seq(Report)
    BY <1>1 DEF ConfirmHeld, ApplyTwo
  <2> QED
    BY <1>1, <2>1, <2>2, <2>3 DEF TypeOK, ConfirmHeld, Accept, ApplyTwo
<1>4. HistoryInv'
  BY ResyncAssumption DEF TypeOK, HistoryInv, ConfirmHeld, Accept
<1>5. HeldInv'
  BY <1>1 DEF HeldInv, HeldIsNews, ConfirmHeld, Accept
<1>6. CountInv'
  BY <1>1, <1>2 DEF TypeOK, CountInv, One, ConfirmHeld, ApplyTwo
<1> QED
  BY <1>3, <1>4, <1>5, <1>6

\* One disagreement too many.
LEMMA ResyncStep ==
  ASSUME GInv, NEW r, Judged(r), Resync(r)
  PROVE  GInv'
<1> USE DEF GInv, Judged
<1>1. rejectedCount' = rejectedCount + One(held # NoReport) /\ held' = NoReport
  BY DEF Resync, Drop, One, TypeOK
<1>2. DiagnosticsMatch'
  BY DEF Resync, Publish, DiagnosticsMatch
<1>3. TypeOK'
  <2>1. rejectedCount' \in Nat
    BY <1>1 DEF One, TypeOK
  <2>2. diagnostics' \in Counts
    BY <1>2, <2>1 DEF DiagnosticsMatch, Counts, Resync, TypeOK
  <2> QED
    BY <1>1, <2>1, <2>2, TrackerType DEF TypeOK, Resync, Accept, ApplyOne
<1>4. HistoryInv'
  BY ResyncAssumption DEF TypeOK, HistoryInv, Resync, Accept
<1>5. HeldInv'
  BY <1>1 DEF HeldInv, HeldIsNews, Resync, Accept
<1>6. CountInv'
  BY <1>1, <1>2 DEF TypeOK, CountInv, One, Resync, ApplyOne
<1> QED
  BY <1>3, <1>4, <1>5, <1>6

\* A report that is held.
LEMMA HoldStep ==
  ASSUME GInv, NEW r, Judged(r), Hold(r)
  PROVE  GInv'
<1> USE DEF GInv, Judged
<1>1. /\ rejectedCount' = rejectedCount + One(held # NoReport)
      /\ held' = r /\ last' = last /\ last # NoReport /\ Enabled
  BY DEF Hold, Disagrees, One, TypeOK
<1>2. DiagnosticsMatch'
  BY DEF Hold, Publish, DiagnosticsMatch
<1>3. TypeOK'
  <2>1. rejectedCount' \in Nat
    BY <1>1 DEF One, TypeOK
  <2>2. diagnostics' \in Counts
    BY <1>2, <2>1 DEF DiagnosticsMatch, Counts, Hold, TypeOK
  <2>3. delivered' \in Seq(Report)
    BY DEF Hold, ApplyNone
  <2> QED
    BY <1>1, <2>1, <2>2, <2>3 DEF TypeOK, Hold, ApplyNone
<1>4. HistoryInv'
  BY <1>1, ResyncAssumption DEF TypeOK, HistoryInv, Hold
<1>5. HeldInv'
  <2>1. ~Plausible(last, r)
    BY DEF Hold, Disagrees
  <2>2. (~Plausible(last, held))'
    BY <1>1, <2>1 DEF Plausible, ShortestDelta, AllowedStep, CrossesZero, Magnitude
  <2> QED
    BY <1>1, <2>2 DEF TypeOK, HeldInv, HeldIsNews, Hold, Enabled
<1>6. CountInv'
  BY <1>1, <1>2 DEF TypeOK, CountInv, One, Hold, ApplyNone
<1> QED
  BY <1>3, <1>4, <1>5, <1>6

\* One report is judged by one of the five cases.
LEMMA ReportStep ==
  ASSUME GInv, NEW dt \in Gaps, NEW d \in Readings, HandlePositionReport(dt, d)
  PROVE  GInv'
<1> DEFINE r == NewReport(dt, d)
<1>1. Judged(r)
  <2>1. now \in Nat /\ arrived \in Nat /\ dt \in Nat
    BY GapsAssumption DEF GInv, TypeOK
  <2> QED
    BY <2>1, NewReportType DEF Judged, HandlePositionReport
<1>2. AcceptFirst(r) \/ AcceptPlausible(r) \/ ConfirmHeld(r) \/ Resync(r) \/ Hold(r)
  BY DEF HandlePositionReport
<1> QED
  BY <1>1, <1>2, AcceptFirstStep, AcceptPlausibleStep, ConfirmHeldStep, ResyncStep, HoldStep

LEMMA GateInductive == GInv /\ [Next]_vars => GInv'
<1> SUFFICES ASSUME GInv, [Next]_vars PROVE GInv'
  OBVIOUS
<1>1. CASE Next
  BY <1>1, GateRestarts, ReportStep DEF Next
<1>2. CASE UNCHANGED vars
  BY <1>2 DEF vars, gateVars, countVars, GInv, TypeOK, HistoryInv, HeldInv, HeldIsNews,
              CountInv, DiagnosticsMatch
<1> QED
  BY <1>1, <1>2

LEMMA GateInvariant == Spec => []GInv
  BY GateStarts, GateInductive, PTL DEF Spec

\* The gate, its counters and the tracker keep their types, whatever is reported.
THEOREM GateTypeCorrect == Spec => []TypeOK
BY GateInvariant, PTL DEF GInv

\* The diagnostics account for every report that has arrived since activation:
\* it was applied, rejected, or is the one that is held.
THEOREM ReportsAreAccounted == Spec => []EveryReportAccounted
<1>1. GInv => EveryReportAccounted
  BY DEF GInv, CountInv, DiagnosticsMatch, EveryReportAccounted
<1> QED
  BY <1>1, GateInvariant, PTL

\* What is held is the newest report, and it disagrees with the history.
THEOREM HeldReportIsNews == Spec => []HeldIsNews
BY GateInvariant, PTL DEF GInv, HeldInv

\* The reported angle is the unwrapped one, up to whole turns.
Unwraps(track) == track.unwrapped % Turn = track.degrees

LEMMA UpdateUnwraps ==
  ASSUME NEW track \in [have : BOOLEAN, degrees : Degrees, unwrapped : Int],
         Unwraps(track), NEW r \in Report
  PROVE  Unwraps(TrackerUpdate(track, r))
<1>1. r.degrees \in Degrees /\ Turn * 0 + r.degrees = r.degrees
  BY TurnAssumption DEF Report, Degrees
<1>2. r.degrees % Turn = r.degrees
  BY <1>1, Remainder
<1>3. (track.unwrapped + ShortestDelta(track.degrees, r.degrees)) % Turn = r.degrees
  BY <1>1, StepArrives DEF Unwraps
<1> QED
  BY <1>2, <1>3 DEF TrackerUpdate, Unwraps

LEMMA NoTrackUnwraps == Unwraps(NoTrack)
<1>1. 0 \in Degrees /\ Turn * 0 + 0 = 0
  BY TurnAssumption DEF Degrees
<1> QED
  BY <1>1, Remainder DEF Unwraps, NoTrack

\* The tracker's history is the gate's history, and the unwrapped angle never
\* leaves the reported one: every accepted report, confirmed and resynced ones
\* included, moves the two together.
THEOREM TrackerFollows == Spec => []TrackerFollowsGate
<1>1. Init => TrackerFollowsGate
  <2> SUFFICES ASSUME Init PROVE TrackerFollowsGate
    OBVIOUS
  <2>1. last = NoReport /\ tracker = NoTrack
    BY DEF Init
  <2>2. tracker.unwrapped % Turn = tracker.degrees
    BY <2>1, NoTrackUnwraps DEF Unwraps
  <2>3. tracker.have = FALSE
    BY <2>1 DEF NoTrack
  <2> QED
    BY <2>1, <2>2, <2>3 DEF TrackerFollowsGate
<1>2. ASSUME GInv, TrackerFollowsGate, [Next]_vars PROVE TrackerFollowsGate'
  <2>1. CASE OnActivate
    <3>1. last' = NoReport /\ tracker' = NoTrack /\ Unwraps(NoTrack)
      BY <2>1, NoTrackUnwraps DEF OnActivate
    <3> QED
      BY <3>1 DEF TrackerFollowsGate, Unwraps, NoTrack
  <2>2. ASSUME NEW dt \in Gaps, NEW d \in Readings, HandlePositionReport(dt, d)
        PROVE  TrackerFollowsGate'
    <3> DEFINE r == NewReport(dt, d)
    <3>1. r \in Report /\ r # NoReport
      BY <1>2, NewReportType DEF GInv, TypeOK
    <3> HIDE DEF r
    <3>2. Unwraps(tracker) /\ tracker \in [have : BOOLEAN, degrees : Degrees, unwrapped : Int]
      BY <1>2 DEF GInv, TypeOK, TrackerFollowsGate, Unwraps
    <3>3. CASE AcceptFirst(r) \/ AcceptPlausible(r) \/ Resync(r)
      <4>1. last' = r /\ tracker' = TrackerUpdate(tracker, r)
        BY <3>3 DEF AcceptFirst, AcceptPlausible, Resync, Accept, ApplyOne
      <4> QED
        BY <4>1, <3>1, <3>2, TrackerType, UpdateUnwraps DEF TrackerFollowsGate, Unwraps
    <3>4. CASE ConfirmHeld(r)
      <4>1. /\ last' = r /\ held \in Report
            /\ tracker' = TrackerUpdate(TrackerUpdate(tracker, held), r)
        BY <3>4, <1>2 DEF ConfirmHeld, Confirms, Accept, ApplyTwo, GInv, TypeOK
      <4> DEFINE t == TrackerUpdate(tracker, held)
      <4>2. Unwraps(t) /\ t \in [have : BOOLEAN, degrees : Degrees, unwrapped : Int]
        BY <4>1, <3>2, TrackerType, UpdateUnwraps
      <4>3. tracker' = TrackerUpdate(t, r)
        BY <4>1
      <4> HIDE DEF t
      <4> QED
        BY <4>1, <4>2, <4>3, <3>1, TrackerType, UpdateUnwraps
        DEF TrackerFollowsGate, Unwraps
    <3>5. CASE Hold(r)
      BY <3>5, <1>2 DEF Hold, ApplyNone, TrackerFollowsGate
    <3> QED
      BY <2>2, <3>3, <3>4, <3>5 DEF HandlePositionReport, r
  <2>3. CASE UNCHANGED vars
    BY <2>3, <1>2 DEF vars, gateVars, TrackerFollowsGate
  <2> QED
    BY <1>2, <2>1, <2>2, <2>3 DEF Next
<1> QED
  BY <1>1, <1>2, GateInvariant, PTL DEF Spec

\* The numbers of no, one and two reports.
LEMMA NumbersOfNone == Numbers(<<>>) = <<>>
BY DEF Numbers

LEMMA NumbersOfOne ==
  ASSUME NEW r
  PROVE  Numbers(<<r>>) = <<r.number>>
BY DEF Numbers

LEMMA NumbersOfTwo ==
  ASSUME NEW h, NEW r
  PROVE  Numbers(<<h, r>>) = <<h.number, r.number>>
<1>1. Len(<<h, r>>) = 2 /\ 1..2 = {1, 2}
  OBVIOUS
<1> QED
  BY <1>1 DEF Numbers

\* A step of the gate is a step of the filter.
LEMMA GateStepFilters ==
  ASSUME GInv, GInv', [Next]_vars
  PROVE  [Filter!Next]_(Filter!vars)
<1> USE DEF Filter!Next, Filter!vars
<1>1. ASSUME OnActivate PROVE Filter!Restart
  BY <1>1, NumbersOfNone DEF OnActivate, Filter!Restart, NumberOf
<1>2. ASSUME NEW dt \in Gaps, NEW d \in Readings, HandlePositionReport(dt, d)
      PROVE  Filter!Pass \/ Filter!Both \/ Filter!Keep
  <2> DEFINE r == NewReport(dt, d)
  <2>1. /\ r # NoReport /\ r.number = arrived + 1 /\ arrived' = arrived + 1
        /\ arrived \in Nat
    BY <1>2, NewReportType DEF HandlePositionReport, GInv, TypeOK
  <2> HIDE DEF r
  <2>2. /\ NumberOf(r) = arrived' /\ NumberOf(NoReport) = 0
        /\ held # NoReport => NumberOf(held) = held.number /\ held.number # 0
    BY <2>1 DEF NumberOf, GInv, HeldInv, HeldIsNews, HistoryInv
  <2>3. CASE AcceptFirst(r)
    <3>1. held' = NoReport /\ last' = r /\ delivered' = <<r>>
      BY <2>3 DEF AcceptFirst, Accept, ApplyOne, GInv, HeldInv, HeldIsNews
    <3> QED
      BY <3>1, <2>1, <2>2, NumbersOfOne DEF Filter!Pass, Filter!Arrive
  <2>4. CASE AcceptPlausible(r)
    <3>1. held' = NoReport /\ last' = r /\ delivered' = <<r>>
      BY <2>4 DEF AcceptPlausible, Accept, ApplyOne, Drop
    <3> QED
      BY <3>1, <2>1, <2>2, NumbersOfOne DEF Filter!Pass, Filter!Arrive
  <2>5. CASE ConfirmHeld(r)
    <3>1. held # NoReport /\ held' = NoReport /\ last' = r /\ delivered' = <<held, r>>
      BY <2>5 DEF ConfirmHeld, Confirms, Accept, ApplyTwo
    <3> QED
      BY <3>1, <2>1, <2>2, NumbersOfTwo DEF Filter!Both, Filter!Arrive
  <2>6. CASE Resync(r)
    <3>1. held' = NoReport /\ last' = r /\ delivered' = <<r>>
      BY <2>6 DEF Resync, Accept, ApplyOne, Drop
    <3> QED
      BY <3>1, <2>1, <2>2, NumbersOfOne DEF Filter!Pass, Filter!Arrive
  <2>7. CASE Hold(r)
    <3>1. held' = r /\ last' = last /\ last # NoReport /\ delivered' = <<>>
      BY <2>7 DEF Hold, Disagrees, ApplyNone
    <3>2. disagreements = arrived - last.number /\ disagreements + 1 < ResyncAfter
      BY <2>7, <3>1 DEF Hold, GInv, HistoryInv
    <3>3. NumberOf(last) = last.number /\ last.number \in 1..arrived
      BY <3>1 DEF NumberOf, GInv, HistoryInv
    <3> QED
      BY <3>1, <3>2, <3>3, <2>1, <2>2, NumbersOfNone, ResyncAssumption
      DEF Filter!Keep, Filter!Arrive
  <2> QED
    BY <1>2, <2>3, <2>4, <2>5, <2>6, <2>7 DEF HandlePositionReport, r
<1>3. ASSUME UNCHANGED vars PROVE UNCHANGED Filter!vars
  BY <1>3 DEF vars, gateVars
<1> QED
  BY <1>1, <1>2, <1>3 DEF Next

\* The gate keeps the promise of its comment: reports reach the tracker in the
\* order of their arrival and at most one report late, and at the latest every
\* kResyncAfter-th report does, so that the position cannot freeze.
THEOREM GateImplementsFilter == Spec => GateIsFilter
<1>1. Init => Filter!Init
  BY NumbersOfNone DEF Init, Filter!Init, NumberOf
<1> QED
  BY <1>1, GateInvariant, GateStepFilters, PTL DEF Spec, GateIsFilter, Filter!Spec
================================================================================
