-------------------------- MODULE DomeTracking_proofs --------------------------
(***************************************************************************)
(* Proofs about the gate behind a real dome, for every circle, rate,       *)
(* allowance and pattern of misreads that the gate can tell from motion.   *)
(*                                                                         *)
(* The argument follows one misread.  With the dome on track the angle is  *)
(* the true one.  A misread is held, or it is plausible and leads the      *)
(* angle astray by little; the good report that follows is plausible, or   *)
(* confirms what is held, or is held itself and confirmed by the next one. *)
(* All the while the angle is so near the true one that the shortest step  *)
(* to a good report is the step to the true angle, and two good reports in *)
(* a row put it right before the gate runs out of patience.                *)
(***************************************************************************)
EXTENDS DomeTracking, ReportGate_proofs

\* The largest step of which eight do not make a turn.
Margin == (Turn - 1) \div 8

Near(k) ==
  /\ tracker.unwrapped - truth <= k * Margin
  /\ truth - tracker.unwrapped <= k * Margin

TruthType == truth \in Int /\ clean \in 0..Apart

\* Before the first report.
Fresh == arrived = 0 /\ truth \in Degrees /\ clean = Apart

\* A good report was the last one, and nothing is left of a misread.
OnTrack ==
  clean >= 1 /\ held = NoReport /\ last.time = now /\ tracker.unwrapped = truth

\* A misread was plausible, and accepted.
Misled == clean = 0 /\ held = NoReport /\ Near(2)

\* A misread is held.
Doubted == clean = 0 /\ held # NoReport /\ disagreements = 1 /\ Near(1)

\* The good report after a misread is held.
Doubting ==
  /\ clean = 1 /\ held # NoReport /\ held.degrees = truth % Turn
  /\ disagreements <= 2 /\ Near(3)

DomeInv ==
  /\ resyncCount = 0
  /\ \/ Fresh
     \/ arrived > 0 /\ (OnTrack \/ Misled \/ Doubted \/ Doubting)

-----------------------------------------------------------------------------
(* Small steps on the circle.                                               *)

LEMMA MarginType == Turn \in Nat /\ Margin \in Nat /\ 8 * Margin < Turn
BY TurnAssumption DEF Margin

LEMMA MarginIsLargest ==
  ASSUME NEW x \in Int, 8 * x < Turn
  PROVE  x <= Margin
BY TurnAssumption DEF Margin

LEMMA NearDelta ==
  ASSUME NEW u \in Int, NEW v \in Int, v - u <= 4 * Margin, u - v <= 4 * Margin
  PROVE  ShortestDelta(u % Turn, v % Turn) = v - u
<1> DEFINE h == Turn \div 2
<1> DEFINE p == u \div Turn
<1> DEFINE q == v \div Turn
<1> DEFINE c == v - u + h
<1>1. Turn \in Int /\ Turn > 0
  BY TurnAssumption
<1>2. /\ p \in Int /\ u % Turn = u - Turn * p
      /\ q \in Int /\ v % Turn = v - Turn * q
  BY Division
<1>3. h \in Int /\ 2 * h <= Turn /\ Turn <= 2 * h + 1
  BY <1>1
<1> HIDE DEF h, p, q
<1>4. c \in Degrees
  BY <1>1, <1>3, MarginType DEF Degrees
<1>5. (v % Turn) - (u % Turn) + h = Turn * (p - q) + c
  BY <1>1, <1>2, <1>3
<1>6. (Turn * (p - q) + c) % Turn = c
  <2>1. p - q \in Int
    BY <1>2
  <2> HIDE DEF c
  <2> QED BY <1>4, <2>1, Remainder
<1>7. ShortestDelta(u % Turn, v % Turn) = c - h
  BY <1>5, <1>6 DEF ShortestDelta, h
<1> QED
  BY <1>3, <1>7

\* What the gate allows is a small step.
LEMMA AllowedIsSmall ==
  ASSUME Distinguishable, NEW dt \in Gaps, NEW crosses \in BOOLEAN
  PROVE  AllowedStep(dt, crosses) \in Nat /\ AllowedStep(dt, crosses) <= Margin
<1> DEFINE m == IF dt < MinDt THEN MinDt ELSE dt
<1> DEFINE x == MaxRate * m
<1>1. m \in Nat
  BY GapsAssumption, RateAssumption
<1>2. x \in Nat
  <2> HIDE DEF m
  <2> QED BY <1>1, RateAssumption
<1>3. /\ AllowedStep(dt, TRUE) = x + Slack + Wrap
      /\ AllowedStep(dt, crosses) = x + Slack + (IF crosses THEN Wrap ELSE 0)
  BY DEF AllowedStep
<1>4. 8 * AllowedStep(dt, TRUE) < Turn
  BY DEF Distinguishable
<1> HIDE DEF m, x
<1> DEFINE most == AllowedStep(dt, TRUE)
           this == AllowedStep(dt, crosses)
<1>5. most \in Nat /\ this \in Nat /\ this <= most
  <2>1. most = x + Slack + Wrap /\ this = x + Slack + (IF crosses THEN Wrap ELSE 0)
    BY <1>3
  <2> HIDE DEF most, this
  <2>2. CASE crosses
    BY <1>2, <2>1, <2>2, RateAssumption
  <2>3. CASE ~crosses
    BY <1>2, <2>1, <2>3, RateAssumption
  <2> QED BY <2>2, <2>3
<1>6. most <= Margin
  <2>1. 8 * most < Turn
    BY <1>4
  <2> HIDE DEF most
  <2> QED BY <1>5, <2>1, MarginIsLargest
<1> HIDE DEF most, this
<1>7. this <= Margin
  BY <1>5, <1>6, MarginType
<1> QED
  BY <1>5, <1>7 DEF this

LEMMA CrossesType ==
  ASSUME NEW a \in Int, NEW d \in Int
  PROVE  CrossesZero(a, d) \in BOOLEAN
BY DEF CrossesZero

\* The dome turns by no more than the gate allows.
LEMMA DomeTurns ==
  ASSUME Distinguishable, TruthType, NEW dt \in Gaps, TruthStep(dt)
  PROVE  \E step \in -Margin..Margin :
           /\ truth' = truth + step
           /\ Magnitude(step) <= AllowedStep(dt, CrossesZero(truth % Turn, step))
<1>1. truth \in Int /\ dt \in Nat /\ MaxRate \in Nat /\ Wrap \in Nat /\ Slack \in Nat
      /\ MinDt \in Nat /\ MinDt >= 1
  BY GapsAssumption, RateAssumption DEF TruthType, Distinguishable
<1> DEFINE m == IF dt = 0 THEN 1 ELSE dt
<1> DEFINE n == IF dt < MinDt THEN MinDt ELSE dt
<1>2. m \in Nat /\ n \in Nat /\ m <= n
  BY <1>1
<1>3. MaxRate * m \in Nat /\ MaxRate * n \in Nat /\ MaxRate * m <= MaxRate * n
  <2> HIDE DEF m, n
  <2>1. MaxRate * m \in Nat /\ MaxRate * n \in Nat /\ MaxRate * (n - m) \in Nat
    BY <1>1, <1>2
  <2>2. MaxRate * n = MaxRate * m + MaxRate * (n - m)
    BY <1>1, <1>2
  <2> QED BY <2>1, <2>2
<1>4. \A crosses \in BOOLEAN :
        Reach(dt, crosses) \in Nat /\ Reach(dt, crosses) <= AllowedStep(dt, crosses)
  <2>1. \A crosses \in BOOLEAN :
          /\ Reach(dt, crosses) = MaxRate * m + (IF crosses THEN Wrap ELSE 0)
          /\ AllowedStep(dt, crosses) = MaxRate * n + Slack + (IF crosses THEN Wrap ELSE 0)
    BY DEF Reach, AllowedStep
  <2> HIDE DEF m, n
  <2> QED BY <1>1, <1>3, <2>1
<1>5. PICK step \in -Reach(dt, TRUE)..Reach(dt, TRUE) :
        /\ Magnitude(step) <= Reach(dt, CrossesZero(truth % Turn, step))
        /\ truth' = truth + step
  BY DEF TruthStep
<1>6. step \in Int
  BY <1>1, <1>4, <1>5
<1>7. CrossesZero(truth % Turn, step) \in BOOLEAN
  BY DEF CrossesZero
<1>8. Magnitude(step) \in Nat /\ step <= Magnitude(step) /\ -step <= Magnitude(step)
  BY <1>6 DEF Magnitude
<1>9. Magnitude(step) <= AllowedStep(dt, CrossesZero(truth % Turn, step))
  <2>1. AllowedStep(dt, CrossesZero(truth % Turn, step)) \in Nat
    BY <1>7, AllowedIsSmall
  <2> QED BY <1>4, <1>5, <1>7, <1>8, <2>1
<1>10. Magnitude(step) <= Margin
  BY <1>7, <1>8, <1>9, AllowedIsSmall, MarginType
<1>11. step \in -Margin..Margin
  BY <1>6, <1>8, <1>10, MarginType
<1> QED
  BY <1>5, <1>9, <1>11

\* Two good reports in a row agree.
LEMMA GoodReportsAgree ==
  ASSUME Distinguishable, TruthType, NEW dt \in Gaps, TruthStep(dt),
         NEW from, NEW to, to.time - from.time = dt,
         from.degrees = truth % Turn, to.degrees = truth' % Turn
  PROVE  Plausible(from, to)
<1>1. PICK step \in -Margin..Margin :
        /\ truth' = truth + step
        /\ Magnitude(step) <= AllowedStep(dt, CrossesZero(truth % Turn, step))
  BY DomeTurns
<1>2. truth \in Int /\ truth + step \in Int
  BY <1>1, MarginType DEF TruthType
<1>3. ShortestDelta(from.degrees, to.degrees) = step
  <2> DEFINE u == truth
             v == truth + step
  <2>1. u \in Int /\ v \in Int /\ v - u = step /\ u - v = -step
    BY <1>1, <1>2, MarginType
  <2>2. from.degrees = u % Turn /\ to.degrees = v % Turn
    BY <1>1
  <2> HIDE DEF u, v
  <2>3. v - u <= 4 * Margin /\ u - v <= 4 * Margin
    BY <1>1, <2>1, MarginType
  <2> QED BY <2>1, <2>2, <2>3, NearDelta
<1> QED
  BY <1>1, <1>3 DEF Plausible

\* A plausible step is a small one.
LEMMA PlausibleIsSmall ==
  ASSUME Distinguishable, NEW from \in Report, NEW to \in Report,
         to.time - from.time \in Gaps, Plausible(from, to)
  PROVE  LET delta == ShortestDelta(from.degrees, to.degrees)
         IN  delta \in Int /\ delta <= Margin /\ -delta <= Margin
<1> DEFINE delta == ShortestDelta(from.degrees, to.degrees)
<1> DEFINE allowed == AllowedStep(to.time - from.time, CrossesZero(from.degrees, delta))
<1>1. delta \in Int
  BY DeltaType DEF Report
<1>2. allowed \in Nat /\ allowed <= Margin
  <2>1. CrossesZero(from.degrees, delta) \in BOOLEAN
    BY DEF CrossesZero
  <2> QED BY <2>1, AllowedIsSmall
<1>3. Magnitude(delta) <= allowed
  BY DEF Plausible
<1> HIDE DEF delta, allowed
<1>4. delta <= Margin /\ -delta <= Margin
  BY <1>1, <1>2, <1>3, MarginType DEF Magnitude
<1> QED
  BY <1>1, <1>4 DEF delta

\* A report of an angle near the tracker's leads the tracker to that angle.
LEMMA TrackerArrives ==
  ASSUME NEW track, track.have, track.unwrapped \in Int,
         track.degrees = track.unwrapped % Turn,
         NEW r, NEW v \in Int, r.degrees = v % Turn,
         v - track.unwrapped <= 4 * Margin, track.unwrapped - v <= 4 * Margin
  PROVE  /\ TrackerUpdate(track, r).unwrapped = v
         /\ TrackerUpdate(track, r).degrees = v % Turn
         /\ TrackerUpdate(track, r).have
<1>1. ShortestDelta(track.degrees, r.degrees) = v - track.unwrapped
  BY NearDelta
<1>2. TrackerUpdate(track, r).unwrapped = track.unwrapped + (v - track.unwrapped)
  BY <1>1 DEF TrackerUpdate
<1> QED
  BY <1>2 DEF TrackerUpdate

-----------------------------------------------------------------------------
(* Steps of the dome.                                                       *)

\* A reading of the ring is taken as it is.
LEMMA ReadingIsKept ==
  ASSUME NEW v \in Int
  PROVE  v % Turn \in Readings /\ v % Turn \in Degrees /\ (v % Turn) % Turn = v % Turn
<1> DEFINE b == v % Turn
<1>1. b \in Degrees
  BY Division
<1> HIDE DEF b
<1>2. b \in Readings /\ Turn * 0 + b = b
  BY <1>1, TurnAssumption DEF Degrees, Readings
<1>3. b % Turn = b
  BY <1>1, <1>2, Remainder
<1> QED
  BY <1>1, <1>2, <1>3 DEF b

LEMMA DomeStarts == DomeInit => Init /\ TruthType /\ DomeInv
<1> SUFFICES ASSUME DomeInit PROVE Init /\ TruthType /\ DomeInv
  OBVIOUS
<1>1. Apart \in Nat /\ Apart \in 0..Apart /\ Degrees \subseteq Int
  BY ApartAssumption, TurnAssumption DEF Degrees
<1> QED
  BY <1>1 DEF DomeInit, Init, TruthType, DomeInv, Fresh

\* The dome's angle is an integer, and every step of the dome is a step of the
\* gate.
LEMMA DomeStepsGate ==
  ASSUME TruthType, [DomeNext]_domeVars
  PROVE  TruthType' /\ [Next]_vars
<1>1. ASSUME NEW dt \in Gaps, TruthStep(dt)
      PROVE  truth' \in Int
  <2>1. PICK step \in -Reach(dt, TRUE)..Reach(dt, TRUE) : truth' = truth + step
    BY <1>1 DEF TruthStep
  <2>2. step \in Int
    BY <2>1
  <2> QED BY <2>1, <2>2 DEF TruthType
<1>2. ASSUME NEW dt \in Gaps, GoodReport(dt)
      PROVE  TruthType' /\ [Next]_vars
  <2>1. truth' \in Int /\ HandlePositionReport(dt, truth' % Turn)
    BY <1>1, <1>2 DEF GoodReport
  <2>2. clean' \in 0..Apart
    BY <1>2, ApartAssumption DEF GoodReport, TruthType
  <2>3. truth' % Turn \in Readings
    <3> DEFINE v == truth'
    <3>1. v \in Int
      BY <2>1
    <3> HIDE DEF v
    <3>2. v % Turn \in Readings
      BY <3>1, ReadingIsKept
    <3> QED BY <3>2 DEF v
  <2> QED BY <2>1, <2>2, <2>3 DEF TruthType, Next
<1>3. ASSUME NEW dt \in Gaps, Misread(dt)
      PROVE  TruthType' /\ [Next]_vars
  <2>1. truth' \in Int /\ clean' = 0
    BY <1>1, <1>3 DEF Misread
  <2>2. PICK d \in Degrees : HandlePositionReport(dt, d)
    BY <1>3 DEF Misread
  <2>3. d \in Readings /\ 0 \in 0..Apart
    BY TurnAssumption, ApartAssumption DEF Degrees, Readings
  <2> QED BY <2>1, <2>2, <2>3 DEF TruthType, Next
<1>4. CASE UNCHANGED domeVars
  BY <1>4 DEF domeVars, TruthType
<1> QED
  BY <1>2, <1>3, <1>4 DEF DomeNext

\* What is known of the gate and the tracker after the first report, when the
\* next one arrives.
LEMMA OnceReported ==
  ASSUME GInv, TrackerFollowsGate, arrived > 0
  PROVE  /\ last \in Report /\ last # NoReport /\ now \in Nat /\ arrived + 1 > 0
         /\ tracker.have /\ tracker.unwrapped \in Int
         /\ tracker.degrees = tracker.unwrapped % Turn
         /\ last.degrees = tracker.degrees
         /\ held # NoReport => held \in Report /\ held.time = now
         /\ disagreements \in Nat
<1>1. TypeOK /\ HistoryInv /\ HeldInv
  BY DEF GInv
<1>2. arrived \in Nat /\ arrived + 1 > 0
  BY <1>1 DEF TypeOK
<1>3. last # NoReport
  BY <1>1, <1>2 DEF HistoryInv
<1> QED
  BY <1>1, <1>2, <1>3 DEF TypeOK, HeldInv, HeldIsNews, TrackerFollowsGate

\* Before it, nothing is held and nothing is tracked.
LEMMA BeforeTheFirst ==
  ASSUME GInv, TrackerFollowsGate, arrived = 0
  PROVE  last = NoReport /\ held = NoReport /\ tracker.have = FALSE
<1>1. TypeOK /\ HistoryInv /\ HeldInv
  BY DEF GInv
<1>2. last = NoReport
  <2>1. 1..0 = {}
    OBVIOUS
  <2> QED BY <1>1, <2>1 DEF HistoryInv
<1> QED
  BY <1>1, <1>2 DEF HeldInv, HeldIsNews, TrackerFollowsGate

\* The report that arrives.
LEMMA ReportIsNews ==
  ASSUME GInv, NEW dt \in Gaps, NEW d \in Degrees, HandlePositionReport(dt, d)
  PROVE  LET r == NewReport(dt, d)
         IN  /\ r \in Report /\ r.time = now' /\ r.degrees = d % Turn
             /\ now' = now + dt /\ now \in Nat /\ dt \in Int /\ arrived' = arrived + 1
             /\ AcceptFirst(r) \/ AcceptPlausible(r) \/ ConfirmHeld(r) \/ Resync(r) \/ Hold(r)
<1>1. now \in Nat /\ arrived \in Nat /\ d \in Readings /\ dt \in Int
  BY TurnAssumption, GapsAssumption DEF GInv, TypeOK, Degrees, Readings
<1>2. NewReport(dt, d) \in Report /\ NewReport(dt, d).time = now + dt
  BY <1>1, NewReportType
<1>3. NewReport(dt, d).degrees = d % Turn
  BY DEF NewReport
<1> QED
  BY <1>1, <1>2, <1>3 DEF HandlePositionReport

\* The first report sets the angle.
LEMMA FirstReport ==
  ASSUME Distinguishable, TruthType, GInv, TrackerFollowsGate, DomeInv, arrived = 0,
         NEW dt \in Gaps, GoodReport(dt)
  PROVE  DomeInv'
<1>1. /\ resyncCount = 0 /\ truth \in Degrees /\ clean = Apart
      /\ last = NoReport /\ held = NoReport /\ tracker.have = FALSE
  <2>1. resyncCount = 0 /\ truth \in Degrees /\ clean = Apart
    <3>1. ~(arrived > 0)
      OBVIOUS
    <3> QED BY <3>1 DEF DomeInv, Fresh
  <2> QED BY <2>1, BeforeTheFirst
<1>2. truth' = truth
  <2>1. PICK step \in -Reach(dt, TRUE)..Reach(dt, TRUE) :
          truth' = truth + step /\ (arrived = 0 => step = 0)
    BY DEF GoodReport, TruthStep
  <2>2. truth \in Int
    BY DEF TruthType
  <2> QED BY <2>1, <2>2
<1> DEFINE d == truth % Turn
           r == NewReport(dt, d)
<1>3. truth \in Int /\ Turn * 0 + truth = truth
  BY <1>1, TurnAssumption DEF Degrees
<1>4. d = truth /\ d % Turn = truth
  BY <1>1, <1>3, Remainder
<1>5. HandlePositionReport(dt, d) /\ clean' >= 1
  BY <1>1, <1>2, ApartAssumption DEF GoodReport, Distinguishable
<1>6. d \in Degrees
  BY <1>1, <1>4
<1> HIDE DEF d
<1>7. /\ r.time = now' /\ r.degrees = truth /\ arrived' = arrived + 1
      /\ AcceptFirst(r) \/ AcceptPlausible(r) \/ ConfirmHeld(r) \/ Resync(r) \/ Hold(r)
  BY <1>4, <1>5, <1>6, ReportIsNews
<1> HIDE DEF r
<1>8. AcceptFirst(r)
  BY <1>1, <1>7 DEF AcceptPlausible, ConfirmHeld, Confirms, Resync, Hold, Disagrees
<1>9. tracker'.unwrapped = truth /\ last' = r /\ held' = NoReport /\ resyncCount' = 0
  BY <1>1, <1>7, <1>8 DEF AcceptFirst, Accept, ApplyOne, TrackerUpdate, countVars
<1>10. arrived' > 0
  BY <1>7
<1> QED
  BY <1>2, <1>5, <1>7, <1>9, <1>10 DEF DomeInv, OnTrack

\* A step back along the shortest step leads to where the step came from.
LEMMA StepBack ==
  ASSUME NEW a \in Degrees, NEW b \in Degrees, NEW v \in Int, b = v % Turn
  PROVE  a = (v - ShortestDelta(a, b)) % Turn
<1> DEFINE h == Turn \div 2
           x == b - a + h
           q == x \div Turn
           p == v \div Turn
           delta == ShortestDelta(a, b)
<1>1. Turn \in Int /\ Turn > 0 /\ a \in Int /\ b \in Int /\ h \in Int
  BY TurnAssumption DEF Degrees
<1>2. x \in Int
  BY <1>1
<1>3. q \in Int /\ x % Turn = x - Turn * q
  <2> HIDE DEF x
  <2> QED BY <1>2, Division
<1>4. p \in Int /\ b = v - Turn * p
  BY Division
<1>5. delta = (x % Turn) - h
  BY DEF ShortestDelta
<1> HIDE DEF p, q, h, delta
<1>6. delta = b - a - Turn * q
  BY <1>1, <1>3, <1>5
<1>7. v - delta = Turn * (p + q) + a
  BY <1>1, <1>3, <1>4, <1>6
<1>8. (Turn * (p + q) + a) % Turn = a
  <2>1. p + q \in Int
    BY <1>3, <1>4
  <2> QED BY <2>1, Remainder
<1> QED
  BY <1>7, <1>8 DEF delta

\* A good report that the tracker takes from an angle near by puts it on track.
LEMMA BackOnTrack ==
  ASSUME NEW v \in Int, truth' = v, clean' >= 1, held' = NoReport,
         NEW r, r.time = now', r.degrees = v % Turn, last' = r,
         NEW track, track.have, track.unwrapped \in Int,
         track.degrees = track.unwrapped % Turn, tracker' = TrackerUpdate(track, r),
         v - track.unwrapped <= 4 * Margin, track.unwrapped - v <= 4 * Margin
  PROVE  OnTrack'
<1>1. TrackerUpdate(track, r).unwrapped = v
  BY TrackerArrives
<1> QED
  BY <1>1 DEF OnTrack

\* Wherever a misread has led, a good report leads back, or is held.  A good
\* report after one that is held agrees with it (<1>14): what disagrees comes
\* right after the misread, and is never one too many.
LEMMA GoodStep ==
  ASSUME Distinguishable, TruthType, GInv, TrackerFollowsGate, DomeInv, arrived > 0,
         NEW dt \in Gaps, GoodReport(dt)
  PROVE  DomeInv'
<1>1. PICK step \in -Margin..Margin :
        /\ truth' = truth + step
        /\ Magnitude(step) <= AllowedStep(dt, CrossesZero(truth % Turn, step))
  BY DomeTurns DEF GoodReport
<1> DEFINE v == truth + step
           d == v % Turn
           r == NewReport(dt, d)
           u == tracker.unwrapped
<1>2. /\ truth \in Int /\ step \in Int /\ v \in Int /\ truth' = v
      /\ v - truth <= Margin /\ truth - v <= Margin
  BY <1>1, MarginType DEF TruthType
<1>3. HandlePositionReport(dt, d) /\ TruthStep(dt)
  BY <1>2 DEF GoodReport
<1>4. clean' >= 1 /\ (clean = 0 => clean' = 1)
  BY ApartAssumption DEF GoodReport, Distinguishable, TruthType
<1>5. d \in Degrees /\ d % Turn = d
  <2> HIDE DEF v
  <2> QED BY <1>2, ReadingIsKept
<1> HIDE DEF v
<1>6. /\ r \in Report /\ r.time = now' /\ r.degrees = d /\ arrived' = arrived + 1
      /\ now' = now + dt /\ now \in Nat /\ dt \in Int
      /\ AcceptFirst(r) \/ AcceptPlausible(r) \/ ConfirmHeld(r) \/ Resync(r) \/ Hold(r)
  <2> HIDE DEF d
  <2> QED BY <1>3, <1>5, ReportIsNews
<1>7. r.degrees = v % Turn
  BY <1>6
<1> HIDE DEF d, r
<1>8. /\ last \in Report /\ last # NoReport /\ arrived' > 0
      /\ tracker.have /\ u \in Int /\ tracker.degrees = u % Turn
      /\ last.degrees = tracker.degrees
      /\ held # NoReport => held \in Report /\ held.time = now
      /\ disagreements \in Nat
  BY <1>6, OnceReported
<1>9. /\ resyncCount = 0
      /\ OnTrack \/ Misled \/ Doubted \/ Doubting
  BY DEF DomeInv, Fresh
<1>10. v - u <= 4 * Margin /\ u - v <= 4 * Margin
  <2>1. CASE OnTrack
    BY <2>1, <1>2, <1>8, MarginType DEF OnTrack
  <2>2. CASE Misled
    <3>1. Near(2)
      BY <2>2 DEF Misled
    <3> QED BY <3>1, <1>2, <1>8, MarginType DEF Near
  <2>3. CASE Doubted
    <3>1. Near(1)
      BY <2>3 DEF Doubted
    <3> QED BY <3>1, <1>2, <1>8, MarginType DEF Near
  <2>4. CASE Doubting
    <3>1. Near(3)
      BY <2>4 DEF Doubting
    <3> QED BY <3>1, <1>2, <1>8, MarginType DEF Near
  <2> QED BY <1>9, <2>1, <2>2, <2>3, <2>4
<1>11. ~AcceptFirst(r)
  BY <1>8 DEF AcceptFirst, Distinguishable, Enabled
<1>12. ASSUME AcceptPlausible(r)
       PROVE  DomeInv'
  <2>1. /\ tracker' = TrackerUpdate(tracker, r) /\ held' = NoReport
        /\ last' = r /\ resyncCount' = 0
    BY <1>9, <1>12 DEF AcceptPlausible, Drop, Accept, ApplyOne
  <2>2. OnTrack'
    BY <1>2, <1>4, <1>6, <1>7, <1>8, <1>10, <2>1, BackOnTrack
  <2> QED BY <1>8, <2>1, <2>2 DEF DomeInv
<1>13. ASSUME ConfirmHeld(r)
       PROVE  DomeInv'
  <2> DEFINE track == TrackerUpdate(tracker, held)
  <2>1. /\ held # NoReport /\ held \in Report /\ held.time = now /\ Plausible(held, r)
        /\ tracker' = TrackerUpdate(track, r) /\ held' = NoReport
        /\ last' = r /\ resyncCount' = 0
    BY <1>8, <1>9, <1>13 DEF ConfirmHeld, Confirms, Accept, ApplyTwo
  <2>2. Doubted \/ Doubting
    BY <1>9, <2>1 DEF OnTrack, Misled
  <2>3. PICK w \in Int : /\ held.degrees = w % Turn
                         /\ w - u <= 3 * Margin /\ u - w <= 3 * Margin
                         /\ v - w <= Margin /\ w - v <= Margin
    <3>1. CASE Doubting
      <4>1. Near(3) /\ held.degrees = truth % Turn
        BY <3>1 DEF Doubting
      <4>2. truth - u <= 3 * Margin /\ u - truth <= 3 * Margin
        BY <4>1 DEF Near
      <4> QED BY <1>2, <4>1, <4>2
    <3>2. CASE Doubted
      <4> DEFINE delta == ShortestDelta(held.degrees, r.degrees)
                 w == v - delta
      <4>1. r.time - held.time = dt
        BY <1>6, <2>1
      <4>2. delta \in Int /\ delta <= Margin /\ -delta <= Margin
        BY <1>6, <2>1, <4>1, PlausibleIsSmall
      <4>3. held.degrees = w % Turn
        BY <1>2, <1>6, <1>7, <2>1, StepBack DEF Report
      <4>4. Near(1)
        BY <3>2 DEF Doubted
      <4>5. truth - u <= Margin /\ u - truth <= Margin
        BY <4>4, MarginType DEF Near
      <4> HIDE DEF delta
      <4>6. w \in Int /\ v - w = delta /\ w - v = -delta
        BY <1>2, <4>2
      <4>7. w - u <= 3 * Margin /\ u - w <= 3 * Margin
        BY <1>2, <1>8, <4>2, <4>5, MarginType
      <4> HIDE DEF w
      <4>8. v - w <= Margin /\ w - v <= Margin
        BY <4>2, <4>6
      <4> QED BY <4>3, <4>6, <4>7, <4>8
    <3> QED BY <2>2, <3>1, <3>2
  <2>4. w - u <= 4 * Margin /\ u - w <= 4 * Margin
    BY <1>8, <2>3, MarginType
  <2>5. track.have /\ track.unwrapped = w /\ track.degrees = w % Turn
    BY <1>8, <2>3, <2>4, TrackerArrives
  <2>6. v - w <= 4 * Margin /\ w - v <= 4 * Margin
    BY <1>2, <2>3, MarginType
  <2> HIDE DEF track
  <2>7. OnTrack'
    BY <1>2, <1>4, <1>6, <1>7, <2>1, <2>3, <2>5, <2>6, BackOnTrack
  <2> QED BY <1>8, <2>1, <2>7 DEF DomeInv
<1>14. ASSUME Disagrees(r)
       PROVE  Misled \/ Doubted
  <2>1. ~Plausible(last, r) /\ (held # NoReport => ~Plausible(held, r))
    BY <1>14 DEF Disagrees
  <2>2. ASSUME OnTrack PROVE FALSE
    <3>1. last.degrees = truth % Turn /\ r.time - last.time = dt
      BY <1>6, <1>8, <2>2 DEF OnTrack
    <3> QED BY <1>2, <1>3, <1>7, <2>1, <3>1, GoodReportsAgree
  <2>3. ASSUME Doubting PROVE FALSE
    <3>1. held # NoReport /\ held.degrees = truth % Turn /\ r.time - held.time = dt
      BY <1>6, <1>8, <2>3 DEF Doubting
    <3> QED BY <1>2, <1>3, <1>7, <2>1, <3>1, GoodReportsAgree
  <2> QED BY <1>9, <2>2, <2>3
<1>15. ASSUME Disagrees(r)
       PROVE  clean = 0 /\ disagreements + 1 <= 2
  <2>1. CASE Misled
    <3>1. disagreements = 0
      BY <2>1, <1>8 DEF Misled, GInv, HeldInv
    <3> QED BY <2>1, <3>1 DEF Misled
  <2>2. CASE Doubted
    BY <2>2 DEF Doubted
  <2> QED BY <1>14, <1>15, <2>1, <2>2
<1>16. ~Resync(r)
  <2> SUFFICES ASSUME Resync(r) PROVE FALSE
    OBVIOUS
  <2>1. Disagrees(r) /\ disagreements + 1 >= ResyncAfter
    BY DEF Resync
  <2> QED BY <1>8, <1>15, <2>1, ResyncAssumption DEF Distinguishable
<1>17. ASSUME Hold(r)
       PROVE  DomeInv'
  <2>1. /\ Disagrees(r) /\ disagreements' = disagreements + 1 /\ held' = r
        /\ resyncCount' = 0 /\ tracker' = tracker
    BY <1>9, <1>17 DEF Hold, ApplyNone
  <2>2. clean' = 1 /\ disagreements' <= 2
    BY <1>4, <1>15, <2>1
  <2>3. held' # NoReport
    BY <1>6, <2>1, NoReportAssumption DEF Report, Degrees
  <2>4. u - v <= 3 * Margin /\ v - u <= 3 * Margin
    <3>1. CASE Misled
      <4>1. Near(2)
        BY <3>1 DEF Misled
      <4> QED BY <4>1, <1>2, <1>8, MarginType DEF Near
    <3>2. CASE Doubted
      <4>1. Near(1)
        BY <3>2 DEF Doubted
      <4> QED BY <4>1, <1>2, <1>8, MarginType DEF Near
    <3> QED BY <1>14, <2>1, <3>1, <3>2
  <2>5. Near(3)'
    BY <1>2, <2>1, <2>4 DEF Near, Margin
  <2>6. held'.degrees = truth' % Turn
    BY <1>2, <1>7, <2>1
  <2> QED BY <1>8, <2>1, <2>2, <2>3, <2>5, <2>6 DEF DomeInv, Doubting
<1> QED
  BY <1>6, <1>11, <1>12, <1>13, <1>16, <1>17

\* A misread finds the dome on track: it is held, or leads the angle astray by
\* as much as the gate lets pass and the dome turns.
LEMMA MisreadStep ==
  ASSUME Distinguishable, TruthType, GInv, TrackerFollowsGate, DomeInv,
         NEW dt \in Gaps, Misread(dt)
  PROVE  DomeInv'
<1>1. clean = Apart /\ arrived > 0 /\ TruthStep(dt) /\ clean' = 0
  BY DEF Misread
<1>2. PICK d \in Degrees : HandlePositionReport(dt, d)
  BY DEF Misread
<1>3. PICK step \in -Margin..Margin : truth' = truth + step
  BY <1>1, DomeTurns
<1> DEFINE v == truth + step
           r == NewReport(dt, d)
           u == tracker.unwrapped
<1>4. /\ truth \in Int /\ step \in Int /\ v \in Int /\ truth' = v
      /\ v - truth <= Margin /\ truth - v <= Margin
  BY <1>3, MarginType DEF TruthType
<1> HIDE DEF v
<1>5. /\ r \in Report /\ r.time = now' /\ arrived' = arrived + 1
      /\ now' = now + dt /\ now \in Nat /\ dt \in Int
      /\ AcceptFirst(r) \/ AcceptPlausible(r) \/ ConfirmHeld(r) \/ Resync(r) \/ Hold(r)
  BY <1>2, ReportIsNews
<1> HIDE DEF r
<1>6. /\ last \in Report /\ last # NoReport /\ arrived' > 0
      /\ tracker.have /\ u \in Int /\ tracker.degrees = u % Turn
      /\ last.degrees = tracker.degrees /\ disagreements \in Nat
  BY <1>1, <1>5, OnceReported
<1>7. resyncCount = 0 /\ OnTrack
  <2>1. clean # 0 /\ clean # 1
    BY <1>1, ApartAssumption DEF Distinguishable
  <2> QED BY <1>1, <2>1 DEF DomeInv, Fresh, Misled, Doubted, Doubting
<1>8. /\ held = NoReport /\ last.time = now /\ u = truth /\ disagreements = 0
  BY <1>6, <1>7 DEF OnTrack, GInv, HeldInv
<1>9. ~AcceptFirst(r) /\ ~ConfirmHeld(r) /\ ~Resync(r)
  <2>1. ~AcceptFirst(r) /\ ~ConfirmHeld(r)
    BY <1>6, <1>8 DEF AcceptFirst, Distinguishable, Enabled, ConfirmHeld, Confirms
  <2>2. ~Resync(r)
    <3> SUFFICES ASSUME Resync(r) PROVE FALSE
      OBVIOUS
    <3>1. disagreements + 1 >= ResyncAfter
      BY DEF Resync
    <3> QED BY <1>8, <3>1, ResyncAssumption DEF Distinguishable
  <2> QED BY <2>1, <2>2
<1>10. ASSUME AcceptPlausible(r)
       PROVE  DomeInv'
  <2> DEFINE delta == ShortestDelta(last.degrees, r.degrees)
  <2>1. /\ Plausible(last, r) /\ tracker' = TrackerUpdate(tracker, r) /\ held' = NoReport
        /\ resyncCount' = 0
    BY <1>7, <1>10 DEF AcceptPlausible, Drop, ApplyOne
  <2>2. r.time - last.time = dt
    BY <1>5, <1>8
  <2>3. delta \in Int /\ delta <= Margin /\ -delta <= Margin
    BY <1>5, <1>6, <2>1, <2>2, PlausibleIsSmall
  <2>4. tracker'.unwrapped = u + delta
    BY <1>6, <2>1 DEF TrackerUpdate
  <2> HIDE DEF delta
  <2>5. (u + delta) - v <= 2 * Margin /\ v - (u + delta) <= 2 * Margin
    BY <1>4, <1>6, <1>8, <2>3, MarginType
  <2>6. Near(2)'
    BY <1>4, <2>4, <2>5 DEF Near, Margin
  <2> QED BY <1>1, <1>6, <2>1, <2>6 DEF DomeInv, Misled
<1>11. ASSUME Hold(r)
       PROVE  DomeInv'
  <2>1. /\ disagreements' = 1 /\ held' = r /\ resyncCount' = 0 /\ tracker' = tracker
    BY <1>7, <1>8, <1>11 DEF Hold, ApplyNone
  <2>2. held' # NoReport
    BY <1>5, <2>1, NoReportAssumption DEF Report, Degrees
  <2>3. u - v <= 1 * Margin /\ v - u <= 1 * Margin
    BY <1>4, <1>8, MarginType
  <2>4. Near(1)'
    BY <1>4, <2>1, <2>3 DEF Near, Margin
  <2> QED BY <1>1, <1>6, <2>1, <2>2, <2>4 DEF DomeInv, Doubted
<1> QED
  BY <1>5, <1>9, <1>10, <1>11

LEMMA DomeInductive ==
  ASSUME Distinguishable, TruthType, GInv, TrackerFollowsGate, DomeInv,
         [DomeNext]_domeVars
  PROVE  DomeInv'
<1>1. ASSUME NEW dt \in Gaps, GoodReport(dt)
      PROVE  DomeInv'
  <2>1. arrived = 0 \/ arrived > 0
    BY DEF DomeInv, Fresh
  <2> QED BY <1>1, <2>1, FirstReport, GoodStep
<1>2. CASE UNCHANGED domeVars
  BY <1>2 DEF domeVars, vars, gateVars, countVars, DomeInv, Fresh, OnTrack, Misled,
              Doubted, Doubting, Near, Margin
<1> QED
  BY <1>1, <1>2, MisreadStep DEF DomeNext

LEMMA DomeInvariant ==
  ASSUME Distinguishable
  PROVE  DomeSpec => [](TruthType /\ GInv /\ DomeInv)
<1>1. DomeSpec => []TruthType /\ Spec
  BY DomeStarts, DomeStepsGate, PTL DEF DomeSpec, Spec
<1>2. DomeSpec => []GInv /\ []TrackerFollowsGate
  BY <1>1, GateInvariant, TrackerFollows, PTL
<1>3. DomeSpec => []DomeInv
  BY <1>1, <1>2, DomeStarts, DomeInductive, PTL DEF DomeSpec
<1> QED
  BY <1>1, <1>2, <1>3, PTL

-----------------------------------------------------------------------------
(* The theorems.                                                            *)

\* Where eight steps that the gate lets pass do not make a turn, no misread
\* shifts the angle: after two good reports it is the dome's, however the misread
\* was judged.
THEOREM MisreadsDoNotShift ==
  ASSUME Distinguishable
  PROVE  DomeSpec => []AngleIsTrue
<1>1. TruthType /\ GInv /\ DomeInv => AngleIsTrue
  <2> SUFFICES ASSUME TruthType, DomeInv, clean >= 2, arrived > 0, held = NoReport
               PROVE  tracker.unwrapped = truth
    BY DEF AngleIsTrue
  <2>1. clean # 0 /\ arrived # 0
    BY ApartAssumption DEF TruthType
  <2> QED BY <2>1 DEF DomeInv, Fresh, OnTrack, Misled, Doubted, Doubting
<1> QED
  BY <1>1, DomeInvariant, PTL

\* Nor does the gate ever give up its history: two good reports in a row settle a
\* misread before the disagreements are kResyncAfter.
THEOREM HistoryIsKept ==
  ASSUME Distinguishable
  PROVE  DomeSpec => []NeverResynced
<1>1. DomeInv => NeverResynced
  BY DEF DomeInv, NeverResynced
<1> QED
  BY <1>1, DomeInvariant, PTL
===============================================================================
