------------------------- MODULE MotionControl_proofs -------------------------
(***************************************************************************)
(* Proofs that MotionControl keeps its safety invariants and its three     *)
(* action properties for every set of percents, moves, controllers         *)
(* and callers, and for every bound.                                       *)
(***************************************************************************)
EXTENDS MotionControl, SequenceTheorems, TLAPS

-----------------------------------------------------------------------------
(* The inductive invariant.                                                 *)

\* What each send has done by the time it is recorded.
SendInv ==
  /\ cmPc = "velocityStore" => motor = cmdVelocity /\ currentMode = "VELOCITY"
  /\ cmPc \in {"driveStore", "driveDone"} => motor = outPercent
  /\ cmPc \in {"stopStore", "modeStopStore", "deactivateStore"} => motor = 0

\* The bench claim: a percent that was sent, is pending, or is on its way to
\* the wire keeps the bench claimed.
ClaimInv ==
  /\ benchLastSentPercent # 0 => benchActive
  /\ benchPendingPercent # 0 => benchActive
  /\ cmPc \in {"driveSend", "driveStore", "driveDone"} => benchActive

\* No bench percent has been sent while a controller holds the dome, or is
\* about to, ...
ControllerInv ==
  /\ cmPc \in {"modeStop", "modeStopStore", "modeCommit"} /\ newMode # "IDLE"
       => benchLastSentPercent = 0
  /\ cmPc = "deactivateReset" => currentMode = "IDLE"
  /\ BenchYieldsToController

\* ... nor while write() has found the bench unclaimed and goes on to send a
\* settings write.
WriteInv ==
  /\ cmPc \in {"refresh", "refreshLock", "queue"} /\ ~benchBusy
       => benchLastSentPercent = 0
  /\ cmPc = "io" /\ ioCommand = "PARAMETER_UPDATE_ACK" => benchLastSentPercent = 0

\* Telemetry reports the claim and the mode, but for the moment in which
\* on_deactivate has stored the mode and not yet reset the bench.
TelemetryInv ==
  /\ cmPc # "deactivateReset"
       => telemetryCommandMode = TelemetryMode(benchActive, currentMode)
  /\ telemetryCommandMode = "IDLE" => ~benchActive

\* Bench motion that was asked for.
MotionAsked == benchActive /\ (benchPendingPercent # 0 \/ benchMoveTarget # NoMove)

\* Bench motion and settings writes exclude each other: the executor, the only
\* one to accept either, looked for the other before, and the controller
\* manager thread only ever takes both away.
ExclusionInv ==
  /\ MotionAsked => ~SettingsWriteInFlight
  /\ exPc = "drive" /\ exPercent # 0 => ~SettingsWriteInFlight
  /\ exPc = "move" => ~SettingsWriteInFlight
  /\ exPc = "settingsPush" => ~MotionAsked
  /\ cmPc = "driveSend" /\ outPercent # 0 => sendQueueStage = "IDLE"
  /\ cmPc = "moveSend" => sendQueueStage = "IDLE"

IInv ==
  /\ TypeOK
  /\ SendInv /\ RecordNeverLow /\ BenchRecordTrue
  /\ ClaimInv /\ ControllerInv /\ WriteInv /\ TelemetryInv
  /\ ExclusionInv

-----------------------------------------------------------------------------
(* The send queue.                                                          *)

\* A concatenation holds a settings write only if one of its parts does.
LEMMA Concatenated ==
  ASSUME NEW q \in Seq(Flow), NEW r \in Seq(Flow)
  PROVE  /\ q \o r \in Seq(Flow)
         /\ HasSettingsWrite(q \o r) => HasSettingsWrite(q) \/ HasSettingsWrite(r)
<1>1. /\ q \o r \in Seq(Flow)
      /\ Len(q \o r) = Len(q) + Len(r)
      /\ \A i \in 1..(Len(q) + Len(r)) :
           (q \o r)[i] = IF i <= Len(q) THEN q[i] ELSE r[i - Len(q)]
  BY ConcatProperties
<1>2. ASSUME NEW i \in 1..Len(q \o r), (q \o r)[i] = "PARAMETER_UPDATE_ACK"
      PROVE  HasSettingsWrite(q) \/ HasSettingsWrite(r)
  <2>1. Len(q) \in Nat /\ Len(r) \in Nat
    OBVIOUS
  <2>2. CASE i <= Len(q)
    <3>1. i \in 1..Len(q) /\ q[i] = "PARAMETER_UPDATE_ACK"
      BY <1>1, <1>2, <2>1, <2>2
    <3> QED BY <3>1 DEF HasSettingsWrite
  <2>3. CASE ~(i <= Len(q))
    <3>1. i - Len(q) \in 1..Len(r) /\ r[i - Len(q)] = "PARAMETER_UPDATE_ACK"
      BY <1>1, <1>2, <2>1, <2>3
    <3> QED BY <3>1 DEF HasSettingsWrite
  <2> QED BY <2>2, <2>3
<1> QED
  BY <1>1, <1>2 DEF HasSettingsWrite

\* A part of a queue holds a settings write only if the queue does.
LEMMA PartOfQueue ==
  ASSUME NEW q \in Seq(Flow), NEW m \in 1..(Len(q) + 1), NEW n \in 0..Len(q)
  PROVE  /\ SubSeq(q, m, n) \in Seq(Flow)
         /\ HasSettingsWrite(SubSeq(q, m, n)) => HasSettingsWrite(q)
<1>1. \A i \in m..n : q[i] \in Flow
  OBVIOUS
<1>2. /\ SubSeq(q, m, n) \in Seq(Flow)
      /\ Len(SubSeq(q, m, n)) = IF m <= n THEN n - m + 1 ELSE 0
      /\ \A i \in 1..(n - m + 1) : SubSeq(q, m, n)[i] = q[m + i - 1]
  BY <1>1, SubSeqProperties
<1>3. ASSUME NEW i \in 1..Len(SubSeq(q, m, n)),
             SubSeq(q, m, n)[i] = "PARAMETER_UPDATE_ACK"
      PROVE  HasSettingsWrite(q)
  <2>1. i \in 1..(n - m + 1) /\ m + i - 1 \in 1..Len(q)
    BY <1>2
  <2>2. q[m + i - 1] = "PARAMETER_UPDATE_ACK"
    BY <1>2, <1>3, <2>1
  <2> QED BY <2>1, <2>2 DEF HasSettingsWrite
<1> QED
  BY <1>2, <1>3 DEF HasSettingsWrite

\* A query holds no settings write, so appending one adds none.
LEMMA QueryAppended ==
  ASSUME NEW q \in Seq(Flow)
  PROVE  q \o Query \in Seq(Flow) /\ (HasSettingsWrite(q \o Query) => HasSettingsWrite(q))
<1>1. Query \in Seq(Flow) /\ Len(Query) = 2 /\ Query[1] = "ONE_SHOT" /\ Query[2] = "ONE_SHOT"
  BY DEF Query, Flow
<1>2. ~HasSettingsWrite(Query)
  BY <1>1 DEF HasSettingsWrite
<1> QED
  BY <1>1, <1>2, Concatenated

\* Nor does appending a single one-shot command.
LEMMA OneShotAppended ==
  ASSUME NEW q \in Seq(Flow)
  PROVE  /\ Append(q, "ONE_SHOT") \in Seq(Flow)
         /\ HasSettingsWrite(Append(q, "ONE_SHOT")) => HasSettingsWrite(q)
  BY DEF Flow, HasSettingsWrite

\* Nor does taking a command out, with the ones before it moved to the back.
LEMMA CommandTaken ==
  ASSUME NEW q \in Seq(Flow), NEW i \in 1..Len(q)
  PROVE  LET r == SubSeq(q, i + 1, Len(q)) \o SubSeq(q, 1, i - 1)
         IN  r \in Seq(Flow) /\ (HasSettingsWrite(r) => HasSettingsWrite(q))
<1> DEFINE a == SubSeq(q, i + 1, Len(q))
           b == SubSeq(q, 1, i - 1)
<1>1. Len(q) \in Nat
  OBVIOUS
<1>2. a \in Seq(Flow) /\ (HasSettingsWrite(a) => HasSettingsWrite(q))
  BY <1>1, PartOfQueue
<1>3. b \in Seq(Flow) /\ (HasSettingsWrite(b) => HasSettingsWrite(q))
  BY <1>1, PartOfQueue
<1> HIDE DEF a, b
<1>4. a \o b \in Seq(Flow) /\ (HasSettingsWrite(a \o b) => HasSettingsWrite(q))
  BY <1>2, <1>3, Concatenated
<1> QED
  BY <1>4 DEF a, b

\* The empty queue holds no settings write.
LEMMA EmptyQueue == <<>> \in Seq(Flow) /\ ~HasSettingsWrite(<<>>)
  BY DEF HasSettingsWrite

\* The queue stays a queue, and only a parameter callback that has passed its
\* checks puts a settings write in flight.
LEMMA QueueStepLemma ==
  ASSUME IInv, Next
  PROVE  QueueTypeOK' /\ (SettingsWriteInFlight' => SettingsWriteInFlight \/ exPc = "settingsPush")
<1> USE QueryAppended, OneShotAppended, EmptyQueue DEF IInv, TypeOK, QueueTypeOK,
    Flow, Stage, SettingsWriteInFlight, queueVars, localVars
<1>1. CASE WriteBegin
  BY <1>1 DEF WriteBegin
<1>2. CASE QueueSteps
  <2>1. CASE RefreshSample
    BY <2>1 DEF RefreshSample
  <2>2. CASE RefreshService
    BY <2>2 DEF RefreshService
  <2>3. ASSUME NEW t \in BOOLEAN, QueueStep(t) PROVE QueueTypeOK' /\ (SettingsWriteInFlight' => SettingsWriteInFlight \/ exPc = "settingsPush")
    <3> DEFINE stage == IF t THEN "IDLE" ELSE sendQueueStage
    <3>1. CASE UNCHANGED <<sendQueue, ioCommand>> /\ sendQueueStage' = stage
      BY <3>1 DEF HasSettingsWrite
    <3>2. CASE \E i \in 1..Len(sendQueue) :
                 /\ stage = "IDLE"
                 /\ ioCommand' = sendQueue[i]
                 /\ sendQueue' = SubSeq(sendQueue, i + 1, Len(sendQueue))
                                   \o SubSeq(sendQueue, 1, i - 1)
                 /\ sendQueueStage' = IF sendQueue[i] = "PARAMETER_UPDATE_ACK"
                                      THEN "WAIT_WRITE_SETTINGS" ELSE stage
      <4>1. PICK i \in 1..Len(sendQueue) :
              /\ stage = "IDLE"
              /\ ioCommand' = sendQueue[i]
              /\ sendQueue' = SubSeq(sendQueue, i + 1, Len(sendQueue))
                                \o SubSeq(sendQueue, 1, i - 1)
              /\ sendQueueStage' = IF sendQueue[i] = "PARAMETER_UPDATE_ACK"
                                   THEN "WAIT_WRITE_SETTINGS" ELSE stage
        BY <3>2
      <4>2. /\ sendQueue' \in Seq(Flow)
            /\ HasSettingsWrite(sendQueue') => HasSettingsWrite(sendQueue)
        BY <4>1, CommandTaken
      <4>3. ioCommand' \in Flow /\ (sendQueueStage' # "IDLE" => HasSettingsWrite(sendQueue))
        BY <4>1 DEF HasSettingsWrite
      <4>4. sendQueueStage' \in Stage
        BY <4>1 DEF Stage
      <4> QED BY <4>2, <4>3, <4>4
    <3> QED
      BY <2>3, <3>1, <3>2 DEF QueueStep
  <2>4. CASE QueueIo
    BY <2>4 DEF QueueIo, SendQueued, SendFails
  <2> QED
    BY <1>2, <2>1, <2>2, <2>3, <2>4 DEF QueueSteps
<1>3. CASE ControlSteps
  BY <1>3 DEF ControlSteps, VelocityCommand, SendPercent, SendFails, VelocityStore,
      RecordCommandedPercent, PositionCommand, SendMove, PositionStore,
      NoControllerCommand
<1>4. CASE ServiceSteps
  BY <1>4 DEF ServiceSteps, ServiceStops, ServiceMove, ServiceDrive, ServiceNothing
<1>5. CASE SendSteps
  BY <1>5 DEF SendSteps, MoveSend, SendMove, SendFails, MoveStore, MoveDone,
      DriveSend, SendPercent, DriveStore, RecordCommandedPercent, DriveDone
<1>6. CASE StopSteps
  BY <1>6 DEF StopSteps, StopCheck, StopSend, StopSent, StopNotSent, SendPercent, SendFails,
      StopStore,
      RecordStop, RecordCommandedPercent, StopReset, ResetBenchState, StopFailed
<1>7. CASE SwitchSteps
  BY <1>7 DEF SwitchSteps, ModeStop, StopSent, StopNotSent, SendPercent, SendFails, ModeStopStore,
      RecordStop, RecordCommandedPercent, ModeCommit
<1>8. CASE LifecycleSteps
  <2>1. CASE ActivateReset
    BY <2>1 DEF ActivateReset, ResetBenchState
  <2>2. CASE ActivateOpen
    BY <2>2 DEF ActivateOpen
  <2>3. CASE ActivateDone
    BY <2>3 DEF ActivateDone
  <2>4. CASE DeactivateQueue
    BY <2>4 DEF DeactivateQueue
  <2>5. CASE DeactivateStop
    BY <2>5 DEF DeactivateStop, SendPercent, SendFails
  <2>6. CASE DeactivateStore
    BY <2>6 DEF DeactivateStore, RecordStop, RecordCommandedPercent
  <2>7. CASE DeactivateMode
    BY <2>7 DEF DeactivateMode
  <2>8. CASE DeactivateReset
    BY <2>8 DEF DeactivateReset, ResetBenchState
  <2>9. CASE DeactivateClose
    BY <2>9 DEF DeactivateClose
  <2> QED
    BY <1>8, <2>1, <2>2, <2>3, <2>4, <2>5, <2>6, <2>7, <2>8, <2>9 DEF LifecycleSteps
<1>9. CASE ReadSteps
  <2>1. CASE ReadMoveEnd
    BY <2>1 DEF ReadMoveEnd
  <2>2. CASE ReadWriteSettings
    BY <2>2 DEF ReadWriteSettings
  <2>3. CASE ReadUnchanged
    BY <2>3 DEF ReadUnchanged
  <2>4. CASE ReadUpdated
    BY <2>4 DEF ReadUpdated
  <2> QED
    BY <1>9, <2>1, <2>2, <2>3, <2>4 DEF ReadSteps
<1>10. CASE ExecutorSteps
  <2>1. CASE DriveRecord
    BY <2>1 DEF DriveRecord
  <2>2. CASE MoveRecord
    BY <2>2 DEF MoveRecord
  <2>3. CASE SettingsCheck
    BY <2>3 DEF SettingsCheck
  <2>4. CASE SettingsPush
    BY <2>4 DEF SettingsPush
  <2>5. CASE RefreshCheck
    BY <2>5 DEF RefreshCheck
  <2>6. CASE RefreshPush
    BY <2>6 DEF RefreshPush
  <2>7. CASE BenchRequestCheck
    BY <2>7 DEF BenchRequestCheck
  <2> QED
    BY <1>10, <2>1, <2>2, <2>3, <2>4, <2>5, <2>6, <2>7 DEF ExecutorSteps
<1>11. CASE ClientSteps
  <2>1. ASSUME NEW p \in Percents, DriveCall(p) PROVE QueueTypeOK' /\ (SettingsWriteInFlight' => SettingsWriteInFlight \/ exPc = "settingsPush")
    BY <2>1 DEF DriveCall
  <2>2. ASSUME NEW m \in Moves, MoveCall(m) PROVE QueueTypeOK' /\ (SettingsWriteInFlight' => SettingsWriteInFlight \/ exPc = "settingsPush")
    BY <2>2 DEF MoveCall
  <2>3. CASE SettingsCall
    BY <2>3 DEF SettingsCall
  <2>4. CASE RefreshCall
    BY <2>4 DEF RefreshCall
  <2>5. CASE StatusPoll
    BY <2>5 DEF StatusPoll
  <2>6. CASE SetupCall
    BY <2>6 DEF SetupCall
  <2>7. CASE HeartbeatLapses
    BY <2>7 DEF HeartbeatLapses
  <2> QED
    BY <1>11, <2>1, <2>2, <2>3, <2>4, <2>5, <2>6, <2>7 DEF ClientSteps
<1>12. CASE ManagerSteps
  <2>1. ASSUME NEW mode \in ControllerModes \cup {"IDLE"}, SwitchBegin(mode) PROVE QueueTypeOK' /\ (SettingsWriteInFlight' => SettingsWriteInFlight \/ exPc = "settingsPush")
    BY <2>1 DEF SwitchBegin
  <2>2. ASSUME NEW v \in Percents \cup {NoPercent}, ControllerUpdate(v) PROVE QueueTypeOK' /\ (SettingsWriteInFlight' => SettingsWriteInFlight \/ exPc = "settingsPush")
    BY <2>2 DEF ControllerUpdate
  <2>3. CASE ActivateBegin
    BY <2>3 DEF ActivateBegin
  <2>4. CASE DeactivateBegin
    BY <2>4 DEF DeactivateBegin
  <2> QED
    BY <1>12, <2>1, <2>2, <2>3, <2>4 DEF ManagerSteps
<1>13. CASE FwMoveEnds
  BY <1>13 DEF FwMoveEnds
<1> QED
  BY <1>1, <1>2, <1>3, <1>4, <1>5, <1>6, <1>7, <1>8, <1>9, <1>10, <1>11, <1>12, <1>13
      DEF Next, WriteSteps

-----------------------------------------------------------------------------
(* Each part of the invariant is kept by every step.                        *)

\* Program counters stay program counters.
LEMMA PcTypeStep ==
  ASSUME IInv, Next
  PROVE  PcTypeOK'
<1> USE DEF IInv, TypeOK, PcTypeOK, CmPc, ExPc, exVars, localVars
<1>1. CASE WriteBegin
  BY <1>1 DEF WriteBegin
<1>2. CASE QueueSteps
  BY <1>2 DEF QueueSteps, RefreshSample, RefreshService, QueueStep, QueueIo,
      SendQueued, SendFails
<1>3. CASE ControlSteps
  BY <1>3 DEF ControlSteps, VelocityCommand, SendPercent, SendFails, VelocityStore,
      RecordCommandedPercent, PositionCommand, SendMove, PositionStore,
      NoControllerCommand
<1>4. CASE ServiceSteps
  BY <1>4 DEF ServiceSteps, ServiceStops, ServiceMove, ServiceDrive, ServiceNothing
<1>5. CASE SendSteps
  BY <1>5 DEF SendSteps, MoveSend, SendMove, SendFails, MoveStore, MoveDone,
      DriveSend, SendPercent, DriveStore, RecordCommandedPercent, DriveDone
<1>6. CASE StopSteps
  BY <1>6 DEF StopSteps, StopCheck, StopSend, StopSent, StopNotSent, SendPercent, SendFails,
      StopStore,
      RecordStop, RecordCommandedPercent, StopReset, ResetBenchState, StopFailed
<1>7. CASE SwitchSteps
  BY <1>7 DEF SwitchSteps, ModeStop, StopSent, StopNotSent, SendPercent, SendFails, ModeStopStore,
      RecordStop, RecordCommandedPercent, ModeCommit
<1>8. CASE LifecycleSteps
  BY <1>8 DEF LifecycleSteps, ActivateReset, ResetBenchState, ActivateOpen,
      ActivateDone, DeactivateQueue, DeactivateStop, SendPercent, SendFails,
      DeactivateStore, RecordStop, RecordCommandedPercent, DeactivateMode,
      DeactivateReset, DeactivateClose
<1>9. CASE ReadSteps
  BY <1>9 DEF ReadSteps, ReadMoveEnd, ReadWriteSettings, ReadUnchanged, ReadUpdated
<1>10. CASE ExecutorSteps
  BY <1>10 DEF ExecutorSteps, BenchRequestCheck, DriveRecord, MoveRecord, SettingsCheck,
      SettingsPush,
      RefreshCheck, RefreshPush
<1>11. CASE ClientSteps
  BY <1>11 DEF ClientSteps, DriveCall, MoveCall, SettingsCall, RefreshCall,
      StatusPoll, SetupCall, HeartbeatLapses
<1>12. CASE ManagerSteps
  BY <1>12 DEF ManagerSteps, SwitchBegin, ControllerUpdate, ActivateBegin,
      DeactivateBegin
<1>13. CASE FwMoveEnds
  BY <1>13 DEF FwMoveEnds
<1> QED
  BY <1>1, <1>2, <1>3, <1>4, <1>5, <1>6, <1>7, <1>8, <1>9, <1>10, <1>11, <1>12, <1>13
      DEF Next, WriteSteps

\* Modes stay modes.
LEMMA ModeTypeStep ==
  ASSUME IInv, Next
  PROVE  ModeTypeOK'
<1> USE ModesAssumption DEF IInv, TypeOK, ModeTypeOK, Mode, modeVars, localVars
<1>1. CASE WriteBegin
  BY <1>1 DEF WriteBegin
<1>2. CASE QueueSteps
  BY <1>2 DEF QueueSteps, RefreshSample, RefreshService, QueueStep, QueueIo,
      SendQueued, SendFails
<1>3. CASE ControlSteps
  BY <1>3 DEF ControlSteps, VelocityCommand, SendPercent, SendFails, VelocityStore,
      RecordCommandedPercent, PositionCommand, SendMove, PositionStore,
      NoControllerCommand
<1>4. CASE ServiceSteps
  BY <1>4 DEF ServiceSteps, ServiceStops, ServiceMove, ServiceDrive, ServiceNothing,
      TelemetryMode
<1>5. CASE SendSteps
  BY <1>5 DEF SendSteps, MoveSend, SendMove, SendFails, MoveStore, MoveDone,
      DriveSend, SendPercent, DriveStore, RecordCommandedPercent, DriveDone,
      TelemetryMode
<1>6. CASE StopSteps
  BY <1>6 DEF StopSteps, StopCheck, StopSend, StopSent, StopNotSent, SendPercent, SendFails,
      StopStore,
      RecordStop, RecordCommandedPercent, StopReset, ResetBenchState, TelemetryMode,
      StopFailed
<1>7. CASE SwitchSteps
  BY <1>7 DEF SwitchSteps, ModeStop, StopSent, StopNotSent, SendPercent, SendFails, ModeStopStore,
      RecordStop, RecordCommandedPercent, ModeCommit, TelemetryMode
<1>8. CASE LifecycleSteps
  BY <1>8 DEF LifecycleSteps, ActivateReset, ResetBenchState, TelemetryMode,
      ActivateOpen, ActivateDone, DeactivateQueue, DeactivateStop, SendPercent,
      SendFails, DeactivateStore, RecordStop, RecordCommandedPercent, DeactivateMode,
      DeactivateReset, DeactivateClose
<1>9. CASE ReadSteps
  BY <1>9 DEF ReadSteps, ReadMoveEnd, ReadWriteSettings, ReadUnchanged, ReadUpdated
<1>10. CASE ExecutorSteps
  BY <1>10 DEF ExecutorSteps, BenchRequestCheck, DriveRecord, TelemetryMode, MoveRecord,
      SettingsCheck,
      SettingsPush, RefreshCheck, RefreshPush
<1>11. CASE ClientSteps
  BY <1>11 DEF ClientSteps, DriveCall, MoveCall, SettingsCall, RefreshCall,
      StatusPoll, SetupCall, HeartbeatLapses
<1>12. CASE ManagerSteps
  BY <1>12 DEF ManagerSteps, SwitchBegin, ControllerUpdate, ActivateBegin,
      DeactivateBegin
<1>13. CASE FwMoveEnds
  BY <1>13 DEF FwMoveEnds
<1> QED
  BY <1>1, <1>2, <1>3, <1>4, <1>5, <1>6, <1>7, <1>8, <1>9, <1>10, <1>11, <1>12, <1>13
      DEF Next, WriteSteps

\* Percents stay percents; a velocity command is only recorded after it was sent,
\* so the record is never NaN (SendInv).
LEMMA PercentTypeStep ==
  ASSUME IInv, Next
  PROVE  PercentTypeOK'
<1> USE PercentsAssumption DEF IInv, TypeOK, PercentTypeOK, SendInv, benchVars,
    recordVars, localVars, exVars, fwVars
<1>1. CASE WriteBegin
  BY <1>1 DEF WriteBegin
<1>2. CASE QueueSteps
  BY <1>2 DEF QueueSteps, RefreshSample, RefreshService, QueueStep, QueueIo,
      SendQueued, SendFails
<1>3. CASE ControlSteps
  BY <1>3 DEF ControlSteps, VelocityCommand, VelocityDue, SendPercent, SendFails,
      VelocityStore, RecordCommandedPercent, PositionCommand, SendMove, PositionStore,
      NoControllerCommand
<1>4. CASE ServiceSteps
  BY <1>4 DEF ServiceSteps, ServiceStops, ServiceMove, ServiceDrive, ServiceNothing
<1>5. CASE SendSteps
  BY <1>5, ZenonT(40) DEF SendSteps, MoveSend, SendMove, SendFails, MoveStore, MoveDone,
      DriveSend, SendPercent, DriveStore, RecordCommandedPercent, DriveDone,
      SentPercent
<1>6. CASE StopSteps
  BY <1>6, ZenonT(40) DEF StopSteps, StopCheck, StopSend, StopSent, StopNotSent, SendPercent,
      SendFails, StopStore,
      RecordStop, RecordCommandedPercent, StopReset, ResetBenchState, StopFailed
<1>7. CASE SwitchSteps
  BY <1>7 DEF SwitchSteps, ModeStop, StopSent, StopNotSent, SendPercent, SendFails, ModeStopStore,
      RecordStop, RecordCommandedPercent, ModeCommit
<1>8. CASE LifecycleSteps
  BY <1>8, ZenonT(40) DEF LifecycleSteps, ActivateReset, ResetBenchState, ActivateOpen,
      ActivateDone, DeactivateQueue, DeactivateStop, SendPercent, SendFails,
      DeactivateStore, RecordStop, RecordCommandedPercent, DeactivateMode,
      DeactivateReset, DeactivateClose
<1>9. CASE ReadSteps
  BY <1>9 DEF ReadSteps, ReadMoveEnd, ReadWriteSettings, ReadUnchanged, ReadUpdated
<1>10. CASE ExecutorSteps
  BY <1>10, ZenonT(40) DEF ExecutorSteps, BenchRequestCheck, DriveRecord, MoveRecord,
      SettingsCheck, SettingsPush,
      RefreshCheck, RefreshPush
<1>11. CASE ClientSteps
  BY <1>11, ZenonT(40) DEF ClientSteps, DriveCall, MoveCall, SettingsCall, RefreshCall,
      StatusPoll, SetupCall, HeartbeatLapses
<1>12. CASE ManagerSteps
  BY <1>12 DEF ManagerSteps, SwitchBegin, ControllerUpdate, ActivateBegin,
      DeactivateBegin
<1>13. CASE FwMoveEnds
  BY <1>13 DEF FwMoveEnds
<1> QED
  BY <1>1, <1>2, <1>3, <1>4, <1>5, <1>6, <1>7, <1>8, <1>9, <1>10, <1>11, <1>12, <1>13
      DEF Next, WriteSteps

\* Moves stay moves.
LEMMA MoveTypeStep ==
  ASSUME IInv, Next
  PROVE  MoveTypeOK'
<1> USE DEF IInv, TypeOK, MoveTypeOK, benchVars, localVars, exVars
<1>1. CASE WriteBegin
  BY <1>1 DEF WriteBegin
<1>2. CASE QueueSteps
  BY <1>2 DEF QueueSteps, RefreshSample, RefreshService, QueueStep, QueueIo,
      SendQueued, SendFails
<1>3. CASE ControlSteps
  BY <1>3 DEF ControlSteps, VelocityCommand, SendPercent, SendFails, VelocityStore,
      RecordCommandedPercent, PositionCommand, SendMove, PositionStore,
      NoControllerCommand
<1>4. CASE ServiceSteps
  BY <1>4 DEF ServiceSteps, ServiceStops, ServiceMove, ServiceDrive, ServiceNothing
<1>5. CASE SendSteps
  BY <1>5 DEF SendSteps, MoveSend, SendMove, SendFails, MoveStore, MoveDone,
      DriveSend, SendPercent, DriveStore, RecordCommandedPercent, DriveDone
<1>6. CASE StopSteps
  BY <1>6 DEF StopSteps, StopCheck, StopSend, StopSent, StopNotSent, SendPercent, SendFails,
      StopStore,
      RecordStop, RecordCommandedPercent, StopReset, ResetBenchState, StopFailed
<1>7. CASE SwitchSteps
  BY <1>7 DEF SwitchSteps, ModeStop, StopSent, StopNotSent, SendPercent, SendFails, ModeStopStore,
      RecordStop, RecordCommandedPercent, ModeCommit
<1>8. CASE LifecycleSteps
  BY <1>8 DEF LifecycleSteps, ActivateReset, ResetBenchState, ActivateOpen,
      ActivateDone, DeactivateQueue, DeactivateStop, SendPercent, SendFails,
      DeactivateStore, RecordStop, RecordCommandedPercent, DeactivateMode,
      DeactivateReset, DeactivateClose
<1>9. CASE ReadSteps
  BY <1>9 DEF ReadSteps, ReadMoveEnd, ReadWriteSettings, ReadUnchanged, ReadUpdated
<1>10. CASE ExecutorSteps
  BY <1>10 DEF ExecutorSteps, BenchRequestCheck, DriveRecord, MoveRecord, SettingsCheck,
      SettingsPush,
      RefreshCheck, RefreshPush
<1>11. CASE ClientSteps
  BY <1>11 DEF ClientSteps, DriveCall, MoveCall, SettingsCall, RefreshCall,
      StatusPoll, SetupCall, HeartbeatLapses
<1>12. CASE ManagerSteps
  BY <1>12 DEF ManagerSteps, SwitchBegin, ControllerUpdate, ActivateBegin,
      DeactivateBegin
<1>13. CASE FwMoveEnds
  BY <1>13 DEF FwMoveEnds
<1> QED
  BY <1>1, <1>2, <1>3, <1>4, <1>5, <1>6, <1>7, <1>8, <1>9, <1>10, <1>11, <1>12, <1>13
      DEF Next, WriteSteps

\* Counters stay in their bounds.
LEMMA CountTypeStep ==
  ASSUME IInv, Next
  PROVE  CountTypeOK'
<1> USE BoundsAssumption DEF IInv, TypeOK, CountTypeOK, fwVars
<1>1. CASE WriteBegin
  BY <1>1 DEF WriteBegin
<1>2. CASE QueueSteps
  <2>1. CASE RefreshSample
    BY <2>1 DEF RefreshSample
  <2>2. CASE RefreshService
    BY <2>2 DEF RefreshService
  <2>3. ASSUME NEW t \in BOOLEAN, QueueStep(t) PROVE CountTypeOK'
    BY <2>3 DEF QueueStep
  <2>4. CASE QueueIo
    BY <2>4 DEF QueueIo, SendQueued, SendFails
  <2> QED
    BY <1>2, <2>1, <2>2, <2>3, <2>4 DEF QueueSteps
<1>3. CASE ControlSteps
  BY <1>3 DEF ControlSteps, VelocityCommand, SendPercent, SendFails, VelocityStore,
      RecordCommandedPercent, PositionCommand, SendMove, PositionStore,
      NoControllerCommand
<1>4. CASE ServiceSteps
  BY <1>4 DEF ServiceSteps, ServiceStops, ServiceMove, ServiceDrive, ServiceNothing
<1>5. CASE SendSteps
  <2>1. CASE MoveSend
    BY <2>1 DEF MoveSend, SendMove, SendFails
  <2>2. CASE MoveStore
    BY <2>2 DEF MoveStore
  <2>3. CASE MoveDone
    BY <2>3 DEF MoveDone
  <2>4. CASE DriveSend
    BY <2>4 DEF DriveSend, SendPercent, SendFails
  <2>5. CASE DriveStore
    BY <2>5 DEF DriveStore, RecordCommandedPercent
  <2>6. CASE DriveDone
    BY <2>6 DEF DriveDone
  <2> QED
    BY <1>5, <2>1, <2>2, <2>3, <2>4, <2>5, <2>6 DEF SendSteps
<1>6. CASE StopSteps
  <2>1. CASE StopCheck
    BY <2>1 DEF StopCheck
  <2>2. CASE StopSend
    BY <2>2 DEF StopSend, StopSent, StopNotSent, SendPercent, SendFails
  <2>3. CASE StopStore
    BY <2>3 DEF StopStore, RecordStop, RecordCommandedPercent
  <2>4. CASE StopReset
    BY <2>4 DEF StopReset, ResetBenchState
  <2>5. CASE StopFailed
    BY <2>5 DEF StopFailed
  <2> QED
    BY <1>6, <2>1, <2>2, <2>3, <2>4, <2>5 DEF StopSteps
<1>7. CASE SwitchSteps
  BY <1>7 DEF SwitchSteps, ModeStop, StopSent, StopNotSent, SendPercent, SendFails, ModeStopStore,
      RecordStop, RecordCommandedPercent, ModeCommit
<1>8. CASE LifecycleSteps
  <2>1. CASE ActivateReset
    BY <2>1 DEF ActivateReset, ResetBenchState
  <2>2. CASE ActivateOpen
    BY <2>2 DEF ActivateOpen
  <2>3. CASE ActivateDone
    BY <2>3 DEF ActivateDone
  <2>4. CASE DeactivateQueue
    BY <2>4 DEF DeactivateQueue
  <2>5. CASE DeactivateStop
    BY <2>5 DEF DeactivateStop, SendPercent, SendFails
  <2>6. CASE DeactivateStore
    BY <2>6 DEF DeactivateStore, RecordStop, RecordCommandedPercent
  <2>7. CASE DeactivateMode
    BY <2>7 DEF DeactivateMode
  <2>8. CASE DeactivateReset
    BY <2>8 DEF DeactivateReset, ResetBenchState
  <2>9. CASE DeactivateClose
    BY <2>9 DEF DeactivateClose
  <2> QED
    BY <1>8, <2>1, <2>2, <2>3, <2>4, <2>5, <2>6, <2>7, <2>8, <2>9 DEF LifecycleSteps
<1>9. CASE ReadSteps
  BY <1>9 DEF ReadSteps, ReadMoveEnd, ReadWriteSettings, ReadUnchanged, ReadUpdated
<1>10. CASE ExecutorSteps
  BY <1>10 DEF ExecutorSteps, BenchRequestCheck, DriveRecord, MoveRecord, SettingsCheck,
      SettingsPush,
      RefreshCheck, RefreshPush
<1>11. CASE ClientSteps
  BY <1>11 DEF ClientSteps, DriveCall, MoveCall, SettingsCall, RefreshCall,
      StatusPoll, SetupCall, HeartbeatLapses
<1>12. CASE ManagerSteps
  BY <1>12 DEF ManagerSteps, SwitchBegin, ControllerUpdate, ActivateBegin,
      DeactivateBegin
<1>13. CASE FwMoveEnds
  BY <1>13 DEF FwMoveEnds
<1> QED
  BY <1>1, <1>2, <1>3, <1>4, <1>5, <1>6, <1>7, <1>8, <1>9, <1>10, <1>11, <1>12, <1>13
      DEF Next, WriteSteps

\* Flags stay Boolean.
LEMMA FlagTypeStep ==
  ASSUME IInv, Next
  PROVE  FlagTypeOK'
<1> USE DEF IInv, TypeOK, FlagTypeOK, lifeVars, modeVars, benchVars, queueVars,
    recordVars, localVars, exVars, fwVars
<1>1. CASE WriteBegin
  BY <1>1 DEF WriteBegin
<1>2. CASE QueueSteps
  <2>1. CASE RefreshSample
    BY <2>1 DEF RefreshSample
  <2>2. CASE RefreshService
    BY <2>2 DEF RefreshService
  <2>3. ASSUME NEW t \in BOOLEAN, QueueStep(t) PROVE FlagTypeOK'
    BY <2>3 DEF QueueStep
  <2>4. CASE QueueIo
    BY <2>4, ZenonT(40) DEF QueueIo, SendQueued, SendFails
  <2> QED
    BY <1>2, <2>1, <2>2, <2>3, <2>4 DEF QueueSteps
<1>3. CASE ControlSteps
  <2>1. CASE VelocityCommand
    BY <2>1 DEF VelocityCommand, SendPercent, SendFails
  <2>2. CASE VelocityStore
    BY <2>2 DEF VelocityStore, RecordCommandedPercent
  <2>3. CASE PositionCommand
    BY <2>3, ZenonT(40) DEF PositionCommand, SendMove, SendFails
  <2>4. CASE PositionStore
    BY <2>4 DEF PositionStore
  <2>5. CASE NoControllerCommand
    BY <2>5 DEF NoControllerCommand
  <2> QED
    BY <1>3, <2>1, <2>2, <2>3, <2>4, <2>5 DEF ControlSteps
<1>4. CASE ServiceSteps
  <2>1. CASE ServiceStops
    BY <2>1 DEF ServiceStops
  <2>2. CASE ServiceMove
    BY <2>2 DEF ServiceMove
  <2>3. CASE ServiceDrive
    BY <2>3 DEF ServiceDrive
  <2>4. CASE ServiceNothing
    BY <2>4 DEF ServiceNothing, ClaimKept
  <2> QED
    BY <1>4, <2>1, <2>2, <2>3, <2>4 DEF ServiceSteps
<1>5. CASE SendSteps
  <2>1. CASE MoveSend
    BY <2>1, ZenonT(40) DEF MoveSend, SendMove, SendFails
  <2>2. CASE MoveStore
    BY <2>2 DEF MoveStore
  <2>3. CASE MoveDone
    BY <2>3 DEF MoveDone
  <2>4. CASE DriveSend
    BY <2>4 DEF DriveSend, SendPercent, SendFails
  <2>5. CASE DriveStore
    BY <2>5 DEF DriveStore, RecordCommandedPercent
  <2>6. CASE DriveDone
    BY <2>6 DEF DriveDone
  <2> QED
    BY <1>5, <2>1, <2>2, <2>3, <2>4, <2>5, <2>6 DEF SendSteps
<1>6. CASE StopSteps
  <2>1. CASE StopCheck
    BY <2>1 DEF StopCheck
  <2>2. CASE StopSend
    BY <2>2 DEF StopSend, StopSent, StopNotSent, SendPercent, SendFails
  <2>3. CASE StopStore
    BY <2>3 DEF StopStore, RecordStop, RecordCommandedPercent
  <2>4. CASE StopReset
    BY <2>4 DEF StopReset, ResetBenchState
  <2>5. CASE StopFailed
    BY <2>5 DEF StopFailed
  <2> QED
    BY <1>6, <2>1, <2>2, <2>3, <2>4, <2>5 DEF StopSteps
<1>7. CASE SwitchSteps
  <2>1. CASE ModeStop
    BY <2>1 DEF ModeStop, StopSent, StopNotSent, SendPercent, SendFails
  <2>2. CASE ModeStopStore
    BY <2>2 DEF ModeStopStore, RecordStop, RecordCommandedPercent
  <2>3. CASE ModeCommit
    BY <2>3 DEF ModeCommit
  <2> QED
    BY <1>7, <2>1, <2>2, <2>3 DEF SwitchSteps
<1>8. CASE LifecycleSteps
  <2>1. CASE ActivateReset
    BY <2>1 DEF ActivateReset, ResetBenchState
  <2>2. CASE ActivateOpen
    BY <2>2 DEF ActivateOpen
  <2>3. CASE ActivateDone
    BY <2>3 DEF ActivateDone
  <2>4. CASE DeactivateQueue
    BY <2>4 DEF DeactivateQueue
  <2>5. CASE DeactivateStop
    BY <2>5 DEF DeactivateStop, SendPercent, SendFails
  <2>6. CASE DeactivateStore
    BY <2>6 DEF DeactivateStore, RecordStop, RecordCommandedPercent
  <2>7. CASE DeactivateMode
    BY <2>7 DEF DeactivateMode
  <2>8. CASE DeactivateReset
    BY <2>8 DEF DeactivateReset, ResetBenchState
  <2>9. CASE DeactivateClose
    BY <2>9 DEF DeactivateClose
  <2> QED
    BY <1>8, <2>1, <2>2, <2>3, <2>4, <2>5, <2>6, <2>7, <2>8, <2>9 DEF LifecycleSteps
<1>9. CASE ReadSteps
  <2>1. CASE ReadMoveEnd
    BY <2>1 DEF ReadMoveEnd
  <2>2. CASE ReadWriteSettings
    BY <2>2 DEF ReadWriteSettings
  <2>3. CASE ReadUnchanged
    BY <2>3 DEF ReadUnchanged
  <2>4. CASE ReadUpdated
    BY <2>4 DEF ReadUpdated
  <2> QED
    BY <1>9, <2>1, <2>2, <2>3, <2>4 DEF ReadSteps
<1>10. CASE ExecutorSteps
  <2>1. CASE DriveRecord
    BY <2>1 DEF DriveRecord
  <2>2. CASE MoveRecord
    BY <2>2 DEF MoveRecord
  <2>3. CASE SettingsCheck
    BY <2>3 DEF SettingsCheck
  <2>4. CASE SettingsPush
    BY <2>4 DEF SettingsPush
  <2>5. CASE RefreshCheck
    BY <2>5 DEF RefreshCheck
  <2>6. CASE RefreshPush
    BY <2>6 DEF RefreshPush
  <2>7. CASE BenchRequestCheck
    BY <2>7 DEF BenchRequestCheck
  <2> QED
    BY <1>10, <2>1, <2>2, <2>3, <2>4, <2>5, <2>6, <2>7 DEF ExecutorSteps
<1>11. CASE ClientSteps
  <2>1. ASSUME NEW p \in Percents, DriveCall(p) PROVE FlagTypeOK'
    BY <2>1 DEF DriveCall
  <2>2. ASSUME NEW m \in Moves, MoveCall(m) PROVE FlagTypeOK'
    BY <2>2 DEF MoveCall
  <2>3. CASE SettingsCall
    BY <2>3 DEF SettingsCall
  <2>4. CASE RefreshCall
    BY <2>4 DEF RefreshCall
  <2>5. CASE StatusPoll
    BY <2>5 DEF StatusPoll
  <2>6. CASE SetupCall
    BY <2>6 DEF SetupCall
  <2>7. CASE HeartbeatLapses
    BY <2>7 DEF HeartbeatLapses
  <2> QED
    BY <1>11, <2>1, <2>2, <2>3, <2>4, <2>5, <2>6, <2>7 DEF ClientSteps
<1>12. CASE ManagerSteps
  <2>1. ASSUME NEW mode \in ControllerModes \cup {"IDLE"}, SwitchBegin(mode) PROVE FlagTypeOK'
    BY <2>1 DEF SwitchBegin
  <2>2. ASSUME NEW v \in Percents \cup {NoPercent}, ControllerUpdate(v) PROVE FlagTypeOK'
    BY <2>2 DEF ControllerUpdate
  <2>3. CASE ActivateBegin
    BY <2>3 DEF ActivateBegin
  <2>4. CASE DeactivateBegin
    BY <2>4 DEF DeactivateBegin
  <2> QED
    BY <1>12, <2>1, <2>2, <2>3, <2>4 DEF ManagerSteps
<1>13. CASE FwMoveEnds
  BY <1>13 DEF FwMoveEnds
<1> QED
  BY <1>1, <1>2, <1>3, <1>4, <1>5, <1>6, <1>7, <1>8, <1>9, <1>10, <1>11, <1>12, <1>13
      DEF Next, WriteSteps

\* The motor: what was sent last is what is recorded next.
LEMMA MotorStep ==
  ASSUME IInv, Next
  PROVE  (SendInv /\ RecordNeverLow)'
<1> USE DEF IInv, SendInv, RecordNeverLow, modeVars, recordVars, localVars, fwVars
<1>1. CASE WriteBegin
  BY <1>1 DEF WriteBegin
<1>2. CASE QueueSteps
  BY <1>2 DEF QueueSteps, RefreshSample, RefreshService, QueueStep, QueueIo,
      SendQueued, SendFails
<1>3. CASE ControlSteps
  BY <1>3 DEF ControlSteps, VelocityCommand, VelocityDue, SendPercent, SendFails,
      VelocityStore, RecordCommandedPercent, PositionCommand, SendMove, PositionStore,
      NoControllerCommand
<1>4. CASE ServiceSteps
  BY <1>4 DEF ServiceSteps, ServiceStops, ServiceMove, ServiceDrive, ServiceNothing
<1>5. CASE SendSteps
  BY <1>5 DEF SendSteps, MoveSend, SendMove, SendFails, MoveStore, MoveDone,
      DriveSend, SendPercent, DriveStore, RecordCommandedPercent, DriveDone
<1>6. CASE StopSteps
  BY <1>6 DEF StopSteps, StopCheck, StopSend, StopSent, StopNotSent, SendPercent, SendFails,
      StopStore,
      RecordStop, RecordCommandedPercent, StopReset, ResetBenchState, StopFailed
<1>7. CASE SwitchSteps
  BY <1>7 DEF SwitchSteps, ModeStop, StopSent, StopNotSent, LeavingActiveMode, SendPercent,
      SendFails,
      ModeStopStore, RecordStop, RecordCommandedPercent, ModeCommit
<1>8. CASE LifecycleSteps
  BY <1>8 DEF LifecycleSteps, ActivateReset, ResetBenchState, ActivateOpen,
      ActivateDone, DeactivateQueue, DeactivateStop, SendPercent, SendFails,
      DeactivateStore, RecordStop, RecordCommandedPercent, DeactivateMode,
      DeactivateReset, DeactivateClose
<1>9. CASE ReadSteps
  BY <1>9 DEF ReadSteps, ReadMoveEnd, ReadWriteSettings, ReadUnchanged, ReadUpdated
<1>10. CASE ExecutorSteps
  BY <1>10 DEF ExecutorSteps, BenchRequestCheck, DriveRecord, MoveRecord, SettingsCheck,
      SettingsPush,
      RefreshCheck, RefreshPush
<1>11. CASE ClientSteps
  BY <1>11 DEF ClientSteps, DriveCall, MoveCall, SettingsCall, RefreshCall,
      StatusPoll, SetupCall, HeartbeatLapses
<1>12. CASE ManagerSteps
  BY <1>12 DEF ManagerSteps, SwitchBegin, ControllerUpdate, ActivateBegin,
      DeactivateBegin
<1>13. CASE FwMoveEnds
  BY <1>13 DEF FwMoveEnds
<1> QED
  BY <1>1, <1>2, <1>3, <1>4, <1>5, <1>6, <1>7, <1>8, <1>9, <1>10, <1>11, <1>12, <1>13
      DEF Next, WriteSteps

\* The bench claim and its record.
LEMMA BenchStep ==
  ASSUME IInv, Next
  PROVE  (BenchRecordTrue /\ ClaimInv /\ ControllerInv /\ WriteInv)'
<1> USE PercentsAssumption DEF IInv, TypeOK, PercentTypeOK, SendInv, BenchRecordTrue,
    BenchRecordPending, ClaimInv, ControllerInv, BenchYieldsToController, WriteInv,
    lifeVars, modeVars, benchVars, queueVars, recordVars, localVars, exVars, fwVars
<1>1. CASE WriteBegin
  BY <1>1 DEF WriteBegin
<1>2. CASE QueueSteps
  BY <1>2, ZenonT(40) DEF QueueSteps, RefreshSample, RefreshService, QueueStep, Sendable, QueueIo,
      SendQueued, SendFails
<1>3. CASE ControlSteps
  <2>1. CASE VelocityCommand
    BY <2>1 DEF VelocityCommand, VelocityDue, SendPercent, SendFails
  <2>2. CASE VelocityStore
    BY <2>2 DEF VelocityStore, RecordCommandedPercent
  <2>3. CASE PositionCommand
    BY <2>3 DEF PositionCommand, SendMove, SendFails
  <2>4. CASE PositionStore
    BY <2>4 DEF PositionStore
  <2>5. CASE NoControllerCommand
    BY <2>5 DEF NoControllerCommand, VelocityDue
  <2> QED
    BY <1>3, <2>1, <2>2, <2>3, <2>4, <2>5 DEF ControlSteps
<1>4. CASE ServiceSteps
  <2>1. CASE ServiceStops
    BY <2>1 DEF ServiceStops
  <2>2. CASE ServiceMove
    BY <2>2 DEF ServiceMove, MoveUnsent
  <2>3. CASE ServiceDrive
    BY <2>3 DEF ServiceDrive, MoveUnsent, DriveDue
  <2>4. CASE ServiceNothing
    BY <2>4 DEF ServiceNothing, MoveUnsent, DriveDue, ClaimKept
  <2> QED
    BY <1>4, <2>1, <2>2, <2>3, <2>4 DEF ServiceSteps
<1>5. CASE SendSteps
  BY <1>5 DEF SendSteps, MoveSend, SendMove, SendFails, MoveStore, MoveDone,
      DriveSend, SendPercent, DriveStore, RecordCommandedPercent, DriveDone,
      SentPercent
<1>6. CASE StopSteps
  BY <1>6 DEF StopSteps, StopCheck, StopSend, StopSent, StopNotSent, SendPercent, SendFails,
      StopStore,
      RecordStop, RecordCommandedPercent, StopReset, ResetBenchState, StopFailed
<1>7. CASE SwitchSteps
  BY <1>7 DEF SwitchSteps, ModeStop, StopSent, StopNotSent, LeavingActiveMode, SendPercent,
      SendFails,
      ModeStopStore, RecordStop, RecordCommandedPercent, ModeCommit
<1>8. CASE LifecycleSteps
  BY <1>8 DEF LifecycleSteps, ActivateReset, ResetBenchState, ActivateOpen,
      ActivateDone, DeactivateQueue, DeactivateStop, SendPercent, SendFails,
      DeactivateStore, RecordStop, RecordCommandedPercent, DeactivateMode,
      DeactivateReset, DeactivateClose
<1>9. CASE ReadSteps
  BY <1>9 DEF ReadSteps, ReadMoveEnd, ReadWriteSettings, ReadUnchanged, ReadUpdated
<1>10. CASE ExecutorSteps
  <2>1. CASE DriveRecord
    BY <2>1 DEF DriveRecord, DriveRejected, DriveAlreadyStopped
  <2>2. CASE MoveRecord
    BY <2>2 DEF MoveRecord, MoveRejected
  <2>3. CASE SettingsCheck
    BY <2>3 DEF SettingsCheck
  <2>4. CASE SettingsPush
    BY <2>4 DEF SettingsPush
  <2>5. CASE RefreshCheck
    BY <2>5 DEF RefreshCheck
  <2>6. CASE RefreshPush
    BY <2>6 DEF RefreshPush
  <2>7. CASE BenchRequestCheck
    BY <2>7 DEF BenchRequestCheck
  <2> QED
    BY <1>10, <2>1, <2>2, <2>3, <2>4, <2>5, <2>6, <2>7 DEF ExecutorSteps
<1>11. CASE ClientSteps
  <2>1. ASSUME NEW p \in Percents, DriveCall(p) PROVE (BenchRecordTrue /\ ClaimInv /\ ControllerInv /\ WriteInv)'
    BY <2>1 DEF DriveCall
  <2>2. ASSUME NEW m \in Moves, MoveCall(m) PROVE (BenchRecordTrue /\ ClaimInv /\ ControllerInv /\ WriteInv)'
    BY <2>2 DEF MoveCall
  <2>3. CASE SettingsCall
    BY <2>3 DEF SettingsCall
  <2>4. CASE RefreshCall
    BY <2>4 DEF RefreshCall
  <2>5. CASE StatusPoll
    BY <2>5 DEF StatusPoll
  <2>6. CASE SetupCall
    BY <2>6 DEF SetupCall
  <2>7. CASE HeartbeatLapses
    BY <2>7 DEF HeartbeatLapses
  <2> QED
    BY <1>11, <2>1, <2>2, <2>3, <2>4, <2>5, <2>6, <2>7 DEF ClientSteps
<1>12. CASE ManagerSteps
  BY <1>12 DEF ManagerSteps, SwitchBegin, BenchStoppedFor, ControllerUpdate,
      ActivateBegin, DeactivateBegin
<1>13. CASE FwMoveEnds
  BY <1>13 DEF FwMoveEnds
<1> QED
  BY <1>1, <1>2, <1>3, <1>4, <1>5, <1>6, <1>7, <1>8, <1>9, <1>10, <1>11, <1>12, <1>13
      DEF Next, WriteSteps

\* Telemetry.
LEMMA TelemetryStep ==
  ASSUME IInv, Next
  PROVE  TelemetryInv'
<1> USE DEF IInv, TypeOK, ModeTypeOK, FlagTypeOK, Mode, TelemetryInv, TelemetryMode,
    ClaimInv, modeVars, benchVars
<1>1. CASE WriteBegin
  BY <1>1 DEF WriteBegin
<1>2. CASE QueueSteps
  <2>1. CASE RefreshSample
    BY <2>1 DEF RefreshSample
  <2>2. CASE RefreshService
    BY <2>2 DEF RefreshService
  <2>3. ASSUME NEW t \in BOOLEAN, QueueStep(t) PROVE TelemetryInv'
    BY <2>3 DEF QueueStep
  <2>4. CASE QueueIo
    BY <2>4 DEF QueueIo, SendQueued, SendFails
  <2> QED
    BY <1>2, <2>1, <2>2, <2>3, <2>4 DEF QueueSteps
<1>3. CASE ControlSteps
  BY <1>3 DEF ControlSteps, VelocityCommand, SendPercent, SendFails, VelocityStore,
      RecordCommandedPercent, PositionCommand, SendMove, PositionStore,
      NoControllerCommand
<1>4. CASE ServiceSteps
  BY <1>4 DEF ServiceSteps, ServiceStops, ServiceMove, ServiceDrive, ServiceNothing,
      ClaimKept, TelemetryMode
<1>5. CASE SendSteps
  BY <1>5 DEF SendSteps, MoveSend, SendMove, SendFails, MoveStore, MoveDone,
      DriveSend, SendPercent, DriveStore, RecordCommandedPercent, DriveDone,
      TelemetryMode
<1>6. CASE StopSteps
  BY <1>6 DEF StopSteps, StopCheck, StopSend, StopSent, StopNotSent, SendPercent, SendFails,
      StopStore,
      RecordStop, RecordCommandedPercent, StopReset, ResetBenchState, TelemetryMode,
      StopFailed
<1>7. CASE SwitchSteps
  BY <1>7 DEF SwitchSteps, ModeStop, StopSent, StopNotSent, SendPercent, SendFails, ModeStopStore,
      RecordStop, RecordCommandedPercent, ModeCommit, TelemetryMode
<1>8. CASE LifecycleSteps
  BY <1>8 DEF LifecycleSteps, ActivateReset, ResetBenchState, TelemetryMode,
      ActivateOpen, ActivateDone, DeactivateQueue, DeactivateStop, SendPercent,
      SendFails, DeactivateStore, RecordStop, RecordCommandedPercent, DeactivateMode,
      DeactivateReset, DeactivateClose
<1>9. CASE ReadSteps
  BY <1>9 DEF ReadSteps, ReadMoveEnd, ReadWriteSettings, ReadUnchanged, ReadUpdated
<1>10. CASE ExecutorSteps
  BY <1>10 DEF ExecutorSteps, BenchRequestCheck, DriveRecord, TelemetryMode, MoveRecord,
      SettingsCheck,
      SettingsPush, RefreshCheck, RefreshPush
<1>11. CASE ClientSteps
  <2>1. ASSUME NEW p \in Percents, DriveCall(p) PROVE TelemetryInv'
    BY <2>1 DEF DriveCall
  <2>2. ASSUME NEW m \in Moves, MoveCall(m) PROVE TelemetryInv'
    BY <2>2 DEF MoveCall
  <2>3. CASE SettingsCall
    BY <2>3 DEF SettingsCall
  <2>4. CASE RefreshCall
    BY <2>4 DEF RefreshCall
  <2>5. CASE StatusPoll
    BY <2>5 DEF StatusPoll
  <2>6. CASE SetupCall
    BY <2>6 DEF SetupCall
  <2>7. CASE HeartbeatLapses
    BY <2>7 DEF HeartbeatLapses
  <2> QED
    BY <1>11, <2>1, <2>2, <2>3, <2>4, <2>5, <2>6, <2>7 DEF ClientSteps
<1>12. CASE ManagerSteps
  BY <1>12 DEF ManagerSteps, SwitchBegin, ControllerUpdate, ActivateBegin,
      DeactivateBegin
<1>13. CASE FwMoveEnds
  BY <1>13 DEF FwMoveEnds
<1> QED
  BY <1>1, <1>2, <1>3, <1>4, <1>5, <1>6, <1>7, <1>8, <1>9, <1>10, <1>11, <1>12, <1>13
      DEF Next, WriteSteps

\* Bench motion and settings writes.
LEMMA ExclusionStep ==
  ASSUME IInv, Next
  PROVE  ExclusionInv'
<1>a. SettingsWriteInFlight' => SettingsWriteInFlight \/ exPc = "settingsPush"
  BY QueueStepLemma
<1>b. sendQueueStage # "IDLE" => SettingsWriteInFlight
  BY DEF SettingsWriteInFlight
<1> USE <1>a, <1>b DEF IInv, ExclusionInv, MotionAsked, ClaimInv, lifeVars, modeVars,
    benchVars, queueVars, recordVars, localVars, exVars, fwVars
<1>1. CASE WriteBegin
  BY <1>1 DEF WriteBegin
<1>2. CASE QueueSteps
  <2>1. CASE RefreshSample
    BY <2>1 DEF RefreshSample
  <2>2. CASE RefreshService
    BY <2>2 DEF RefreshService
  <2>3. ASSUME NEW t \in BOOLEAN, QueueStep(t) PROVE ExclusionInv'
    BY <2>3 DEF QueueStep
  <2>4. CASE QueueIo
    BY <2>4 DEF QueueIo, SendQueued, SendFails
  <2> QED
    BY <1>2, <2>1, <2>2, <2>3, <2>4 DEF QueueSteps
<1>3. CASE ControlSteps
  BY <1>3 DEF ControlSteps, VelocityCommand, SendPercent, SendFails, VelocityStore,
      RecordCommandedPercent, PositionCommand, SendMove, PositionStore,
      NoControllerCommand
<1>4. CASE ServiceSteps
  <2>1. CASE ServiceStops
    BY <2>1 DEF ServiceStops
  <2>2. CASE ServiceMove
    BY <2>2 DEF ServiceMove, MoveUnsent
  <2>3. CASE ServiceDrive
    BY <2>3 DEF ServiceDrive, MoveUnsent
  <2>4. CASE ServiceNothing
    BY <2>4 DEF ServiceNothing, MoveUnsent, ClaimKept
  <2> QED
    BY <1>4, <2>1, <2>2, <2>3, <2>4 DEF ServiceSteps
<1>5. CASE SendSteps
  <2>1. CASE MoveSend
    BY <2>1 DEF MoveSend, SendMove, SendFails
  <2>2. CASE MoveStore
    BY <2>2 DEF MoveStore
  <2>3. CASE MoveDone
    BY <2>3 DEF MoveDone
  <2>4. CASE DriveSend
    BY <2>4 DEF DriveSend, SendPercent, SendFails
  <2>5. CASE DriveStore
    BY <2>5 DEF DriveStore, RecordCommandedPercent
  <2>6. CASE DriveDone
    BY <2>6 DEF DriveDone
  <2> QED
    BY <1>5, <2>1, <2>2, <2>3, <2>4, <2>5, <2>6 DEF SendSteps
<1>6. CASE StopSteps
  <2>1. CASE StopCheck
    BY <2>1 DEF StopCheck
  <2>2. CASE StopSend
    BY <2>2 DEF StopSend, StopSent, StopNotSent, SendPercent, SendFails
  <2>3. CASE StopStore
    BY <2>3 DEF StopStore, RecordStop, RecordCommandedPercent
  <2>4. CASE StopReset
    BY <2>4 DEF StopReset, ResetBenchState
  <2>5. CASE StopFailed
    BY <2>5 DEF StopFailed
  <2> QED
    BY <1>6, <2>1, <2>2, <2>3, <2>4, <2>5 DEF StopSteps
<1>7. CASE SwitchSteps
  BY <1>7 DEF SwitchSteps, ModeStop, StopSent, StopNotSent, SendPercent, SendFails, ModeStopStore,
      RecordStop, RecordCommandedPercent, ModeCommit
<1>8. CASE LifecycleSteps
  <2>1. CASE ActivateReset
    BY <2>1 DEF ActivateReset, ResetBenchState
  <2>2. CASE ActivateOpen
    BY <2>2 DEF ActivateOpen
  <2>3. CASE ActivateDone
    BY <2>3 DEF ActivateDone
  <2>4. CASE DeactivateQueue
    BY <2>4 DEF DeactivateQueue
  <2>5. CASE DeactivateStop
    BY <2>5 DEF DeactivateStop, SendPercent, SendFails
  <2>6. CASE DeactivateStore
    BY <2>6 DEF DeactivateStore, RecordStop, RecordCommandedPercent
  <2>7. CASE DeactivateMode
    BY <2>7 DEF DeactivateMode
  <2>8. CASE DeactivateReset
    BY <2>8 DEF DeactivateReset, ResetBenchState
  <2>9. CASE DeactivateClose
    BY <2>9 DEF DeactivateClose
  <2> QED
    BY <1>8, <2>1, <2>2, <2>3, <2>4, <2>5, <2>6, <2>7, <2>8, <2>9 DEF LifecycleSteps
<1>9. CASE ReadSteps
  BY <1>9 DEF ReadSteps, ReadMoveEnd, ReadWriteSettings, ReadUnchanged, ReadUpdated
<1>10. CASE ExecutorSteps
  <2>1. CASE DriveRecord
    BY <2>1 DEF DriveRecord, DriveRejected
  <2>2. CASE MoveRecord
    BY <2>2 DEF MoveRecord, MoveRejected
  <2>3. CASE SettingsCheck
    BY <2>3 DEF SettingsCheck, BenchRotating
  <2>4. CASE SettingsPush
    BY <2>4 DEF SettingsPush
  <2>5. CASE RefreshCheck
    BY <2>5 DEF RefreshCheck, BenchRotating
  <2>6. CASE RefreshPush
    BY <2>6 DEF RefreshPush
  <2>7. CASE BenchRequestCheck
    BY <2>7 DEF BenchRequestCheck
  <2> QED
    BY <1>10, <2>1, <2>2, <2>3, <2>4, <2>5, <2>6, <2>7 DEF ExecutorSteps
<1>11. CASE ClientSteps
  <2>1. ASSUME NEW p \in Percents, DriveCall(p) PROVE ExclusionInv'
    BY <2>1 DEF DriveCall, BenchRequestAllowed
  <2>2. ASSUME NEW m \in Moves, MoveCall(m) PROVE ExclusionInv'
    BY <2>2 DEF MoveCall, BenchRequestAllowed
  <2>3. CASE SettingsCall
    BY <2>3 DEF SettingsCall
  <2>4. CASE RefreshCall
    BY <2>4 DEF RefreshCall
  <2>5. CASE StatusPoll
    BY <2>5 DEF StatusPoll
  <2>6. CASE SetupCall
    BY <2>6 DEF SetupCall
  <2>7. CASE HeartbeatLapses
    BY <2>7 DEF HeartbeatLapses
  <2> QED
    BY <1>11, <2>1, <2>2, <2>3, <2>4, <2>5, <2>6, <2>7 DEF ClientSteps
<1>12. CASE ManagerSteps
  <2>1. ASSUME NEW mode \in ControllerModes \cup {"IDLE"}, SwitchBegin(mode) PROVE ExclusionInv'
    BY <2>1 DEF SwitchBegin
  <2>2. ASSUME NEW v \in Percents \cup {NoPercent}, ControllerUpdate(v) PROVE ExclusionInv'
    BY <2>2 DEF ControllerUpdate
  <2>3. CASE ActivateBegin
    BY <2>3 DEF ActivateBegin
  <2>4. CASE DeactivateBegin
    BY <2>4 DEF DeactivateBegin
  <2> QED
    BY <1>12, <2>1, <2>2, <2>3, <2>4 DEF ManagerSteps
<1>13. CASE FwMoveEnds
  BY <1>13 DEF FwMoveEnds
<1> QED
  BY <1>1, <1>2, <1>3, <1>4, <1>5, <1>6, <1>7, <1>8, <1>9, <1>10, <1>11, <1>12, <1>13
      DEF Next, WriteSteps

-----------------------------------------------------------------------------
(* The theorems.                                                            *)

LEMMA Initially == Init => IInv
<1> SUFFICES ASSUME Init PROVE IInv
  OBVIOUS
<1> USE DEF Init
<1>1. PcTypeOK /\ ModeTypeOK
  BY DEF PcTypeOK, CmPc, ExPc, ModeTypeOK, Mode
<1>2. QueueTypeOK /\ ~SettingsWriteInFlight
  BY EmptyQueue DEF QueueTypeOK, Stage, SettingsWriteInFlight
<1>3. PercentTypeOK /\ MoveTypeOK
  BY PercentsAssumption DEF PercentTypeOK, MoveTypeOK
<1>4. CountTypeOK
  BY BoundsAssumption DEF CountTypeOK
<1>8. FlagTypeOK
  BY DEF FlagTypeOK
<1>5. SendInv /\ RecordNeverLow /\ BenchRecordTrue
  BY DEF SendInv, RecordNeverLow, BenchRecordTrue
<1>6. ClaimInv /\ ControllerInv /\ WriteInv
  BY DEF ClaimInv, ControllerInv, BenchYieldsToController, WriteInv
<1>7. TelemetryInv /\ ExclusionInv
  BY <1>2 DEF TelemetryInv, TelemetryMode, ExclusionInv, MotionAsked
<1> QED
  BY <1>1, <1>2, <1>3, <1>4, <1>5, <1>6, <1>7, <1>8 DEF IInv, TypeOK

\* A step that changes nothing keeps everything.
LEMMA Stutter == ASSUME IInv, UNCHANGED vars PROVE IInv'
<1> USE DEF vars, lifeVars, modeVars, benchVars, queueVars, recordVars, localVars,
      exVars, fwVars, IInv, TypeOK
<1>1. (PcTypeOK /\ ModeTypeOK /\ MoveTypeOK /\ CountTypeOK)'
  BY DEF PcTypeOK, ModeTypeOK, MoveTypeOK, CountTypeOK
<1>2. (QueueTypeOK /\ PercentTypeOK)'
  BY DEF QueueTypeOK, PercentTypeOK
<1>3. FlagTypeOK'
  BY DEF FlagTypeOK
<1>4. (SendInv /\ RecordNeverLow /\ BenchRecordTrue)'
  BY DEF SendInv, RecordNeverLow, BenchRecordTrue, BenchRecordPending
<1>5. (ClaimInv /\ ControllerInv /\ WriteInv)'
  BY DEF ClaimInv, ControllerInv, BenchYieldsToController, WriteInv
<1>6. TelemetryInv'
  BY DEF TelemetryInv, TelemetryMode
<1>7. SettingsWriteInFlight' = SettingsWriteInFlight
  BY DEF SettingsWriteInFlight, HasSettingsWrite
<1>8. ExclusionInv'
  BY <1>7 DEF ExclusionInv, MotionAsked
<1> QED
  BY <1>1, <1>2, <1>3, <1>4, <1>5, <1>6, <1>8

LEMMA Inductive == IInv /\ [Next]_vars => IInv'
<1>1. ASSUME IInv, Next PROVE IInv'
  BY <1>1, PcTypeStep, ModeTypeStep, QueueStepLemma, PercentTypeStep, MoveTypeStep,
     FlagTypeStep, CountTypeStep, MotorStep, BenchStep, TelemetryStep, ExclusionStep
     DEF IInv, TypeOK
<1> QED
  BY <1>1, Stutter

LEMMA Invariant == Spec => []IInv
  BY Initially, Inductive, PTL DEF Spec

\* Every state of the motion path is well formed; in particular the recorded
\* percent is never NaN, although the velocity command may be.
THEOREM TypeCorrect == Spec => []TypeOK
<1>1. IInv => TypeOK
  BY DEF IInv
<1> QED
  BY <1>1, Invariant, PTL

\* commanded_percent is never 0 while the firmware drives the motor, whatever
\* sends fail: recordCommandedPercent follows every :DPR that was sent.
THEOREM RecordIsNeverLow == Spec => []RecordNeverLow
<1>1. IInv => RecordNeverLow
  BY DEF IInv
<1> QED
  BY <1>1, Invariant, PTL

\* A bench drive believed to be turning is turning: what benchLastSentPercent_
\* holds is what the motor does.
THEOREM BenchRecordIsTrue == Spec => []BenchRecordTrue
<1>1. IInv => BenchRecordTrue
  BY DEF IInv
<1> QED
  BY <1>1, Invariant, PTL

\* No bench rotation survives into a controller's mode.
THEOREM BenchAlwaysYields == Spec => []BenchYieldsToController
<1>1. IInv => BenchYieldsToController
  BY DEF IInv, ControllerInv
<1> QED
  BY <1>1, Invariant, PTL

\* Telemetry that says idle and 0 % means a motor that is off and no claim.
THEOREM IdleTelemetryIsTrue == Spec => []IdleTelemetryIsStill
<1>1. IInv => IdleTelemetryIsStill
  <2> SUFFICES ASSUME IInv, telemetryCommandMode = "IDLE", lastCommandedPercent = 0
               PROVE  motor = 0 /\ ~benchActive
    BY DEF IdleTelemetryIsStill
  <2>1. ~benchActive
    BY DEF IInv, TelemetryInv
  <2>2. cmPc # "driveStore"
    BY <2>1 DEF IInv, ClaimInv
  <2>3. cmPc # "velocityStore"
    BY <2>1 DEF IInv, TelemetryInv, TelemetryMode, SendInv
  <2> QED
    BY <2>1, <2>2, <2>3 DEF IInv, RecordNeverLow
<1> QED
  BY <1>1, Invariant, PTL

\* Bench motion is never started while a settings write awaits its answer.
THEOREM NoMotionIsSentBehindWrite == Spec => NoMotionBehindWrite
<1>1. IInv => (BenchMotionSent => sendQueueStage = "IDLE")
  BY DEF IInv, ExclusionInv, BenchMotionSent
<1>2. IInv => [BenchMotionSent => sendQueueStage = "IDLE"]_vars
  BY <1>1
<1> QED
  BY <1>2, Invariant, PTL DEF NoMotionBehindWrite

\* No settings write reaches the firmware while a bench drive turns the dome.
THEOREM NoWriteIsSentUnderBenchDrive == Spec => NoWriteUnderBenchDrive
<1>1. IInv => (SettingsWriteSent => benchLastSentPercent = 0)
  BY DEF IInv, WriteInv, SettingsWriteSent
<1>2. IInv => [SettingsWriteSent => benchLastSentPercent = 0]_vars
  BY <1>1
<1> QED
  BY <1>2, Invariant, PTL DEF NoWriteUnderBenchDrive
-----------------------------------------------------------------------------
(* Whoever lets go of the dome leaves it still.  This needs to know when    *)
(* the port is open and, as long as no send has failed, where on the way    *)
(* out of a mode, of a bench drive and of the active state the motor is     *)
(* off already.                                                             *)

\* Where the port may be closed: between calls, before on_activate has opened it,
\* and in a mode switch, which nobody holds back while the interface is inactive.
ClosedPc ==
  {"idle", "activateReset", "activateOpen",
   "stopCheck", "stopSend", "stopReset", "stopFailed", "modeStop", "modeCommit"}

\* on_deactivate has not reset the bench yet.
UnresetPc ==
  {"deactivateQueue", "deactivateStop", "deactivateStore",
   "deactivateMode", "deactivateReset"}

\* Whoever needs the port has it open; a lifecycle call runs while the callbacks
\* are locked out.
PortInv ==
  /\ lifecycleActive \/ cmPc \notin ClosedPc => portOpen
  /\ cmPc \in LifecyclePc => ~lifecycleActive
  /\ ret = "switch" => cmPc \in {"stopCheck", "stopSend", "stopStore", "stopReset",
                                 "stopFailed"}

\* Between on_configure and the first on_activate write() already runs, but
\* nobody has asked the bench for motion; and whenever the interface is inactive,
\* no bench drive is sent.
ConfiguredInv ==
  /\ ~lifecycleActive /\ portOpen /\ cmPc \notin LifecyclePc
       => exPc = "idle" /\ ~benchActive
  /\ ~lifecycleActive /\ cmPc \notin UnresetPc => benchLastSentPercent = 0

\* Where the motor is off, as long as no send has failed.
StillInv ==
  failures = 0 =>
    /\ currentMode = "IDLE" /\ benchLastSentPercent = 0
         /\ cmPc \notin {"driveStore", "driveDone"} => motor = 0
    /\ cmPc = "stopReset" /\ currentMode = "IDLE" => motor = 0
    /\ cmPc = "modeCommit" /\ newMode # currentMode => motor = 0
    /\ cmPc \in {"deactivateMode", "deactivateReset", "deactivateClose"} => motor = 0
    /\ ~portOpen => motor = 0

LInv == IInv /\ PortInv /\ ConfiguredInv /\ StillInv

\* The port is open where it is needed.
LEMMA PortStep ==
  ASSUME IInv, PortInv, [Next]_vars
  PROVE  PortInv'
<1> USE DEF IInv, TypeOK, PcTypeOK, CmPc, FlagTypeOK, PortInv, LifecyclePc, ClosedPc, UnresetPc,
    lifeVars, localVars
<1>1. CASE WriteBegin
  BY <1>1 DEF WriteBegin
<1>2. CASE QueueSteps
  BY <1>2 DEF QueueSteps, RefreshSample, RefreshService, QueueStep, QueueIo,
      SendQueued, SendFails
<1>3. CASE ControlSteps
  BY <1>3 DEF ControlSteps, VelocityDue, VelocityCommand, SendPercent, SendFails,
      VelocityStore, RecordCommandedPercent, PositionCommand, SendMove, PositionStore,
      NoControllerCommand
<1>4. CASE ServiceSteps
  BY <1>4 DEF ServiceSteps, ServiceStops, ServiceMove, ServiceDrive, ServiceNothing,
      ClaimKept
<1>5. CASE SendSteps
  BY <1>5 DEF SendSteps, MoveSend, SendMove, SendFails, MoveStore, MoveDone,
      DriveSend, SendPercent, DriveStore, RecordCommandedPercent, DriveDone, SentPercent
<1>6. CASE StopSteps
  <2>1. CASE StopCheck
    BY <2>1 DEF StopCheck
  <2>2. CASE StopSend
    BY <2>2 DEF StopSend, StopSent, StopNotSent, SendPercent, SendFails
  <2>3. CASE StopStore
    BY <2>3 DEF StopStore, RecordStop, RecordCommandedPercent
  <2>4. CASE StopReset
    BY <2>4 DEF StopReset, ResetBenchState
  <2>5. CASE StopFailed
    BY <2>5 DEF StopFailed
  <2> QED
    BY <1>6, <2>1, <2>2, <2>3, <2>4, <2>5 DEF StopSteps
<1>7. CASE SwitchSteps
  BY <1>7 DEF SwitchSteps, LeavingActiveMode, ModeStop, StopSent, StopNotSent, SendPercent,
      SendFails,
      ModeStopStore, RecordStop, RecordCommandedPercent, ModeCommit
<1>8. CASE LifecycleSteps
  <2>1. CASE ActivateReset
    BY <2>1 DEF ActivateReset, ResetBenchState
  <2>2. CASE ActivateOpen
    BY <2>2 DEF ActivateOpen
  <2>3. CASE ActivateDone
    BY <2>3 DEF ActivateDone
  <2>4. CASE DeactivateQueue
    BY <2>4 DEF DeactivateQueue
  <2>5. CASE DeactivateStop
    BY <2>5 DEF DeactivateStop, SendPercent, SendFails
  <2>6. CASE DeactivateStore
    BY <2>6 DEF DeactivateStore, RecordStop, RecordCommandedPercent
  <2>7. CASE DeactivateMode
    BY <2>7 DEF DeactivateMode
  <2>8. CASE DeactivateReset
    BY <2>8 DEF DeactivateReset, ResetBenchState
  <2>9. CASE DeactivateClose
    BY <2>9 DEF DeactivateClose
  <2> QED
    BY <1>8, <2>1, <2>2, <2>3, <2>4, <2>5, <2>6, <2>7, <2>8, <2>9 DEF LifecycleSteps
<1>9. CASE ReadSteps
  BY <1>9 DEF ReadSteps, ReadMoveEnd, ReadWriteSettings, ReadUnchanged, ReadUpdated
<1>10. CASE ExecutorSteps
  <2>1. CASE DriveRecord
    BY <2>1 DEF DriveRecord
  <2>2. CASE MoveRecord
    BY <2>2 DEF MoveRecord
  <2>3. CASE SettingsCheck
    BY <2>3 DEF SettingsCheck
  <2>4. CASE SettingsPush
    BY <2>4 DEF SettingsPush
  <2>5. CASE RefreshCheck
    BY <2>5 DEF RefreshCheck
  <2>6. CASE RefreshPush
    BY <2>6 DEF RefreshPush
  <2>7. CASE BenchRequestCheck
    BY <2>7 DEF BenchRequestCheck
  <2> QED
    BY <1>10, <2>1, <2>2, <2>3, <2>4, <2>5, <2>6, <2>7 DEF ExecutorSteps
<1>11. CASE ClientSteps
  BY <1>11 DEF ClientSteps, DriveCall, MoveCall, SettingsCall, RefreshCall,
      StatusPoll, SetupCall, HeartbeatLapses, BenchRequestAllowed
<1>12. CASE ManagerSteps
  BY <1>12 DEF ManagerSteps, SwitchBegin, BenchStoppedFor, ControllerUpdate,
      ActivateBegin, DeactivateBegin
<1>13. CASE FwMoveEnds
  BY <1>13 DEF FwMoveEnds
<1>14. CASE UNCHANGED vars
  BY <1>14 DEF vars, lifeVars, modeVars, fwVars
<1> QED
  BY <1>1, <1>2, <1>3, <1>4, <1>5, <1>6, <1>7, <1>8, <1>9, <1>10, <1>11, <1>12, <1>13, <1>14
      DEF Next, WriteSteps

\* Nobody asks for motion before the first activation.
LEMMA ConfiguredStep ==
  ASSUME IInv, PortInv, ConfiguredInv, [Next]_vars
  PROVE  ConfiguredInv'
<1> USE DEF IInv, TypeOK, PcTypeOK, CmPc, FlagTypeOK, PortInv, ConfiguredInv,
    LifecyclePc, ClosedPc, UnresetPc, ClaimInv, SendInv, PercentTypeOK, lifeVars, modeVars,
    benchVars, localVars,
    exVars, fwVars
<1>1. CASE WriteBegin
  BY <1>1 DEF WriteBegin
<1>2. CASE QueueSteps
  <2>1. CASE RefreshSample
    BY <2>1 DEF RefreshSample
  <2>2. CASE RefreshService
    BY <2>2 DEF RefreshService
  <2>3. ASSUME NEW t \in BOOLEAN, QueueStep(t) PROVE ConfiguredInv'
    BY <2>3 DEF QueueStep
  <2>4. CASE QueueIo
    BY <2>4 DEF QueueIo, SendQueued, SendFails
  <2> QED
    BY <1>2, <2>1, <2>2, <2>3, <2>4 DEF QueueSteps
<1>3. CASE ControlSteps
  BY <1>3 DEF ControlSteps, VelocityDue, VelocityCommand, SendPercent, SendFails,
      VelocityStore, RecordCommandedPercent, PositionCommand, SendMove, PositionStore,
      NoControllerCommand
<1>4. CASE ServiceSteps
  BY <1>4 DEF ServiceSteps, ServiceStops, ServiceMove, ServiceDrive, ServiceNothing,
      ClaimKept
<1>5. CASE SendSteps
  <2>1. CASE MoveSend
    BY <2>1 DEF MoveSend, SendMove, SendFails
  <2>2. CASE MoveStore
    BY <2>2 DEF MoveStore
  <2>3. CASE MoveDone
    BY <2>3 DEF MoveDone
  <2>4. CASE DriveSend
    BY <2>4 DEF DriveSend, SendPercent, SendFails
  <2>5. CASE DriveStore
    BY <2>5 DEF DriveStore, RecordCommandedPercent
  <2>6. CASE DriveDone
    BY <2>6 DEF DriveDone, SentPercent
  <2> QED
    BY <1>5, <2>1, <2>2, <2>3, <2>4, <2>5, <2>6 DEF SendSteps
<1>6. CASE StopSteps
  <2>1. CASE StopCheck
    BY <2>1 DEF StopCheck
  <2>2. CASE StopSend
    BY <2>2 DEF StopSend, StopSent, StopNotSent, SendPercent, SendFails
  <2>3. CASE StopStore
    BY <2>3 DEF StopStore, RecordStop, RecordCommandedPercent
  <2>4. CASE StopReset
    BY <2>4 DEF StopReset, ResetBenchState
  <2>5. CASE StopFailed
    BY <2>5 DEF StopFailed
  <2> QED
    BY <1>6, <2>1, <2>2, <2>3, <2>4, <2>5 DEF StopSteps
<1>7. CASE SwitchSteps
  <2>1. CASE ModeStop
    BY <2>1 DEF ModeStop, StopSent, StopNotSent, LeavingActiveMode, SendPercent, SendFails
  <2>2. CASE ModeStopStore
    BY <2>2 DEF ModeStopStore, RecordStop, RecordCommandedPercent
  <2>3. CASE ModeCommit
    BY <2>3 DEF ModeCommit
  <2> QED
    BY <1>7, <2>1, <2>2, <2>3 DEF SwitchSteps
<1>8. CASE LifecycleSteps
  <2>1. CASE ActivateReset
    BY <2>1 DEF ActivateReset, ResetBenchState
  <2>2. CASE ActivateOpen
    BY <2>2 DEF ActivateOpen
  <2>3. CASE ActivateDone
    BY <2>3 DEF ActivateDone
  <2>4. CASE DeactivateQueue
    BY <2>4 DEF DeactivateQueue
  <2>5. CASE DeactivateStop
    BY <2>5 DEF DeactivateStop, SendPercent, SendFails
  <2>6. CASE DeactivateStore
    BY <2>6 DEF DeactivateStore, RecordStop, RecordCommandedPercent
  <2>7. CASE DeactivateMode
    BY <2>7 DEF DeactivateMode
  <2>8. CASE DeactivateReset
    BY <2>8 DEF DeactivateReset, ResetBenchState
  <2>9. CASE DeactivateClose
    BY <2>9 DEF DeactivateClose
  <2> QED
    BY <1>8, <2>1, <2>2, <2>3, <2>4, <2>5, <2>6, <2>7, <2>8, <2>9 DEF LifecycleSteps
<1>9. CASE ReadSteps
  BY <1>9 DEF ReadSteps, ReadMoveEnd, ReadWriteSettings, ReadUnchanged, ReadUpdated
<1>10. CASE ExecutorSteps
  <2>1. CASE DriveRecord
    BY <2>1 DEF DriveRecord
  <2>2. CASE MoveRecord
    BY <2>2 DEF MoveRecord
  <2>3. CASE SettingsCheck
    BY <2>3 DEF SettingsCheck
  <2>4. CASE SettingsPush
    BY <2>4 DEF SettingsPush
  <2>5. CASE RefreshCheck
    BY <2>5 DEF RefreshCheck
  <2>6. CASE RefreshPush
    BY <2>6 DEF RefreshPush
  <2>7. CASE BenchRequestCheck
    BY <2>7 DEF BenchRequestCheck
  <2> QED
    BY <1>10, <2>1, <2>2, <2>3, <2>4, <2>5, <2>6, <2>7 DEF ExecutorSteps
<1>11. CASE ClientSteps
  BY <1>11 DEF ClientSteps, DriveCall, MoveCall, SettingsCall, RefreshCall,
      StatusPoll, SetupCall, HeartbeatLapses, BenchRequestAllowed
<1>12. CASE ManagerSteps
  BY <1>12 DEF ManagerSteps, SwitchBegin, BenchStoppedFor, ControllerUpdate,
      ActivateBegin, DeactivateBegin
<1>13. CASE FwMoveEnds
  BY <1>13 DEF FwMoveEnds
<1>14. CASE UNCHANGED vars
  BY <1>14 DEF vars, lifeVars, modeVars, fwVars
<1> QED
  BY <1>1, <1>2, <1>3, <1>4, <1>5, <1>6, <1>7, <1>8, <1>9, <1>10, <1>11, <1>12, <1>13, <1>14
      DEF Next, WriteSteps

\* The motor is off where it should be.
LEMMA StillStep ==
  ASSUME LInv, [Next]_vars
  PROVE  StillInv'
<1> USE DEF LInv, IInv, TypeOK, PcTypeOK, CmPc, FlagTypeOK, ModeTypeOK, PercentTypeOK,
    CountTypeOK, PortInv, ConfiguredInv, StillInv, LifecyclePc, ClosedPc, UnresetPc, SendInv, ClaimInv,
    ControllerInv, BenchYieldsToController, lifeVars, modeVars, benchVars, localVars, fwVars
<1> USE BoundsAssumption
<1>1. CASE WriteBegin
  BY <1>1 DEF WriteBegin
<1>2. CASE QueueSteps
  <2>1. CASE RefreshSample
    BY <2>1 DEF RefreshSample
  <2>2. CASE RefreshService
    BY <2>2 DEF RefreshService
  <2>3. ASSUME NEW t \in BOOLEAN, QueueStep(t) PROVE StillInv'
    BY <2>3 DEF QueueStep
  <2>4. CASE QueueIo
    BY <2>4 DEF QueueIo, SendQueued, SendFails
  <2> QED
    BY <1>2, <2>1, <2>2, <2>3, <2>4 DEF QueueSteps
<1>3. CASE ControlSteps
  BY <1>3 DEF ControlSteps, VelocityDue, VelocityCommand, SendPercent, SendFails,
      VelocityStore, RecordCommandedPercent, PositionCommand, SendMove, PositionStore,
      NoControllerCommand
<1>4. CASE ServiceSteps
  BY <1>4 DEF ServiceSteps, ServiceStops, ServiceMove, ServiceDrive, ServiceNothing,
      ClaimKept
<1>5. CASE SendSteps
  <2>1. CASE MoveSend
    BY <2>1 DEF MoveSend, SendMove, SendFails
  <2>2. CASE MoveStore
    BY <2>2 DEF MoveStore
  <2>3. CASE MoveDone
    BY <2>3 DEF MoveDone
  <2>4. CASE DriveSend
    BY <2>4 DEF DriveSend, SendPercent, SendFails
  <2>5. CASE DriveStore
    BY <2>5 DEF DriveStore, RecordCommandedPercent
  <2>6. CASE DriveDone
    BY <2>6 DEF DriveDone, SentPercent
  <2> QED
    BY <1>5, <2>1, <2>2, <2>3, <2>4, <2>5, <2>6 DEF SendSteps
<1>6. CASE StopSteps
  <2>1. CASE StopCheck
    BY <2>1 DEF StopCheck
  <2>2. CASE StopSend
    BY <2>2 DEF StopSend, StopSent, StopNotSent, SendPercent, SendFails
  <2>3. CASE StopStore
    BY <2>3 DEF StopStore, RecordStop, RecordCommandedPercent
  <2>4. CASE StopReset
    BY <2>4 DEF StopReset, ResetBenchState
  <2>5. CASE StopFailed
    BY <2>5 DEF StopFailed
  <2> QED
    BY <1>6, <2>1, <2>2, <2>3, <2>4, <2>5 DEF StopSteps
<1>7. CASE SwitchSteps
  BY <1>7 DEF SwitchSteps, LeavingActiveMode, ModeStop, StopSent, StopNotSent, SendPercent,
      SendFails,
      ModeStopStore, RecordStop, RecordCommandedPercent, ModeCommit
<1>8. CASE LifecycleSteps
  <2>1. CASE ActivateReset
    BY <2>1 DEF ActivateReset, ResetBenchState
  <2>2. CASE ActivateOpen
    BY <2>2 DEF ActivateOpen
  <2>3. CASE ActivateDone
    BY <2>3 DEF ActivateDone
  <2>4. CASE DeactivateQueue
    BY <2>4 DEF DeactivateQueue
  <2>5. CASE DeactivateStop
    BY <2>5 DEF DeactivateStop, SendPercent, SendFails
  <2>6. CASE DeactivateStore
    BY <2>6 DEF DeactivateStore, RecordStop, RecordCommandedPercent
  <2>7. CASE DeactivateMode
    BY <2>7 DEF DeactivateMode
  <2>8. CASE DeactivateReset
    BY <2>8 DEF DeactivateReset, ResetBenchState
  <2>9. CASE DeactivateClose
    BY <2>9 DEF DeactivateClose
  <2> QED
    BY <1>8, <2>1, <2>2, <2>3, <2>4, <2>5, <2>6, <2>7, <2>8, <2>9 DEF LifecycleSteps
<1>9. CASE ReadSteps
  BY <1>9 DEF ReadSteps, ReadMoveEnd, ReadWriteSettings, ReadUnchanged, ReadUpdated
<1>10. CASE ExecutorSteps
  BY <1>10 DEF ExecutorSteps, BenchRequestCheck, DriveRecord, MoveRecord, SettingsCheck,
      SettingsPush,
      RefreshCheck, RefreshPush
<1>11. CASE ClientSteps
  BY <1>11 DEF ClientSteps, DriveCall, MoveCall, SettingsCall, RefreshCall,
      StatusPoll, SetupCall, HeartbeatLapses, BenchRequestAllowed
<1>12. CASE ManagerSteps
  BY <1>12 DEF ManagerSteps, SwitchBegin, BenchStoppedFor, ControllerUpdate,
      ActivateBegin, DeactivateBegin
<1>13. CASE FwMoveEnds
  BY <1>13 DEF FwMoveEnds
<1>14. CASE UNCHANGED vars
  BY <1>14 DEF vars, lifeVars, modeVars, fwVars
<1> QED
  BY <1>1, <1>2, <1>3, <1>4, <1>5, <1>6, <1>7, <1>8, <1>9, <1>10, <1>11, <1>12, <1>13, <1>14
      DEF Next, WriteSteps

LEMMA LetGoInductive == LInv /\ [Next]_vars => LInv'
  BY Inductive, PortStep, ConfiguredStep, StillStep DEF LInv

LEMMA LetGoInvariant == Spec => []LInv
<1>1. Init => PortInv /\ ConfiguredInv /\ StillInv
  BY DEF Init, PortInv, ConfiguredInv, StillInv, LifecyclePc, ClosedPc, UnresetPc
<1>2. Init => LInv
  BY <1>1, Initially DEF LInv
<1> QED
  BY <1>2, LetGoInductive, PTL DEF Spec

\* As long as no send has failed, a closed port and a mode switch that has
\* returned mean a motor that is off: on_deactivate and the mode switch send
\* the stop before they let go, and no callback slips a drive in behind it.
THEOREM LetGoLeavesItStill == Spec => []LetGoIsStill
<1>1. LInv => LetGoIsStill
  BY DEF LInv, StillInv, LetGoIsStill
<1> QED
  BY <1>1, LetGoInvariant, PTL

\* Only the end of a mode switch stores the velocity mode.
LEMMA VelocityTakenOver ==
  ASSUME LInv, Next, currentMode # "VELOCITY", currentMode' = "VELOCITY"
  PROVE  cmPc = "modeCommit" /\ newMode = "VELOCITY"
<1> USE DEF modeVars
<1>1. CASE WriteBegin
  BY <1>1 DEF WriteBegin
<1>2. CASE QueueSteps
  <2>1. CASE RefreshSample
    BY <2>1 DEF RefreshSample
  <2>2. CASE RefreshService
    BY <2>2 DEF RefreshService
  <2>3. ASSUME NEW t \in BOOLEAN, QueueStep(t) PROVE cmPc = "modeCommit" /\ newMode = "VELOCITY"
    BY <2>3 DEF QueueStep
  <2>4. CASE QueueIo
    BY <2>4 DEF QueueIo, SendQueued, SendFails
  <2> QED
    BY <1>2, <2>1, <2>2, <2>3, <2>4 DEF QueueSteps
<1>3. CASE ControlSteps
  BY <1>3 DEF ControlSteps, VelocityDue, VelocityCommand, SendPercent, SendFails,
      VelocityStore, RecordCommandedPercent, PositionCommand, SendMove, PositionStore,
      NoControllerCommand
<1>4. CASE ServiceSteps
  BY <1>4 DEF ServiceSteps, ServiceStops, ServiceMove, ServiceDrive, ServiceNothing,
      ClaimKept
<1>5. CASE SendSteps
  <2>1. CASE MoveSend
    BY <2>1 DEF MoveSend, SendMove, SendFails
  <2>2. CASE MoveStore
    BY <2>2 DEF MoveStore
  <2>3. CASE MoveDone
    BY <2>3 DEF MoveDone
  <2>4. CASE DriveSend
    BY <2>4 DEF DriveSend, SendPercent, SendFails
  <2>5. CASE DriveStore
    BY <2>5 DEF DriveStore, RecordCommandedPercent
  <2>6. CASE DriveDone
    BY <2>6 DEF DriveDone, SentPercent
  <2> QED
    BY <1>5, <2>1, <2>2, <2>3, <2>4, <2>5, <2>6 DEF SendSteps
<1>6. CASE StopSteps
  <2>1. CASE StopCheck
    BY <2>1 DEF StopCheck
  <2>2. CASE StopSend
    BY <2>2 DEF StopSend, StopSent, StopNotSent, SendPercent, SendFails
  <2>3. CASE StopStore
    BY <2>3 DEF StopStore, RecordStop, RecordCommandedPercent
  <2>4. CASE StopReset
    BY <2>4 DEF StopReset, ResetBenchState
  <2>5. CASE StopFailed
    BY <2>5 DEF StopFailed
  <2> QED
    BY <1>6, <2>1, <2>2, <2>3, <2>4, <2>5 DEF StopSteps
<1>7. CASE SwitchSteps
  BY <1>7 DEF SwitchSteps, LeavingActiveMode, ModeStop, StopSent, StopNotSent, SendPercent,
      SendFails,
      ModeStopStore, RecordStop, RecordCommandedPercent, ModeCommit
<1>8. CASE LifecycleSteps
  <2>1. CASE ActivateReset
    BY <2>1 DEF ActivateReset, ResetBenchState
  <2>2. CASE ActivateOpen
    BY <2>2 DEF ActivateOpen
  <2>3. CASE ActivateDone
    BY <2>3 DEF ActivateDone
  <2>4. CASE DeactivateQueue
    BY <2>4 DEF DeactivateQueue
  <2>5. CASE DeactivateStop
    BY <2>5 DEF DeactivateStop, SendPercent, SendFails
  <2>6. CASE DeactivateStore
    BY <2>6 DEF DeactivateStore, RecordStop, RecordCommandedPercent
  <2>7. CASE DeactivateMode
    BY <2>7 DEF DeactivateMode
  <2>8. CASE DeactivateReset
    BY <2>8 DEF DeactivateReset, ResetBenchState
  <2>9. CASE DeactivateClose
    BY <2>9 DEF DeactivateClose
  <2> QED
    BY <1>8, <2>1, <2>2, <2>3, <2>4, <2>5, <2>6, <2>7, <2>8, <2>9 DEF LifecycleSteps
<1>9. CASE ReadSteps
  BY <1>9 DEF ReadSteps, ReadMoveEnd, ReadWriteSettings, ReadUnchanged, ReadUpdated
<1>10. CASE ExecutorSteps
  BY <1>10 DEF ExecutorSteps, BenchRequestCheck, DriveRecord, MoveRecord, SettingsCheck,
      SettingsPush,
      RefreshCheck, RefreshPush
<1>11. CASE ClientSteps
  BY <1>11 DEF ClientSteps, DriveCall, MoveCall, SettingsCall, RefreshCall,
      StatusPoll, SetupCall, HeartbeatLapses, BenchRequestAllowed
<1>12. CASE ManagerSteps
  BY <1>12 DEF ManagerSteps, SwitchBegin, BenchStoppedFor, ControllerUpdate,
      ActivateBegin, DeactivateBegin
<1>13. CASE FwMoveEnds
  BY <1>13 DEF FwMoveEnds
<1> QED
  BY <1>1, <1>2, <1>3, <1>4, <1>5, <1>6, <1>7, <1>8, <1>9, <1>10, <1>11, <1>12, <1>13
      DEF Next, WriteSteps

\* A velocity controller takes over a motor that is off: the step that stores
\* the mode is the end of a switch that has stopped whatever was turning.
THEOREM VelocityAlwaysStartsStill == Spec => VelocityStartsStill
<1>1. LInv /\ [Next]_vars
        => [currentMode # "VELOCITY" /\ currentMode' = "VELOCITY" /\ failures = 0
              => motor = 0]_vars
  <2> SUFFICES ASSUME LInv, Next,
                      currentMode # "VELOCITY", currentMode' = "VELOCITY", failures = 0
               PROVE  motor = 0
    OBVIOUS
  <2>1. cmPc = "modeCommit" /\ newMode = "VELOCITY"
    BY VelocityTakenOver
  <2> QED
    BY <2>1 DEF LInv, StillInv
<1> QED
  BY <1>1, LetGoInvariant, PTL DEF VelocityStartsStill, Spec

=============================================================================
