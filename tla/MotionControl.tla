----------------------------- MODULE MotionControl -----------------------------
(***************************************************************************)
(* The motion path of the RoamadomeControl hardware component: who may     *)
(* command the dome motor, what is put on the serial wire, and what the    *)
(* host records about it.                                                  *)
(*                                                                         *)
(* Two host threads share the state.  The controller manager thread runs   *)
(* read(), write(), perform_command_mode_switch(), on_activate() and       *)
(* on_deactivate(), one at a time; the executor thread runs the service,   *)
(* parameter and timer callbacks, one at a time.  A step of the model is   *)
(* what one thread does inside one critical section, or one serial write,  *)
(* or one store to an atomic, so that every interleaving the mutexes allow *)
(* is a behaviour.  cmPc and exPc say where each thread is.                *)
(*                                                                         *)
(* The dome firmware at the other end of the wire is external: it is       *)
(* modelled from what the host relies on (a :DPR<p> turns the motor until  *)
(* the next :DPR, a :DPA starts a move that only the firmware ends, and a  *)
(* settings write stops the motor).                                        *)
(*                                                                         *)
(* Time is abstracted: a timeout either has or has not passed when the     *)
(* code looks at the clock.  The measured velocity is any value.           *)
(*                                                                         *)
(* A definition Name_Variant, placed before Name, is Name with a plausible *)
(* mistake in it; no other definition uses it.  Putting it in Name's place *)
(* makes a run fail, which shows that the property it breaks is about that *)
(* piece of code.                                                          *)
(***************************************************************************)
EXTENDS Integers, Sequences

CONSTANTS
  Percents,         \* the :DPR arguments that requests and controllers use
  Moves,            \* the (target, speed) pairs of position commands
  NoMove,           \* no bench move is claimed
  NoPercent,        \* a velocity command that is NaN; no percent sent yet
  ControllerModes,  \* the command modes of the controllers that may start
  Requests,         \* the callbacks and lifecycle calls that happen
  MaxQueue,         \* bound: sends are queued while the queue is this short
  MaxFailures,      \* bound: how many serial writes fail
  MaxLines          \* bound: end-of-move lines in transit to the host

ASSUME PercentsAssumption == Percents \subseteq -100..100 /\ 0 \in Percents
ASSUME MovesAssumption    == NoMove \notin Moves
ASSUME NoPercentAssumption == NoPercent \notin Int
ASSUME ModesAssumption    == ControllerModes \subseteq {"POSITION", "VELOCITY"}
ASSUME BoundsAssumption   ==
  MaxQueue \in Nat /\ MaxFailures \in Nat /\ MaxLines \in Nat

VARIABLES
  \* shared host state, named after the members of RoamadomeControl
  lifecycleActive, portOpen, currentMode, telemetryCommandMode,
  benchActive, benchPendingPercent, benchLastSentPercent,
  benchMoveTarget, benchMoveSent, benchFresh,
  sendQueue, sendQueueStage, configRefreshPending,
  lastCommandedPercent, firmwareMoveOutstanding,
  \* state of the controller manager thread
  lastSentPercent, cmdVelocity,
  cmPc, benchBusy, moving, ioCommand, outPercent, outMove, newMode, ret,
  \* state of the executor thread
  exPc, exPercent, exMove, exMoving,
  \* the firmware and the wire
  motor, fwMove, moveLines, failures

lifeVars  == <<lifecycleActive, portOpen>>
modeVars  == <<currentMode, telemetryCommandMode>>
benchVars == <<benchActive, benchPendingPercent, benchLastSentPercent,
               benchMoveTarget, benchMoveSent, benchFresh>>
queueVars == <<sendQueue, sendQueueStage, configRefreshPending>>
recordVars == <<lastCommandedPercent, lastSentPercent>>
localVars == <<benchBusy, moving, ioCommand, outPercent, outMove, newMode, ret>>
exVars    == <<exPc, exPercent, exMove, exMoving>>
fwVars    == <<motor, fwMove, moveLines, failures>>

vars == <<lifeVars, modeVars, benchVars, queueVars, recordVars,
          firmwareMoveOutstanding, cmdVelocity, cmPc, localVars, exVars, fwVars>>

-----------------------------------------------------------------------------
(* Data.  A queued command is its flow: only the flow decides what write()  *)
(* does with it.                                                            *)

Flow  == {"ONE_SHOT", "PARAMETER_UPDATE_ACK"}
Stage == {"IDLE", "WAIT_WRITE_SETTINGS", "WAIT_UPDATED"}
Mode  == {"IDLE", "POSITION", "VELOCITY"}

\* A #DPCONFIG or #DPSTATUS query followed by the #DPINVALID that ends it.
Query == <<"ONE_SHOT", "ONE_SHOT">>

HasSettingsWrite(q) == \E i \in 1..Len(q) : q[i] = "PARAMETER_UPDATE_ACK"

SettingsWriteInFlight_QueueOnly == HasSettingsWrite(sendQueue)
SettingsWriteInFlight == sendQueueStage # "IDLE" \/ HasSettingsWrite(sendQueue)

TelemetryMode(active, mode) == IF active THEN "BENCH" ELSE mode

BenchRotating ==
  \/ benchActive /\ (benchPendingPercent # 0 \/ benchLastSentPercent # 0)
  \/ benchActive /\ benchMoveTarget # NoMove
  \/ firmwareMoveOutstanding

RotationInProgress == lastCommandedPercent # 0 \/ BenchRotating

Room(n) == Len(sendQueue) + n <= MaxQueue

Init ==
  /\ lifecycleActive = FALSE /\ portOpen = TRUE     \* configured, inactive
  /\ currentMode = "IDLE" /\ telemetryCommandMode = "IDLE"
  /\ benchActive = FALSE /\ benchPendingPercent = 0 /\ benchLastSentPercent = 0
  /\ benchMoveTarget = NoMove /\ benchMoveSent = FALSE /\ benchFresh = FALSE
  /\ sendQueue = <<>> /\ sendQueueStage = "IDLE" /\ configRefreshPending = FALSE
  /\ lastCommandedPercent = 0 /\ lastSentPercent = NoPercent
  /\ firmwareMoveOutstanding = FALSE /\ cmdVelocity = 0
  /\ cmPc = "idle" /\ benchBusy = FALSE /\ moving = FALSE /\ ioCommand = "NONE"
  /\ outPercent = 0 /\ outMove = NoMove /\ newMode = "IDLE" /\ ret = "write"
  /\ exPc = "idle" /\ exPercent = 0 /\ exMove = NoMove /\ exMoving = FALSE
  /\ motor = 0 /\ fwMove = FALSE /\ moveLines = 0 /\ failures = 0

-----------------------------------------------------------------------------
(* The wire.  SendOk and SendFails are the two outcomes of                  *)
(* RoamadomeSerialPort::sendCommand: the firmware has the command, or the   *)
(* write failed and it has not.                                             *)

\* :DPR<p> reaches the firmware.
SendPercent(p) ==
  /\ motor' = p
  /\ UNCHANGED <<fwMove, moveLines, failures>>

\* :DPA reaches the firmware: a new move replaces the one it runs, if any.
SendMove ==
  /\ fwMove' = TRUE
  /\ UNCHANGED <<motor, moveLines, failures>>

\* The write to the open port fails.
SendFails ==
  /\ failures < MaxFailures
  /\ failures' = failures + 1
  /\ UNCHANGED <<motor, fwMove, moveLines>>

\* A queued command reaches the firmware.  A settings write stops the motor and
\* aborts the move in flight.
SendQueued(flow) ==
  /\ IF flow = "PARAMETER_UPDATE_ACK"
     THEN motor' = 0 /\ fwMove' = FALSE
     ELSE UNCHANGED <<motor, fwMove>>
  /\ UNCHANGED <<moveLines, failures>>

\* The firmware ends its move (target reached, home reached, or its position
\* timeout) and says so in one line.  A non-zero :DPR overrides the move.
FwMoveEnds ==
  /\ fwMove /\ motor = 0
  /\ moveLines < MaxLines
  /\ fwMove' = FALSE
  /\ moveLines' = IF portOpen THEN moveLines + 1 ELSE moveLines
  /\ UNCHANGED <<motor, failures, lifeVars, modeVars, benchVars, queueVars, recordVars,
                 firmwareMoveOutstanding, cmdVelocity, cmPc, localVars, exVars>>

\* sendStopCommand returns false also when the port is closed, which is no failure
\* of a write.
StopSent    == portOpen /\ SendPercent(0)
StopNotSent == IF portOpen THEN SendFails ELSE UNCHANGED fwVars

\* recordCommandedPercent, after a :DPR was sent.
RecordCommandedPercent_Dropped(p) == UNCHANGED lastCommandedPercent
RecordCommandedPercent(p) == lastCommandedPercent' = p

\* A :DPR0 that was sent by sendStopCommand.
RecordStop ==
  /\ RecordCommandedPercent(0)
  /\ lastSentPercent' = 0

-----------------------------------------------------------------------------
(* write(), controller manager thread.                                      *)

\* Entry: return at once unless the port is open; sample benchActive_.
WriteBegin ==
  /\ cmPc = "idle" /\ portOpen
  /\ benchBusy' = benchActive
  /\ cmPc' = "refresh"
  /\ UNCHANGED <<lifeVars, modeVars, benchVars, queueVars, recordVars,
                 firmwareMoveOutstanding, cmdVelocity,
                 moving, ioCommand, outPercent, outMove, newMode, ret, exVars, fwVars>>

\* serviceDeferredConfigRefresh, first lock and the look at the dome.
RefreshSample ==
  /\ cmPc = "refresh"
  /\ \/ /\ ~configRefreshPending
        /\ cmPc' = "queue"
        /\ UNCHANGED moving
     \/ /\ configRefreshPending
        /\ \E fast \in BOOLEAN : moving' = (RotationInProgress \/ fast)
        /\ cmPc' = "refreshLock"
  /\ UNCHANGED <<lifeVars, modeVars, benchVars, queueVars, recordVars,
                 firmwareMoveOutstanding, cmdVelocity,
                 benchBusy, ioCommand, outPercent, outMove, newMode, ret, exVars, fwVars>>

\* serviceDeferredConfigRefresh, second lock: queue the dump once the dome has
\* been seen still for the settle time.
RefreshService ==
  /\ cmPc = "refreshLock"
  /\ \E settled \in BOOLEAN :
       IF ~moving /\ settled
       THEN /\ Room(2)
            /\ sendQueue' = sendQueue \o Query
            /\ configRefreshPending' = FALSE
       ELSE UNCHANGED <<sendQueue, configRefreshPending>>
  /\ moving' = FALSE
  /\ cmPc' = "queue"
  /\ UNCHANGED <<lifeVars, modeVars, benchVars, sendQueueStage, recordVars,
                 firmwareMoveOutstanding, cmdVelocity,
                 benchBusy, ioCommand, outPercent, outMove, newMode, ret, exVars, fwVars>>

\* Commands the queue may give up in this cycle: under a bench drive the
\* settings writes are rotated to the back.
Sendable_NotHeld(i) == TRUE
Sendable(i) == ~(benchBusy /\ sendQueue[i] = "PARAMETER_UPDATE_ACK")

\* Queue bookkeeping under sendQueue_mutex_: give up an ack wait that lasted too
\* long, then, if no ack is awaited, take the first sendable command, and mark
\* a settings write in flight before it is sent.
QueueStep(ackTimedOut) ==
  /\ cmPc = "queue"
  /\ ackTimedOut => sendQueueStage # "IDLE"
  /\ LET stage == IF ackTimedOut THEN "IDLE" ELSE sendQueueStage
         n     == Len(sendQueue)
     IN  IF stage = "IDLE" /\ \E i \in 1..n : Sendable(i)
         THEN \E i \in 1..n :
                /\ Sendable(i)
                /\ \A j \in 1..(i - 1) : ~Sendable(j)
                /\ ioCommand' = sendQueue[i]
                /\ sendQueue' = SubSeq(sendQueue, i + 1, n) \o SubSeq(sendQueue, 1, i - 1)
                /\ sendQueueStage' = IF sendQueue[i] = "PARAMETER_UPDATE_ACK"
                                     THEN "WAIT_WRITE_SETTINGS" ELSE stage
                /\ cmPc' = "io"
         ELSE /\ sendQueueStage' = stage
              /\ cmPc' = "control"
              /\ UNCHANGED <<sendQueue, ioCommand>>
  /\ benchBusy' = FALSE
  /\ UNCHANGED <<lifeVars, modeVars, benchVars, configRefreshPending, recordVars,
                 firmwareMoveOutstanding, cmdVelocity,
                 moving, outPercent, outMove, newMode, ret, exVars, fwVars>>

\* The serial write of the queued command, outside every lock.  A settings
\* write that could not be sent is forgotten.
QueueIo ==
  /\ cmPc = "io"
  /\ \/ /\ SendQueued(ioCommand)
        /\ UNCHANGED sendQueueStage
     \/ /\ SendFails
        /\ sendQueueStage' = IF ioCommand = "PARAMETER_UPDATE_ACK" THEN "IDLE"
                             ELSE sendQueueStage
  /\ ioCommand' = "NONE"
  /\ cmPc' = "control"
  /\ UNCHANGED <<lifeVars, modeVars, benchVars, sendQueue, configRefreshPending, recordVars,
                 firmwareMoveOutstanding, cmdVelocity,
                 benchBusy, moving, outPercent, outMove, newMode, ret, exVars>>

\* The controller's percent is new: send it.  A failed send is tried again in
\* the next cycle, because lastSentPercent_ is kept.
VelocityDue_NaNSent ==
  /\ currentMode = "VELOCITY"
  /\ cmdVelocity # lastSentPercent
VelocityDue ==
  /\ currentMode = "VELOCITY"
  /\ cmdVelocity # NoPercent
  /\ cmdVelocity # lastSentPercent

VelocityCommand ==
  /\ cmPc = "control" /\ VelocityDue
  /\ \/ SendPercent(cmdVelocity) /\ cmPc' = "velocityStore"
     \/ SendFails /\ cmPc' = "service"
  /\ UNCHANGED <<lifeVars, modeVars, benchVars, queueVars, recordVars,
                 firmwareMoveOutstanding, cmdVelocity, localVars, exVars>>

VelocityStore ==
  /\ cmPc = "velocityStore"
  /\ RecordCommandedPercent(cmdVelocity)
  /\ lastSentPercent' = cmdVelocity
  /\ cmPc' = "service"
  /\ UNCHANGED <<lifeVars, modeVars, benchVars, queueVars,
                 firmwareMoveOutstanding, cmdVelocity, localVars, exVars, fwVars>>

\* The position controller's angle is new (which angle does not matter here).
PositionCommand ==
  /\ cmPc = "control" /\ currentMode = "POSITION"
  /\ \/ SendMove /\ cmPc' = "positionStore"
     \/ SendFails /\ cmPc' = "service"
  /\ UNCHANGED <<lifeVars, modeVars, benchVars, queueVars, recordVars,
                 firmwareMoveOutstanding, cmdVelocity, localVars, exVars>>

PositionStore ==
  /\ cmPc = "positionStore"
  /\ firmwareMoveOutstanding' = TRUE
  /\ cmPc' = "service"
  /\ UNCHANGED <<lifeVars, modeVars, benchVars, queueVars, recordVars,
                 cmdVelocity, localVars, exVars, fwVars>>

\* IDLE, a NaN command, or nothing new from the controller.
NoControllerCommand ==
  /\ cmPc = "control" /\ ~VelocityDue
  /\ cmPc' = "service"
  /\ UNCHANGED <<lifeVars, modeVars, benchVars, queueVars, recordVars,
                 firmwareMoveOutstanding, cmdVelocity, localVars, exVars, fwVars>>

-----------------------------------------------------------------------------
(* serviceBenchDrive: choose one action under bench_mutex_, then do it.     *)

MoveUnsent == benchMoveTarget # NoMove /\ ~benchMoveSent

HeartbeatExpired_Never == FALSE
HeartbeatExpired == ~benchFresh

DriveDue ==
  \/ benchPendingPercent # benchLastSentPercent
  \/ benchPendingPercent = 0 /\ lastCommandedPercent # 0

\* A controller took over, or the heartbeat expired: stopBenchDrive.
ServiceStops ==
  /\ cmPc = "service" /\ benchActive
  /\ currentMode # "IDLE" \/ HeartbeatExpired
  /\ cmPc' = "stopCheck" /\ ret' = "write"
  /\ UNCHANGED <<lifeVars, modeVars, benchVars, queueVars, recordVars,
                 firmwareMoveOutstanding, cmdVelocity,
                 benchBusy, moving, ioCommand, outPercent, outMove, newMode, exVars, fwVars>>

ServiceMove ==
  /\ cmPc = "service" /\ benchActive /\ currentMode = "IDLE" /\ ~HeartbeatExpired
  /\ MoveUnsent
  /\ outMove' = benchMoveTarget
  /\ cmPc' = "moveSend"
  /\ UNCHANGED <<lifeVars, modeVars, benchVars, queueVars, recordVars,
                 firmwareMoveOutstanding, cmdVelocity,
                 benchBusy, moving, ioCommand, outPercent, newMode, ret, exVars, fwVars>>

ServiceDrive ==
  /\ cmPc = "service" /\ benchActive /\ currentMode = "IDLE" /\ ~HeartbeatExpired
  /\ ~MoveUnsent /\ DriveDue
  /\ outPercent' = benchPendingPercent
  /\ cmPc' = "driveSend"
  /\ UNCHANGED <<lifeVars, modeVars, benchVars, queueVars, recordVars,
                 firmwareMoveOutstanding, cmdVelocity,
                 benchBusy, moving, ioCommand, outMove, newMode, ret, exVars, fwVars>>

\* Nothing to send; with no percent and no move claimed the bench is released.
ClaimKept_Always == benchActive
ClaimKept == benchActive /\ (benchPendingPercent # 0 \/ benchMoveTarget # NoMove)

ServiceNothing ==
  /\ cmPc = "service"
  /\ benchActive => /\ currentMode = "IDLE" /\ ~HeartbeatExpired
                    /\ ~MoveUnsent /\ ~DriveDue
  /\ benchActive' = ClaimKept
  /\ telemetryCommandMode' = IF benchActive THEN TelemetryMode(benchActive', currentMode)
                             ELSE telemetryCommandMode
  /\ cmPc' = "idle"
  /\ UNCHANGED <<lifeVars, currentMode, benchPendingPercent, benchLastSentPercent,
                 benchMoveTarget, benchMoveSent, benchFresh, queueVars, recordVars,
                 firmwareMoveOutstanding, cmdVelocity, localVars, exVars, fwVars>>

MoveSend ==
  /\ cmPc = "moveSend"
  /\ \/ SendMove /\ cmPc' = "moveStore" /\ UNCHANGED outMove
     \/ SendFails /\ cmPc' = "idle" /\ outMove' = NoMove
  /\ UNCHANGED <<lifeVars, modeVars, benchVars, queueVars, recordVars,
                 firmwareMoveOutstanding, cmdVelocity,
                 benchBusy, moving, ioCommand, outPercent, newMode, ret, exVars>>

MoveStore ==
  /\ cmPc = "moveStore"
  /\ firmwareMoveOutstanding' = TRUE
  /\ cmPc' = "moveDone"
  /\ UNCHANGED <<lifeVars, modeVars, benchVars, queueVars, recordVars,
                 cmdVelocity, localVars, exVars, fwVars>>

\* Under the lock again: the claim may have been released or changed meanwhile.
MoveDone ==
  /\ cmPc = "moveDone"
  /\ benchMoveSent' = (benchMoveSent \/ benchMoveTarget = outMove)
  /\ outMove' = NoMove
  /\ cmPc' = "idle"
  /\ UNCHANGED <<lifeVars, modeVars, benchActive, benchPendingPercent, benchLastSentPercent,
                 benchMoveTarget, benchFresh, queueVars, recordVars,
                 firmwareMoveOutstanding, cmdVelocity,
                 benchBusy, moving, ioCommand, outPercent, newMode, ret, exVars, fwVars>>

DriveSend_ResultIgnored ==
  /\ cmPc = "driveSend"
  /\ SendPercent(outPercent) \/ SendFails
  /\ cmPc' = "driveStore"
  /\ UNCHANGED <<lifeVars, modeVars, benchVars, queueVars, recordVars,
                 firmwareMoveOutstanding, cmdVelocity, localVars, exVars>>
DriveSend ==
  /\ cmPc = "driveSend"
  /\ \/ SendPercent(outPercent) /\ cmPc' = "driveStore" /\ UNCHANGED outPercent
     \/ SendFails /\ cmPc' = "idle" /\ outPercent' = 0
  /\ UNCHANGED <<lifeVars, modeVars, benchVars, queueVars, recordVars,
                 firmwareMoveOutstanding, cmdVelocity,
                 benchBusy, moving, ioCommand, outMove, newMode, ret, exVars>>

\* sendStopCommand also records lastSentPercent_, sendVelocityCommand does not.
DriveStore ==
  /\ cmPc = "driveStore"
  /\ RecordCommandedPercent(outPercent)
  /\ lastSentPercent' = IF outPercent = 0 THEN 0 ELSE lastSentPercent
  /\ cmPc' = "driveDone"
  /\ UNCHANGED <<lifeVars, modeVars, benchVars, queueVars,
                 firmwareMoveOutstanding, cmdVelocity, localVars, exVars, fwVars>>

\* Under the lock again: record what was sent, whatever was asked meanwhile.
SentPercent_Pending == benchPendingPercent
SentPercent == outPercent

DriveDone ==
  /\ cmPc = "driveDone"
  /\ benchLastSentPercent' = SentPercent
  /\ IF outPercent = 0 /\ benchPendingPercent = 0
     THEN /\ benchActive' = FALSE
          /\ telemetryCommandMode' = TelemetryMode(FALSE, currentMode)
     ELSE UNCHANGED <<benchActive, telemetryCommandMode>>
  /\ outPercent' = 0
  /\ cmPc' = "idle"
  /\ UNCHANGED <<lifeVars, currentMode, benchPendingPercent,
                 benchMoveTarget, benchMoveSent, benchFresh, queueVars, recordVars,
                 firmwareMoveOutstanding, cmdVelocity,
                 benchBusy, moving, ioCommand, outMove, newMode, ret, exVars, fwVars>>

-----------------------------------------------------------------------------
(* stopBenchDrive, called by write() and by the mode switch (ret).          *)

StopCheck ==
  /\ cmPc = "stopCheck"
  /\ cmPc' = IF benchActive /\ benchLastSentPercent # 0 THEN "stopSend" ELSE "stopReset"
  /\ UNCHANGED <<lifeVars, modeVars, benchVars, queueVars, recordVars,
                 firmwareMoveOutstanding, cmdVelocity, localVars, exVars, fwVars>>

StopSend ==
  /\ cmPc = "stopSend"
  /\ \/ StopSent /\ cmPc' = "stopStore"
     \/ StopNotSent /\ cmPc' = "stopFailed"
  /\ UNCHANGED <<lifeVars, modeVars, benchVars, queueVars, recordVars,
                 firmwareMoveOutstanding, cmdVelocity, localVars, exVars>>

StopStore ==
  /\ cmPc = "stopStore"
  /\ RecordStop
  /\ cmPc' = "stopReset"
  /\ UNCHANGED <<lifeVars, modeVars, benchVars, queueVars,
                 firmwareMoveOutstanding, cmdVelocity, localVars, exVars, fwVars>>

ResetBenchState ==
  /\ benchActive' = FALSE
  /\ benchPendingPercent' = 0
  /\ benchLastSentPercent' = 0
  /\ benchMoveTarget' = NoMove
  /\ benchMoveSent' = FALSE
  /\ telemetryCommandMode' = TelemetryMode(FALSE, currentMode)
  /\ UNCHANGED <<benchFresh, currentMode>>

StopReset ==
  /\ cmPc = "stopReset"
  /\ ResetBenchState
  /\ cmPc' = IF ret = "switch" THEN "modeStop" ELSE "idle"
  /\ ret' = "write"
  /\ UNCHANGED <<lifeVars, queueVars, recordVars, firmwareMoveOutstanding, cmdVelocity,
                 benchBusy, moving, ioCommand, outPercent, outMove, newMode, exVars, fwVars>>

\* The stop could not be sent: keep the claim, ask for 0, and let write() try
\* again.  A mode switch is refused.
StopFailed ==
  /\ cmPc = "stopFailed"
  /\ benchPendingPercent' = 0
  /\ cmPc' = "idle"
  /\ ret' = "write" /\ newMode' = "IDLE"
  /\ UNCHANGED <<lifeVars, modeVars, benchActive, benchLastSentPercent,
                 benchMoveTarget, benchMoveSent, benchFresh, queueVars, recordVars,
                 firmwareMoveOutstanding, cmdVelocity,
                 benchBusy, moving, ioCommand, outPercent, outMove, exVars, fwVars>>

-----------------------------------------------------------------------------
(* perform_command_mode_switch, controller manager thread.                  *)

\* Nothing in it asks whether the interface is active.  A bench drive is stopped
\* before any controller starts.
BenchStoppedFor_PositionOnly(mode) == mode = "POSITION"
BenchStoppedFor_VelocityOnly(mode) == mode = "VELOCITY"
BenchStoppedFor(mode) == mode # "IDLE"

SwitchBegin(mode) ==
  /\ cmPc = "idle" /\ "switch" \in Requests
  /\ newMode' = mode
  /\ IF BenchStoppedFor(mode)
     THEN cmPc' = "stopCheck" /\ ret' = "switch"
     ELSE cmPc' = "modeStop" /\ UNCHANGED ret
  /\ UNCHANGED <<lifeVars, modeVars, benchVars, queueVars, recordVars,
                 firmwareMoveOutstanding, cmdVelocity,
                 benchBusy, moving, ioCommand, outPercent, outMove, exVars, fwVars>>

\* Leaving an active mode sends :DPR0.  The result of the send is not looked at.
LeavingActiveMode == currentMode # "IDLE" /\ newMode # currentMode

ModeStop_RecordedAnyway ==
  /\ cmPc = "modeStop"
  /\ \/ LeavingActiveMode /\ (StopSent \/ StopNotSent) /\ cmPc' = "modeStopStore"
     \/ ~LeavingActiveMode /\ cmPc' = "modeCommit" /\ UNCHANGED fwVars
  /\ UNCHANGED <<lifeVars, modeVars, benchVars, queueVars, recordVars,
                 firmwareMoveOutstanding, cmdVelocity, localVars, exVars>>
ModeStop ==
  /\ cmPc = "modeStop"
  /\ \/ LeavingActiveMode /\ StopSent /\ cmPc' = "modeStopStore"
     \/ LeavingActiveMode /\ StopNotSent /\ cmPc' = "modeCommit"
     \/ ~LeavingActiveMode /\ cmPc' = "modeCommit" /\ UNCHANGED fwVars
  /\ UNCHANGED <<lifeVars, modeVars, benchVars, queueVars, recordVars,
                 firmwareMoveOutstanding, cmdVelocity, localVars, exVars>>

ModeStopStore ==
  /\ cmPc = "modeStopStore"
  /\ RecordStop
  /\ cmPc' = "modeCommit"
  /\ UNCHANGED <<lifeVars, modeVars, benchVars, queueVars,
                 firmwareMoveOutstanding, cmdVelocity, localVars, exVars, fwVars>>

ModeCommit ==
  /\ cmPc = "modeCommit"
  /\ IF newMode = "VELOCITY" /\ currentMode # "VELOCITY"
     THEN cmdVelocity' = 0 /\ lastSentPercent' = 0
     ELSE UNCHANGED <<cmdVelocity, lastSentPercent>>
  /\ currentMode' = newMode
  /\ telemetryCommandMode' = TelemetryMode(benchActive, newMode)
  /\ newMode' = "IDLE"
  /\ cmPc' = "idle"
  /\ UNCHANGED <<lifeVars, benchVars, queueVars, lastCommandedPercent,
                 firmwareMoveOutstanding,
                 benchBusy, moving, ioCommand, outPercent, outMove, ret, exVars, fwVars>>

-----------------------------------------------------------------------------
(* on_activate and on_deactivate, controller manager thread.                *)

ActivateBegin ==
  /\ cmPc = "idle" /\ ~lifecycleActive
  /\ sendQueue' = <<>> /\ sendQueueStage' = "IDLE"
  /\ cmPc' = "activateReset"
  /\ UNCHANGED <<lifeVars, modeVars, benchVars, configRefreshPending, recordVars,
                 firmwareMoveOutstanding, cmdVelocity, localVars, exVars, fwVars>>

ActivateReset ==
  /\ cmPc = "activateReset"
  /\ ResetBenchState
  /\ cmPc' = "activateOpen"
  /\ UNCHANGED <<lifeVars, queueVars, recordVars, firmwareMoveOutstanding, cmdVelocity,
                 localVars, exVars, fwVars>>

\* After a deactivation the port is opened and the startup sequence run again,
\* which may fail.
ActivateOpen ==
  /\ cmPc = "activateOpen"
  /\ \/ portOpen' = TRUE /\ cmPc' = "activateDone"
     \/ ~portOpen /\ portOpen' = FALSE /\ cmPc' = "idle"
  /\ UNCHANGED <<lifecycleActive, modeVars, benchVars, queueVars, recordVars,
                 firmwareMoveOutstanding, cmdVelocity, localVars, exVars, fwVars>>

\* The outstanding move is forgotten, a status poll queued, callbacks let in.
ActivateDone ==
  /\ cmPc = "activateDone"
  /\ firmwareMoveOutstanding' = FALSE
  /\ sendQueue' = sendQueue \o Query
  /\ lifecycleActive' = TRUE
  /\ cmPc' = "idle"
  /\ UNCHANGED <<portOpen, modeVars, benchVars, sendQueueStage, configRefreshPending,
                 recordVars, cmdVelocity, localVars, exVars, fwVars>>

DeactivateBegin ==
  /\ cmPc = "idle" /\ "deactivate" \in Requests /\ lifecycleActive
  /\ lifecycleActive' = FALSE
  /\ cmPc' = "deactivateQueue"
  /\ UNCHANGED <<portOpen, modeVars, benchVars, queueVars, recordVars,
                 firmwareMoveOutstanding, cmdVelocity, localVars, exVars, fwVars>>

DeactivateQueue ==
  /\ cmPc = "deactivateQueue"
  /\ sendQueue' = <<>> /\ sendQueueStage' = "IDLE" /\ configRefreshPending' = FALSE
  /\ cmPc' = IF portOpen THEN "deactivateStop" ELSE "idle"
  /\ UNCHANGED <<lifeVars, modeVars, benchVars, recordVars,
                 firmwareMoveOutstanding, cmdVelocity, localVars, exVars, fwVars>>

\* The result of the stop is not looked at.
DeactivateStop_Skipped ==
  /\ cmPc = "deactivateStop"
  /\ cmPc' = "deactivateMode"
  /\ UNCHANGED <<lifeVars, modeVars, benchVars, queueVars, recordVars,
                 firmwareMoveOutstanding, cmdVelocity, localVars, exVars, fwVars>>
DeactivateStop ==
  /\ cmPc = "deactivateStop"
  /\ \/ SendPercent(0) /\ cmPc' = "deactivateStore"
     \/ SendFails /\ cmPc' = "deactivateMode"
  /\ UNCHANGED <<lifeVars, modeVars, benchVars, queueVars, recordVars,
                 firmwareMoveOutstanding, cmdVelocity, localVars, exVars>>

DeactivateStore ==
  /\ cmPc = "deactivateStore"
  /\ RecordStop
  /\ cmPc' = "deactivateMode"
  /\ UNCHANGED <<lifeVars, modeVars, benchVars, queueVars,
                 firmwareMoveOutstanding, cmdVelocity, localVars, exVars, fwVars>>

\* currentMode_ is stored without bench_mutex_.
DeactivateMode ==
  /\ cmPc = "deactivateMode"
  /\ currentMode' = "IDLE"
  /\ cmPc' = "deactivateReset"
  /\ UNCHANGED <<lifeVars, telemetryCommandMode, benchVars, queueVars, recordVars,
                 firmwareMoveOutstanding, cmdVelocity, localVars, exVars, fwVars>>

DeactivateReset ==
  /\ cmPc = "deactivateReset"
  /\ ResetBenchState
  /\ cmPc' = "deactivateClose"
  /\ UNCHANGED <<lifeVars, queueVars, recordVars, firmwareMoveOutstanding, cmdVelocity,
                 localVars, exVars, fwVars>>

\* Lines in transit are lost with the port.
DeactivateClose ==
  /\ cmPc = "deactivateClose"
  /\ portOpen' = FALSE
  /\ moveLines' = 0
  /\ cmPc' = "idle"
  /\ UNCHANGED <<lifecycleActive, modeVars, benchVars, queueVars, recordVars,
                 firmwareMoveOutstanding, cmdVelocity, localVars, exVars,
                 motor, fwMove, failures>>

-----------------------------------------------------------------------------
(* read(), controller manager thread: one line at a time.                   *)

\* handleClassifiedLine on REACHED TARGET, REACHED HOME or a position timeout.
ReadMoveEnd ==
  /\ cmPc = "idle" /\ portOpen /\ moveLines > 0
  /\ moveLines' = moveLines - 1
  /\ firmwareMoveOutstanding' = FALSE
  /\ UNCHANGED <<lifeVars, modeVars, benchVars, queueVars, recordVars, cmdVelocity,
                 cmPc, localVars, exVars, motor, fwMove, failures>>

\* handleSendQueueFeedback on the lines a settings write is answered with.
\* A line the awaited stage does not expect changes nothing.
ReadWriteSettings ==
  /\ cmPc = "idle" /\ portOpen /\ sendQueueStage = "WAIT_WRITE_SETTINGS"
  /\ sendQueueStage' = "WAIT_UPDATED"
  /\ UNCHANGED <<lifeVars, modeVars, benchVars, sendQueue, configRefreshPending, recordVars,
                 firmwareMoveOutstanding, cmdVelocity, cmPc, localVars, exVars, fwVars>>

ReadUnchanged ==
  /\ cmPc = "idle" /\ portOpen /\ sendQueueStage = "WAIT_WRITE_SETTINGS"
  /\ sendQueueStage' = "IDLE"
  /\ UNCHANGED <<lifeVars, modeVars, benchVars, sendQueue, configRefreshPending, recordVars,
                 firmwareMoveOutstanding, cmdVelocity, cmPc, localVars, exVars, fwVars>>

\* "Updated" completes the write and queues a config dump.
ReadUpdated ==
  /\ cmPc = "idle" /\ portOpen /\ sendQueueStage = "WAIT_UPDATED"
  /\ Room(2)
  /\ sendQueueStage' = "IDLE"
  /\ sendQueue' = sendQueue \o Query
  /\ UNCHANGED <<lifeVars, modeVars, benchVars, configRefreshPending, recordVars,
                 firmwareMoveOutstanding, cmdVelocity, cmPc, localVars, exVars, fwVars>>

\* The controller's update() writes the velocity command interface.
ControllerUpdate(v) ==
  /\ cmPc = "idle" /\ currentMode = "VELOCITY"
  /\ cmdVelocity' = v
  /\ UNCHANGED <<lifeVars, modeVars, benchVars, queueVars, recordVars,
                 firmwareMoveOutstanding, cmPc, localVars, exVars, fwVars>>

-----------------------------------------------------------------------------
(* Executor thread.  A request that is rejected at once changes nothing and *)
(* is not a step.                                                           *)

\* benchRequestAllowed: the lifecycle and the port first, ...
BenchRequestAllowed == lifecycleActive /\ portOpen

\* ... then, for what starts motion, the queue under sendQueue_mutex_.
BenchRequestCheck ==
  /\ exPc \in {"driveCheck", "moveCheck"}
  /\ IF SettingsWriteInFlight
     THEN exPc' = "idle" /\ exPercent' = 0 /\ exMove' = NoMove
     ELSE /\ exPc' = IF exPc = "driveCheck" THEN "drive" ELSE "move"
          /\ UNCHANGED <<exPercent, exMove>>
  /\ UNCHANGED <<lifeVars, modeVars, benchVars, queueVars, recordVars,
                 firmwareMoveOutstanding, cmdVelocity, cmPc, localVars, exMoving, fwVars>>

DriveCall(p) ==
  /\ exPc = "idle" /\ "drive" \in Requests
  /\ BenchRequestAllowed
  /\ exPercent' = p
  /\ exPc' = IF p = 0 THEN "drive" ELSE "driveCheck"
  /\ UNCHANGED <<lifeVars, modeVars, benchVars, queueVars, recordVars,
                 firmwareMoveOutstanding, cmdVelocity, cmPc, localVars,
                 exMove, exMoving, fwVars>>

DriveRejected ==
  \/ currentMode # "IDLE"
  \/ exPercent # 0 /\ benchActive /\ benchMoveTarget # NoMove
  \/ exPercent # 0 /\ firmwareMoveOutstanding

DriveAlreadyStopped ==
  /\ ~benchActive /\ exPercent = 0
  /\ benchLastSentPercent = 0 /\ lastCommandedPercent = 0

\* handleBenchDrive under bench_mutex_: record the request; percent 0 also
\* releases a claimed move.
DriveRecord ==
  /\ exPc = "drive"
  /\ IF DriveRejected \/ DriveAlreadyStopped
     THEN UNCHANGED <<modeVars, benchVars>>
     ELSE /\ benchActive' = TRUE
          /\ benchPendingPercent' = exPercent
          /\ benchFresh' = TRUE
          /\ IF exPercent = 0 /\ benchMoveTarget # NoMove
             THEN benchMoveTarget' = NoMove /\ benchMoveSent' = FALSE
             ELSE UNCHANGED <<benchMoveTarget, benchMoveSent>>
          /\ telemetryCommandMode' = TelemetryMode(TRUE, currentMode)
          /\ UNCHANGED <<benchLastSentPercent, currentMode>>
  /\ exPercent' = 0
  /\ exPc' = "idle"
  /\ UNCHANGED <<lifeVars, queueVars, recordVars, firmwareMoveOutstanding, cmdVelocity,
                 cmPc, localVars, exMove, exMoving, fwVars>>

MoveCall(m) ==
  /\ exPc = "idle" /\ "move" \in Requests
  /\ BenchRequestAllowed
  /\ exMove' = m
  /\ exPc' = "moveCheck"
  /\ UNCHANGED <<lifeVars, modeVars, benchVars, queueVars, recordVars,
                 firmwareMoveOutstanding, cmdVelocity, cmPc, localVars,
                 exPercent, exMoving, fwVars>>

MoveRejected ==
  \/ currentMode # "IDLE"
  \/ benchActive /\ (benchPendingPercent # 0 \/ benchLastSentPercent # 0)
  \/ lastCommandedPercent # 0

\* handleBenchMove under bench_mutex_: an identical request that was already
\* sent is only kept alive.
MoveRecord ==
  /\ exPc = "move"
  /\ IF MoveRejected
     THEN UNCHANGED <<modeVars, benchVars>>
     ELSE /\ benchMoveSent' = (benchMoveTarget = exMove /\ benchMoveSent)
          /\ benchMoveTarget' = exMove
          /\ benchActive' = TRUE
          /\ benchPendingPercent' = 0
          /\ benchFresh' = TRUE
          /\ telemetryCommandMode' = TelemetryMode(TRUE, currentMode)
          /\ UNCHANGED <<benchLastSentPercent, currentMode>>
  /\ exMove' = NoMove
  /\ exPc' = "idle"
  /\ UNCHANGED <<lifeVars, queueVars, recordVars, firmwareMoveOutstanding, cmdVelocity,
                 cmPc, localVars, exPercent, exMoving, fwVars>>

\* onParameterChange and set_home_here: the atomics first, ...
SettingsCall ==
  /\ exPc = "idle" /\ "settings" \in Requests
  /\ lifecycleActive /\ portOpen
  /\ lastCommandedPercent = 0
  /\ exPc' = "settingsCheck"
  /\ UNCHANGED <<lifeVars, modeVars, benchVars, queueVars, recordVars,
                 firmwareMoveOutstanding, cmdVelocity, cmPc, localVars,
                 exPercent, exMove, exMoving, fwVars>>

\* ... then the bench claim under bench_mutex_, ...
SettingsCheck ==
  /\ exPc = "settingsCheck"
  /\ exPc' = IF BenchRotating THEN "idle" ELSE "settingsPush"
  /\ UNCHANGED <<lifeVars, modeVars, benchVars, queueVars, recordVars,
                 firmwareMoveOutstanding, cmdVelocity, cmPc, localVars,
                 exPercent, exMove, exMoving, fwVars>>

\* ... then the push under sendQueue_mutex_.
SettingsPush ==
  /\ exPc = "settingsPush" /\ Room(1)
  /\ sendQueue' = Append(sendQueue, "PARAMETER_UPDATE_ACK")
  /\ exPc' = "idle"
  /\ UNCHANGED <<lifeVars, modeVars, benchVars, sendQueueStage, configRefreshPending,
                 recordVars, firmwareMoveOutstanding, cmdVelocity, cmPc, localVars,
                 exPercent, exMove, exMoving, fwVars>>

\* requestConfigRefresh (timer): look at the dome, ...
RefreshCall ==
  /\ exPc = "idle" /\ "refresh" \in Requests /\ lifecycleActive
  /\ exMoving' = (lastCommandedPercent # 0)
  /\ exPc' = "refreshCheck"
  /\ UNCHANGED <<lifeVars, modeVars, benchVars, queueVars, recordVars,
                 firmwareMoveOutstanding, cmdVelocity, cmPc, localVars,
                 exPercent, exMove, fwVars>>

RefreshCheck ==
  /\ exPc = "refreshCheck"
  /\ \E fast \in BOOLEAN : exMoving' = (exMoving \/ BenchRotating \/ fast)
  /\ exPc' = "refreshPush"
  /\ UNCHANGED <<lifeVars, modeVars, benchVars, queueVars, recordVars,
                 firmwareMoveOutstanding, cmdVelocity, cmPc, localVars,
                 exPercent, exMove, fwVars>>

\* ... then defer the dump, or queue it, under sendQueue_mutex_.
RefreshPush ==
  /\ exPc = "refreshPush"
  /\ IF exMoving
     THEN configRefreshPending' = TRUE /\ UNCHANGED sendQueue
     ELSE Room(2) /\ sendQueue' = sendQueue \o Query /\ UNCHANGED configRefreshPending
  /\ exMoving' = FALSE
  /\ exPc' = "idle"
  /\ UNCHANGED <<lifeVars, modeVars, benchVars, sendQueueStage, recordVars,
                 firmwareMoveOutstanding, cmdVelocity, cmPc, localVars,
                 exPercent, exMove, fwVars>>

\* The status poll timer.
StatusPoll ==
  /\ exPc = "idle" /\ "poll" \in Requests /\ lifecycleActive /\ Room(2)
  /\ sendQueue' = sendQueue \o Query
  /\ UNCHANGED <<lifeVars, modeVars, benchVars, sendQueueStage, configRefreshPending,
                 recordVars, firmwareMoveOutstanding, cmdVelocity, cmPc, localVars,
                 exVars, fwVars>>

\* on_activate or on_deactivate is running.
LifecyclePc ==
  {"activateReset", "activateOpen", "activateDone",
   "deactivateQueue", "deactivateStop", "deactivateStore",
   "deactivateMode", "deactivateReset", "deactivateClose"}

\* The ~/setup service, from the first on_activate on: only a closed port
\* refuses it.
SetupCall ==
  /\ exPc = "idle" /\ "setup" \in Requests /\ portOpen /\ Room(1)
  /\ lifecycleActive \/ cmPc \in LifecyclePc
  /\ sendQueue' = Append(sendQueue, "ONE_SHOT")
  /\ UNCHANGED <<lifeVars, modeVars, benchVars, sendQueueStage, configRefreshPending,
                 recordVars, firmwareMoveOutstanding, cmdVelocity, cmPc, localVars,
                 exVars, fwVars>>

\* bench_heartbeat_timeout_ms passes without a call.
HeartbeatLapses ==
  /\ benchActive /\ benchFresh
  /\ benchFresh' = FALSE
  /\ UNCHANGED <<lifeVars, modeVars, benchActive, benchPendingPercent, benchLastSentPercent,
                 benchMoveTarget, benchMoveSent, queueVars, recordVars,
                 firmwareMoveOutstanding, cmdVelocity, cmPc, localVars, exVars, fwVars>>

-----------------------------------------------------------------------------
\* The steps of write() after its entry, and of the calls write() makes.
QueueSteps ==
  RefreshSample \/ RefreshService \/ (\E t \in BOOLEAN : QueueStep(t)) \/ QueueIo

ControlSteps ==
  \/ VelocityCommand \/ VelocityStore \/ PositionCommand \/ PositionStore
  \/ NoControllerCommand

ServiceSteps == ServiceStops \/ ServiceMove \/ ServiceDrive \/ ServiceNothing

SendSteps == MoveSend \/ MoveStore \/ MoveDone \/ DriveSend \/ DriveStore \/ DriveDone

StopSteps == StopCheck \/ StopSend \/ StopStore \/ StopReset \/ StopFailed

WriteSteps == QueueSteps \/ ControlSteps \/ ServiceSteps \/ SendSteps \/ StopSteps

SwitchSteps == ModeStop \/ ModeStopStore \/ ModeCommit

LifecycleSteps ==
  \/ ActivateReset \/ ActivateOpen \/ ActivateDone
  \/ DeactivateQueue \/ DeactivateStop \/ DeactivateStore
  \/ DeactivateMode \/ DeactivateReset \/ DeactivateClose

ReadSteps == ReadMoveEnd \/ ReadWriteSettings \/ ReadUnchanged \/ ReadUpdated

ExecutorSteps ==
  \/ BenchRequestCheck \/ DriveRecord \/ MoveRecord \/ SettingsCheck \/ SettingsPush
  \/ RefreshCheck \/ RefreshPush

\* What clients, timers and time may do, ...
ClientSteps ==
  \/ \E p \in Percents : DriveCall(p)
  \/ \E m \in Moves : MoveCall(m)
  \/ SettingsCall \/ RefreshCall \/ StatusPoll \/ SetupCall
  \/ HeartbeatLapses

\* ... and what the controller manager's callers may do.
ManagerSteps ==
  \/ \E mode \in ControllerModes \cup {"IDLE"} : SwitchBegin(mode)
  \/ \E v \in Percents \cup {NoPercent} : ControllerUpdate(v)
  \/ ActivateBegin \/ DeactivateBegin

Next ==
  \/ WriteBegin \/ WriteSteps \/ SwitchSteps \/ LifecycleSteps \/ ReadSteps
  \/ ExecutorSteps \/ ClientSteps \/ ManagerSteps \/ FwMoveEnds

Spec == Init /\ [][Next]_vars

\* The controller manager calls read() and write() in every cycle, a call it
\* started returns, a callback the executor started returns, and the ack
\* timeout passes while an answer is awaited.  Nobody has to call a service,
\* switch a controller or send a line.
Fairness ==
  /\ SF_vars(WriteBegin)
  /\ WF_vars(WriteSteps \/ SwitchSteps \/ LifecycleSteps)
  /\ WF_vars(ExecutorSteps)
  /\ SF_vars(QueueStep(TRUE))

FairSpec == Spec /\ Fairness

-----------------------------------------------------------------------------
(* Properties.                                                              *)

CmPc == {"idle", "refresh", "refreshLock", "queue", "io", "control",
         "velocityStore", "positionStore", "service",
         "moveSend", "moveStore", "moveDone", "driveSend", "driveStore", "driveDone",
         "stopCheck", "stopSend", "stopStore", "stopReset", "stopFailed",
         "modeStop", "modeStopStore", "modeCommit",
         "activateReset", "activateOpen", "activateDone",
         "deactivateQueue", "deactivateStop", "deactivateStore",
         "deactivateMode", "deactivateReset", "deactivateClose"}

ExPc == {"idle", "driveCheck", "drive", "moveCheck", "move", "settingsCheck", "settingsPush",
         "refreshCheck", "refreshPush"}

\* Every variable has a value of its type; one part per kind of value.
PcTypeOK == cmPc \in CmPc /\ exPc \in ExPc /\ ret \in {"write", "switch"}

ModeTypeOK ==
  /\ currentMode \in Mode /\ newMode \in Mode
  /\ telemetryCommandMode \in Mode \cup {"BENCH"}

QueueTypeOK ==
  /\ sendQueue \in Seq(Flow) /\ sendQueueStage \in Stage
  /\ ioCommand \in Flow \cup {"NONE"}

PercentTypeOK ==
  /\ benchPendingPercent \in Percents /\ benchLastSentPercent \in Percents
  /\ lastCommandedPercent \in Percents /\ motor \in Percents
  /\ outPercent \in Percents /\ exPercent \in Percents
  /\ lastSentPercent \in Percents \cup {NoPercent}
  /\ cmdVelocity \in Percents \cup {NoPercent}

MoveTypeOK ==
  /\ benchMoveTarget \in Moves \cup {NoMove}
  /\ outMove \in Moves \cup {NoMove} /\ exMove \in Moves \cup {NoMove}

FlagTypeOK ==
  /\ lifecycleActive \in BOOLEAN /\ portOpen \in BOOLEAN
  /\ benchActive \in BOOLEAN /\ benchMoveSent \in BOOLEAN /\ benchFresh \in BOOLEAN
  /\ configRefreshPending \in BOOLEAN /\ firmwareMoveOutstanding \in BOOLEAN
  /\ benchBusy \in BOOLEAN /\ moving \in BOOLEAN /\ exMoving \in BOOLEAN
  /\ fwMove \in BOOLEAN

CountTypeOK == moveLines \in 0..MaxLines /\ failures \in 0..MaxFailures

TypeOK ==
  /\ PcTypeOK /\ ModeTypeOK /\ QueueTypeOK /\ PercentTypeOK
  /\ MoveTypeOK /\ FlagTypeOK /\ CountTypeOK

\* A motor that turns is recorded as turning: once the store that follows a
\* send is done, commanded_percent (what the settings guard, the bench move and
\* the telemetry read) is never 0 while the firmware drives the motor, whatever
\* sends have failed.
RecordNeverLow ==
  motor # 0 /\ cmPc \notin {"velocityStore", "driveStore"}
    => lastCommandedPercent = motor

\* Between the send of a bench command and the update of the bench record.
BenchRecordPending ==
  cmPc \in {"driveStore", "driveDone", "stopStore", "stopReset",
            "deactivateStore", "deactivateMode", "deactivateReset"}

\* A bench drive the host believes to be turning is turning: no settings write,
\* controller command or stop slips in behind benchLastSentPercent_ (the write
\* is held back, the controller waits for the stop, a failed stop keeps the
\* record).  write() never resends an unchanged percent, so a drive stopped
\* behind the record would stay stopped.
BenchRecordTrue ==
  benchLastSentPercent # 0 /\ ~BenchRecordPending => motor = benchLastSentPercent

\* No bench rotation survives into a controller's mode, even when the executor
\* accepts a drive in the middle of the switch and even when sends fail.
BenchYieldsToController ==
  currentMode # "IDLE" =>
    /\ benchLastSentPercent = 0
    /\ cmPc \notin {"driveSend", "driveStore", "driveDone",
                    "moveSend", "moveStore", "moveDone"}

\* Telemetry that says idle and 0 % (what the bench node waits for before a
\* sweep) means that the motor is off and no bench claim is held.
IdleTelemetryIsStill ==
  telemetryCommandMode = "IDLE" /\ lastCommandedPercent = 0
    => motor = 0 /\ ~benchActive

\* A bench command that starts motion reaches the wire.
BenchMotionSent ==
  \/ cmPc = "driveSend" /\ cmPc' = "driveStore" /\ outPercent # 0
  \/ cmPc = "moveSend" /\ cmPc' = "moveStore"

\* A settings write reaches the wire.
SettingsWriteSent ==
  cmPc = "io" /\ ioCommand = "PARAMETER_UPDATE_ACK" /\ failures' = failures

\* Bench motion is never started while the answer to a settings write is
\* awaited: the firmware would stop it, and nothing would be resent.
NoMotionBehindWrite == [][BenchMotionSent => sendQueueStage = "IDLE"]_vars

\* No settings write reaches the firmware while a bench drive turns the dome.
NoWriteUnderBenchDrive == [][SettingsWriteSent => benchLastSentPercent = 0]_vars

\* As long as no send has failed, whoever lets go of the dome leaves it still: a
\* closed port means a motor that is off, and so does a mode switch that has
\* returned (idle, and no bench drive sent), ...
LetGoIsStill ==
  failures = 0 =>
    /\ ~portOpen => motor = 0
    /\ currentMode = "IDLE" /\ benchLastSentPercent = 0 /\ cmPc = "idle" => motor = 0

\* ... and a velocity controller takes over a motor that is off, as its record
\* (lastSentPercent_ = 0, so that a command of 0 is never sent) supposes.
VelocityStartsStill ==
  [][currentMode # "VELOCITY" /\ currentMode' = "VELOCITY" /\ failures = 0
     => motor = 0]_vars

\* The heartbeat watchdog: a bench drive nobody keeps alive is stopped, however
\* the sends fail (a bounded number of times), unless a call renews it or the
\* interface is deactivated.
WatchdogStops ==
  (benchLastSentPercent # 0 /\ ~benchFresh)
    ~> (motor = 0 \/ benchFresh \/ ~lifecycleActive)

\* A queued settings write does not wait for ever behind a bench claim, an ack
\* that never comes or the queries around it.
SettingsWritesProceed ==
  HasSettingsWrite(sendQueue)
    ~> (ioCommand = "PARAMETER_UPDATE_ACK" \/ ~HasSettingsWrite(sendQueue))

\* An accepted bench percent reaches the motor unless it is replaced, its
\* heartbeat lapses, the claim is cleared, or the interface is deactivated.
AcceptedDriveIsSent ==
  \A p \in Percents \ {0} :
    (benchActive /\ benchPendingPercent = p)
      ~> (motor = p \/ benchPendingPercent # p \/ ~benchFresh \/ ~lifecycleActive)

\* The next ones state what a comment or the README says; the code does not do
\* it, and one run each shows how.

\* The dome is never left turning when the interface goes inactive, ...
NeverLeftTurning == ~portOpen => motor = 0

\* ... nor when a controller takes over.
SwitchStopsFirst ==
  [][currentMode # "VELOCITY" /\ currentMode' = "VELOCITY" => motor = 0]_vars

\* No settings write reaches the firmware while it turns the motor, whoever
\* commanded the rotation.
NoWriteWhileRotating == [][SettingsWriteSent => motor = 0]_vars

\* A move the firmware still runs is outstanding on the host.
MoveIsOutstanding ==
  fwMove => firmwareMoveOutstanding \/ cmPc \in {"moveStore", "positionStore"}

\* A bench move that is claimed is what the telemetry reports.
MoveClaimIsBench == benchMoveTarget # NoMove => telemetryCommandMode = "BENCH"

\* No bench drive starts while the host holds a move to be outstanding.
NoDriveOverMove ==
  [][BenchMotionSent /\ cmPc = "driveSend" => ~firmwareMoveOutstanding]_vars

\* A bench drive is recorded only while the interface is active.
DriveAcceptedWhileActive ==
  [][exPc = "drive" /\ benchPendingPercent' # benchPendingPercent /\ exPc' = "idle"
     => lifecycleActive]_vars

\* A NaN command stops a rotation the velocity controller commanded.
NaNCommandStops ==
  [][cmPc = "control" /\ currentMode = "VELOCITY" /\ cmdVelocity = NoPercent
       /\ lastSentPercent # 0 /\ cmPc' # cmPc /\ failures' = failures
     => motor' = 0]_vars

\* The config dump of a periodic refresh is not queued while the dome is
\* commanded to rotate.
RefreshWaitsForRest ==
  [][exPc = "refreshPush" /\ sendQueue' # sendQueue => lastCommandedPercent = 0]_vars
=============================================================================
