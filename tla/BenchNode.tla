------------------------------ MODULE BenchNode -------------------------------
(***************************************************************************)
(* The roamadome_bench node: who may start, drive and stop a sweep.        *)
(* control.SweepClaim and control.DriveGate, with the threads of           *)
(* node.BenchNode that use them: the start services, the worker that runs  *)
(* the sweep and its cleanup, the heartbeat timer, the abort requests and  *)
(* the forced exit of a second signal.                                     *)
(*                                                                         *)
(* A step is what one thread does between two points at which another one  *)
(* can see or change what it works on; the drive lock is held across       *)
(* several steps.  The drive and move calls are asynchronous: a request is *)
(* put on the wire of its service, the plugin executes the requests of one *)
(* service in order, and the caller waits for the answer or gives up, in   *)
(* which case the request is executed later all the same.                  *)
(*                                                                         *)
(* The plugin is external: it may refuse a request that starts motion, and *)
(* stop the dome by itself (deactivation, a controller, its watchdog).     *)
(* Settings, telemetry and results are left out: a phase that depends on   *)
(* them may end, fail or be aborted at any time.                           *)
(*                                                                         *)
(* A definition Name_Variant, placed before Name, is Name with a plausible *)
(* mistake in it; no other definition uses it.                             *)
(***************************************************************************)
EXTENDS Integers, Sequences

CONSTANTS
  Percents,         \* the percents a sweep drives at
  Starters,         \* concurrent calls of the start services
  Move,             \* the command of a position move
  MoveSweep,        \* whether the sweep has position moves
  ForcedExit,       \* whether a second signal may come
  MaxSteps,         \* bound: steps of one sweep
  MaxFaults         \* bound: calls that are not answered, lock timeouts

ASSUME PercentsAssumption == Percents \subseteq (-100..100) \ {0}
ASSUME MoveAssumption == Move \notin Int
ASSUME SwitchesAssumption == MoveSweep \in BOOLEAN /\ ForcedExit \in BOOLEAN
ASSUME BoundsAssumption   == MaxSteps \in Nat /\ MaxFaults \in Nat

VARIABLES
  \* SweepClaim and DriveGate
  claimHeld, lock, percent, move, stopping,
  \* BenchNode
  abortEvent, sweepActive,
  starter,          \* where each start call is
  worker, command, stepsLeft, triesLeft,
  heartbeat, beat,  \* the timer, and what it sends (0 when it sends nothing)
  aborter, forced,
  answer,           \* of each caller's outstanding call
  \* the wires and the plugin
  driveWire, moveWire, dome, moveClaim, fwMove,
  faults,
  \* history: the worker's last accepted percent is 0; an abort was accepted
  \* for this sweep
  still, abortAsked

gateVars   == <<lock, percent, move, stopping>>
nodeVars   == <<claimHeld, abortEvent, sweepActive>>
scriptVars == <<command, stepsLeft, triesLeft>>
workerVars == <<worker, scriptVars>>
beatVars   == <<heartbeat, beat>>
callVars   == <<answer, driveWire, moveWire>>
pluginVars == <<dome, moveClaim, fwMove>>
histVars   == <<still, abortAsked>>
vars == <<gateVars, nodeVars, starter, workerVars, beatVars, aborter, forced,
          callVars, pluginVars, faults, histVars>>

-----------------------------------------------------------------------------
Callers  == {"worker", "heartbeat", "forced"}
Commands == Percents \cup {0, Move}
StopTries == 3

Init ==
  /\ claimHeld = FALSE /\ lock = "free" /\ percent = 0 /\ move = FALSE /\ stopping = FALSE
  /\ abortEvent = FALSE /\ sweepActive = FALSE
  /\ starter = [s \in Starters |-> "idle"]
  /\ worker = "idle" /\ command = 0 /\ stepsLeft = 0 /\ triesLeft = 0
  /\ heartbeat = "idle" /\ beat = 0
  /\ aborter = "idle" /\ forced = "no"
  /\ answer = [c \in Callers |-> "none"] /\ driveWire = <<>> /\ moveWire = <<>>
  /\ dome = 0 /\ moveClaim = FALSE /\ fwMove = FALSE
  /\ faults = 0
  /\ still = TRUE /\ abortAsked = FALSE

-----------------------------------------------------------------------------
(* Calls: _call_drive, _call_move and _wait_future.                         *)

Fault == faults < MaxFaults /\ faults' = faults + 1

PutOnWire(caller, cmd) ==
  /\ IF cmd = Move
     THEN moveWire' = Append(moveWire, [by |-> caller]) /\ UNCHANGED driveWire
     ELSE /\ driveWire' = Append(driveWire, [by |-> caller, percent |-> cmd])
          /\ UNCHANGED moveWire
  /\ answer' = [answer EXCEPT ![caller] = "awaited"]

\* The service is ready and the request goes out, or it is not.
Request(caller, cmd) ==
  \/ PutOnWire(caller, cmd) /\ UNCHANGED faults
  \/ /\ Fault
     /\ answer' = [answer EXCEPT ![caller] = "failed"]
     /\ UNCHANGED <<driveWire, moveWire>>

Forget(caller, wire) ==
  [i \in 1..Len(wire) |->
     IF wire[i].by = caller THEN [wire[i] EXCEPT !.by = "nobody"] ELSE wire[i]]

\* No answer in time: the request is still executed, but nobody hears of it.
CallTimesOut(caller) ==
  /\ answer[caller] = "awaited"
  /\ Fault
  /\ answer' = [answer EXCEPT ![caller] = "failed"]
  /\ driveWire' = Forget(caller, driveWire) /\ moveWire' = Forget(caller, moveWire)
  /\ UNCHANGED <<gateVars, nodeVars, starter, workerVars, beatVars, aborter, forced,
                 pluginVars, histVars>>

\* The caller has looked at the answer.
Taken(caller) ==
  /\ answer' = [answer EXCEPT ![caller] = "none"]
  /\ UNCHANGED <<driveWire, moveWire>>

Answered(caller) == answer[caller] \in {"ok", "settings", "failed"}

-----------------------------------------------------------------------------
(* The plugin: handleBenchDrive and handleBenchMove as the node sees them.  *)

Reply(request, a) ==
  answer' = IF request.by = "nobody" THEN answer ELSE [answer EXCEPT ![request.by] = a]

\* Only the worker asks why it was refused.
Refusals(request) == IF request.by = "worker" THEN {"failed", "settings"} ELSE {"failed"}

\* A non-zero percent is accepted only with no move claimed or outstanding, and
\* may be refused for any reason; 0 releases a claimed move, and is refused only
\* when the bench does not hold the dome (inactive, or a controller has it).
PluginDrives ==
  /\ driveWire # <<>>
  /\ LET request == Head(driveWire)
     IN  \/ /\ request.percent # 0 => ~moveClaim /\ ~fwMove
            /\ dome' = request.percent
            /\ moveClaim' = FALSE
            /\ Reply(request, "ok")
         \/ /\ request.percent # 0 \/ (dome = 0 /\ ~moveClaim)
            /\ \E a \in Refusals(request) : Reply(request, a)
            /\ UNCHANGED <<dome, moveClaim>>
  /\ driveWire' = Tail(driveWire)
  /\ UNCHANGED <<gateVars, nodeVars, starter, workerVars, beatVars, aborter, forced,
                 moveWire, fwMove, faults, histVars>>

\* A repeated move only keeps the claim alive.
PluginMoves ==
  /\ moveWire # <<>>
  /\ LET request == Head(moveWire)
     IN  \/ /\ dome = 0
            /\ moveClaim' = TRUE
            /\ fwMove' = (fwMove \/ ~moveClaim)
            /\ Reply(request, "ok")
         \/ /\ \E a \in Refusals(request) : Reply(request, a)
            /\ UNCHANGED <<moveClaim, fwMove>>
  /\ moveWire' = Tail(moveWire)
  /\ UNCHANGED <<gateVars, nodeVars, starter, workerVars, beatVars, aborter, forced,
                 driveWire, dome, faults, histVars>>

\* Deactivation, a controller or the watchdog ends a drive or releases a claim;
\* a move ends.
PluginByItself ==
  /\ \/ dome' = 0 /\ moveClaim' = FALSE /\ UNCHANGED fwMove
     \/ fwMove' = FALSE /\ UNCHANGED <<dome, moveClaim>>
  /\ UNCHANGED <<gateVars, nodeVars, starter, workerVars, beatVars, aborter, forced,
                 callVars, faults, histVars>>

-----------------------------------------------------------------------------
(* The start services: _on_start.                                           *)

ClaimFree_NotTested == TRUE
ClaimFree == ~claimHeld

TryClaim(s) ==
  /\ starter[s] = "idle" /\ ClaimFree
  /\ claimHeld' = TRUE
  /\ starter' = [starter EXCEPT ![s] = "clear"]
  /\ UNCHANGED <<gateVars, abortEvent, sweepActive, workerVars, beatVars, aborter, forced,
                 callVars, pluginVars, faults, histVars>>

ClearAbort(s) ==
  /\ starter[s] = "clear"
  /\ abortEvent' = FALSE
  /\ starter' = [starter EXCEPT ![s] = "arm"]
  /\ UNCHANGED <<gateVars, claimHeld, sweepActive, workerVars, beatVars, aborter, forced,
                 callVars, pluginVars, faults, histVars>>

Arm(s) ==
  /\ starter[s] = "arm"
  /\ percent' = 0 /\ move' = FALSE /\ stopping' = FALSE
  /\ starter' = [starter EXCEPT ![s] = "prepare"]
  /\ UNCHANGED <<lock, nodeVars, workerVars, beatVars, aborter, forced,
                 callVars, pluginVars, faults, histVars>>

\* The telemetry, a service or a parameter does not allow a sweep.
RejectStart(s) ==
  /\ starter[s] = "prepare"
  /\ claimHeld' = FALSE /\ abortAsked' = FALSE
  /\ starter' = [starter EXCEPT ![s] = "idle"]
  /\ UNCHANGED <<gateVars, abortEvent, sweepActive, workerVars, beatVars, aborter, forced,
                 callVars, pluginVars, faults, still>>

StartWorker(s) ==
  /\ starter[s] = "prepare"
  /\ sweepActive' = TRUE
  /\ worker' = "step" /\ command' = 0 /\ stepsLeft' = MaxSteps /\ triesLeft' = 0
  /\ starter' = [starter EXCEPT ![s] = "idle"]
  /\ UNCHANGED <<gateVars, claimHeld, abortEvent, beatVars, aborter, forced,
                 callVars, pluginVars, faults, still, abortAsked>>

StartSteps ==
  \E s \in Starters :
    TryClaim(s) \/ ClearAbort(s) \/ Arm(s) \/ RejectStart(s) \/ StartWorker(s)

-----------------------------------------------------------------------------
(* The worker: _sweep_main with _run_step, _run_move_step, _hold and        *)
(* _cleanup.  What it commands goes through DriveGate.send and move.        *)

InCleanup == triesLeft > 0

\* The one command that is repeated while a settings write is in flight.
FirstDrive == command # 0 /\ stepsLeft = MaxSteps - 1

\* _check_abort, _check_link and every other failure: cleanup comes next.
Raise(pcs) ==
  /\ worker \in pcs
  /\ worker' = "cleanup"
  /\ UNCHANGED <<gateVars, nodeVars, starter, scriptVars, beatVars, aborter, forced,
                 callVars, pluginVars, faults, histVars>>

NextStep ==
  /\ worker = "step" /\ ~abortEvent /\ stepsLeft > 0
  /\ \E c \in Percents \cup (IF MoveSweep THEN {Move} ELSE {}) : command' = c
  /\ stepsLeft' = stepsLeft - 1
  /\ worker' = "check"
  /\ UNCHANGED <<gateVars, nodeVars, starter, triesLeft, beatVars, aborter,
                 forced, callVars, pluginVars, faults, histVars>>

\* DriveGate.send and move look at the stop before they wait for the lock, ...
CheckStopping ==
  /\ worker = "check"
  /\ worker' = IF command # 0 /\ stopping THEN "cleanup" ELSE "lock"
  /\ UNCHANGED <<gateVars, nodeVars, starter, scriptVars, beatVars, aborter, forced,
                 callVars, pluginVars, faults, histVars>>

TakeLock ==
  /\ worker = "lock" /\ lock = "free"
  /\ lock' = "worker" /\ worker' = "gate"
  /\ UNCHANGED <<percent, move, stopping, nodeVars, starter, scriptVars, beatVars, aborter,
                 forced, callVars, pluginVars, faults, histVars>>

\* What a call that did not succeed leads to: a stop of the cleanup is tried
\* three times, anything else ends the sweep.
AfterFailure ==
  IF InCleanup
  THEN /\ triesLeft' = triesLeft - 1
       /\ worker' = IF triesLeft > 1 THEN "lock" ELSE "quiet"
  ELSE worker' = "cleanup" /\ UNCHANGED triesLeft

LockTimesOut ==
  /\ worker = "lock" /\ lock # "free"
  /\ Fault
  /\ AfterFailure
  /\ UNCHANGED <<gateVars, nodeVars, starter, command, stepsLeft, beatVars,
                 aborter, forced, callVars, pluginVars, histVars>>

\* ... and again under it; a move and a drive exclude each other, and 0
\* releases the move.
GateRefuses_ZeroToo ==
  \/ stopping
  \/ command \in Percents /\ move
  \/ command = Move /\ percent # 0
GateRefuses ==
  \/ command # 0 /\ stopping
  \/ command \in Percents /\ move
  \/ command = Move /\ percent # 0

\* What the heartbeat is to repeat.
Record_ZeroNotKept == percent' = IF command \in Percents THEN command ELSE percent
Record == percent' = IF command = Move THEN percent ELSE command

EnterGate ==
  /\ worker = "gate"
  /\ IF GateRefuses
     THEN lock' = "free" /\ worker' = "cleanup" /\ UNCHANGED <<percent, move>>
     ELSE /\ Record
          /\ move' = (move /\ command # 0)
          /\ worker' = "call"
          /\ UNCHANGED lock
  /\ UNCHANGED <<stopping, nodeVars, starter, scriptVars, beatVars, aborter, forced,
                 callVars, pluginVars, faults, histVars>>

Call ==
  /\ worker = "call"
  /\ Request("worker", command)
  /\ worker' = "wait"
  /\ still' = (still /\ command = 0)
  /\ UNCHANGED <<gateVars, nodeVars, starter, scriptVars, beatVars, aborter,
                 forced, pluginVars, abortAsked>>

\* The answer is there: the record is kept or dropped, the lock released.
CallSucceeds ==
  /\ worker = "wait" /\ answer["worker"] = "ok"
  /\ move' = (move \/ command = Move) /\ UNCHANGED percent
  /\ lock' = "free"
  /\ worker' = CASE command = Move     -> "moving"
                 [] command \in Percents -> "hold"
                 [] InCleanup            -> "quiet"
                 [] OTHER                -> "step"
  /\ still' = (still \/ command = 0)
  /\ Taken("worker")
  /\ UNCHANGED <<stopping, nodeVars, starter, scriptVars, beatVars, aborter, forced,
                 pluginVars, faults, abortAsked>>

CallFails ==
  /\ worker = "wait" /\ answer["worker"] \in {"settings", "failed"}
  /\ IF command = Move THEN move' = FALSE /\ UNCHANGED percent
                         ELSE percent' = 0 /\ UNCHANGED move
  /\ lock' = "free"
  /\ \/ AfterFailure
     \/ /\ answer["worker"] = "settings" /\ FirstDrive /\ ~abortEvent
        /\ worker' = "retry" /\ UNCHANGED triesLeft
  /\ Taken("worker")
  /\ UNCHANGED <<stopping, nodeVars, starter, command, stepsLeft, beatVars,
                 aborter, forced, pluginVars, faults, histVars>>

\* _drive tries again until its deadline has passed.
RetryCall ==
  /\ worker = "retry"
  /\ worker' = "check"
  /\ UNCHANGED <<gateVars, nodeVars, starter, scriptVars, beatVars, aborter, forced,
                 callVars, pluginVars, faults, histVars>>

RetryEnds_NoDeadline == abortEvent /\ Raise({"retry"})
RetryEnds == Raise({"retry"})

\* The step is over: 0 stops the drive or releases the move.  A move may be over
\* for the host and not for the firmware.
StepEnds ==
  /\ worker \in {"hold", "moving"}
  /\ command' = 0 /\ worker' = "lock"
  /\ UNCHANGED <<gateVars, nodeVars, starter, stepsLeft, triesLeft, beatVars, aborter,
                 forced, callVars, pluginVars, faults, histVars>>

\* An abort, a lost link or another failure, at any of the checks; or the end of
\* the script.
SweepStops ==
  \/ Raise({"step", "hold", "moving"})
  \/ RetryEnds

CleanupBegins ==
  /\ worker = "cleanup"
  /\ stopping' = TRUE
  /\ command' = 0 /\ triesLeft' = StopTries
  /\ worker' = "look"
  /\ UNCHANGED <<lock, percent, move, nodeVars, starter, stepsLeft, beatVars, aborter,
                 forced, callVars, pluginVars, faults, histVars>>

LookForMove ==
  /\ worker = "look"
  /\ worker' = IF move THEN "waitMove" ELSE "lock"
  /\ UNCHANGED <<gateVars, nodeVars, starter, scriptVars, beatVars, aborter, forced,
                 callVars, pluginVars, faults, histVars>>

\* _wait_still: the dome rests, or the time is up.
MoveWaited ==
  /\ worker = "waitMove"
  /\ worker' = "lock"
  /\ UNCHANGED <<gateVars, nodeVars, starter, scriptVars, beatVars, aborter, forced,
                 callVars, pluginVars, faults, still, abortAsked>>

Quiet ==
  /\ worker = "quiet"
  /\ sweepActive' = FALSE
  /\ triesLeft' = 0
  /\ worker' = "release"
  /\ UNCHANGED <<gateVars, claimHeld, abortEvent, starter, command, stepsLeft, beatVars, aborter,
                 forced, callVars, pluginVars, faults, histVars>>

\* The settings are restored, the results written, the claim released.
ReleaseClaim ==
  /\ worker = "release"
  /\ claimHeld' = FALSE /\ abortAsked' = FALSE
  /\ stepsLeft' = 0
  /\ worker' = "idle"
  /\ UNCHANGED <<gateVars, abortEvent, sweepActive, starter, command, triesLeft, beatVars, aborter,
                 forced, callVars, pluginVars, faults, still>>

WorkerSteps ==
  \/ NextStep \/ CheckStopping \/ TakeLock \/ LockTimesOut \/ EnterGate \/ Call
  \/ CallSucceeds \/ CallFails \/ RetryCall \/ StepEnds \/ SweepStops
  \/ CleanupBegins \/ LookForMove \/ MoveWaited \/ Quiet \/ ReleaseClaim

-----------------------------------------------------------------------------
(* The heartbeat timer: _on_heartbeat and DriveGate.heartbeat.              *)

BeatBegins ==
  /\ heartbeat = "idle" /\ sweepActive
  /\ heartbeat' = "gate"
  /\ UNCHANGED <<gateVars, nodeVars, starter, workerVars, beat, aborter, forced,
                 callVars, pluginVars, faults, histVars>>

BeatAllowed == lock = "free"

\* What is repeated, and the record that 0 leaves once the node is stopping.
BeatSends ==
  IF stopping
  THEN /\ percent # 0 \/ move
       /\ beat' = 0 /\ percent' = 0 /\ move' = FALSE
  ELSE /\ percent # 0 \/ move
       /\ beat' = IF move THEN Move ELSE percent
       /\ UNCHANGED <<percent, move>>

BeatEnters ==
  /\ heartbeat = "gate" /\ BeatAllowed
  /\ BeatSends
  /\ lock' = "heartbeat"
  /\ heartbeat' = "call"
  /\ UNCHANGED <<stopping, nodeVars, starter, workerVars, aborter, forced,
                 callVars, pluginVars, faults, histVars>>

\* The worker holds the lock, or nothing is commanded.
BeatSkips ==
  /\ heartbeat = "gate"
  /\ ~BeatAllowed \/ (percent = 0 /\ ~move)
  /\ heartbeat' = "idle"
  /\ UNCHANGED <<gateVars, nodeVars, starter, workerVars, beat, aborter, forced,
                 callVars, pluginVars, faults, histVars>>

BeatCalls ==
  /\ heartbeat = "call"
  /\ Request("heartbeat", beat)
  /\ heartbeat' = "wait"
  /\ UNCHANGED <<gateVars, nodeVars, starter, workerVars, beat, aborter, forced,
                 pluginVars, histVars>>

BeatReturns ==
  /\ heartbeat = "wait" /\ Answered("heartbeat")
  /\ lock' = "free"
  /\ IF answer["heartbeat"] = "ok"
     THEN heartbeat' = "idle" /\ UNCHANGED <<percent, move>>
     ELSE /\ heartbeat' = "failed"
          /\ IF beat = Move THEN move' = FALSE /\ UNCHANGED percent
                              ELSE percent' = 0 /\ UNCHANGED move
  /\ beat' = 0
  /\ Taken("heartbeat")
  /\ UNCHANGED <<stopping, nodeVars, starter, workerVars, aborter, forced,
                 pluginVars, faults, histVars>>

\* A call that failed ends the sweep, unless it is being stopped already.
BeatReports_Nothing == heartbeat' = "idle"
BeatReports == heartbeat' = IF stopping THEN "idle" ELSE "abort"

BeatFailed ==
  /\ heartbeat = "failed"
  /\ BeatReports
  /\ UNCHANGED <<gateVars, nodeVars, starter, workerVars, beat, aborter, forced,
                 callVars, pluginVars, faults, histVars>>

\* request_abort.
BeatBeginsStopping ==
  /\ heartbeat = "abort"
  /\ stopping' = TRUE
  /\ heartbeat' = "abortEvent"
  /\ UNCHANGED <<lock, percent, move, nodeVars, starter, workerVars, beat, aborter, forced,
                 callVars, pluginVars, faults, histVars>>

BeatSetsAbort ==
  /\ heartbeat = "abortEvent"
  /\ abortEvent' = TRUE
  /\ heartbeat' = "idle"
  /\ UNCHANGED <<gateVars, claimHeld, sweepActive, starter, workerVars, beat, aborter, forced,
                 callVars, pluginVars, faults, histVars>>

BeatSteps ==
  \/ BeatBegins \/ BeatEnters \/ BeatSkips \/ BeatCalls \/ BeatReturns \/ BeatFailed
  \/ BeatBeginsStopping \/ BeatSetsAbort

-----------------------------------------------------------------------------
(* ~/abort and the first signal: request_abort while a sweep is claimed.    *)

AbortCalled ==
  /\ aborter = "idle" /\ claimHeld
  /\ aborter' = "stop"
  /\ UNCHANGED <<gateVars, nodeVars, starter, workerVars, beatVars, forced,
                 callVars, pluginVars, faults, histVars>>

AbortBeginsStopping ==
  /\ aborter = "stop"
  /\ stopping' = TRUE
  /\ aborter' = "event"
  /\ UNCHANGED <<lock, percent, move, nodeVars, starter, workerVars, beatVars, forced,
                 callVars, pluginVars, faults, histVars>>

AbortSetsEvent ==
  /\ aborter = "event"
  /\ abortEvent' = TRUE
  /\ abortAsked' = claimHeld
  /\ aborter' = "idle"
  /\ UNCHANGED <<gateVars, claimHeld, sweepActive, starter, workerVars, beatVars, forced,
                 callVars, pluginVars, faults, still>>

AbortReturns == AbortBeginsStopping \/ AbortSetsEvent

-----------------------------------------------------------------------------
(* The second signal: force_exit and DriveGate.force_stop; then the process *)
(* ends, wherever its threads are.                                          *)

ForceBegins ==
  /\ ForcedExit /\ forced = "no"
  /\ stopping' = TRUE
  /\ forced' = "lock"
  /\ UNCHANGED <<lock, percent, move, nodeVars, starter, workerVars, beatVars, aborter,
                 callVars, pluginVars, faults, histVars>>

\* The lock is taken if it is free in time.
ForceLocks ==
  /\ forced = "lock"
  /\ lock' = IF lock = "free" THEN "forced" ELSE lock
  /\ percent' = 0 /\ move' = FALSE
  /\ forced' = "call"
  /\ UNCHANGED <<stopping, nodeVars, starter, workerVars, beatVars, aborter,
                 callVars, pluginVars, faults, histVars>>

ForceCalls ==
  /\ forced = "call"
  /\ Request("forced", 0)
  /\ forced' = "wait"
  /\ UNCHANGED <<gateVars, nodeVars, starter, workerVars, beatVars, aborter,
                 pluginVars, histVars>>

\* What force_stop took, it gives back; the threads go on while the executor is
\* shut down.
ForceReleases ==
  /\ forced = "wait" /\ Answered("forced")
  /\ lock' = IF lock = "forced" THEN "free" ELSE lock
  /\ forced' = "exiting"
  /\ Taken("forced")
  /\ UNCHANGED <<percent, move, stopping, nodeVars, starter, workerVars, beatVars, aborter,
                 pluginVars, faults, histVars>>

\* Nothing of the process is left but the requests that it has sent.
ForceEnds ==
  /\ forced = "exiting"
  /\ forced' = "exited"
  /\ lock' = "free" /\ percent' = 0 /\ move' = FALSE /\ stopping' = FALSE
  /\ claimHeld' = FALSE /\ abortEvent' = FALSE /\ sweepActive' = FALSE
  /\ starter' = [s \in Starters |-> "idle"]
  /\ worker' = "idle" /\ command' = 0 /\ stepsLeft' = 0 /\ triesLeft' = 0
  /\ heartbeat' = "idle" /\ beat' = 0 /\ aborter' = "idle"
  /\ answer' = [c \in Callers |-> "none"]
  /\ driveWire' = [i \in 1..Len(driveWire) |-> [driveWire[i] EXCEPT !.by = "nobody"]]
  /\ moveWire' = [i \in 1..Len(moveWire) |-> [by |-> "nobody"]]
  /\ abortAsked' = FALSE
  /\ UNCHANGED <<pluginVars, faults, still>>

ForceSteps == ForceBegins \/ ForceLocks \/ ForceCalls \/ ForceReleases \/ ForceEnds

-----------------------------------------------------------------------------
Alive == forced # "exited"

NodeSteps ==
  \/ StartSteps \/ WorkerSteps \/ BeatSteps \/ ForceSteps
  \/ AbortCalled \/ AbortReturns
  \/ \E c \in Callers : CallTimesOut(c)

Next == (Alive /\ NodeSteps) \/ PluginDrives \/ PluginMoves \/ PluginByItself

Spec == Init /\ [][Next]_vars

\* Threads go on, a lock that becomes free again and again is taken, deadlines
\* pass, and the plugin answers.  Nobody has to start or abort a sweep.
Fairness ==
  /\ WF_vars(Alive /\ WorkerSteps) /\ SF_vars(Alive /\ TakeLock) /\ SF_vars(Alive /\ RetryEnds)
  /\ WF_vars(Alive /\ BeatSteps)
  /\ WF_vars(Alive /\ \E s \in Starters : ClearAbort(s) \/ Arm(s) \/ RejectStart(s) \/ StartWorker(s))
  /\ WF_vars(Alive /\ (ForceLocks \/ ForceCalls \/ ForceReleases \/ ForceEnds))
  /\ WF_vars(PluginDrives \/ PluginMoves)

FairSpec == Spec /\ Fairness

-----------------------------------------------------------------------------
(* Properties.                                                              *)

\* Every variable has a value of its type, and the wires stay short.
TypeOK ==
  /\ claimHeld \in BOOLEAN /\ lock \in Callers \cup {"free"}
  /\ percent \in Percents \cup {0} /\ move \in BOOLEAN /\ stopping \in BOOLEAN
  /\ abortEvent \in BOOLEAN /\ sweepActive \in BOOLEAN
  /\ starter \in [Starters -> {"idle", "clear", "arm", "prepare"}]
  /\ worker \in {"idle", "step", "check", "lock", "gate", "call", "wait", "retry", "hold",
                 "moving", "cleanup", "look", "waitMove", "quiet", "release"}
  /\ command \in Commands /\ stepsLeft \in 0..MaxSteps /\ triesLeft \in 0..StopTries
  /\ heartbeat \in {"idle", "gate", "call", "wait", "failed", "abort", "abortEvent"}
  /\ beat \in Commands
  /\ aborter \in {"idle", "stop", "event"}
  /\ forced \in {"no", "lock", "call", "wait", "exiting", "exited"}
  /\ answer \in [Callers -> {"none", "awaited", "ok", "settings", "failed"}]
  /\ driveWire \in Seq([by : Callers \cup {"nobody"}, percent : Percents \cup {0}])
  /\ moveWire \in Seq([by : Callers \cup {"nobody"}])
  /\ Len(driveWire) + Len(moveWire) <= MaxFaults + 2
  /\ dome \in Percents \cup {0}
  /\ moveClaim \in BOOLEAN /\ fwMove \in BOOLEAN
  /\ faults \in 0..MaxFaults
  /\ still \in BOOLEAN /\ abortAsked \in BOOLEAN

\* Once the plugin has confirmed the worker's 0, the dome rests and nothing that
\* would turn it is under way, until the worker itself drives again: no
\* heartbeat, late request or other sweep restarts it.
StopIsLast ==
  still => /\ dome = 0
           /\ \A i \in 1..Len(driveWire) : driveWire[i].percent = 0

\* A sweep starts only after the one before has cleaned up.
OneWorker ==
  [][\A s \in Starters : starter[s] = "prepare" /\ starter'[s] = "idle" /\ claimHeld'
       => worker = "idle"]_vars

\* While the worker holds a step, the heartbeat keeps its percent alive, or the
\* sweep is about to be stopped: the record is not lost without anybody knowing.
HoldIsKeptAlive ==
  worker = "hold" =>
    percent = command \/ stopping \/ heartbeat \in {"failed", "abort"} \/ forced # "no"

\* A sweep that was started ends, whatever is refused, unanswered or locked.
SweepEnds == claimHeld ~> (~claimHeld \/ ~Alive)

\* A dome that turns when the node begins to stop is stopped, unless another
\* sweep begins or the process is forced to exit.
StoppingStopsDome == (stopping /\ dome # 0) ~> (dome = 0 \/ ~stopping \/ ~Alive)

\* The next ones state what comments say; the code does not do it.

\* "so nothing else can drive the dome under it": while a firmware move runs, only
\* the worker, which waits for its end, releases the claim.
ClaimOutlivesMove ==
  [][moveClaim /\ fwMove /\ driveWire # <<>> /\ driveWire' = Tail(driveWire) /\ ~moveClaim'
     => Head(driveWire).by = "worker"]_vars

\* An abort that was accepted for a sweep is kept until it ends.
AbortIsKept == abortAsked => abortEvent

\* Once the node is stopping, only percent 0 is sent.
StoppingSendsOnlyZero ==
  [][stopping /\ Len(driveWire') > Len(driveWire) => driveWire'[Len(driveWire')].percent = 0]_vars
===============================================================================
