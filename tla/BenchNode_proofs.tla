--------------------------- MODULE BenchNode_proofs ----------------------------
(***************************************************************************)
(* Proofs that the sweep claim and the drive gate of the bench node do     *)
(* what they are for: one sweep at a time, a stop that is the last word,   *)
(* and a step that is kept alive, for every number of start calls, every   *)
(* set of percents, every length of a sweep and every number of faults.    *)
(***************************************************************************)
EXTENDS BenchNode, SequenceTheorems, TLAPS

-----------------------------------------------------------------------------
(* Types: TypeOK but for the length of the wires.                           *)

Who == Callers \cup {"nobody"}
DriveRequest == [by : Who, percent : Percents \cup {0}]
MoveRequest  == [by : Who]

PcTypes ==
  /\ starter \in [Starters -> {"idle", "clear", "arm", "prepare"}]
  /\ worker \in {"idle", "step", "check", "lock", "gate", "call", "wait", "retry", "hold",
                 "moving", "cleanup", "look", "waitMove", "quiet", "release"}
  /\ heartbeat \in {"idle", "gate", "call", "wait", "failed", "abort", "abortEvent"}
  /\ aborter \in {"idle", "stop", "event"}
  /\ forced \in {"no", "lock", "call", "wait", "exiting", "exited"}
  /\ lock \in Callers \cup {"free"}

FlagTypes ==
  /\ claimHeld \in BOOLEAN /\ move \in BOOLEAN /\ stopping \in BOOLEAN
  /\ abortEvent \in BOOLEAN /\ sweepActive \in BOOLEAN
  /\ moveClaim \in BOOLEAN /\ fwMove \in BOOLEAN
  /\ still \in BOOLEAN /\ abortAsked \in BOOLEAN

CountTypes ==
  stepsLeft \in 0..MaxSteps /\ triesLeft \in 0..StopTries /\ faults \in 0..MaxFaults

CommandTypes ==
  /\ percent \in Percents \cup {0} /\ command \in Commands /\ beat \in Commands

WireTypes ==
  /\ answer \in [Callers -> {"none", "awaited", "ok", "settings", "failed"}]
  /\ driveWire \in Seq(DriveRequest) /\ moveWire \in Seq(MoveRequest)
  /\ dome \in Percents \cup {0}

Types == PcTypes /\ FlagTypes /\ CountTypes /\ CommandTypes /\ WireTypes

-----------------------------------------------------------------------------
(* The inductive invariant.                                                 *)

\* Who holds the drive lock.
LockInv ==
  /\ lock = "worker" <=> worker \in {"gate", "call", "wait"}
  /\ lock = "heartbeat" <=> heartbeat \in {"call", "wait"}
  /\ lock = "forced" => forced \in {"call", "wait"}

\* The claim is held by one start call, or by the worker.
ClaimInv ==
  /\ worker # "idle" => claimHeld
  /\ \A s \in Starters : starter[s] # "idle" =>
       /\ claimHeld /\ worker = "idle"
       /\ \A t \in Starters : t # s => starter[t] = "idle"

\* A thread has an answer to look at, or to wait for, only where it waits.
AnswerInv ==
  /\ worker # "wait" => answer["worker"] = "none"
  /\ heartbeat # "wait" => answer["heartbeat"] = "none"
  /\ forced # "wait" => answer["forced"] = "none"

\* A request under way that names its caller is the only one that does, and
\* its caller waits for the answer.
OwnerInv ==
  \A c \in Callers :
    /\ \A i \in 1..Len(driveWire) : driveWire[i].by = c =>
         /\ answer[c] = "awaited"
         /\ \A k \in 1..Len(driveWire) : driveWire[k].by = c => k = i
         /\ \A k \in 1..Len(moveWire) : moveWire[k].by # c
    /\ \A i \in 1..Len(moveWire) : moveWire[i].by = c =>
         /\ answer[c] = "awaited"
         /\ \A k \in 1..Len(moveWire) : moveWire[k].by = c => k = i

\* Every request under way is awaited by its caller, or cost a fault, or was
\* left by a process that is gone.
Awaited(c) == IF answer[c] = "awaited" THEN 1 ELSE 0

LengthInv ==
  Len(driveWire) + Len(moveWire)
    <= faults + Awaited("worker") + Awaited("heartbeat") + Awaited("forced")
       + (IF forced = "exited" THEN 1 ELSE 0)

\* Behind the 0 that the worker waits for there is nothing but 0, so the dome
\* rests when the answer is there.
ZeroInv ==
  worker = "wait" /\ command = 0 =>
    /\ \A k \in 1..Len(moveWire) : moveWire[k].by # "worker"
    /\ \A i \in 1..Len(driveWire) : driveWire[i].by = "worker" =>
         \A k \in i..Len(driveWire) : driveWire[k].percent = 0
    /\ answer["worker"] = "ok" =>
         dome = 0 /\ \A i \in 1..Len(driveWire) : driveWire[i].percent = 0

\* What the heartbeat would repeat is what the worker commands, and it is 0
\* once the worker has stopped.
RecordInv ==
  /\ worker \in {"call", "wait"} /\ command # Move => percent = command \/ forced # "no"
  /\ worker \in {"call", "wait"} /\ command = 0 => percent = 0
  /\ still /\ ~(worker = "call" /\ command # 0) => percent = 0
  /\ still /\ heartbeat = "call" => beat \in {0, Move}
  /\ still /\ worker = "wait" => command = 0

IInv ==
  /\ Types
  /\ LockInv /\ ClaimInv /\ AnswerInv /\ OwnerInv /\ LengthInv
  /\ ZeroInv /\ RecordInv /\ StopIsLast

-----------------------------------------------------------------------------
(* Every step keeps the types, ...                                          *)

\* The program counters and the lock keep their types.
LEMMA PcStep ==
  ASSUME Types, [Next]_vars
  PROVE  PcTypes'
<1> USE DEF gateVars, nodeVars, scriptVars, workerVars, beatVars, callVars, pluginVars,
            histVars
<1> USE DEF Types, PcTypes, Callers
<1>1. ASSUME NEW s \in Starters,
             TryClaim(s) \/ ClearAbort(s) \/ Arm(s) \/ RejectStart(s) \/ StartWorker(s)
      PROVE  PcTypes'
  BY <1>1 DEF TryClaim, ClaimFree, ClearAbort, Arm, RejectStart, StartWorker
<1>2. CASE WorkerSteps
  <2>1. CASE NextStep
    BY <2>1 DEF NextStep
  <2>2. CASE CheckStopping
    BY <2>2 DEF CheckStopping
  <2>3. CASE TakeLock
    BY <2>3 DEF TakeLock
  <2>4. CASE LockTimesOut
    BY <2>4 DEF LockTimesOut, AfterFailure, InCleanup, Fault
  <2>5. CASE EnterGate
    BY <2>5 DEF EnterGate, GateRefuses, Record
  <2>6. CASE Call
    BY <2>6 DEF Call, Request, PutOnWire, Fault
  <2>7. CASE CallSucceeds
    BY <2>7 DEF CallSucceeds, Taken, InCleanup
  <2>8. CASE CallFails
    BY <2>8 DEF CallFails, AfterFailure, Taken, InCleanup
  <2>9. CASE RetryCall
    BY <2>9 DEF RetryCall
  <2>10. CASE StepEnds
    BY <2>10 DEF StepEnds
  <2>11. CASE SweepStops
    BY <2>11 DEF SweepStops, RetryEnds, Raise
  <2>12. CASE CleanupBegins
    BY <2>12 DEF CleanupBegins, StopTries
  <2>13. CASE LookForMove
    BY <2>13 DEF LookForMove
  <2>14. CASE MoveWaited
    BY <2>14 DEF MoveWaited
  <2>15. CASE Quiet
    BY <2>15 DEF Quiet
  <2>16. CASE ReleaseClaim
    BY <2>16 DEF ReleaseClaim
  <2> QED BY <1>2, <2>1, <2>2, <2>3, <2>4, <2>5, <2>6, <2>7, <2>8, <2>9, <2>10, <2>11,
       <2>12, <2>13, <2>14, <2>15, <2>16 DEF WorkerSteps
<1>3. CASE BeatSteps
  <2>1. CASE BeatBegins
    BY <2>1 DEF BeatBegins
  <2>2. CASE BeatEnters
    BY <2>2 DEF BeatEnters, BeatAllowed, BeatSends
  <2>3. CASE BeatSkips
    BY <2>3 DEF BeatSkips
  <2>4. CASE BeatCalls
    BY <2>4 DEF BeatCalls, Request, PutOnWire, Fault
  <2>5. CASE BeatReturns
    BY <2>5 DEF BeatReturns, Answered, Taken
  <2>6. CASE BeatFailed
    BY <2>6 DEF BeatFailed, BeatReports
  <2>7. CASE BeatBeginsStopping
    BY <2>7 DEF BeatBeginsStopping
  <2>8. CASE BeatSetsAbort
    BY <2>8 DEF BeatSetsAbort
  <2> QED BY <1>3, <2>1, <2>2, <2>3, <2>4, <2>5, <2>6, <2>7, <2>8 DEF BeatSteps
<1>4. CASE ForceSteps
  BY <1>4 DEF ForceSteps, ForceBegins, ForceLocks, ForceCalls, Request, PutOnWire,
     Fault, ForceReleases, Taken, Answered, ForceEnds
<1>5. CASE AbortCalled \/ AbortReturns
  BY <1>5 DEF AbortCalled, AbortReturns, AbortBeginsStopping, AbortSetsEvent
<1>6. ASSUME NEW c \in Callers, CallTimesOut(c)
      PROVE  PcTypes'
  BY <1>6 DEF CallTimesOut, Fault
<1>7. CASE PluginDrives
  BY <1>7 DEF PluginDrives, Reply, Refusals
<1>8. CASE PluginMoves
  BY <1>8 DEF PluginMoves, Reply, Refusals
<1>9. CASE PluginByItself
  BY <1>9 DEF PluginByItself
<1>10. CASE UNCHANGED vars
  BY <1>10 DEF vars
<1> QED
  BY <1>1, <1>2, <1>3, <1>4, <1>5, <1>6, <1>7, <1>8, <1>9, <1>10
     DEF Next, NodeSteps, StartSteps

\* So do the flags.
LEMMA FlagStep ==
  ASSUME Types, [Next]_vars
  PROVE  FlagTypes'
<1> USE DEF gateVars, nodeVars, scriptVars, workerVars, beatVars, callVars, pluginVars,
            histVars
<1> USE DEF Types, FlagTypes
<1>1. ASSUME NEW s \in Starters,
             TryClaim(s) \/ ClearAbort(s) \/ Arm(s) \/ RejectStart(s) \/ StartWorker(s)
      PROVE  FlagTypes'
  BY <1>1, ZenonT(40) DEF TryClaim, ClaimFree, ClearAbort, Arm, RejectStart, StartWorker
<1>2. CASE WorkerSteps
  <2>1. CASE NextStep
    BY <2>1 DEF NextStep
  <2>2. CASE CheckStopping
    BY <2>2 DEF CheckStopping
  <2>3. CASE TakeLock
    BY <2>3 DEF TakeLock
  <2>4. CASE LockTimesOut
    BY <2>4 DEF LockTimesOut, AfterFailure, InCleanup, Fault
  <2>5. CASE EnterGate
    BY <2>5 DEF EnterGate, GateRefuses, Record
  <2>6. CASE Call
    BY <2>6 DEF Call, Request, PutOnWire, Fault
  <2>7. CASE CallSucceeds
    BY <2>7 DEF CallSucceeds, Taken, InCleanup
  <2>8. CASE CallFails
    BY <2>8 DEF CallFails, AfterFailure, Taken, InCleanup
  <2>9. CASE RetryCall
    BY <2>9 DEF RetryCall
  <2>10. CASE StepEnds
    BY <2>10 DEF StepEnds
  <2>11. CASE SweepStops
    BY <2>11 DEF SweepStops, RetryEnds, Raise
  <2>12. CASE CleanupBegins
    BY <2>12 DEF CleanupBegins, StopTries
  <2>13. CASE LookForMove
    BY <2>13 DEF LookForMove
  <2>14. CASE MoveWaited
    BY <2>14 DEF MoveWaited
  <2>15. CASE Quiet
    BY <2>15 DEF Quiet
  <2>16. CASE ReleaseClaim
    BY <2>16 DEF ReleaseClaim
  <2> QED BY <1>2, <2>1, <2>2, <2>3, <2>4, <2>5, <2>6, <2>7, <2>8, <2>9, <2>10, <2>11,
       <2>12, <2>13, <2>14, <2>15, <2>16 DEF WorkerSteps
<1>3. CASE BeatSteps
  <2>1. CASE BeatBegins
    BY <2>1 DEF BeatBegins
  <2>2. CASE BeatEnters
    BY <2>2 DEF BeatEnters, BeatAllowed, BeatSends
  <2>3. CASE BeatSkips
    BY <2>3 DEF BeatSkips
  <2>4. CASE BeatCalls
    BY <2>4 DEF BeatCalls, Request, PutOnWire, Fault
  <2>5. CASE BeatReturns
    BY <2>5 DEF BeatReturns, Answered, Taken
  <2>6. CASE BeatFailed
    BY <2>6 DEF BeatFailed, BeatReports
  <2>7. CASE BeatBeginsStopping
    BY <2>7 DEF BeatBeginsStopping
  <2>8. CASE BeatSetsAbort
    BY <2>8 DEF BeatSetsAbort
  <2> QED BY <1>3, <2>1, <2>2, <2>3, <2>4, <2>5, <2>6, <2>7, <2>8 DEF BeatSteps
<1>4. CASE ForceSteps
  BY <1>4, ZenonT(40) DEF ForceSteps, ForceBegins, ForceLocks, ForceCalls, Request, PutOnWire,
     Fault, ForceReleases, Taken, Answered, ForceEnds
<1>5. CASE AbortCalled \/ AbortReturns
  BY <1>5, ZenonT(40) DEF AbortCalled, AbortReturns, AbortBeginsStopping, AbortSetsEvent
<1>6. ASSUME NEW c \in Callers, CallTimesOut(c)
      PROVE  FlagTypes'
  BY <1>6 DEF CallTimesOut, Fault
<1>7. CASE PluginDrives
  BY <1>7 DEF PluginDrives, Reply, Refusals
<1>8. CASE PluginMoves
  BY <1>8 DEF PluginMoves, Reply, Refusals
<1>9. CASE PluginByItself
  BY <1>9 DEF PluginByItself
<1>10. CASE UNCHANGED vars
  BY <1>10 DEF vars
<1> QED
  BY <1>1, <1>2, <1>3, <1>4, <1>5, <1>6, <1>7, <1>8, <1>9, <1>10
     DEF Next, NodeSteps, StartSteps

\* So do the counters.
LEMMA CountStep ==
  ASSUME Types, [Next]_vars
  PROVE  CountTypes'
<1> USE DEF gateVars, nodeVars, scriptVars, workerVars, beatVars, callVars, pluginVars,
            histVars
<1> USE BoundsAssumption DEF Types, CountTypes, StopTries
<1>1. ASSUME NEW s \in Starters,
             TryClaim(s) \/ ClearAbort(s) \/ Arm(s) \/ RejectStart(s) \/ StartWorker(s)
      PROVE  CountTypes'
  BY <1>1 DEF TryClaim, ClaimFree, ClearAbort, Arm, RejectStart, StartWorker
<1>2. CASE WorkerSteps
  BY <1>2 DEF WorkerSteps, NextStep, CheckStopping, TakeLock, LockTimesOut,
     AfterFailure, InCleanup, Fault, EnterGate, GateRefuses, Record, Call, Request,
     PutOnWire, CallSucceeds, Taken, CallFails, RetryCall, StepEnds, SweepStops,
     RetryEnds, Raise, CleanupBegins, StopTries, LookForMove, MoveWaited, Quiet,
     ReleaseClaim
<1>3. CASE BeatSteps
  BY <1>3 DEF BeatSteps, BeatBegins, BeatEnters, BeatAllowed, BeatSends, BeatSkips,
     BeatCalls, Request, PutOnWire, Fault, BeatReturns, Answered, Taken, BeatFailed,
     BeatReports, BeatBeginsStopping, BeatSetsAbort
<1>4. CASE ForceSteps
  BY <1>4 DEF ForceSteps, ForceBegins, ForceLocks, ForceCalls, Request, PutOnWire,
     Fault, ForceReleases, Taken, Answered, ForceEnds
<1>5. CASE AbortCalled \/ AbortReturns
  BY <1>5 DEF AbortCalled, AbortReturns, AbortBeginsStopping, AbortSetsEvent
<1>6. ASSUME NEW c \in Callers, CallTimesOut(c)
      PROVE  CountTypes'
  BY <1>6 DEF CallTimesOut, Fault
<1>7. CASE PluginDrives
  BY <1>7 DEF PluginDrives, Reply, Refusals
<1>8. CASE PluginMoves
  BY <1>8 DEF PluginMoves, Reply, Refusals
<1>9. CASE PluginByItself
  BY <1>9 DEF PluginByItself
<1>10. CASE UNCHANGED vars
  BY <1>10 DEF vars
<1> QED
  BY <1>1, <1>2, <1>3, <1>4, <1>5, <1>6, <1>7, <1>8, <1>9, <1>10
     DEF Next, NodeSteps, StartSteps

\* So do the commands.
LEMMA CommandStep ==
  ASSUME Types, [Next]_vars
  PROVE  CommandTypes'
<1> USE DEF gateVars, nodeVars, scriptVars, workerVars, beatVars, callVars, pluginVars,
            histVars
<1> USE DEF Types, CommandTypes, Commands, WireTypes
<1>1. ASSUME NEW s \in Starters,
             TryClaim(s) \/ ClearAbort(s) \/ Arm(s) \/ RejectStart(s) \/ StartWorker(s)
      PROVE  CommandTypes'
  BY <1>1 DEF TryClaim, ClaimFree, ClearAbort, Arm, RejectStart, StartWorker
<1>2. CASE WorkerSteps
  BY <1>2 DEF WorkerSteps, NextStep, CheckStopping, TakeLock, LockTimesOut,
     AfterFailure, InCleanup, Fault, EnterGate, GateRefuses, Record, Call, Request,
     PutOnWire, CallSucceeds, Taken, CallFails, RetryCall, StepEnds, SweepStops,
     RetryEnds, Raise, CleanupBegins, StopTries, LookForMove, MoveWaited, Quiet,
     ReleaseClaim
<1>3. CASE BeatSteps
  BY <1>3 DEF BeatSteps, BeatBegins, BeatEnters, BeatAllowed, BeatSends, BeatSkips,
     BeatCalls, Request, PutOnWire, Fault, BeatReturns, Answered, Taken, BeatFailed,
     BeatReports, BeatBeginsStopping, BeatSetsAbort
<1>4. CASE ForceSteps
  BY <1>4 DEF ForceSteps, ForceBegins, ForceLocks, ForceCalls, Request, PutOnWire,
     Fault, ForceReleases, Taken, Answered, ForceEnds
<1>5. CASE AbortCalled \/ AbortReturns
  BY <1>5 DEF AbortCalled, AbortReturns, AbortBeginsStopping, AbortSetsEvent
<1>6. ASSUME NEW c \in Callers, CallTimesOut(c)
      PROVE  CommandTypes'
  BY <1>6 DEF CallTimesOut, Fault
<1>7. CASE PluginDrives
  BY <1>7 DEF PluginDrives, Reply, Refusals
<1>8. CASE PluginMoves
  BY <1>8 DEF PluginMoves, Reply, Refusals
<1>9. CASE PluginByItself
  BY <1>9 DEF PluginByItself
<1>10. CASE UNCHANGED vars
  BY <1>10 DEF vars
<1> QED
  BY <1>1, <1>2, <1>3, <1>4, <1>5, <1>6, <1>7, <1>8, <1>9, <1>10
     DEF Next, NodeSteps, StartSteps

-----------------------------------------------------------------------------
(* ... the lock, the claim, the answers ...                                 *)

\* The lock is where it was taken.
LEMMA LockStep ==
  ASSUME IInv, [Next]_vars
  PROVE  LockInv'
<1> USE DEF gateVars, nodeVars, scriptVars, workerVars, beatVars, callVars, pluginVars,
            histVars
<1> USE DEF IInv, Types, PcTypes, LockInv, ClaimInv, Callers
<1>1. ASSUME NEW s \in Starters,
             TryClaim(s) \/ ClearAbort(s) \/ Arm(s) \/ RejectStart(s) \/ StartWorker(s)
      PROVE  LockInv'
  <2>1. CASE TryClaim(s)
    BY <2>1 DEF TryClaim, ClaimFree
  <2>2. CASE ClearAbort(s)
    BY <2>2 DEF ClearAbort
  <2>3. CASE Arm(s)
    BY <2>3 DEF Arm
  <2>4. CASE RejectStart(s)
    BY <2>4 DEF RejectStart
  <2>5. CASE StartWorker(s)
    BY <2>5 DEF StartWorker
  <2> QED BY <1>1, <2>1, <2>2, <2>3, <2>4, <2>5
<1>2. CASE WorkerSteps
  BY <1>2 DEF WorkerSteps, NextStep, CheckStopping, TakeLock, LockTimesOut,
     AfterFailure, InCleanup, Fault, EnterGate, GateRefuses, Record, Call, Request,
     PutOnWire, CallSucceeds, Taken, CallFails, RetryCall, StepEnds, SweepStops,
     RetryEnds, Raise, CleanupBegins, StopTries, LookForMove, MoveWaited, Quiet,
     ReleaseClaim
<1>3. CASE BeatSteps
  BY <1>3 DEF BeatSteps, BeatBegins, BeatEnters, BeatAllowed, BeatSends, BeatSkips,
     BeatCalls, Request, PutOnWire, Fault, BeatReturns, Answered, Taken, BeatFailed,
     BeatReports, BeatBeginsStopping, BeatSetsAbort
<1>4. CASE ForceSteps
  BY <1>4 DEF ForceSteps, ForceBegins, ForceLocks, ForceCalls, Request, PutOnWire,
     Fault, ForceReleases, Taken, Answered, ForceEnds
<1>5. CASE AbortCalled \/ AbortReturns
  BY <1>5 DEF AbortCalled, AbortReturns, AbortBeginsStopping, AbortSetsEvent
<1>6. ASSUME NEW c \in Callers, CallTimesOut(c)
      PROVE  LockInv'
  BY <1>6 DEF CallTimesOut, Fault
<1>7. CASE PluginDrives
  BY <1>7 DEF PluginDrives, Reply, Refusals
<1>8. CASE PluginMoves
  BY <1>8 DEF PluginMoves, Reply, Refusals
<1>9. CASE PluginByItself
  BY <1>9 DEF PluginByItself
<1>10. CASE UNCHANGED vars
  BY <1>10 DEF vars
<1> QED
  BY <1>1, <1>2, <1>3, <1>4, <1>5, <1>6, <1>7, <1>8, <1>9, <1>10
     DEF Next, NodeSteps, StartSteps

\* The claim passes from a start call to its worker.
LEMMA ClaimStep ==
  ASSUME IInv, [Next]_vars
  PROVE  ClaimInv'
<1> USE DEF gateVars, nodeVars, scriptVars, workerVars, beatVars, callVars, pluginVars,
            histVars
<1> USE DEF IInv, Types, PcTypes, FlagTypes, ClaimInv
<1>1. ASSUME NEW s \in Starters,
             TryClaim(s) \/ ClearAbort(s) \/ Arm(s) \/ RejectStart(s) \/ StartWorker(s)
      PROVE  ClaimInv'
  BY <1>1 DEF TryClaim, ClaimFree, ClearAbort, Arm, RejectStart, StartWorker
<1>2. CASE WorkerSteps
  BY <1>2 DEF WorkerSteps, NextStep, CheckStopping, TakeLock, LockTimesOut,
     AfterFailure, InCleanup, Fault, EnterGate, GateRefuses, Record, Call, Request,
     PutOnWire, CallSucceeds, Taken, CallFails, RetryCall, StepEnds, SweepStops,
     RetryEnds, Raise, CleanupBegins, StopTries, LookForMove, MoveWaited, Quiet,
     ReleaseClaim
<1>3. CASE BeatSteps
  BY <1>3 DEF BeatSteps, BeatBegins, BeatEnters, BeatAllowed, BeatSends, BeatSkips,
     BeatCalls, Request, PutOnWire, Fault, BeatReturns, Answered, Taken, BeatFailed,
     BeatReports, BeatBeginsStopping, BeatSetsAbort
<1>4. CASE ForceSteps
  BY <1>4 DEF ForceSteps, ForceBegins, ForceLocks, ForceCalls, Request, PutOnWire,
     Fault, ForceReleases, Taken, Answered, ForceEnds
<1>5. CASE AbortCalled \/ AbortReturns
  BY <1>5 DEF AbortCalled, AbortReturns, AbortBeginsStopping, AbortSetsEvent
<1>6. ASSUME NEW c \in Callers, CallTimesOut(c)
      PROVE  ClaimInv'
  BY <1>6 DEF CallTimesOut, Fault
<1>7. CASE PluginDrives
  BY <1>7 DEF PluginDrives, Reply, Refusals
<1>8. CASE PluginMoves
  BY <1>8 DEF PluginMoves, Reply, Refusals
<1>9. CASE PluginByItself
  BY <1>9 DEF PluginByItself
<1>10. CASE UNCHANGED vars
  BY <1>10 DEF vars
<1> QED
  BY <1>1, <1>2, <1>3, <1>4, <1>5, <1>6, <1>7, <1>8, <1>9, <1>10
     DEF Next, NodeSteps, StartSteps

\* The request that the plugin takes, and its caller.
LEMMA HeadRequest ==
  ASSUME Types, OwnerInv
  PROVE  /\ driveWire # <<>> =>
              /\ Head(driveWire) \in DriveRequest
              /\ Head(driveWire).by # "nobody" => answer[Head(driveWire).by] = "awaited"
         /\ moveWire # <<>> =>
              /\ Head(moveWire) \in MoveRequest
              /\ Head(moveWire).by # "nobody" => answer[Head(moveWire).by] = "awaited"
<1>1. ASSUME driveWire # <<>>
      PROVE  /\ Head(driveWire) \in DriveRequest
             /\ Head(driveWire).by # "nobody" => answer[Head(driveWire).by] = "awaited"
  <2>1. /\ 1 \in 1..Len(driveWire) /\ Head(driveWire) = driveWire[1]
        /\ driveWire[1] \in DriveRequest
    BY <1>1 DEF Types, WireTypes
  <2>2. driveWire[1].by # "nobody" => driveWire[1].by \in Callers
    BY <2>1 DEF DriveRequest, Who
  <2> QED BY <2>1, <2>2 DEF OwnerInv
<1>2. ASSUME moveWire # <<>>
      PROVE  /\ Head(moveWire) \in MoveRequest
             /\ Head(moveWire).by # "nobody" => answer[Head(moveWire).by] = "awaited"
  <2>1. /\ 1 \in 1..Len(moveWire) /\ Head(moveWire) = moveWire[1]
        /\ moveWire[1] \in MoveRequest
    BY <1>2 DEF Types, WireTypes
  <2>2. moveWire[1].by # "nobody" => moveWire[1].by \in Callers
    BY <2>1 DEF MoveRequest, Who
  <2> QED BY <2>1, <2>2 DEF OwnerInv
<1> QED BY <1>1, <1>2

\* Nobody has an answer to look at where nobody waits.
LEMMA AnswerStep ==
  ASSUME IInv, [Next]_vars
  PROVE  AnswerInv'
<1> USE DEF gateVars, nodeVars, scriptVars, workerVars, beatVars, callVars, pluginVars,
            histVars
<1> USE DEF IInv, Types, PcTypes, WireTypes, LockInv, ClaimInv, AnswerInv, Callers
<1>1. ASSUME NEW s \in Starters,
             TryClaim(s) \/ ClearAbort(s) \/ Arm(s) \/ RejectStart(s) \/ StartWorker(s)
      PROVE  AnswerInv'
  BY <1>1 DEF TryClaim, ClaimFree, ClearAbort, Arm, RejectStart, StartWorker
<1>2. CASE WorkerSteps
  BY <1>2 DEF WorkerSteps, NextStep, CheckStopping, TakeLock, LockTimesOut,
     AfterFailure, InCleanup, Fault, EnterGate, GateRefuses, Record, Call, Request,
     PutOnWire, CallSucceeds, Taken, CallFails, RetryCall, StepEnds, SweepStops,
     RetryEnds, Raise, CleanupBegins, StopTries, LookForMove, MoveWaited, Quiet,
     ReleaseClaim
<1>3. CASE BeatSteps
  BY <1>3 DEF BeatSteps, BeatBegins, BeatEnters, BeatAllowed, BeatSends, BeatSkips,
     BeatCalls, Request, PutOnWire, Fault, BeatReturns, Answered, Taken, BeatFailed,
     BeatReports, BeatBeginsStopping, BeatSetsAbort
<1>4. CASE ForceSteps
  BY <1>4 DEF ForceSteps, ForceBegins, ForceLocks, ForceCalls, Request, PutOnWire,
     Fault, ForceReleases, Taken, Answered, ForceEnds
<1>5. CASE AbortCalled \/ AbortReturns
  BY <1>5 DEF AbortCalled, AbortReturns, AbortBeginsStopping, AbortSetsEvent
<1>6. ASSUME NEW c \in Callers, CallTimesOut(c)
      PROVE  AnswerInv'
  BY <1>6 DEF CallTimesOut, Fault
<1>7. CASE PluginDrives
  <2>1. PICK a \in {"ok", "settings", "failed"} : Reply(Head(driveWire), a)
    BY <1>7 DEF PluginDrives, Refusals
  <2>2. Head(driveWire).by # "nobody" => answer[Head(driveWire).by] = "awaited"
    BY <1>7, HeadRequest DEF PluginDrives
  <2> QED BY <1>7, <2>1, <2>2 DEF PluginDrives, Reply
<1>8. CASE PluginMoves
  <2>1. PICK a \in {"ok", "settings", "failed"} : Reply(Head(moveWire), a)
    BY <1>8 DEF PluginMoves, Refusals
  <2>2. Head(moveWire).by # "nobody" => answer[Head(moveWire).by] = "awaited"
    BY <1>8, HeadRequest DEF PluginMoves
  <2> QED BY <1>8, <2>1, <2>2 DEF PluginMoves, Reply
<1>9. CASE PluginByItself
  BY <1>9 DEF PluginByItself
<1>10. CASE UNCHANGED vars
  BY <1>10 DEF vars
<1> QED
  BY <1>1, <1>2, <1>3, <1>4, <1>5, <1>6, <1>7, <1>8, <1>9, <1>10
     DEF Next, NodeSteps, StartSteps

\* The record is what the worker commands.
LEMMA RecordStep ==
  ASSUME IInv, [Next]_vars
  PROVE  RecordInv'
<1> USE DEF gateVars, nodeVars, scriptVars, workerVars, beatVars, callVars, pluginVars,
            histVars
<1> USE MoveAssumption, PercentsAssumption
        DEF IInv, Types, PcTypes, FlagTypes, CommandTypes, WireTypes, LockInv, ClaimInv, RecordInv,
            StopIsLast, Commands
<1>1. ASSUME NEW s \in Starters,
             TryClaim(s) \/ ClearAbort(s) \/ Arm(s) \/ RejectStart(s) \/ StartWorker(s)
      PROVE  RecordInv'
  <2>1. CASE TryClaim(s)
    BY <2>1 DEF TryClaim, ClaimFree
  <2>2. CASE ClearAbort(s)
    BY <2>2 DEF ClearAbort
  <2>3. CASE Arm(s)
    BY <2>3 DEF Arm
  <2>4. CASE RejectStart(s)
    BY <2>4 DEF RejectStart
  <2>5. CASE StartWorker(s)
    BY <2>5 DEF StartWorker
  <2> QED BY <1>1, <2>1, <2>2, <2>3, <2>4, <2>5
<1>2. CASE WorkerSteps
  <2>1. CASE NextStep
    BY <2>1 DEF NextStep
  <2>2. CASE CheckStopping
    BY <2>2 DEF CheckStopping
  <2>3. CASE TakeLock
    BY <2>3 DEF TakeLock
  <2>4. CASE LockTimesOut
    BY <2>4 DEF LockTimesOut, AfterFailure, InCleanup, Fault
  <2>5. CASE EnterGate
    BY <2>5 DEF EnterGate, GateRefuses, Record
  <2>6. CASE Call
    BY <2>6 DEF Call, Request, PutOnWire, Fault
  <2>7. CASE CallSucceeds
    BY <2>7 DEF CallSucceeds, Taken, InCleanup
  <2>8. CASE CallFails
    BY <2>8 DEF CallFails, AfterFailure, Taken, InCleanup
  <2>9. CASE RetryCall
    BY <2>9 DEF RetryCall
  <2>10. CASE StepEnds
    BY <2>10 DEF StepEnds
  <2>11. CASE SweepStops
    BY <2>11 DEF SweepStops, RetryEnds, Raise
  <2>12. CASE CleanupBegins
    BY <2>12 DEF CleanupBegins, StopTries
  <2>13. CASE LookForMove
    BY <2>13 DEF LookForMove
  <2>14. CASE MoveWaited
    BY <2>14 DEF MoveWaited
  <2>15. CASE Quiet
    BY <2>15 DEF Quiet
  <2>16. CASE ReleaseClaim
    BY <2>16 DEF ReleaseClaim
  <2> QED BY <1>2, <2>1, <2>2, <2>3, <2>4, <2>5, <2>6, <2>7, <2>8, <2>9, <2>10, <2>11,
       <2>12, <2>13, <2>14, <2>15, <2>16 DEF WorkerSteps
<1>3. CASE BeatSteps
  <2>1. CASE BeatBegins
    BY <2>1 DEF BeatBegins
  <2>2. CASE BeatEnters
    BY <2>2 DEF BeatEnters, BeatAllowed, BeatSends
  <2>3. CASE BeatSkips
    BY <2>3 DEF BeatSkips
  <2>4. CASE BeatCalls
    BY <2>4 DEF BeatCalls, Request, PutOnWire, Fault
  <2>5. CASE BeatReturns
    BY <2>5 DEF BeatReturns, Answered, Taken
  <2>6. CASE BeatFailed
    BY <2>6 DEF BeatFailed, BeatReports
  <2>7. CASE BeatBeginsStopping
    BY <2>7 DEF BeatBeginsStopping
  <2>8. CASE BeatSetsAbort
    BY <2>8 DEF BeatSetsAbort
  <2> QED BY <1>3, <2>1, <2>2, <2>3, <2>4, <2>5, <2>6, <2>7, <2>8 DEF BeatSteps
<1>4. CASE ForceSteps
  BY <1>4 DEF ForceSteps, ForceBegins, ForceLocks, ForceCalls, Request, PutOnWire,
     Fault, ForceReleases, Taken, Answered, ForceEnds
<1>5. CASE AbortCalled \/ AbortReturns
  BY <1>5 DEF AbortCalled, AbortReturns, AbortBeginsStopping, AbortSetsEvent
<1>6. ASSUME NEW c \in Callers, CallTimesOut(c)
      PROVE  RecordInv'
  BY <1>6 DEF CallTimesOut, Fault
<1>7. CASE PluginDrives
  BY <1>7 DEF PluginDrives, Reply, Refusals
<1>8. CASE PluginMoves
  BY <1>8 DEF PluginMoves, Reply, Refusals
<1>9. CASE PluginByItself
  BY <1>9 DEF PluginByItself
<1>10. CASE UNCHANGED vars
  BY <1>10 DEF vars
<1> QED
  BY <1>1, <1>2, <1>3, <1>4, <1>5, <1>6, <1>7, <1>8, <1>9, <1>10
     DEF Next, NodeSteps, StartSteps

-----------------------------------------------------------------------------
(* ... and the wires.                                                       *)

\* What can happen to the requests under way.
WiresKept ==
  /\ UNCHANGED <<driveWire, moveWire>> /\ faults' >= faults
  /\ \A c \in Callers : answer'[c] = "awaited" <=> answer[c] = "awaited"
  /\ forced = "exited" <=> forced' = "exited"

Sent(c, m) ==
  /\ PutOnWire(c, m) /\ answer[c] = "none"
  /\ faults' = faults /\ (forced = "exited" <=> forced' = "exited")

DriveTaken ==
  /\ driveWire # <<>> /\ driveWire' = Tail(driveWire) /\ moveWire' = moveWire
  /\ \E a \in {"ok", "settings", "failed"} : Reply(Head(driveWire), a)
  /\ UNCHANGED <<faults, forced>>

MoveTaken ==
  /\ moveWire # <<>> /\ moveWire' = Tail(moveWire) /\ driveWire' = driveWire
  /\ \E a \in {"ok", "settings", "failed"} : Reply(Head(moveWire), a)
  /\ UNCHANGED <<faults, forced>>

WireStep ==
  \/ WiresKept
  \/ \E c \in Callers, m \in Commands : Sent(c, m)
  \/ \E c \in Callers : CallTimesOut(c)
  \/ ForceEnds
  \/ DriveTaken \/ MoveTaken

\* Every step does one of these things to the wires.
LEMMA Wired ==
  ASSUME IInv, [Next]_vars
  PROVE  WireStep
<1> USE DEF gateVars, nodeVars, scriptVars, workerVars, beatVars, callVars, pluginVars,
            histVars
<1> USE DEF IInv, Types, PcTypes, CountTypes, CommandTypes, WireTypes, AnswerInv, Callers
<1>0. WiresKept => WireStep
  BY DEF WireStep
<1>1. ASSUME NEW s \in Starters,
             TryClaim(s) \/ ClearAbort(s) \/ Arm(s) \/ RejectStart(s) \/ StartWorker(s)
      PROVE  WireStep
  <2>1. CASE TryClaim(s)
    BY <2>1, <1>0 DEF WiresKept, TryClaim, ClaimFree
  <2>2. CASE ClearAbort(s)
    BY <2>2, <1>0 DEF WiresKept, ClearAbort
  <2>3. CASE Arm(s)
    BY <2>3, <1>0 DEF WiresKept, Arm
  <2>4. CASE RejectStart(s)
    BY <2>4, <1>0 DEF WiresKept, RejectStart
  <2>5. CASE StartWorker(s)
    BY <2>5, <1>0 DEF WiresKept, StartWorker
  <2> QED BY <1>1, <2>1, <2>2, <2>3, <2>4, <2>5
<1>2. CASE WorkerSteps
  <2>1. CASE NextStep
    BY <2>1, <1>0 DEF WiresKept, NextStep
  <2>2. CASE CheckStopping
    BY <2>2, <1>0 DEF WiresKept, CheckStopping
  <2>3. CASE TakeLock
    BY <2>3, <1>0 DEF WiresKept, TakeLock
  <2>4. CASE LockTimesOut
    BY <2>4, <1>0 DEF WiresKept, LockTimesOut, AfterFailure, InCleanup, Fault
  <2>5. CASE EnterGate
    BY <2>5, <1>0 DEF WiresKept, EnterGate, GateRefuses, Record
  <2>6. CASE Call
    <3>1. CASE PutOnWire("worker", command) /\ UNCHANGED faults
      <4>1. Sent("worker", command)
        BY <2>6, <3>1 DEF Call, Sent
      <4> QED BY <4>1 DEF WireStep, Callers, Commands
    <3>2. CASE Fault /\ answer' = [answer EXCEPT !["worker"] = "failed"]
               /\ UNCHANGED <<driveWire, moveWire>>
      <4>1. WiresKept
        BY <2>6, <3>2 DEF Call, Fault, WiresKept, CountTypes
      <4> QED BY <4>1 DEF WireStep
    <3> QED BY <2>6, <3>1, <3>2 DEF Call, Request
  <2>7. CASE CallSucceeds
    BY <2>7, <1>0 DEF WiresKept, CallSucceeds, Taken, InCleanup
  <2>8. CASE CallFails
    BY <2>8, <1>0 DEF WiresKept, CallFails, AfterFailure, Taken, InCleanup
  <2>9. CASE RetryCall
    BY <2>9, <1>0 DEF WiresKept, RetryCall
  <2>10. CASE StepEnds
    BY <2>10, <1>0 DEF WiresKept, StepEnds
  <2>11. CASE SweepStops
    BY <2>11, <1>0 DEF WiresKept, SweepStops, RetryEnds, Raise
  <2>12. CASE CleanupBegins
    BY <2>12, <1>0 DEF WiresKept, CleanupBegins, StopTries
  <2>13. CASE LookForMove
    BY <2>13, <1>0 DEF WiresKept, LookForMove
  <2>14. CASE MoveWaited
    BY <2>14, <1>0 DEF WiresKept, MoveWaited
  <2>15. CASE Quiet
    BY <2>15, <1>0 DEF WiresKept, Quiet
  <2>16. CASE ReleaseClaim
    BY <2>16, <1>0 DEF WiresKept, ReleaseClaim
  <2> QED BY <1>2, <2>1, <2>2, <2>3, <2>4, <2>5, <2>6, <2>7, <2>8, <2>9, <2>10, <2>11,
       <2>12, <2>13, <2>14, <2>15, <2>16 DEF WorkerSteps
<1>3. CASE BeatSteps
  <2>1. CASE BeatBegins
    BY <2>1, <1>0 DEF WiresKept, BeatBegins
  <2>2. CASE BeatEnters
    BY <2>2, <1>0 DEF WiresKept, BeatEnters, BeatAllowed, BeatSends
  <2>3. CASE BeatSkips
    BY <2>3, <1>0 DEF WiresKept, BeatSkips
  <2>4. CASE BeatCalls
    <3>1. CASE PutOnWire("heartbeat", beat) /\ UNCHANGED faults
      <4>1. Sent("heartbeat", beat)
        BY <2>4, <3>1 DEF BeatCalls, Sent
      <4> QED BY <4>1 DEF WireStep, Callers, Commands
    <3>2. CASE Fault /\ answer' = [answer EXCEPT !["heartbeat"] = "failed"]
               /\ UNCHANGED <<driveWire, moveWire>>
      <4>1. WiresKept
        BY <2>4, <3>2 DEF BeatCalls, Fault, WiresKept, CountTypes
      <4> QED BY <4>1 DEF WireStep
    <3> QED BY <2>4, <3>1, <3>2 DEF BeatCalls, Request
  <2>5. CASE BeatReturns
    BY <2>5, <1>0 DEF WiresKept, BeatReturns, Answered, Taken
  <2>6. CASE BeatFailed
    BY <2>6, <1>0 DEF WiresKept, BeatFailed, BeatReports
  <2>7. CASE BeatBeginsStopping
    BY <2>7, <1>0 DEF WiresKept, BeatBeginsStopping
  <2>8. CASE BeatSetsAbort
    BY <2>8, <1>0 DEF WiresKept, BeatSetsAbort
  <2> QED BY <1>3, <2>1, <2>2, <2>3, <2>4, <2>5, <2>6, <2>7, <2>8 DEF BeatSteps
<1>4. CASE ForceSteps
  <2>1. CASE ForceBegins
    BY <2>1, <1>0 DEF WiresKept, ForceBegins
  <2>2. CASE ForceLocks
    BY <2>2, <1>0 DEF WiresKept, ForceLocks
  <2>3. CASE ForceCalls
    <3>1. CASE PutOnWire("forced", 0) /\ UNCHANGED faults
      <4>1. Sent("forced", 0)
        BY <2>3, <3>1 DEF ForceCalls, Sent
      <4> QED BY <4>1 DEF WireStep, Callers, Commands
    <3>2. CASE Fault /\ answer' = [answer EXCEPT !["forced"] = "failed"]
               /\ UNCHANGED <<driveWire, moveWire>>
      <4>1. WiresKept
        BY <2>3, <3>2 DEF ForceCalls, Fault, WiresKept, CountTypes
      <4> QED BY <4>1 DEF WireStep
    <3> QED BY <2>3, <3>1, <3>2 DEF ForceCalls, Request
  <2>4. CASE ForceReleases
    BY <2>4, <1>0 DEF WiresKept, ForceReleases, Answered, Taken
  <2>5. CASE ForceEnds
    BY <2>5 DEF WireStep
  <2> QED BY <1>4, <2>1, <2>2, <2>3, <2>4, <2>5 DEF ForceSteps
<1>5. CASE AbortCalled \/ AbortReturns
  BY <1>5, <1>0 DEF WiresKept, AbortCalled, AbortReturns, AbortBeginsStopping, AbortSetsEvent
<1>6. ASSUME NEW c \in Callers, CallTimesOut(c)
      PROVE  WireStep
  BY <1>6 DEF WireStep
<1>7. CASE PluginDrives
  <2>1. PICK a \in {"ok", "settings", "failed"} : Reply(Head(driveWire), a)
    BY <1>7, <1>0 DEF WiresKept, PluginDrives, Refusals
  <2>2. DriveTaken
    BY <1>7, <2>1 DEF PluginDrives, DriveTaken
  <2> QED BY <2>2 DEF WireStep
<1>8. CASE PluginMoves
  <2>1. PICK a \in {"ok", "settings", "failed"} : Reply(Head(moveWire), a)
    BY <1>8, <1>0 DEF WiresKept, PluginMoves, Refusals
  <2>2. MoveTaken
    BY <1>8, <2>1 DEF PluginMoves, MoveTaken
  <2> QED BY <2>2 DEF WireStep
<1>9. CASE PluginByItself
  BY <1>9, <1>0 DEF WiresKept, PluginByItself
<1>10. CASE UNCHANGED vars
  BY <1>10, <1>0 DEF WiresKept, vars
<1> QED
  BY <1>1, <1>2, <1>3, <1>4, <1>5, <1>6, <1>7, <1>8, <1>9, <1>10
     DEF Next, NodeSteps, StartSteps

\* A request that is sent is the last one on its wire.
LEMMA AfterSending ==
  ASSUME Types, NEW c \in Callers, NEW m \in Commands, Sent(c, m)
  PROVE  \/ /\ m = Move
            /\ moveWire' \in Seq(MoveRequest) /\ Len(moveWire') = Len(moveWire) + 1
            /\ \A i \in 1..Len(moveWire) : moveWire'[i] = moveWire[i]
            /\ moveWire'[Len(moveWire) + 1].by = c
            /\ driveWire' = driveWire
         \/ /\ m # Move
            /\ driveWire' \in Seq(DriveRequest) /\ Len(driveWire') = Len(driveWire) + 1
            /\ \A i \in 1..Len(driveWire) : driveWire'[i] = driveWire[i]
            /\ driveWire'[Len(driveWire) + 1].by = c
            /\ driveWire'[Len(driveWire) + 1].percent = m
            /\ moveWire' = moveWire
<1>1. CASE m = Move
  <2>1. moveWire' = Append(moveWire, [by |-> c]) /\ driveWire' = driveWire
    BY <1>1 DEF Sent, PutOnWire
  <2>2. [by |-> c] \in MoveRequest /\ moveWire \in Seq(MoveRequest)
    BY DEF MoveRequest, Who, Types, WireTypes
  <2> QED BY <1>1, <2>1, <2>2, AppendProperties
<1>2. CASE m # Move
  <2>1. driveWire' = Append(driveWire, [by |-> c, percent |-> m]) /\ moveWire' = moveWire
    BY <1>2 DEF Sent, PutOnWire
  <2>2. [by |-> c, percent |-> m] \in DriveRequest /\ driveWire \in Seq(DriveRequest)
    BY <1>2 DEF DriveRequest, Who, Types, WireTypes, Commands
  <2> QED BY <1>2, <2>1, <2>2, AppendProperties
<1> QED BY <1>1, <1>2

\* A 0 that is sent is behind everything else on the wire of the drives.
LEMMA AfterZero ==
  ASSUME Types, NEW c \in Callers, Sent(c, 0)
  PROVE  /\ moveWire' = moveWire /\ Len(driveWire) \in Nat
         /\ Len(driveWire') = Len(driveWire) + 1
         /\ \A i \in 1..Len(driveWire') :
              \/ i \in 1..Len(driveWire) /\ driveWire'[i] = driveWire[i]
              \/ i = Len(driveWire) + 1 /\ driveWire'[i].by = c /\ driveWire'[i].percent = 0
<1>1. 0 \in Commands /\ 0 # Move
  BY MoveAssumption DEF Commands
<1>2. Len(driveWire) \in Nat
  BY DEF Types, WireTypes
<1> QED BY <1>1, <1>2, AfterSending

\* A request whose caller has given up stays where it is.
LEMMA AfterForgetting ==
  ASSUME Types, NEW c \in Callers, CallTimesOut(c)
  PROVE  /\ driveWire' \in Seq(DriveRequest) /\ Len(driveWire') = Len(driveWire)
         /\ \A i \in 1..Len(driveWire) :
              /\ driveWire'[i].percent = driveWire[i].percent
              /\ driveWire'[i].by
                   = (IF driveWire[i].by = c THEN "nobody" ELSE driveWire[i].by)
         /\ moveWire' \in Seq(MoveRequest) /\ Len(moveWire') = Len(moveWire)
         /\ \A i \in 1..Len(moveWire) :
              moveWire'[i].by = (IF moveWire[i].by = c THEN "nobody" ELSE moveWire[i].by)
<1> DEFINE D(i) == IF driveWire[i].by = c
                   THEN [driveWire[i] EXCEPT !.by = "nobody"] ELSE driveWire[i]
           M(i) == IF moveWire[i].by = c
                   THEN [moveWire[i] EXCEPT !.by = "nobody"] ELSE moveWire[i]
<1>1. driveWire' = [i \in 1..Len(driveWire) |-> D(i)] /\ Len(driveWire) \in Nat
  BY DEF CallTimesOut, Forget, Types, WireTypes
<1>2. moveWire' = [i \in 1..Len(moveWire) |-> M(i)] /\ Len(moveWire) \in Nat
  BY DEF CallTimesOut, Forget, Types, WireTypes
<1>3. ASSUME NEW i \in 1..Len(driveWire)
      PROVE  /\ D(i) \in DriveRequest /\ D(i).percent = driveWire[i].percent
             /\ D(i).by = (IF driveWire[i].by = c THEN "nobody" ELSE driveWire[i].by)
  <2>1. driveWire[i] \in DriveRequest
    BY DEF Types, WireTypes
  <2> QED BY <2>1 DEF DriveRequest, Who
<1>4. ASSUME NEW i \in 1..Len(moveWire)
      PROVE  /\ M(i) \in MoveRequest
             /\ M(i).by = (IF moveWire[i].by = c THEN "nobody" ELSE moveWire[i].by)
  <2>1. moveWire[i] \in MoveRequest
    BY DEF Types, WireTypes
  <2> QED BY <2>1 DEF MoveRequest, Who
<1> HIDE DEF D, M
<1>5. driveWire' \in Seq(DriveRequest) /\ moveWire' \in Seq(MoveRequest)
  BY <1>1, <1>2, <1>3, <1>4, IsASeq
<1>6. Len(driveWire') = Len(driveWire) /\ Len(moveWire') = Len(moveWire)
  BY <1>1, <1>2, <1>5, LenProperties
<1> QED BY <1>1, <1>2, <1>3, <1>4, <1>5, <1>6

\* So do the requests of a process that is gone.
LEMMA AfterExit ==
  ASSUME Types, ForceEnds
  PROVE  /\ driveWire' \in Seq(DriveRequest) /\ Len(driveWire') = Len(driveWire)
         /\ \A i \in 1..Len(driveWire) :
              /\ driveWire'[i].percent = driveWire[i].percent
              /\ driveWire'[i].by = "nobody"
         /\ moveWire' \in Seq(MoveRequest) /\ Len(moveWire') = Len(moveWire)
         /\ \A i \in 1..Len(moveWire) : moveWire'[i].by = "nobody"
<1> DEFINE D(i) == [driveWire[i] EXCEPT !.by = "nobody"]
           M(i) == [by |-> "nobody"]
<1>1. driveWire' = [i \in 1..Len(driveWire) |-> D(i)] /\ Len(driveWire) \in Nat
  BY DEF ForceEnds, Types, WireTypes
<1>2. moveWire' = [i \in 1..Len(moveWire) |-> M(i)] /\ Len(moveWire) \in Nat
  BY DEF ForceEnds, Types, WireTypes
<1>3. ASSUME NEW i \in 1..Len(driveWire)
      PROVE  D(i) \in DriveRequest /\ D(i).percent = driveWire[i].percent /\ D(i).by = "nobody"
  <2>1. driveWire[i] \in DriveRequest
    BY DEF Types, WireTypes
  <2> QED BY <2>1 DEF DriveRequest, Who
<1>4. \A i \in 1..Len(moveWire) : M(i) \in MoveRequest /\ M(i).by = "nobody"
  BY DEF MoveRequest, Who
<1> HIDE DEF D, M
<1>5. driveWire' \in Seq(DriveRequest) /\ moveWire' \in Seq(MoveRequest)
  BY <1>1, <1>2, <1>3, <1>4, IsASeq
<1>6. Len(driveWire') = Len(driveWire) /\ Len(moveWire') = Len(moveWire)
  BY <1>1, <1>2, <1>5, LenProperties
<1> QED BY <1>1, <1>2, <1>3, <1>4, <1>5, <1>6

\* A request that is executed leaves its wire, the others move up.
LEMMA AfterDrive ==
  ASSUME Types, OwnerInv, DriveTaken
  PROVE  /\ driveWire' \in Seq(DriveRequest) /\ Len(driveWire') = Len(driveWire) - 1
         /\ Len(driveWire) > 0
         /\ \A i \in 1..Len(driveWire') : driveWire'[i] = driveWire[i + 1]
         /\ \E a \in {"ok", "settings", "failed"} :
              \/ driveWire[1].by = "nobody" /\ answer' = answer
              \/ /\ driveWire[1].by \in Callers /\ answer[driveWire[1].by] = "awaited"
                 /\ answer' = [answer EXCEPT ![driveWire[1].by] = a]
<1>1. driveWire \in Seq(DriveRequest) /\ driveWire # <<>> /\ driveWire' = Tail(driveWire)
  BY DEF Types, WireTypes, DriveTaken
<1>2. Head(driveWire) = driveWire[1] /\ driveWire[1] \in DriveRequest
  BY <1>1, HeadRequest DEF DriveRequest
<1>3. PICK a \in {"ok", "settings", "failed"} : Reply(Head(driveWire), a)
  BY DEF DriveTaken
<1>4. \/ driveWire[1].by = "nobody" /\ answer' = answer
      \/ /\ driveWire[1].by \in Callers /\ answer[driveWire[1].by] = "awaited"
         /\ answer' = [answer EXCEPT ![driveWire[1].by] = a]
  BY <1>1, <1>2, <1>3, HeadRequest DEF Reply, DriveRequest, Who
<1>5. /\ driveWire' \in Seq(DriveRequest) /\ Len(driveWire') = Len(driveWire) - 1
      /\ Len(driveWire) > 0
      /\ \A i \in 1..Len(driveWire') : driveWire'[i] = driveWire[i + 1]
  BY <1>1, HeadTailProperties, LenProperties
<1> QED BY <1>4, <1>5

LEMMA AfterMove ==
  ASSUME Types, OwnerInv, MoveTaken
  PROVE  /\ moveWire' \in Seq(MoveRequest) /\ Len(moveWire') = Len(moveWire) - 1
         /\ Len(moveWire) > 0
         /\ \A i \in 1..Len(moveWire') : moveWire'[i] = moveWire[i + 1]
         /\ \E a \in {"ok", "settings", "failed"} :
              \/ moveWire[1].by = "nobody" /\ answer' = answer
              \/ /\ moveWire[1].by \in Callers /\ answer[moveWire[1].by] = "awaited"
                 /\ answer' = [answer EXCEPT ![moveWire[1].by] = a]
<1>1. moveWire \in Seq(MoveRequest) /\ moveWire # <<>> /\ moveWire' = Tail(moveWire)
  BY DEF Types, WireTypes, MoveTaken
<1>2. Head(moveWire) = moveWire[1] /\ moveWire[1] \in MoveRequest
  BY <1>1, HeadRequest DEF MoveRequest
<1>3. PICK a \in {"ok", "settings", "failed"} : Reply(Head(moveWire), a)
  BY DEF MoveTaken
<1>4. \/ moveWire[1].by = "nobody" /\ answer' = answer
      \/ /\ moveWire[1].by \in Callers /\ answer[moveWire[1].by] = "awaited"
         /\ answer' = [answer EXCEPT ![moveWire[1].by] = a]
  BY <1>1, <1>2, <1>3, HeadRequest DEF Reply, MoveRequest, Who
<1>5. /\ moveWire' \in Seq(MoveRequest) /\ Len(moveWire') = Len(moveWire) - 1
      /\ Len(moveWire) > 0
      /\ \A i \in 1..Len(moveWire') : moveWire'[i] = moveWire[i + 1]
  BY <1>1, HeadTailProperties, LenProperties
<1> QED BY <1>4, <1>5

\* The wires keep their types.
LEMMA WireTypesStep ==
  ASSUME IInv, [Next]_vars
  PROVE  /\ driveWire' \in Seq(DriveRequest) /\ moveWire' \in Seq(MoveRequest)
         /\ Len(driveWire) \in Nat /\ Len(moveWire) \in Nat
<1> USE DEF IInv, Types, WireTypes
<1>1. CASE WiresKept
  BY <1>1 DEF WiresKept
<1>2. ASSUME NEW c \in Callers, NEW m \in Commands, Sent(c, m)
      PROVE  driveWire' \in Seq(DriveRequest) /\ moveWire' \in Seq(MoveRequest)
  BY <1>2, AfterSending
<1>3. ASSUME NEW c \in Callers, CallTimesOut(c)
      PROVE  driveWire' \in Seq(DriveRequest) /\ moveWire' \in Seq(MoveRequest)
  BY <1>3, AfterForgetting
<1>4. CASE ForceEnds
  BY <1>4, AfterExit
<1>5. CASE DriveTaken
  BY <1>5, AfterDrive DEF DriveTaken
<1>6. CASE MoveTaken
  BY <1>6, AfterMove DEF MoveTaken
<1> QED BY <1>1, <1>2, <1>3, <1>4, <1>5, <1>6, Wired DEF WireStep

\* Every caller that is named waits, and is named once.
LEMMA OwnerStep ==
  ASSUME IInv, [Next]_vars
  PROVE  OwnerInv'
<1> USE DEF IInv, OwnerInv
<1>0. answer \in [Callers -> {"none", "awaited", "ok", "settings", "failed"}]
      /\ Len(driveWire) \in Nat /\ Len(moveWire) \in Nat
  BY DEF Types, WireTypes
<1>1. CASE WiresKept
  BY <1>1 DEF WiresKept
<1>2. ASSUME NEW c \in Callers, NEW m \in Commands, Sent(c, m)
      PROVE  OwnerInv'
  <2>1. /\ \A i \in 1..Len(driveWire) : driveWire[i].by # c
        /\ \A i \in 1..Len(moveWire) : moveWire[i].by # c
    BY <1>2 DEF Sent
  <2>2. answer' = [answer EXCEPT ![c] = "awaited"]
    BY <1>2 DEF Sent, PutOnWire
  <2>3. answer'[c] = "awaited" /\ \A d \in Callers : d # c => answer'[d] = answer[d]
    BY <1>0, <2>2
  <2>4. CASE m = Move
    <3>1. /\ driveWire' = driveWire /\ Len(moveWire') = Len(moveWire) + 1
          /\ \A i \in 1..Len(moveWire') : moveWire'[i].by = c <=> i = Len(moveWire) + 1
          /\ \A i \in 1..Len(moveWire') :
               moveWire'[i].by # c => i \in 1..Len(moveWire) /\ moveWire'[i].by = moveWire[i].by
      BY <1>0, <1>2, <2>1, <2>4, AfterSending
    <3> QED BY <1>0, <2>1, <2>3, <3>1
  <2>5. CASE m # Move
    <3>1. /\ moveWire' = moveWire /\ Len(driveWire') = Len(driveWire) + 1
          /\ \A i \in 1..Len(driveWire') : driveWire'[i].by = c <=> i = Len(driveWire) + 1
          /\ \A i \in 1..Len(driveWire') :
               driveWire'[i].by # c => i \in 1..Len(driveWire) /\ driveWire'[i].by = driveWire[i].by
      BY <1>0, <1>2, <2>1, <2>5, AfterSending
    <3> QED BY <1>0, <2>1, <2>3, <3>1
  <2> QED BY <2>4, <2>5
<1>3. ASSUME NEW c \in Callers, CallTimesOut(c)
      PROVE  OwnerInv'
  <2>1. answer' = [answer EXCEPT ![c] = "failed"] /\ c # "nobody"
    BY <1>3 DEF CallTimesOut, Callers
  <2>2. \A d \in Callers : d # "nobody"
    BY DEF Callers
  <2>3. \A d \in Callers : d # c => answer'[d] = answer[d]
    BY <1>0, <2>1
  <2>4. /\ Len(driveWire') = Len(driveWire) /\ Len(moveWire') = Len(moveWire)
        /\ \A i \in 1..Len(driveWire) : \A d \in Callers :
             driveWire'[i].by = d => d # c /\ driveWire[i].by = d
        /\ \A i \in 1..Len(moveWire) : \A d \in Callers :
             moveWire'[i].by = d => d # c /\ moveWire[i].by = d
        /\ \A i \in 1..Len(moveWire) : \A d \in Callers :
             d # c => (moveWire'[i].by = d <=> moveWire[i].by = d)
    BY <1>3, <2>2, AfterForgetting
  <2> QED BY <1>0, <2>3, <2>4
<1>4. CASE ForceEnds
  BY <1>4, AfterExit DEF Callers
<1>5. CASE DriveTaken
  BY <1>0, <1>5, AfterDrive DEF DriveTaken
<1>6. CASE MoveTaken
  BY <1>0, <1>6, AfterMove DEF MoveTaken
<1> QED BY <1>1, <1>2, <1>3, <1>4, <1>5, <1>6, Wired DEF WireStep

\* No more requests are under way than somebody waits for or somebody lost.
LEMMA LengthStep ==
  ASSUME IInv, [Next]_vars
  PROVE  LengthInv'
<1> USE DEF IInv, LengthInv, Awaited
<1>0. answer \in [Callers -> {"none", "awaited", "ok", "settings", "failed"}]
      /\ Len(driveWire) \in Nat /\ Len(moveWire) \in Nat /\ faults \in Nat
  BY BoundsAssumption DEF Types, WireTypes, CountTypes
<1>1. CASE WiresKept
  <2>1. faults' \in Nat
    BY FlagStep, CountStep, BoundsAssumption DEF CountTypes
  <2> QED BY <1>0, <1>1, <2>1 DEF WiresKept, Callers
<1>2. ASSUME NEW c \in Callers, NEW m \in Commands, Sent(c, m)
      PROVE  LengthInv'
  <2>1. /\ answer[c] = "none" /\ answer' = [answer EXCEPT ![c] = "awaited"]
        /\ faults' = faults /\ (forced = "exited" <=> forced' = "exited")
    BY <1>2 DEF Sent, PutOnWire
  <2>2. Len(driveWire') + Len(moveWire') = Len(driveWire) + Len(moveWire) + 1
    BY <1>0, <1>2, AfterSending, SMTT(20)
  <2> QED BY <1>0, <2>1, <2>2 DEF Callers
<1>3. ASSUME NEW c \in Callers, CallTimesOut(c)
      PROVE  LengthInv'
  <2>1. /\ answer' = [answer EXCEPT ![c] = "failed"] /\ faults' = faults + 1
        /\ forced' = forced
    BY <1>3 DEF CallTimesOut, Fault
  <2>2. Len(driveWire') + Len(moveWire') = Len(driveWire) + Len(moveWire)
    BY <1>0, <1>3, AfterForgetting
  <2> QED BY <1>0, <2>1, <2>2 DEF Callers
<1>4. CASE ForceEnds
  <2>1. /\ Awaited("forced") = 0 /\ forced = "exiting" /\ forced' = "exited"
        /\ faults' = faults /\ \A c \in Callers : answer'[c] = "none"
    BY <1>4 DEF ForceEnds, AnswerInv
  <2>2. Awaited("worker") + Awaited("heartbeat") <= 1
    BY DEF LockInv, AnswerInv
  <2>3. Len(driveWire') + Len(moveWire') = Len(driveWire) + Len(moveWire)
    BY <1>0, <1>4, AfterExit
  <2> QED BY <1>0, <2>1, <2>2, <2>3 DEF Callers
<1>5. CASE DriveTaken
  <2>1. Len(driveWire') + Len(moveWire') = Len(driveWire) + Len(moveWire) - 1
    BY <1>0, <1>5, AfterDrive DEF DriveTaken
  <2>2. PICK c \in Callers : \A d \in Callers : d # c => answer'[d] = answer[d]
    BY <1>0, <1>5, AfterDrive DEF Callers
  <2>3. faults' = faults /\ forced' = forced
    BY <1>5 DEF DriveTaken
  <2> QED BY <1>0, <2>1, <2>2, <2>3 DEF Callers
<1>6. CASE MoveTaken
  <2>1. Len(driveWire') + Len(moveWire') = Len(driveWire) + Len(moveWire) - 1
    BY <1>0, <1>6, AfterMove DEF MoveTaken
  <2>2. PICK c \in Callers : \A d \in Callers : d # c => answer'[d] = answer[d]
    BY <1>0, <1>6, AfterMove DEF Callers
  <2>3. faults' = faults /\ forced' = forced
    BY <1>6 DEF MoveTaken
  <2> QED BY <1>0, <2>1, <2>2, <2>3 DEF Callers
<1> QED BY <1>1, <1>2, <1>3, <1>4, <1>5, <1>6, Wired DEF WireStep

\* So do the answers and the dome.
LEMMA AnswerTypeStep ==
  ASSUME IInv, [Next]_vars
  PROVE  /\ answer' \in [Callers -> {"none", "awaited", "ok", "settings", "failed"}]
         /\ dome' \in Percents \cup {0}
<1> USE DEF gateVars, nodeVars, scriptVars, workerVars, beatVars, callVars, pluginVars,
            histVars
<1> USE DEF IInv, Types, WireTypes
<1>1. ASSUME NEW s \in Starters,
             TryClaim(s) \/ ClearAbort(s) \/ Arm(s) \/ RejectStart(s) \/ StartWorker(s)
      PROVE  /\ answer' \in [Callers -> {"none", "awaited", "ok", "settings", "failed"}]
         /\ dome' \in Percents \cup {0}
  BY <1>1 DEF TryClaim, ClaimFree, ClearAbort, Arm, RejectStart, StartWorker
<1>2. CASE WorkerSteps
  BY <1>2 DEF WorkerSteps, NextStep, CheckStopping, TakeLock, LockTimesOut,
     AfterFailure, InCleanup, Fault, EnterGate, GateRefuses, Record, Call, Request,
     PutOnWire, CallSucceeds, Taken, CallFails, RetryCall, StepEnds, SweepStops,
     RetryEnds, Raise, CleanupBegins, StopTries, LookForMove, MoveWaited, Quiet,
     ReleaseClaim
<1>3. CASE BeatSteps
  BY <1>3 DEF BeatSteps, BeatBegins, BeatEnters, BeatAllowed, BeatSends, BeatSkips,
     BeatCalls, Request, PutOnWire, Fault, BeatReturns, Answered, Taken, BeatFailed,
     BeatReports, BeatBeginsStopping, BeatSetsAbort
<1>4. CASE ForceSteps
  BY <1>4 DEF ForceSteps, ForceBegins, ForceLocks, ForceCalls, Request, PutOnWire,
     Fault, ForceReleases, Taken, Answered, ForceEnds
<1>5. CASE AbortCalled \/ AbortReturns
  BY <1>5 DEF AbortCalled, AbortReturns, AbortBeginsStopping, AbortSetsEvent
<1>6. ASSUME NEW c \in Callers, CallTimesOut(c)
      PROVE  /\ answer' \in [Callers -> {"none", "awaited", "ok", "settings", "failed"}]
         /\ dome' \in Percents \cup {0}
  BY <1>6 DEF CallTimesOut, Fault
<1>7. CASE PluginDrives
  <2>1. driveWire # <<>> /\ Head(driveWire) \in DriveRequest
    BY <1>7, HeadRequest DEF IInv, PluginDrives
  <2>2. \E a \in {"ok", "settings", "failed"} : Reply(Head(driveWire), a)
    BY <1>7 DEF PluginDrives, Refusals
  <2> QED BY <1>7, <2>1, <2>2 DEF PluginDrives, Reply, DriveRequest
<1>8. CASE PluginMoves
  <2>1. \E a \in {"ok", "settings", "failed"} : Reply(Head(moveWire), a)
    BY <1>8 DEF PluginMoves, Refusals
  <2> QED BY <1>8, <2>1 DEF PluginMoves, Reply
<1>9. CASE PluginByItself
  BY <1>9 DEF PluginByItself
<1>10. CASE UNCHANGED vars
  BY <1>10 DEF vars
<1> QED
  BY <1>1, <1>2, <1>3, <1>4, <1>5, <1>6, <1>7, <1>8, <1>9, <1>10
     DEF Next, NodeSteps, StartSteps

\* A step that adds at most requests for 0, and none of the worker, keeps it so.
LEMMA ZeroKept ==
  ASSUME ZeroInv, UNCHANGED <<worker, command, dome>>,
         answer'["worker"] = "ok" => answer["worker"] = "ok",
         Len(driveWire) \in Nat, Len(driveWire') \in Nat,
         \A i \in 1..Len(driveWire') : driveWire'[i].percent # 0 =>
           i \in 1..Len(driveWire) /\ driveWire[i].percent # 0,
         \A i \in 1..Len(driveWire') : driveWire'[i].by = "worker" =>
           i \in 1..Len(driveWire) /\ driveWire[i].by = "worker",
         \A i \in 1..Len(moveWire') : moveWire'[i].by = "worker" =>
           i \in 1..Len(moveWire) /\ moveWire[i].by = "worker"
  PROVE  ZeroInv'
<1> SUFFICES ASSUME worker = "wait", command = 0
             PROVE  ZeroInv'
  BY DEF ZeroInv
<1>1. \A k \in 1..Len(moveWire') : moveWire'[k].by # "worker"
  BY DEF ZeroInv
<1>2. ASSUME NEW i \in 1..Len(driveWire'), driveWire'[i].by = "worker",
             NEW k \in i..Len(driveWire'), driveWire'[k].percent # 0
      PROVE  FALSE
  <2>1. i \in 1..Len(driveWire) /\ driveWire[i].by = "worker" /\ k \in 1..Len(driveWire')
    BY <1>2
  <2>2. k \in i..Len(driveWire) /\ driveWire[k].percent # 0
    BY <1>2, <2>1
  <2> QED BY <2>1, <2>2 DEF ZeroInv
<1>3. ASSUME answer'["worker"] = "ok"
      PROVE  dome' = 0 /\ \A i \in 1..Len(driveWire') : driveWire'[i].percent = 0
  <2>1. dome = 0 /\ \A i \in 1..Len(driveWire) : driveWire[i].percent = 0
    BY <1>3 DEF ZeroInv
  <2> QED BY <2>1
<1> QED BY <1>1, <1>2, <1>3 DEF ZeroInv

\* Nothing but 0 is behind a 0 that the worker waits for.
LEMMA ZeroStep ==
  ASSUME IInv, [Next]_vars
  PROVE  ZeroInv'
<1> USE DEF gateVars, nodeVars, scriptVars, workerVars, beatVars, callVars, pluginVars,
            histVars
<1> USE DEF IInv, Types, WireTypes, PcTypes, CommandTypes, ZeroInv
<1>1. ASSUME NEW s \in Starters,
             TryClaim(s) \/ ClearAbort(s) \/ Arm(s) \/ RejectStart(s) \/ StartWorker(s)
      PROVE  ZeroInv'
  BY <1>1 DEF TryClaim, ClaimFree, ClearAbort, Arm, RejectStart, StartWorker
<1>2. CASE WorkerSteps
  <2>1. CASE NextStep
    BY <2>1 DEF NextStep
  <2>2. CASE CheckStopping
    BY <2>2 DEF CheckStopping
  <2>3. CASE TakeLock
    BY <2>3 DEF TakeLock
  <2>4. CASE LockTimesOut
    BY <2>4 DEF LockTimesOut, AfterFailure, InCleanup, Fault
  <2>5. CASE EnterGate
    BY <2>5 DEF EnterGate, GateRefuses, Record
  <2>6. CASE Call
    <3>0. ASSUME command = 0
          PROVE  ZeroInv'
      <4>1. CASE PutOnWire("worker", command) /\ UNCHANGED faults
        <5>1. Sent("worker", command) /\ "worker" \in Callers /\ command \in Commands
          BY <2>6, <4>1, MoveAssumption DEF Call, Sent, AnswerInv, Callers, Commands
        <5>2. answer' = [answer EXCEPT !["worker"] = "awaited"]
          BY <4>1 DEF PutOnWire
        <5>3. /\ command # Move /\ moveWire' = moveWire
              /\ \A i \in 1..Len(driveWire) : driveWire[i].by # "worker"
              /\ \A i \in 1..Len(moveWire) : moveWire[i].by # "worker"
          BY <3>0, <5>1, AfterZero, MoveAssumption DEF Sent, OwnerInv
        <5>4. /\ \A i \in 1..Len(driveWire') : driveWire'[i].by = "worker" => i = Len(driveWire')
              /\ driveWire'[Len(driveWire')].percent = 0 /\ Len(driveWire') \in Nat
          BY <3>0, <5>1, <5>3, AfterZero
        <5> QED BY <2>6, <3>0, <5>1, <5>2, <5>3, <5>4 DEF Call
      <4>2. CASE Fault /\ answer' = [answer EXCEPT !["worker"] = "failed"]
                 /\ UNCHANGED <<driveWire, moveWire>>
        BY <2>6, <3>0, <4>2 DEF Call, OwnerInv, AnswerInv, Callers
      <4> QED BY <2>6, <4>1, <4>2 DEF Call, Request
    <3> QED BY <2>6, <3>0 DEF Call
  <2>7. CASE CallSucceeds
    BY <2>7 DEF CallSucceeds, Taken, InCleanup
  <2>8. CASE CallFails
    BY <2>8 DEF CallFails, AfterFailure, Taken, InCleanup
  <2>9. CASE RetryCall
    BY <2>9 DEF RetryCall
  <2>10. CASE StepEnds
    BY <2>10 DEF StepEnds
  <2>11. CASE SweepStops
    BY <2>11 DEF SweepStops, RetryEnds, Raise
  <2>12. CASE CleanupBegins
    BY <2>12 DEF CleanupBegins, StopTries
  <2>13. CASE LookForMove
    BY <2>13 DEF LookForMove
  <2>14. CASE MoveWaited
    BY <2>14 DEF MoveWaited
  <2>15. CASE Quiet
    BY <2>15 DEF Quiet
  <2>16. CASE ReleaseClaim
    BY <2>16 DEF ReleaseClaim
  <2> QED BY <1>2, <2>1, <2>2, <2>3, <2>4, <2>5, <2>6, <2>7, <2>8, <2>9, <2>10, <2>11,
       <2>12, <2>13, <2>14, <2>15, <2>16 DEF WorkerSteps
<1>3. CASE BeatSteps
  <2>1. CASE BeatBegins
    BY <2>1 DEF BeatBegins
  <2>2. CASE BeatEnters
    BY <2>2 DEF BeatEnters, BeatAllowed, BeatSends
  <2>3. CASE BeatSkips
    BY <2>3 DEF BeatSkips
  <2>4. CASE BeatCalls
    BY <2>4 DEF BeatCalls, LockInv
  <2>5. CASE BeatReturns
    BY <2>5 DEF BeatReturns, Answered, Taken
  <2>6. CASE BeatFailed
    BY <2>6 DEF BeatFailed, BeatReports
  <2>7. CASE BeatBeginsStopping
    BY <2>7 DEF BeatBeginsStopping
  <2>8. CASE BeatSetsAbort
    BY <2>8 DEF BeatSetsAbort
  <2> QED BY <1>3, <2>1, <2>2, <2>3, <2>4, <2>5, <2>6, <2>7, <2>8 DEF BeatSteps
<1>4. CASE ForceSteps
  <2>1. CASE ForceBegins
    BY <2>1 DEF ForceBegins
  <2>2. CASE ForceLocks
    BY <2>2 DEF ForceLocks
  <2>3. CASE ForceCalls
    <3>1. CASE PutOnWire("forced", 0) /\ UNCHANGED faults
      <4>1. Sent("forced", 0) /\ "forced" \in Callers /\ 0 \in Commands
        BY <2>3, <3>1, MoveAssumption DEF ForceCalls, Sent, AnswerInv, Callers, Commands
      <4>2. answer' = [answer EXCEPT !["forced"] = "awaited"]
        BY <3>1 DEF PutOnWire
      <4>3. /\ moveWire' = moveWire /\ UNCHANGED <<worker, command, dome>>
            /\ answer'["worker"] = answer["worker"]
        BY <2>3, <4>1, <4>2, AfterZero DEF ForceCalls
      <4>4. \A i \in 1..Len(driveWire') :
              /\ driveWire'[i].percent # 0 =>
                   i \in 1..Len(driveWire) /\ driveWire[i].percent # 0
              /\ driveWire'[i].by = "worker" =>
                   i \in 1..Len(driveWire) /\ driveWire[i].by = "worker"
        BY <4>1, AfterZero
      <4>5. Len(driveWire) \in Nat /\ Len(driveWire') \in Nat
        BY <4>1, AfterZero
      <4> HIDE DEF ZeroInv
      <4> QED BY <4>3, <4>4, <4>5, ZeroKept
    <3>2. CASE Fault /\ answer' = [answer EXCEPT !["forced"] = "failed"]
               /\ UNCHANGED <<driveWire, moveWire>>
      BY <2>3, <3>2 DEF ForceCalls
    <3> QED BY <2>3, <3>1, <3>2 DEF ForceCalls, Request
  <2>4. CASE ForceReleases
    BY <2>4 DEF ForceReleases, Answered, Taken
  <2>5. CASE ForceEnds
    BY <2>5 DEF ForceEnds
  <2> QED BY <1>4, <2>1, <2>2, <2>3, <2>4, <2>5 DEF ForceSteps
<1>5. CASE AbortCalled \/ AbortReturns
  BY <1>5 DEF AbortCalled, AbortReturns, AbortBeginsStopping, AbortSetsEvent
<1>6. ASSUME NEW c \in Callers, CallTimesOut(c)
      PROVE  ZeroInv'
  <2>1. answer' = [answer EXCEPT ![c] = "failed"] /\ UNCHANGED <<worker, command, dome>>
    BY <1>6 DEF CallTimesOut
  <2>2. answer'["worker"] = "ok" => answer["worker"] = "ok"
    BY <2>1
  <2>3. \A i \in 1..Len(driveWire) : driveWire'[i].by = "worker" => driveWire[i].by = "worker"
    BY <1>6, AfterForgetting
  <2>4. \A i \in 1..Len(moveWire) : moveWire'[i].by = "worker" => moveWire[i].by = "worker"
    BY <1>6, AfterForgetting
  <2>5. /\ Len(driveWire') = Len(driveWire) /\ Len(moveWire') = Len(moveWire)
        /\ \A i \in 1..Len(driveWire) : driveWire'[i].percent = driveWire[i].percent
    BY <1>6, AfterForgetting
  <2>6. Len(driveWire) \in Nat
    OBVIOUS
  <2> HIDE DEF ZeroInv
  <2> QED BY <2>1, <2>2, <2>3, <2>4, <2>5, <2>6, ZeroKept
<1>7. CASE PluginDrives
  <2>0. driveWire # <<>> /\ Head(driveWire) = driveWire[1]
    BY <1>7 DEF PluginDrives
  <2>1. DriveTaken
    <3>1. \E a \in {"ok", "settings", "failed"} : Reply(Head(driveWire), a)
      BY <1>7 DEF PluginDrives, Refusals
    <3> QED BY <1>7, <3>1 DEF PluginDrives, DriveTaken
  <2>2. /\ Len(driveWire') = Len(driveWire) - 1 /\ Len(driveWire) > 0
        /\ \A i \in 1..Len(driveWire') : driveWire'[i] = driveWire[i + 1]
        /\ UNCHANGED <<moveWire, worker, command>>
    BY <1>7, <2>1, AfterDrive DEF PluginDrives
  <2>3. driveWire[1].by # "worker" => answer'["worker"] = answer["worker"]
    BY <2>1, AfterDrive DEF Callers
  <2>4. dome' = driveWire[1].percent \/ (dome' = dome /\ answer'["worker"] # "ok")
                                    \/ (dome' = dome /\ driveWire[1].by # "worker")
    <3>1. CASE dome' = Head(driveWire).percent
      BY <3>1, <2>0
    <3>2. CASE dome' = dome /\ \E a \in Refusals(driveWire[1]) : Reply(driveWire[1], a)
      BY <3>2 DEF Refusals, Reply, Callers
    <3> QED BY <1>7, <2>0, <3>1, <3>2 DEF PluginDrives
  <2>5. SUFFICES ASSUME worker = "wait", command = 0
                 PROVE  ZeroInv'
    BY <2>2
  <2>6. CASE driveWire[1].by = "worker"
    <3>1. \A k \in 1..Len(driveWire) : driveWire[k].percent = 0
      BY <2>2, <2>5, <2>6
    <3>2. \A k \in 1..Len(driveWire') : driveWire'[k].by # "worker"
      BY <2>2, <2>6 DEF OwnerInv, Callers
    <3> QED BY <2>2, <2>4, <2>5, <2>6, <3>1, <3>2
  <2>7. CASE driveWire[1].by # "worker"
    <3>1. \A i \in 1..Len(driveWire') : driveWire'[i].by = "worker" =>
            \A k \in i..Len(driveWire') : driveWire'[k].percent = 0
      <4> SUFFICES ASSUME NEW i \in 1..Len(driveWire'), driveWire'[i].by = "worker",
                          NEW k \in i..Len(driveWire')
                   PROVE  driveWire'[k].percent = 0
        OBVIOUS
      <4>1. /\ i + 1 \in 1..Len(driveWire) /\ k + 1 \in (i + 1)..Len(driveWire)
            /\ k \in 1..Len(driveWire')
        BY <2>2
      <4>2. driveWire[i + 1].by = "worker" /\ driveWire'[k] = driveWire[k + 1]
        BY <2>2, <4>1
      <4> QED BY <2>5, <4>1, <4>2
    <3>2. ASSUME answer'["worker"] = "ok"
          PROVE  dome' = 0 /\ \A i \in 1..Len(driveWire') : driveWire'[i].percent = 0
      <4>1. dome = 0 /\ \A i \in 1..Len(driveWire) : driveWire[i].percent = 0
        BY <2>3, <2>5, <2>7, <3>2
      <4> QED BY <2>2, <2>4, <4>1
    <3> QED BY <2>2, <2>5, <3>1, <3>2
  <2> QED BY <2>6, <2>7
<1>8. CASE PluginMoves
  <2>1. MoveTaken
    <3>1. \E a \in {"ok", "settings", "failed"} : Reply(Head(moveWire), a)
      BY <1>8 DEF PluginMoves, Refusals
    <3> QED BY <1>8, <3>1 DEF PluginMoves, MoveTaken
  <2>2. UNCHANGED <<driveWire, dome, worker, command>>
    BY <1>8 DEF PluginMoves
  <2>3. /\ \A i \in 1..Len(moveWire') : moveWire'[i] = moveWire[i + 1] /\ i + 1 \in 1..Len(moveWire)
        /\ Len(moveWire) > 0
    BY <2>1, AfterMove
  <2>4. moveWire[1].by # "worker" => answer'["worker"] = answer["worker"]
    BY <2>1, AfterMove DEF Callers
  <2>5. SUFFICES ASSUME worker = "wait", command = 0
                 PROVE  ZeroInv'
    BY <2>2
  <2>6. moveWire[1].by # "worker"
    BY <2>3, <2>5
  <2> QED BY <2>2, <2>3, <2>4, <2>5, <2>6
<1>9. CASE PluginByItself
  BY <1>9 DEF PluginByItself
<1>10. CASE UNCHANGED vars
  BY <1>10 DEF vars
<1> QED
  BY <1>1, <1>2, <1>3, <1>4, <1>5, <1>6, <1>7, <1>8, <1>9, <1>10
     DEF Next, NodeSteps, StartSteps

\* A stop that was confirmed stays the last word.
LEMMA StopStep ==
  ASSUME IInv, [Next]_vars
  PROVE  StopIsLast'
<1> USE DEF gateVars, nodeVars, scriptVars, workerVars, beatVars, callVars, pluginVars,
            histVars
<1> USE DEF IInv, Types, WireTypes, PcTypes, CommandTypes, StopIsLast
<1>1. ASSUME NEW s \in Starters,
             TryClaim(s) \/ ClearAbort(s) \/ Arm(s) \/ RejectStart(s) \/ StartWorker(s)
      PROVE  StopIsLast'
  BY <1>1 DEF TryClaim, ClaimFree, ClearAbort, Arm, RejectStart, StartWorker
<1>2. CASE WorkerSteps
  <2>1. CASE NextStep
    BY <2>1 DEF NextStep
  <2>2. CASE CheckStopping
    BY <2>2 DEF CheckStopping
  <2>3. CASE TakeLock
    BY <2>3 DEF TakeLock
  <2>4. CASE LockTimesOut
    BY <2>4 DEF LockTimesOut, AfterFailure, InCleanup, Fault
  <2>5. CASE EnterGate
    BY <2>5 DEF EnterGate, GateRefuses, Record
  <2>6. CASE Call
    <3>1. CASE PutOnWire("worker", command) /\ UNCHANGED faults
      <4>1. Sent("worker", command) /\ "worker" \in Callers /\ command \in Commands
        BY <2>6, <3>1, MoveAssumption DEF Call, Sent, AnswerInv, Callers, Commands
      <4>2. answer' = [answer EXCEPT !["worker"] = "awaited"]
        BY <3>1 DEF PutOnWire
      <4>3. CASE command = 0
        <5>1. Sent("worker", 0)
          BY <4>1, <4>3
        <5> QED BY <2>6, <4>3, <5>1, AfterZero DEF Call, Callers
      <4>4. CASE command # 0
        BY <2>6, <4>4 DEF Call
      <4> QED BY <4>3, <4>4
    <3>2. CASE Fault /\ answer' = [answer EXCEPT !["worker"] = "failed"]
               /\ UNCHANGED <<driveWire, moveWire>>
      BY <2>6, <3>2 DEF Call
    <3> QED BY <2>6, <3>1, <3>2 DEF Call, Request
  <2>7. CASE CallSucceeds
    BY <2>7 DEF CallSucceeds, Taken, ZeroInv
  <2>8. CASE CallFails
    BY <2>8 DEF CallFails, AfterFailure, Taken, InCleanup
  <2>9. CASE RetryCall
    BY <2>9 DEF RetryCall
  <2>10. CASE StepEnds
    BY <2>10 DEF StepEnds
  <2>11. CASE SweepStops
    BY <2>11 DEF SweepStops, RetryEnds, Raise
  <2>12. CASE CleanupBegins
    BY <2>12 DEF CleanupBegins, StopTries
  <2>13. CASE LookForMove
    BY <2>13 DEF LookForMove
  <2>14. CASE MoveWaited
    BY <2>14 DEF MoveWaited
  <2>15. CASE Quiet
    BY <2>15 DEF Quiet
  <2>16. CASE ReleaseClaim
    BY <2>16 DEF ReleaseClaim
  <2> QED BY <1>2, <2>1, <2>2, <2>3, <2>4, <2>5, <2>6, <2>7, <2>8, <2>9, <2>10, <2>11,
       <2>12, <2>13, <2>14, <2>15, <2>16 DEF WorkerSteps
<1>3. CASE BeatSteps
  <2>1. CASE BeatBegins
    BY <2>1 DEF BeatBegins
  <2>2. CASE BeatEnters
    BY <2>2 DEF BeatEnters, BeatAllowed, BeatSends
  <2>3. CASE BeatSkips
    BY <2>3 DEF BeatSkips
  <2>4. CASE BeatCalls
    <3>1. CASE PutOnWire("heartbeat", beat) /\ UNCHANGED faults
      <4>1. Sent("heartbeat", beat) /\ "heartbeat" \in Callers /\ beat \in Commands
        BY <2>4, <3>1, MoveAssumption DEF BeatCalls, Sent, AnswerInv, Callers, Commands
      <4>2. answer' = [answer EXCEPT !["heartbeat"] = "awaited"]
        BY <3>1 DEF PutOnWire
      <4>3. still => beat \in {0, Move}
        BY <2>4 DEF BeatCalls, RecordInv
      <4> QED BY <2>4, <4>1, <4>3, AfterSending DEF BeatCalls
    <3>2. CASE Fault /\ answer' = [answer EXCEPT !["heartbeat"] = "failed"]
               /\ UNCHANGED <<driveWire, moveWire>>
      BY <2>4, <3>2 DEF BeatCalls
    <3> QED BY <2>4, <3>1, <3>2 DEF BeatCalls, Request
  <2>5. CASE BeatReturns
    BY <2>5 DEF BeatReturns, Answered, Taken
  <2>6. CASE BeatFailed
    BY <2>6 DEF BeatFailed, BeatReports
  <2>7. CASE BeatBeginsStopping
    BY <2>7 DEF BeatBeginsStopping
  <2>8. CASE BeatSetsAbort
    BY <2>8 DEF BeatSetsAbort
  <2> QED BY <1>3, <2>1, <2>2, <2>3, <2>4, <2>5, <2>6, <2>7, <2>8 DEF BeatSteps
<1>4. CASE ForceSteps
  <2>1. CASE ForceBegins
    BY <2>1 DEF ForceBegins
  <2>2. CASE ForceLocks
    BY <2>2 DEF ForceLocks
  <2>3. CASE ForceCalls
    <3>1. CASE PutOnWire("forced", 0) /\ UNCHANGED faults
      <4>1. Sent("forced", 0) /\ "forced" \in Callers /\ 0 \in Commands
        BY <2>3, <3>1, MoveAssumption DEF ForceCalls, Sent, AnswerInv, Callers, Commands
      <4>2. answer' = [answer EXCEPT !["forced"] = "awaited"]
        BY <3>1 DEF PutOnWire
      <4> QED BY <2>3, <4>1, AfterSending, MoveAssumption DEF ForceCalls
    <3>2. CASE Fault /\ answer' = [answer EXCEPT !["forced"] = "failed"]
               /\ UNCHANGED <<driveWire, moveWire>>
      BY <2>3, <3>2 DEF ForceCalls
    <3> QED BY <2>3, <3>1, <3>2 DEF ForceCalls, Request
  <2>4. CASE ForceReleases
    BY <2>4 DEF ForceReleases, Taken
  <2>5. CASE ForceEnds
    BY <2>5, AfterExit DEF ForceEnds
  <2> QED BY <1>4, <2>1, <2>2, <2>3, <2>4, <2>5 DEF ForceSteps
<1>5. CASE AbortCalled \/ AbortReturns
  BY <1>5 DEF AbortCalled, AbortReturns, AbortBeginsStopping, AbortSetsEvent
<1>6. ASSUME NEW c \in Callers, CallTimesOut(c)
      PROVE  StopIsLast'
  <2>1. /\ Len(driveWire') = Len(driveWire)
        /\ \A i \in 1..Len(driveWire) : driveWire'[i].percent = driveWire[i].percent
    BY <1>6, AfterForgetting
  <2>2. UNCHANGED <<still, dome>>
    BY <1>6 DEF CallTimesOut
  <2> QED BY <2>1, <2>2
<1>7. CASE PluginDrives
  <2>1. DriveTaken
    <3>1. \E a \in {"ok", "settings", "failed"} : Reply(Head(driveWire), a)
      BY <1>7 DEF PluginDrives, Refusals
    <3> QED BY <1>7, <3>1 DEF PluginDrives, DriveTaken
  <2>2. Head(driveWire) = driveWire[1] /\ 1 \in 1..Len(driveWire)
    BY <1>7 DEF PluginDrives
  <2> QED BY <1>7, <2>1, <2>2, AfterDrive DEF PluginDrives
<1>8. CASE PluginMoves
  BY <1>8 DEF PluginMoves, Reply, Refusals
<1>9. CASE PluginByItself
  BY <1>9 DEF PluginByItself
<1>10. CASE UNCHANGED vars
  BY <1>10 DEF vars
<1> QED
  BY <1>1, <1>2, <1>3, <1>4, <1>5, <1>6, <1>7, <1>8, <1>9, <1>10
     DEF Next, NodeSteps, StartSteps

\* A step that is held is kept alive, or the sweep is about to end.
LEMMA HoldStep ==
  ASSUME IInv, HoldIsKeptAlive, [Next]_vars
  PROVE  HoldIsKeptAlive'
<1> USE DEF gateVars, nodeVars, scriptVars, workerVars, beatVars, callVars, pluginVars,
            histVars
<1> USE MoveAssumption, PercentsAssumption
        DEF IInv, Types, PcTypes, CommandTypes, LockInv, ClaimInv, RecordInv,
            HoldIsKeptAlive
<1>1. ASSUME NEW s \in Starters,
             TryClaim(s) \/ ClearAbort(s) \/ Arm(s) \/ RejectStart(s) \/ StartWorker(s)
      PROVE  HoldIsKeptAlive'
  BY <1>1 DEF TryClaim, ClaimFree, ClearAbort, Arm, RejectStart, StartWorker
<1>2. CASE WorkerSteps
  <2>1. CASE NextStep
    BY <2>1 DEF NextStep
  <2>2. CASE CheckStopping
    BY <2>2 DEF CheckStopping
  <2>3. CASE TakeLock
    BY <2>3 DEF TakeLock
  <2>4. CASE LockTimesOut
    BY <2>4 DEF LockTimesOut, AfterFailure, InCleanup, Fault
  <2>5. CASE EnterGate
    BY <2>5 DEF EnterGate, GateRefuses, Record
  <2>6. CASE Call
    BY <2>6 DEF Call, Request, PutOnWire, Fault
  <2>7. CASE CallSucceeds
    BY <2>7 DEF CallSucceeds, Taken, InCleanup
  <2>8. CASE CallFails
    BY <2>8 DEF CallFails, AfterFailure, Taken, InCleanup
  <2>9. CASE RetryCall
    BY <2>9 DEF RetryCall
  <2>10. CASE StepEnds
    BY <2>10 DEF StepEnds
  <2>11. CASE SweepStops
    BY <2>11 DEF SweepStops, RetryEnds, Raise
  <2>12. CASE CleanupBegins
    BY <2>12 DEF CleanupBegins, StopTries
  <2>13. CASE LookForMove
    BY <2>13 DEF LookForMove
  <2>14. CASE MoveWaited
    BY <2>14 DEF MoveWaited
  <2>15. CASE Quiet
    BY <2>15 DEF Quiet
  <2>16. CASE ReleaseClaim
    BY <2>16 DEF ReleaseClaim
  <2> QED BY <1>2, <2>1, <2>2, <2>3, <2>4, <2>5, <2>6, <2>7, <2>8, <2>9, <2>10, <2>11,
       <2>12, <2>13, <2>14, <2>15, <2>16 DEF WorkerSteps
<1>3. CASE BeatSteps
  <2>1. CASE BeatBegins
    BY <2>1 DEF BeatBegins
  <2>2. CASE BeatEnters
    BY <2>2 DEF BeatEnters, BeatAllowed, BeatSends
  <2>3. CASE BeatSkips
    BY <2>3 DEF BeatSkips
  <2>4. CASE BeatCalls
    BY <2>4 DEF BeatCalls, Request, PutOnWire, Fault
  <2>5. CASE BeatReturns
    BY <2>5 DEF BeatReturns, Answered, Taken
  <2>6. CASE BeatFailed
    BY <2>6 DEF BeatFailed, BeatReports
  <2>7. CASE BeatBeginsStopping
    BY <2>7 DEF BeatBeginsStopping
  <2>8. CASE BeatSetsAbort
    BY <2>8 DEF BeatSetsAbort
  <2> QED BY <1>3, <2>1, <2>2, <2>3, <2>4, <2>5, <2>6, <2>7, <2>8 DEF BeatSteps
<1>4. CASE ForceSteps
  BY <1>4 DEF ForceSteps, ForceBegins, ForceLocks, ForceCalls, Request, PutOnWire,
     Fault, ForceReleases, Taken, Answered, ForceEnds
<1>5. CASE AbortCalled \/ AbortReturns
  BY <1>5 DEF AbortCalled, AbortReturns, AbortBeginsStopping, AbortSetsEvent
<1>6. ASSUME NEW c \in Callers, CallTimesOut(c)
      PROVE  HoldIsKeptAlive'
  BY <1>6 DEF CallTimesOut, Fault
<1>7. CASE PluginDrives
  BY <1>7 DEF PluginDrives, Reply, Refusals
<1>8. CASE PluginMoves
  BY <1>8 DEF PluginMoves, Reply, Refusals
<1>9. CASE PluginByItself
  BY <1>9 DEF PluginByItself
<1>10. CASE UNCHANGED vars
  BY <1>10 DEF vars
<1> QED
  BY <1>1, <1>2, <1>3, <1>4, <1>5, <1>6, <1>7, <1>8, <1>9, <1>10
     DEF Next, NodeSteps, StartSteps

-----------------------------------------------------------------------------
(* The theorems.                                                            *)

\* The node starts in a state in which everything rests.
LEMMA IInvInit == Init => IInv /\ HoldIsKeptAlive
<1> SUFFICES ASSUME Init PROVE IInv /\ HoldIsKeptAlive
  OBVIOUS
<1> USE DEF Init
<1>1. PcTypes /\ FlagTypes /\ CountTypes
  <2>1. PcTypes
    BY DEF PcTypes
  <2>2. FlagTypes
    BY DEF FlagTypes
  <2>3. CountTypes
    BY BoundsAssumption DEF CountTypes, StopTries
  <2> QED BY <2>1, <2>2, <2>3
<1>2. CommandTypes /\ WireTypes
  BY DEF CommandTypes, WireTypes, Commands
<1>3. LockInv /\ ClaimInv /\ AnswerInv /\ OwnerInv /\ LengthInv
  BY DEF LockInv, ClaimInv, AnswerInv, OwnerInv, LengthInv, Awaited, Callers
<1>4. ZeroInv /\ RecordInv /\ StopIsLast /\ HoldIsKeptAlive
  BY DEF ZeroInv, RecordInv, StopIsLast, HoldIsKeptAlive
<1> QED BY <1>1, <1>2, <1>3, <1>4 DEF IInv, Types

LEMMA IInvStep ==
  ASSUME IInv, [Next]_vars
  PROVE  IInv'
<1>1. Types
  BY DEF IInv
<1>2. PcTypes' /\ FlagTypes' /\ CountTypes' /\ CommandTypes'
  BY <1>1, PcStep, FlagStep, CountStep, CommandStep
<1>3. WireTypes'
  BY WireTypesStep, AnswerTypeStep DEF WireTypes
<1>4. LockInv' /\ ClaimInv' /\ AnswerInv' /\ OwnerInv' /\ LengthInv'
  BY LockStep, ClaimStep, AnswerStep, OwnerStep, LengthStep
<1>5. ZeroInv' /\ RecordInv' /\ StopIsLast'
  BY ZeroStep, RecordStep, StopStep
<1> QED BY <1>2, <1>3, <1>4, <1>5 DEF IInv, Types

LEMMA IInvariant == Spec => []IInv
<1>1. Init => IInv
  BY IInvInit
<1>2. IInv /\ [Next]_vars => IInv'
  BY IInvStep
<1> QED BY <1>1, <1>2, PTL DEF Spec

\* Every variable keeps its type.  At most one of the worker and the heartbeat
\* waits for an answer, for both send under the lock, so the wires hold no more
\* requests than were lost and two more.
THEOREM TypeCorrect == Spec => []TypeOK
<1>1. ASSUME IInv
      PROVE  TypeOK
  <2> USE DEF IInv
  <2>1. Len(driveWire) + Len(moveWire) <= MaxFaults + 2
    <3>1. Awaited("worker") + Awaited("heartbeat") <= 1
      BY <1>1 DEF LockInv, AnswerInv, Awaited
    <3>2. Awaited("forced") + (IF forced = "exited" THEN 1 ELSE 0) <= 1
      BY <1>1 DEF AnswerInv, Awaited
    <3>3. /\ Awaited("worker") \in Nat /\ Awaited("heartbeat") \in Nat
          /\ Awaited("forced") \in Nat
      BY DEF Awaited
    <3>4. Len(driveWire) \in Nat /\ Len(moveWire) \in Nat /\ faults \in 0..MaxFaults
      BY <1>1 DEF Types, WireTypes, CountTypes
    <3> HIDE DEF Awaited
    <3> QED BY <1>1, <3>1, <3>2, <3>3, <3>4, BoundsAssumption DEF LengthInv
  <2> QED BY <1>1, <2>1
     DEF Types, PcTypes, FlagTypes, CountTypes, CommandTypes, WireTypes, Who, DriveRequest,
         MoveRequest, TypeOK
<1> QED BY <1>1, IInvariant, PTL

\* After the plugin has confirmed the worker's 0 the dome rests, and nothing that
\* would turn it is under way: no heartbeat, no late request and no other sweep
\* starts it again before the worker itself drives.
THEOREM StopIsTheLastWord == Spec => []StopIsLast
<1>1. IInv => StopIsLast
  BY DEF IInv
<1> QED BY <1>1, IInvariant, PTL

\* A held step is kept alive by the heartbeat, or somebody has noticed: the
\* record is not lost without the sweep being stopped.
THEOREM HeldStepIsKeptAlive == Spec => []HoldIsKeptAlive
<1>1. Init => HoldIsKeptAlive
  BY IInvInit
<1>2. IInv /\ HoldIsKeptAlive /\ [Next]_vars => HoldIsKeptAlive'
  BY HoldStep
<1> QED BY <1>1, <1>2, IInvariant, PTL DEF Spec

\* A worker is started only where none runs: the claim is let go by the worker
\* after its cleanup, and by nobody else.
THEOREM OneSweepAtATime == Spec => OneWorker
<1> DEFINE Kept == \A s \in Starters : starter[s] = "prepare" /\ starter'[s] = "idle" /\ claimHeld'
                     => worker = "idle"
<1>1. IInv /\ [Next]_vars => [Kept]_vars
  BY DEF IInv, ClaimInv
<1> QED BY <1>1, IInvariant, PTL DEF Spec, OneWorker

================================================================================
