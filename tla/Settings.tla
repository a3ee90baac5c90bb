-------------------------------- MODULE Settings --------------------------------
(***************************************************************************)
(* A setting's way to the dome controller and back: set_parameters and     *)
(* set_home_here queue a write, write() sends it and waits for the         *)
(* firmware's answer, handleSendQueueFeedback settles it, a config dump    *)
(* brings what the firmware holds back into the ROS parameters, and        *)
(* /diagnostics tells how many writes are pending, acknowledged and timed  *)
(* out.  The bench node lives on all of these: before a sweep it writes    *)
(* the raw motor settings, afterwards it restores the old ones, and it     *)
(* judges from the diagnostics and the parameters whether it succeeded.    *)
(*                                                                         *)
(* Two host threads: the executor runs the parameter, service and timer    *)
(* callbacks one at a time, the controller manager runs write() and        *)
(* read().  One write() is one step here; the steps inside it are those of *)
(* MotionControl.  The bench node's worker is a process of its own.        *)
(*                                                                         *)
(* A definition Name_Variant, placed before Name, is Name with a plausible *)
(* mistake in it; no other definition uses it.                             *)
(***************************************************************************)
EXTENDS DeviceParameters, Sequences, FiniteSets

CONSTANTS
  Settings,      \* the parameters that take part
  Saved,         \* SAVED_SETTINGS of the bench node
  RawSettings,   \* RAW_MOTOR_SETTINGS: a sequence of <<setting, parameter>>
  Calls,         \* what operators set, as such sequences
  HomeHere,      \* the dome angle at which set_home_here is called
  Initial,       \* what the device may hold at the start
  NoWrite,       \* no write is at the device
  NoCounters,    \* the bench node has no counters to compare with
  Faults,        \* the kinds of fault that happen
  MaxEvents,     \* bound: faults and calls of operators
  CountRefreshes, \* bound: so are periodic refreshes while the bench node is at work
  MaxQueue       \* bound: calls and refreshes come while the queue is shorter

ASSUME SettingsAssumption ==
  /\ Settings \subseteq Field /\ HomeHere \in 0..359
  /\ Saved \subseteq Settings /\ \A f \in Saved : IsWritable(f) /\ WriteMin(f) = 0
  /\ Initial \subseteq [Settings -> Nat]
  /\ \A holds \in Initial, f \in Settings : holds[f] <= MaxValue(f)
ASSUME NoWriteAssumption == NoWrite \notin [kind : {"write"}, name : Settings, n : Int]
ASSUME NoCountersAssumption == NoCounters \notin [pending : Nat, acks : Nat, timeouts : Nat]
ASSUME CallsAssumption ==
  \A call \in Calls \cup {RawSettings} :
    /\ call \in Seq(Settings \X ParameterValue)
    /\ call = RawSettings => \A i \in DOMAIN call : call[i][1] \in Saved
\* RAW_MOTOR_SETTINGS names each setting once, with a value that is accepted.
ASSUME RawAssumption ==
  \A i \in DOMAIN RawSettings :
    /\ Accepts(RawSettings[i][1], RawSettings[i][2])
    /\ \A j \in DOMAIN RawSettings : RawSettings[i][1] = RawSettings[j][1] => i = j
ASSUME FaultsAssumption ==
  /\ Faults \subseteq {"send", "command", "line", "refresh", "partial",
                "late", "slow", "stop", "silent"}
  /\ MaxEvents \in Nat /\ CountRefreshes \in BOOLEAN /\ MaxQueue \in Nat

VARIABLES
  \* the host: ROS parameters, send queue, counters, the bench's claim
  param, queue, active, stage, acks, timeouts, claim,
  \* the firmware and the wire
  device, toDevice, toHost,
  stored,        \* the device has executed the active write (history)
  \* the bench node's worker and what it knows
  pc, phase, before, todo, written, baseline, diag, fresh, restored,
  \* a set_parameters request of the bench node that it no longer waits for
  late,
  events,
  misled,        \* what was wrong in the picture the restore began from (history)
  meddled        \* a call of another was accepted since the bench began (history)

hostVars   == <<param, queue, active, stage, acks, timeouts, claim>>
wireVars   == <<device, toDevice, toHost, stored>>
reportVars == <<diag, fresh>>
benchVars  == <<pc, phase, before, todo, written, baseline, restored>>
callVars   == <<meddled, misled>>
vars == <<hostVars, wireVars, reportVars, benchVars, late, events, callVars>>

-----------------------------------------------------------------------------
(* Data.                                                                    *)

Write(name, n) == [kind |-> "write", name |-> name, n |-> n]
Dump           == [kind |-> "dump"]      \* #DPCONFIG and the #DPINVALID behind it

IsWrite(entry) == entry.kind = "write"
IsDump(entry)  == entry.kind = "dump"

\* The writes among the commands of a sequence.
Writes(q) ==
  LET upTo[i \in 0..Len(q)] ==
        IF i = 0 THEN <<>>
        ELSE IF IsWrite(q[i]) THEN Append(upTo[i - 1], q[i]) ELSE upTo[i - 1]
  IN  upTo[Len(q)]

Pending    == Len(Writes(queue)) + (IF active = NoWrite THEN 0 ELSE 1)
Quiet      == toDevice = <<>> /\ toHost = <<>>
AtRest     == Quiet /\ queue = <<>> /\ active = NoWrite

\* rotationInProgress.
Rotating == claim = "drive"

Event       == events < MaxEvents /\ events' = events + 1
NoEvent     == UNCHANGED events
Fault(kind) == kind \in Faults /\ Event

\* Whatever happens to a dump, asked for or answered, is one kind of fault.
Losing(entry, kind) == Fault(IF IsDump(entry) THEN "refresh" ELSE kind)

Init ==
  /\ device \in Initial /\ param = [f \in Settings |-> Parameter(f, device[f])]
  /\ queue = <<>> /\ active = NoWrite /\ stage = "IDLE" /\ acks = 0 /\ timeouts = 0
  /\ claim = "none"
  /\ toDevice = <<>> /\ toHost = <<>> /\ stored = FALSE
  /\ pc = "idle" /\ phase = "raw" /\ before = param /\ todo = {} /\ written = 0
  /\ diag = [pending |-> 0, acks |-> 0, timeouts |-> 0] /\ baseline = diag
  /\ fresh = FALSE /\ restored = "unknown"
  /\ late = <<>> /\ events = 0 /\ meddled = FALSE
  /\ misled = {}

-----------------------------------------------------------------------------
(* The executor thread.                                                     *)

\* onParameterChange: all the parameters of a call are accepted, or none.
Accepted(call) ==
  ~Rotating /\ \A i \in DOMAIN call : Accepts(call[i][1], call[i][2])

\* The last that a call says of a setting.
IsLast(call, i, f) ==
  call[i][1] = f /\ \A j \in (i + 1)..Len(call) : call[j][1] # f

\* The commands are queued and rclcpp stores the values.
SetParameters(call) ==
  /\ Accepted(call)
  /\ queue' = queue \o [i \in DOMAIN call |-> Write(call[i][1], call[i][2].n)]
  /\ param' = [f \in Settings |->
                 IF \E i \in DOMAIN call : IsLast(call, i, f)
                 THEN call[CHOOSE i \in DOMAIN call : IsLast(call, i, f)][2] ELSE param[f]]
  /\ UNCHANGED <<active, stage, acks, timeouts, claim>>

OperatorCalls ==
  /\ Event
  /\ meddled' = (meddled \/ pc # "idle")
  /\ UNCHANGED misled

OperatorSets ==
  /\ OperatorCalls
  /\ \E call \in Calls :
       Len(queue) + Len(call) <= MaxQueue /\ SetParameters(call)
  /\ UNCHANGED <<wireVars, reportVars, benchVars, late>>

\* queueSetHomeHere.
SetHomeHere ==
  /\ OperatorCalls /\ "home_pos" \in Settings
  /\ ~Rotating /\ Len(queue) < MaxQueue
  /\ queue' = Append(queue, Write("home_pos", HomeHere))
  /\ UNCHANGED <<param, active, stage, acks, timeouts, claim>>
  /\ UNCHANGED <<wireVars, reportVars, benchVars, late>>

\* A request the bench node has given up is served all the same.
LateSet ==
  /\ late # <<>>
  /\ late' = <<>>
  /\ IF Accepted(late) THEN SetParameters(late) /\ meddled' = TRUE
     ELSE UNCHANGED <<hostVars, meddled>>
  /\ UNCHANGED <<wireVars, reportVars, benchVars, events, misled>>

\* queueConfigRefresh, by its timer; while the dome turns it waits.  Its interval
\* is long: what was asked for has been answered.
PeriodicRefresh_Never == FALSE /\ UNCHANGED vars
PeriodicRefresh ==
  /\ ~Rotating
  /\ Len(queue) < MaxQueue /\ SelectSeq(queue \o toDevice \o toHost, IsDump) = <<>>
  /\ IF pc \in {"idle", "done"} \/ ~CountRefreshes THEN NoEvent ELSE Event
  /\ queue' = Append(queue, Dump)
  /\ UNCHANGED <<param, active, stage, acks, timeouts, claim>>
  /\ UNCHANGED <<wireVars, reportVars, benchVars, late, callVars>>

\* publishDiagnostics: the queue is read before the counters, so that a write
\* acknowledged in between only counts as pending a little longer.
Counters == [pending |-> Pending, acks |-> acks, timeouts |-> timeouts]

PublishDiagnostics ==
  /\ diag' = Counters /\ fresh' = TRUE
  /\ UNCHANGED <<hostVars, wireVars, benchVars, late, events, callVars>>

\* What a wait of seconds waits for has come, or will not.
NothingMore == AtRest /\ diag = Counters

\* bench_drive 0: it claims the dome for one write() and stops it.
StopCall ==
  /\ Fault("stop") /\ claim = "none"
  /\ claim' = "stop"
  /\ UNCHANGED <<param, queue, active, stage, acks, timeouts>>
  /\ UNCHANGED <<wireVars, reportVars, benchVars, late, callVars>>

-----------------------------------------------------------------------------
(* The controller manager thread.                                           *)

\* The first command of the queue that may be sent, and the queue without it:
\* settings writes go to the back while the bench holds the dome.
Sendable(entry) == claim # "none" => ~IsWrite(entry)

SendableAt == {i \in DOMAIN queue : Sendable(queue[i])}

\* The answer is waited for, but not for ever.
AckExpired == active # NoWrite /\ ("slow" \in Faults \/ Quiet)

Free_NotWaiting(expired) == TRUE
Free(expired) == active = NoWrite \/ expired

\* A send that fails drops the command without a word.
Send(entry) ==
  \/ /\ toDevice' = Append(toDevice, entry)
     /\ active' = IF IsWrite(entry) THEN entry ELSE NoWrite
     /\ stage' = IF IsWrite(entry) THEN "WAIT_WRITE_SETTINGS" ELSE "IDLE"
     /\ NoEvent
  \/ /\ Losing(entry, "send")
     /\ active' = NoWrite /\ stage' = "IDLE"
     /\ UNCHANGED toDevice

SendNext ==
  IF SendableAt = {}
  THEN active' = NoWrite /\ stage' = "IDLE" /\ NoEvent /\ UNCHANGED <<queue, toDevice>>
  ELSE LET i == CHOOSE j \in SendableAt : \A k \in SendableAt : j <= k
       IN  /\ queue' = SubSeq(queue, i + 1, Len(queue)) \o SubSeq(queue, 1, i - 1)
           /\ Send(queue[i])

\* The queue's part of one write(), and of the bench's stop.
WriteCycle ==
  /\ \E expired \in BOOLEAN :
       /\ expired => AckExpired
       /\ Free(expired)
       /\ expired \/ queue # <<>> \/ claim = "stop"
       /\ timeouts' = IF expired THEN timeouts + 1 ELSE timeouts
       /\ SendNext
       /\ stored' = FALSE
  /\ claim' = IF claim = "stop" THEN "none" ELSE claim
  /\ UNCHANGED <<param, acks>>
  /\ UNCHANGED <<device, toHost, reportVars, benchVars, late, callVars>>

\* recordSettingsAckLocked and the end of the active write.
Settle ==
  /\ acks' = acks + 1
  /\ active' = NoWrite /\ stage' = "IDLE" /\ stored' = FALSE
  /\ UNCHANGED <<param, timeouts>>

\* handleSendQueueFeedback.
Feedback(line) ==
  IF stage = "WAIT_WRITE_SETTINGS" /\ line = "Write Settings"
  THEN stage' = "WAIT_UPDATED" /\ UNCHANGED <<param, queue, active, acks, timeouts, stored>>
  ELSE IF stage = "WAIT_WRITE_SETTINGS" /\ line = "Unchanged"
  THEN Settle /\ UNCHANGED queue
  ELSE IF stage = "WAIT_UPDATED" /\ line = "Updated"
  THEN Settle /\ queue' = Append(queue, Dump)
  ELSE UNCHANGED <<param, queue, active, stage, acks, timeouts, stored>>

\* onConfigUpdate: the parameters take what the dump gives, if all of it parses.
SyncParameters(dump) ==
  /\ param' = IF ParsesCleanly(dump) THEN [f \in Settings |-> FieldOf(dump, f)] ELSE param
  /\ UNCHANGED <<queue, active, stage, acks, timeouts, stored>>

ReadLine ==
  /\ toHost # <<>>
  /\ LET line == Head(toHost)
     IN  IF IsDump(line) THEN SyncParameters(line.texts)
         ELSE Feedback(line.kind)
  /\ toHost' = Tail(toHost)
  /\ UNCHANGED <<claim, device, toDevice>>
  /\ UNCHANGED <<reportVars, benchVars, late, events, callVars>>

-----------------------------------------------------------------------------
(* The firmware and the wire: external, as the host relies on them.         *)

Says(kind) == [kind |-> kind]

Execute(entry) ==
  IF IsDump(entry)
  THEN /\ \E missing \in {{}} \cup {{f} : f \in Settings} :
            /\ toHost' = Append(toHost,
                 [kind |-> "dump", texts |-> [f \in Settings \ missing |-> Text(device[f])]])
            /\ IF missing = {} THEN NoEvent ELSE Fault("partial")
       /\ UNCHANGED <<device, stored>>
  ELSE /\ stored' = (stored \/ entry = active)
       /\ device' = [device EXCEPT ![entry.name] = entry.n]
       /\ toHost' = toHost \o IF device[entry.name] = entry.n THEN <<Says("Unchanged")>>
                              ELSE <<Says("Write Settings"), Says("Updated")>>
       /\ NoEvent

FwExecutes ==
  /\ toDevice # <<>>
  /\ Execute(Head(toDevice))
  /\ toDevice' = Tail(toDevice)
  /\ UNCHANGED <<hostVars, reportVars, benchVars, late, callVars>>

CommandIsLost ==
  /\ toDevice # <<>> /\ Losing(Head(toDevice), "command")
  /\ toDevice' = Tail(toDevice)
  /\ UNCHANGED <<hostVars, device, toHost, stored, reportVars, benchVars, late, callVars>>

LineIsLost ==
  /\ toHost # <<>> /\ Losing(Head(toHost), "line")
  /\ toHost' = Tail(toHost)
  /\ UNCHANGED <<hostVars, device, toDevice, stored, reportVars, benchVars, late, callVars>>

-----------------------------------------------------------------------------
(* The bench node's worker.                                                 *)

\* _save_settings_before.
SaveSettings ==
  /\ pc = "idle"
  /\ before' = param
  /\ pc' = "baseline"
  /\ UNCHANGED <<phase, todo, written, baseline, restored, fresh, claim>>

\* _settings_counters before the first write: the last diagnostics, or none if
\* they have been silent for three seconds.  The counters do not tell what the
\* plugin will still count if a write is under way or was just acknowledged.
TakeBaseline ==
  /\ pc = "baseline"
  /\ \/ baseline' = diag /\ NoEvent
     \/ baseline' = NoCounters /\ Fault("silent")
  /\ pc' = "current"
  /\ misled' = IF phase = "raw" \/ (Pending = 0 /\ diag.acks = acks) THEN {} ELSE {"counters"}
  /\ UNCHANGED <<phase, before, todo, written, restored, fresh, claim>>

Desired ==
  IF phase = "raw" THEN RawSettings
  ELSE [i \in DOMAIN RawSettings |-> <<RawSettings[i][1], before[RawSettings[i][1]]>>]

\* The parameters show a setting as it was before, and the device holds another.
ShownWrongly(f) == param[f] = before[f] /\ device[f] # before[f].n

\* _apply_settings: what differs from the parameters now ...
CompareSettings ==
  /\ pc = "current"
  /\ todo' = {i \in DOMAIN Desired : param[Desired[i][1]] # Desired[i][2]}
  /\ written' = Cardinality(todo')
  /\ pc' = "write"
  /\ misled' = IF phase = "restore" /\ \E i \in DOMAIN RawSettings : ShownWrongly(RawSettings[i][1])
               THEN misled \cup {"parameters"} ELSE misled
  /\ UNCHANGED <<phase, before, baseline, restored, fresh, claim>>

\* ... is written one after the other.
NextToDo == CHOOSE i \in todo : \A j \in todo : i <= j
ToWrite  == Desired[NextToDo]

\* An exception: before the sweep it leads to the restore, in the restore it
\* ends it.
Raise ==
  /\ IF phase = "raw"
     THEN phase' = "restore" /\ pc' = "baseline" /\ UNCHANGED restored
     ELSE pc' = "done" /\ restored' = "false" /\ UNCHANGED phase
  /\ todo' = {}

\* _write_setting, its call ...
BenchSets ==
  /\ pc = "write" /\ todo # {}
  /\ \/ /\ SetParameters(<<ToWrite>>)
        /\ pc' = "readback" /\ NoEvent
        /\ UNCHANGED <<phase, restored, todo, late>>
     \/ /\ ~Accepted(<<ToWrite>>)
        /\ Raise /\ NoEvent
        /\ UNCHANGED <<hostVars, late>>
     \/ /\ Fault("late") /\ late = <<>>
        /\ late' = <<ToWrite>>
        /\ Raise
        /\ UNCHANGED hostVars
  /\ UNCHANGED <<wireVars, reportVars, before, written, baseline, callVars>>

\* ... and its reading back.
ReadBack ==
  /\ pc = "readback"
  /\ \/ /\ param[ToWrite[1]] = ToWrite[2]
        /\ todo' = todo \ {NextToDo} /\ pc' = "write"
        /\ UNCHANGED <<phase, restored>>
     \/ /\ param[ToWrite[1]] # ToWrite[2] /\ NothingMore
        /\ Raise
  /\ UNCHANGED <<before, written, baseline, fresh, claim>>

\* All writes are issued: only diagnostics from now on count.
Issued ==
  /\ pc = "write" /\ todo = {}
  /\ fresh' = FALSE
  /\ pc' = "ack"
  /\ UNCHANGED <<phase, before, todo, written, baseline, restored, claim>>

\* settings_ack_state.
AckState_TimeoutsIgnored ==
  IF diag.pending = 0 THEN "acked" ELSE "waiting"
AckState ==
  IF diag.timeouts # baseline.timeouts THEN "timeout"
  ELSE IF diag.pending = 0 /\ diag.acks - baseline.acks >= written THEN "acked"
  ELSE "waiting"

Acked(acked) ==
  IF phase = "raw"
  THEN IF acked THEN pc' = "sweep" /\ UNCHANGED phase
       ELSE phase' = "restore" /\ pc' = "baseline"
  ELSE pc' = (IF acked THEN "settle" ELSE "settleUnconfirmed") /\ UNCHANGED phase

\* _wait_settings_acked: without counters nothing is confirmed, and nothing denied.
WaitAcked ==
  /\ pc = "ack"
  /\ \/ baseline = NoCounters /\ Acked(TRUE)
     \/ /\ baseline # NoCounters /\ fresh
        /\ \/ AckState = "acked" /\ Acked(TRUE)
           \/ AckState = "timeout" /\ Acked(FALSE)
           \/ AckState = "waiting" /\ NothingMore /\ Acked(FALSE)
  /\ UNCHANGED <<before, todo, written, baseline, restored, fresh, claim>>

\* The sweep turns the dome unless a settings write is in flight, and ends.
SweepDrives ==
  /\ pc = "sweep" /\ claim = "none" /\ Pending = 0
  /\ claim' = "drive"
  /\ UNCHANGED <<pc, phase, before, todo, written, baseline, restored, fresh>>

SweepEnds ==
  /\ pc = "sweep" /\ claim # "stop"
  /\ claim' = "none"
  /\ phase' = "restore" /\ pc' = "baseline"
  /\ UNCHANGED <<before, todo, written, baseline, restored, fresh>>

\* The rest of _cleanup: after the refresh that follows the last write, the
\* parameters must be what they were.  Unconfirmed writes may still be under way.
CheckRestored ==
  /\ pc \in {"settle", "settleUnconfirmed"}
  /\ written = 0 \/ baseline = NoCounters \/ AtRest
  /\ restored' = IF pc = "settle" /\ \A f \in Saved : param[f] = before[f]
                 THEN "true" ELSE "false"
  /\ pc' = "done"
  /\ UNCHANGED <<phase, before, todo, written, baseline, fresh, claim>>

BenchSteps ==
  \/ BenchSets
  \/ /\ \/ TakeBaseline
        \/ CompareSettings /\ NoEvent
        \/ /\ \/ SaveSettings \/ ReadBack \/ Issued \/ WaitAcked
              \/ SweepDrives \/ SweepEnds \/ CheckRestored
           /\ NoEvent /\ UNCHANGED misled
     /\ UNCHANGED <<param, queue, active, stage, acks, timeouts>>
     /\ UNCHANGED <<wireVars, diag, late, meddled>>

-----------------------------------------------------------------------------
Executor == OperatorSets \/ SetHomeHere \/ LateSet \/ PeriodicRefresh \/ StopCall
Wire     == FwExecutes \/ CommandIsLost \/ LineIsLost

Next == Executor \/ PublishDiagnostics \/ WriteCycle \/ ReadLine \/ Wire \/ BenchSteps

Spec == Init /\ [][Next]_vars

\* The timers and the threads go on, the device executes what it receives, and
\* the bench node goes on; nobody has to call, and nothing has to be lost.
FairSpec ==
  /\ Spec
  /\ WF_vars(PeriodicRefresh) /\ WF_vars(PublishDiagnostics)
  /\ WF_vars(WriteCycle) /\ WF_vars(ReadLine) /\ WF_vars(FwExecutes)
  /\ WF_vars(BenchSteps)

-----------------------------------------------------------------------------
(* Properties.                                                              *)

\* Every variable has a value of its type.
TypeOK ==
  /\ param \in [Settings -> ParameterValue] /\ device \in [Settings -> Nat]
  /\ acks \in Nat /\ timeouts \in Nat
  /\ stage = "IDLE" <=> active = NoWrite
  /\ claim \in {"none", "stop", "drive"}
  /\ events \in 0..MaxEvents

\* The writes behave as SettingsWrites promises: one at a time, in order as long
\* as the bench does not hold the dome, each acknowledged only when the device
\* has stored it.
AsPair(write) == <<write.name, write.n>>
Waiting ==
  LET writes == (IF active = NoWrite THEN <<>> ELSE <<active>>) \o Writes(queue)
  IN  [i \in DOMAIN writes |-> AsPair(writes[i])]

Promise == INSTANCE SettingsWrites WITH waiting <- Waiting, held <- claim # "none"

SettingsAreWrites == Promise!Spec

\* When the bench node reports that it has restored the settings and had counters
\* to go by, the device holds the raw settings as they were before the sweep, whatever
\* was lost or timed out since: unless somebody else wrote since it began (an
\* operator, or its own request that it had given up), or it began the restore
\* from a wrong picture: with counters that were out of date or a write pending, or with
\* a parameter that showed the old value of a setting while the device held another.
RawAsBefore == \A i \in DOMAIN RawSettings : device[RawSettings[i][1]] = before[RawSettings[i][1]].n

Confirmed == restored = "true" /\ baseline # NoCounters /\ ~meddled

RestoredIsTrue == Confirmed /\ misled = {} => RawAsBefore

\* firmware_acked is true only if the firmware acknowledged every restore write
\* (README.md:297), whatever was pending when the counters were taken.  The code does
\* not keep it.
RestoredWhateverPends == Confirmed /\ misled \subseteq {"counters"} => RawAsBefore

\* settings_restored says that the device holds what it held before, whatever the
\* parameters showed (node.py:1128).  The code does not keep it.
RestoredWhateverShown == Confirmed /\ misled \subseteq {"parameters"} => RawAsBefore

\* Writes that are dropped or given up do not stay in the parameters: in the end
\* they show what the device holds.
ParamsFollowDevice == <>[](\A f \in Settings : param[f] = Parameter(f, device[f]))

\* Whatever was accepted, the dump that tells of it parses: one setting that the
\* device holds and the parser refuses would stop all parameters from following.
\* And what the bench node has saved, it will be allowed to write back.
WrittenIsReadBack ==
  /\ \A f \in Settings : ParseConfigScalar(f, Text(device[f])) = Parameter(f, device[f])
  /\ \A f \in Saved : Accepts(f, before[f])
===============================================================================
