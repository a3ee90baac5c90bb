------------------------------- MODULE Console --------------------------------
(***************************************************************************)
(* The console of the dome controller: what the firmware prints, how       *)
(* RoamadomeSerialPort::read cuts it into lines and sections, and what the *)
(* hardware interface concludes from them: the device.* parameters, the    *)
(* record of an outstanding firmware move and the diagnostics.             *)
(*                                                                         *)
(* Threads: the controller manager calls read() and write() in turn; the   *)
(* executor runs the timers of the status poll and of the config refresh.  *)
(* A read() is one ReadChunk and a ProcessLine per line, so the timers     *)
(* come in between.  The firmware is a single loop: it answers a command   *)
(* line by line and prints nothing else meanwhile.  Lines reach toHost     *)
(* whole; the remainder of a line waits in lineBuffer_ until it is.        *)
(*                                                                         *)
(* One activation, no settings writes (their lines are no part of a        *)
(* section) and no bench (module MotionControl).                           *)
(*                                                                         *)
(* A definition Name_Variant, placed before Name, is Name with a plausible *)
(* mistake in it; no other definition uses it.                             *)
(***************************************************************************)
EXTENDS DomeDiagnostics, FiniteSets

CONSTANTS
  DumpOrder,        \* the keys of a #DPCONFIG dump, in the order of the dump
  Values,           \* values of a device setting
  DefaultValue,     \* the default of a parameter's specification
  BadValue,         \* a value that does not parse
  NoKey,            \* a key that the registry does not know
  FlushAfter,       \* sectionFlushTimeoutMs_
  Settle,           \* configRefreshSettleMs_
  MaxBuffer,        \* lines after which lineBuffer_ is cut
  KeepLines,        \* lines of which something is left then
  MaxWire,          \* bound: printed lines that wait to be read
  MaxQueue,         \* bound: commands queued or on their way when a timer adds some
  MaxCommands,      \* bound: commands on their way when write() sends another
  StartSettings,    \* bound: the settings at the activation
  Events,           \* what may happen beyond reports, timers, read() and write()
  MaxEvents         \* bound: how often, in all

Keys == {DumpOrder[i] : i \in DOMAIN DumpOrder}

ASSUME ThresholdsAssumption ==
  {StaleAfter, ErrorFor, FlushAfter, Settle, KeepLines} \subseteq Nat \ {0}
ASSUME ValuesAssumption == DefaultValue \in Values /\ BadValue \notin Values
ASSUME KeysAssumption ==
  /\ DumpOrder \in Seq(Keys) /\ NoKey \notin Keys
  /\ \A i, j \in DOMAIN DumpOrder : DumpOrder[i] = DumpOrder[j] => i = j
ASSUME WireAssumption == MaxWire \in Nat
ASSUME StartAssumption == StartSettings \subseteq [Keys -> Values]
ASSUME BufferAssumption == MaxBuffer \in Nat /\ KeepLines <= MaxBuffer
ASSUME EventsAssumption ==
  /\ Events \subseteq {"move", "change", "error", "reboot", "stall", "noise", "late",
                "loss"}
  /\ MaxEvents \in Nat

VARIABLES
  (* the firmware *)
  settings,         \* its settings in flash
  moving,           \* it runs a :DPA
  errors,           \* its counters: [sensor, packet]
  reporting,        \* #DPREPORT is on
  printing,         \* the rest of the answer it is printing
  toDevice,         \* commands on their way to it
  toHost,           \* lines it has printed and read() has not fetched
  (* RoamadomeSerialPort *)
  lines,            \* lines of this read() that are not processed yet
  parseState,       \* "none", "config" or "status"
  section,          \* currentConfig_ or currentStatus_
  sectionAge,       \* since lastSectionLineTime_, up to FlushAfter; 0 with no section
  (* RoamadomeControl *)
  sendQueue,
  configRefreshPending,
  deferredAge,      \* since configRefreshDeferredSince_, up to Settle
  moveOutstanding,  \* firmwareMoveOutstanding_
  params,           \* the device.* parameters of the node
  diag,             \* diagnosticsState_
  left,             \* of MaxEvents
  (* history, read by no action *)
  unread,           \* position reports printed and not delivered
  unanswered,       \* status answers printed and not delivered
  synced,           \* the settings that the last delivered dump was printed of
  polled,           \* the packet count when the last delivered status was printed
  lastEnd,          \* how the last move of the firmware ended
  endLost,          \* that end was never told: no line, or swallowed by a section
  disturbed         \* some answer was cut, paused or garbled

deviceVars  == <<settings, moving, errors, reporting>>
readerVars  == <<parseState, section, sectionAge>>
controlVars == <<configRefreshPending, deferredAge>>
beliefVars  == <<moveOutstanding, params, diag>>
historyVars == <<unread, unanswered, synced, polled, lastEnd, endLost, disturbed>>
vars == <<deviceVars, printing, toDevice, toHost, lines, readerVars, sendQueue,
          controlVars, beliefVars, left, historyVars>>

-----------------------------------------------------------------------------
(* Lines and commands.                                                      *)

Echo(command)  == [kind |-> "echo", of |-> command]
Plain(kind)    == [kind |-> kind]
\* The settings in dump and the packet count in packets are not on the line:
\* they say, for the properties, of which answer it is a part.
KeyValue(k, s) == [kind |-> "kv", key |-> k, val |-> s[k], dump |-> s]
Sensor(e)      == [kind |-> "sensor", n |-> e.sensor, packets |-> e.packet]
Packet(n)      == [kind |-> "packet", n |-> n]

Dump(s) == [i \in DOMAIN DumpOrder |-> KeyValue(DumpOrder[i], s)]

\* "Packet Serial Errors" is only printed when there are some.
StatusReport(e) ==
  IF e.packet = 0 THEN <<Sensor(e)>> ELSE <<Sensor(e), Packet(e.packet)>>

Answer(command) ==
  <<Echo(command)>> \o
    CASE command = "config" -> Dump(settings)
      [] command = "status" -> StatusReport(errors)
      [] command = "probe"  -> <<Plain("invalid")>>
      [] OTHER -> <<>>

\* What is left of a line whose first half is gone, or that was garbled.
Cut(line) ==
  IF line.kind = "kv" THEN [line EXCEPT !.key = NoKey] ELSE Plain("junk")
Garbled(line) ==
  IF line.kind = "kv" THEN [line EXCEPT !.val = BadValue] ELSE Plain("junk")

Spend(event) == event \in Events /\ left > 0 /\ left' = left - 1

-----------------------------------------------------------------------------
(* The firmware.                                                            *)

Execute ==
  /\ printing = <<>> /\ toDevice # <<>>
  /\ toDevice' = Tail(toDevice)
  /\ printing' = Answer(Head(toDevice))
  /\ moving' = (moving \/ Head(toDevice) = "move")
  /\ unanswered' = IF Head(toDevice) = "status" THEN unanswered + 1 ELSE unanswered
  /\ UNCHANGED <<settings, errors, reporting, toHost, lines, readerVars, sendQueue,
                 controlVars, beliefVars, left, unread, synced, polled, lastEnd,
                 endLost, disturbed>>

PrintLine(line) ==
  /\ Len(toHost) < MaxWire
  /\ toHost' = Append(toHost, line)
  /\ printing' = Tail(printing)
  /\ UNCHANGED <<deviceVars, toDevice, lines, readerVars, sendQueue, controlVars,
                 beliefVars, unread, unanswered, synced, polled, lastEnd, endLost>>

PrintNext == printing # <<>> /\ PrintLine(Head(printing)) /\ UNCHANGED <<left, disturbed>>

PrintGarbled ==
  /\ printing # <<>> /\ Spend("noise")
  /\ PrintLine(Garbled(Head(printing))) /\ disturbed' = TRUE

Report ==
  /\ reporting /\ printing = <<>> /\ Len(toHost) < MaxWire
  /\ toHost' = Append(toHost, Plain("position"))
  /\ unread' = unread + 1
  /\ UNCHANGED <<deviceVars, printing, toDevice, lines, readerVars, sendQueue,
                 controlVars, beliefVars, left, unanswered, synced, polled, lastEnd,
                 endLost, disturbed>>

\* A move ends on its own: at its target, or after a time without movement.
MoveEnds ==
  /\ moving /\ printing = <<>>
  /\ \E end \in {"reached", "timeout"} :
       printing' = <<Plain(end)>> /\ lastEnd' = end
  /\ moving' = FALSE /\ endLost' = FALSE
  /\ UNCHANGED <<settings, errors, reporting, toDevice, toHost, lines, readerVars,
                 sendQueue, controlVars, beliefVars, left, unread, unanswered, synced,
                 polled, disturbed>>

\* A setting is changed at the LCD menu of the controller.
ChangeSetting ==
  /\ printing = <<>> /\ Spend("change")
  /\ \E k \in Keys, v \in Values : v # settings[k] /\ settings' = [settings EXCEPT ![k] = v]
  /\ UNCHANGED <<moving, errors, reporting, printing, toDevice, toHost, lines,
                 readerVars, sendQueue, controlVars, beliefVars, historyVars>>

CountError ==
  /\ printing = <<>> /\ Spend("error")
  /\ \E e \in {"sensor", "packet"} : errors' = [errors EXCEPT ![e] = @ + 1]
  /\ UNCHANGED <<settings, moving, reporting, printing, toDevice, toHost, lines,
                 readerVars, sendQueue, controlVars, beliefVars, historyVars>>

\* The controller reboots: what it was doing or had been told is gone, its
\* counters are zero, and it may have stopped reporting.
Reboot ==
  /\ Spend("reboot")
  /\ printing' = <<Plain("ready")>> /\ toDevice' = <<>>
  /\ moving' = FALSE /\ errors' = [sensor |-> 0, packet |-> 0]
  /\ reporting' \in {reporting, FALSE}
  /\ endLost' = (endLost \/ moving \/ printing \in {<<Plain("reached")>>, <<Plain("timeout")>>}
                   \/ \E i \in DOMAIN toDevice : toDevice[i] = "move")
  /\ disturbed' = (disturbed \/ printing # <<>>)
  /\ UNCHANGED <<settings, toHost, lines, readerVars, sendQueue, controlVars, beliefVars,
                 unread, unanswered, synced, polled, lastEnd>>

\* Time passes.  Only a disturbed link lets it pass in the middle of an answer.
Tick ==
  /\ \/ printing = <<>> /\ UNCHANGED <<left, disturbed>>
     \/ printing # <<>> /\ Spend("stall") /\ disturbed' = TRUE
  /\ sectionAge' = IF section = <<>> THEN 0 ELSE Older(sectionAge, FlushAfter)
  /\ deferredAge' = IF configRefreshPending THEN Older(deferredAge, Settle) ELSE 0
  /\ diag' = Aged(diag)
  /\ UNCHANGED <<deviceVars, printing, toDevice, toHost, lines, parseState, section,
                 sendQueue, configRefreshPending, moveOutstanding, params, unread,
                 unanswered, synced, polled, lastEnd, endLost>>

-----------------------------------------------------------------------------
(* RoamadomeSerialPort::read.                                               *)

\* read() fetches what is there.  When it comes so late that lineBuffer_ gets too
\* long, its oldest bytes are thrown away, wherever a line ends.
ReadChunk ==
  /\ lines = <<>>
  /\ \E n \in 1..Len(toHost) :
       LET chunk == SubSeq(toHost, 1, n)
           kept  == SubSeq(chunk, n - KeepLines + 1, n)
       IN  /\ toHost' = SubSeq(toHost, n + 1, Len(toHost))
           /\ IF n <= MaxBuffer
              THEN lines' = chunk /\ UNCHANGED <<left, disturbed>>
              ELSE /\ Spend("late") /\ disturbed' = TRUE
                   /\ lines' \in {kept, <<Cut(Head(kept))>> \o Tail(kept)}
  /\ UNCHANGED <<deviceVars, printing, toDevice, readerVars, sendQueue, controlVars,
                 beliefVars, unread, unanswered, synced, polled, lastEnd, endLost>>

\* onConfigUpdate: every key that is not in the section becomes its default.
ParseConfigMap(kvs) ==
  [k \in Keys |->
     LET IsOfKey(kv) == kv.key = k
     IN  IF Has(kvs, IsOfKey) THEN LastOf(kvs, IsOfKey).val ELSE DefaultValue]

ParsedCleanly(kvs) == \A i \in DOMAIN kvs : kvs[i].key \in Keys => kvs[i].val # BadValue

\* updateParametersFromDevice sets the parameters whose value has changed.
DeliverConfig_ChangedFromDefault ==
  /\ IF ParsedCleanly(section)
     THEN /\ synced' = section[1].dump
          /\ params' = [k \in Keys |->
               LET new == ParseConfigMap(section)[k]
               IN  IF new = DefaultValue THEN params[k] ELSE new]
     ELSE UNCHANGED <<params, synced>>
  /\ UNCHANGED <<diag, polled, unanswered>>
DeliverConfig ==
  /\ IF ParsedCleanly(section)
     THEN params' = ParseConfigMap(section) /\ synced' = section[1].dump
     ELSE UNCHANGED <<params, synced>>
  /\ UNCHANGED <<diag, polled, unanswered>>

DeliverStatus ==
  /\ diag' = ApplyStatusSection(diag, section)
  /\ IF Has(section, IsSensor)
     THEN polled' = LastOf(section, IsSensor).packets /\ unanswered' = unanswered - 1
     ELSE UNCHANGED <<polled, unanswered>>
  /\ UNCHANGED <<params, synced>>

\* flushActiveSectionIfReady, when it does flush.
DeliverSection ==
  IF section = <<>> THEN UNCHANGED <<params, synced, diag, polled, unanswered>>
  ELSE IF parseState = "config" THEN DeliverConfig ELSE DeliverStatus

\* A read() that finds nothing closes a section that has been idle too long.
FlushIdle_AnyAge ==
  /\ lines = <<>> /\ toHost = <<>>
  /\ section # <<>>
  /\ DeliverSection
  /\ parseState' = "none" /\ section' = <<>> /\ sectionAge' = 0
  /\ UNCHANGED <<deviceVars, printing, toDevice, toHost, lines, sendQueue, controlVars,
                 moveOutstanding, left, unread, lastEnd, endLost, disturbed>>
FlushIdle ==
  /\ lines = <<>> /\ toHost = <<>>
  /\ section # <<>> /\ sectionAge = FlushAfter
  /\ DeliverSection
  /\ parseState' = "none" /\ section' = <<>> /\ sectionAge' = 0
  /\ UNCHANGED <<deviceVars, printing, toDevice, toHost, lines, sendQueue, controlVars,
                 moveOutstanding, left, unread, lastEnd, endLost, disturbed>>

NextState(command) ==
  CASE command = "config" -> "config"
    [] command = "status" -> "status"
    [] OTHER -> "none"

\* PROCESS: "..." ends the open section and may begin the next one.
ProcessEcho_NoFlush(command) ==
  /\ parseState' = NextState(command) /\ section' = <<>> /\ sectionAge' = 0
  /\ UNCHANGED <<params, synced, diag, polled, unanswered>>
ProcessEcho(command) ==
  /\ DeliverSection
  /\ parseState' = NextState(command) /\ section' = <<>> /\ sectionAge' = 0

\* A position report is recognised in every state, before everything else.
ProcessPosition ==
  /\ unread' = unread - 1 /\ diag' = RecordPositionReport(diag)
  /\ UNCHANGED <<readerVars, params, synced, polled, unanswered>>

\* In a section: only key=value lines belong to a dump, every line to a status.
CollectLine(line) ==
  /\ IF parseState = "status" \/ line.kind = "kv"
     THEN section' = Append(section, line) /\ sectionAge' = 0
     ELSE UNCHANGED <<section, sectionAge>>
  /\ UNCHANGED <<parseState, params, synced, diag, polled, unanswered>>

\* handleClassifiedLine.
ClassifyLine_ForgetsTimeout(line) ==
  /\ diag' = ApplyFirmwareLine(diag, line)
  /\ moveOutstanding' = (moveOutstanding /\ line.kind # "reached")
  /\ UNCHANGED <<readerVars, params, synced, polled, unanswered>>
ClassifyLine(line) ==
  /\ diag' = ApplyFirmwareLine(diag, line)
  /\ moveOutstanding' = (moveOutstanding /\ line.kind \notin {"reached", "timeout"})
  /\ UNCHANGED <<readerVars, params, synced, polled, unanswered>>

IsEnd(line) == line.kind \in {"reached", "timeout"}

ProcessLine ==
  /\ lines # <<>> /\ lines' = Tail(lines)
  /\ LET line == Head(lines)
     IN  \/ /\ line.kind = "echo"
            /\ ProcessEcho(line.of) /\ UNCHANGED <<moveOutstanding, unread, endLost>>
         \/ /\ line.kind = "position"
            /\ ProcessPosition /\ UNCHANGED <<moveOutstanding, endLost>>
         \/ /\ line.kind \notin {"echo", "position"} /\ parseState # "none"
            /\ CollectLine(line) /\ UNCHANGED <<moveOutstanding, unread>>
            /\ endLost' = (endLost \/ IsEnd(line))
         \/ /\ line.kind \notin {"echo", "position"} /\ parseState = "none"
            /\ ClassifyLine(line) /\ UNCHANGED <<unread, endLost>>
  /\ UNCHANGED <<deviceVars, printing, toDevice, toHost, sendQueue, controlVars, left,
                 lastEnd, disturbed>>

-----------------------------------------------------------------------------
(* RoamadomeControl: timers on the executor, write() on the control thread. *)

ConfigDump == <<"config", "probe">>
StatusPoll == <<"status", "probe">>

\* domeMoving: a move that is not known to have ended, or the measured velocity
\* of a dome that turns.
DomeMoving(seen) == moveOutstanding \/ (moving /\ seen)

TimerUnchanged ==
  UNCHANGED <<deviceVars, printing, toDevice, toHost, lines, readerVars, beliefVars,
              left, historyVars>>

StatusPollTimer ==
  /\ Len(sendQueue) + Len(toDevice) <= MaxQueue
  /\ sendQueue' = sendQueue \o StatusPoll
  /\ UNCHANGED controlVars /\ TimerUnchanged

RequestConfigRefresh ==
  /\ Len(sendQueue) + Len(toDevice) <= MaxQueue
  /\ \E seen \in BOOLEAN :
       IF DomeMoving(seen)
       THEN configRefreshPending' = TRUE /\ deferredAge' = 0 /\ UNCHANGED sendQueue
       ELSE sendQueue' = sendQueue \o ConfigDump /\ UNCHANGED controlVars
  /\ TimerUnchanged

\* serviceDeferredConfigRefresh, the first thing that write() does.
ServiceDeferredRefresh(seen) ==
  IF configRefreshPending /\ DomeMoving(seen)
  THEN deferredAge' = 0 /\ UNCHANGED configRefreshPending
  ELSE IF configRefreshPending /\ deferredAge = Settle
  THEN configRefreshPending' = FALSE /\ deferredAge' = 0
  ELSE UNCHANGED controlVars

\* One command of the queue per cycle, and a new position target of the
\* controller.  A send that fails loses the command; a target is sent again.
Write ==
  /\ lines = <<>> /\ Len(toDevice) < MaxCommands
  /\ \E seen \in BOOLEAN : ServiceDeferredRefresh(seen)
  /\ LET queue == IF configRefreshPending /\ ~configRefreshPending'
                  THEN sendQueue \o ConfigDump ELSE sendQueue
         query == IF queue = <<>> THEN <<>> ELSE <<Head(queue)>>
     IN  /\ sendQueue' = SubSeq(queue, 2, Len(queue))
         /\ \/ toDevice' = toDevice \o query /\ UNCHANGED <<left, moveOutstanding>>
            \/ query # <<>> /\ Spend("loss") /\ UNCHANGED <<toDevice, moveOutstanding>>
            \/ /\ Spend("move")
               /\ toDevice' = toDevice \o Append(query, "move")
               /\ moveOutstanding' = TRUE
  /\ UNCHANGED <<deviceVars, printing, toHost, lines, readerVars, params, diag,
                 historyVars>>

-----------------------------------------------------------------------------
Init ==
  /\ settings \in StartSettings /\ moving = FALSE
  /\ errors = [sensor |-> 0, packet |-> 0] /\ reporting = TRUE
  /\ printing = <<>> /\ toDevice = <<>> /\ toHost = <<>> /\ lines = <<>>
  /\ parseState = "none" /\ section = <<>> /\ sectionAge = 0
  /\ sendQueue = StatusPoll /\ configRefreshPending = FALSE /\ deferredAge = 0
  /\ moveOutstanding = FALSE /\ params = settings /\ diag = FreshDiagnostics
  /\ left = MaxEvents
  /\ unread = 0 /\ unanswered = 0 /\ synced = settings /\ polled = Unknown
  /\ lastEnd = "none" /\ endLost = FALSE /\ disturbed = FALSE

Firmware == Execute \/ PrintNext \/ PrintGarbled \/ Report \/ MoveEnds \/ ChangeSetting
            \/ CountError \/ Reboot
Reader == ReadChunk \/ FlushIdle \/ ProcessLine
Control == StatusPollTimer \/ RequestConfigRefresh \/ Write

Next == Firmware \/ Reader \/ Control \/ Tick

Spec == Init /\ [][Next]_vars

\* read() and write() take turns, the timers come round and time passes, however
\* often one of them finds nothing to do; the firmware works.  Nothing makes it
\* report, lose a command, reboot or end a move.
FairSpec ==
  /\ Spec
  /\ WF_vars(Execute) /\ WF_vars(PrintNext)
  /\ WF_vars(ReadChunk) /\ WF_vars(ProcessLine) /\ SF_vars(FlushIdle)
  /\ SF_vars(Write) /\ SF_vars(RequestConfigRefresh) /\ SF_vars(Tick)

-----------------------------------------------------------------------------
(* Properties.                                                              *)

KindsOfLines == {"echo", "invalid", "position", "reached", "timeout", "ready", "kv",
                 "sensor", "packet", "junk"}

TypeOK ==
  /\ settings \in [Keys -> Values] /\ synced \in [Keys -> Values]
  /\ params \in [Keys -> Values]
  /\ errors \in [sensor : 0..MaxEvents, packet : 0..MaxEvents]
  /\ {moving, reporting, configRefreshPending, moveOutstanding, endLost, disturbed}
       \subseteq BOOLEAN
  /\ \A queue \in {printing, toHost, lines, section} :
       \A i \in DOMAIN queue : queue[i].kind \in KindsOfLines
  /\ parseState \in {"none", "config", "status"}
  /\ parseState = "none" => section = <<>>
  /\ parseState = "config" => \A i \in DOMAIN section : section[i].kind = "kv"
  /\ \A queue \in {sendQueue, toDevice} :
       \A i \in DOMAIN queue : queue[i] \in {"config", "status", "probe", "move"}
  /\ Len(toHost) <= MaxWire /\ Len(lines) <= MaxWire
  /\ sectionAge \in 0..FlushAfter /\ deferredAge \in 0..Settle
  /\ diag \in DomeDiagnosticsState
  /\ lastEnd \in {"none", "reached", "timeout"}

InFlight == lines \o toHost \o printing
CountOf(seq, Test(_)) == Cardinality({i \in DOMAIN seq : Test(seq[i])})
IsPosition(line) == line.kind = "position"
IsStatusEcho(line) == line.kind = "echo" /\ line.of = "status"

\* Every position report is delivered, once, whatever section it falls into and
\* however read() chops the stream (roamadome_serial_port.cpp:284, "Always try
\* to parse position line first"): what was printed and not delivered is under
\* way.
EveryReportDelivered ==
  unread = CountOf(InFlight, IsPosition)

\* ... and so is every answer to #DPSTATUS, as one section, once, also when its
\* closing probe was lost and the idle timeout has to end it.
EveryStatusDelivered ==
  unanswered = CountOf(InFlight, IsStatusEcho) + (IF parseState = "status" THEN 1 ELSE 0)

NothingIsSwallowed == ~disturbed => EveryReportDelivered /\ EveryStatusDelivered

\* The two error counters of /diagnostics belong to one answer of the firmware:
\* "a section that carries a sensor error line but no packet error line sets the
\* packet count to zero" (dome_diagnostics.hpp:124), also across a reboot.
CountersOfOnePoll == ~disturbed => diag.packetErrors = polled

\* Unless an answer was cut short, the device.* parameters are the settings of
\* one moment: a dump is delivered whole and never mixed with another one,
\* although it arrives in pieces, mixed with reports, and is closed by whatever
\* comes first, an echo or the idle timeout.
ParamsOfOneDump == ~disturbed => params = synced

\* A move of the firmware that has ended, and whose end was told outside of every
\* section, is no longer taken for outstanding, and the motion level says how it
\* ended.
EndIsTold ==
  /\ ~disturbed /\ ~endLost /\ ~moving
  /\ CountOf(InFlight, IsEnd) = 0 /\ \A i \in DOMAIN toDevice : toDevice[i] # "move"
  => /\ ~moveOutstanding
     /\ lastEnd = "timeout" => MotionLevel(diag) # OK
     /\ lastEnd = "reached" => MotionLevel(diag) # WARN

\* The periodic refresh heals the parameters: after a change at the controller, a
\* garbled or cut dump, a reboot or a lost command they become the settings
\* again, unless a move is taken for outstanding, which defers the refresh.
ParamsSettle == (params # settings) ~> (params = settings \/ moveOutstanding)

\* A controller that has stopped reporting is shown by the link level, even if its
\* READY was swallowed by a section.
SilenceIsShown == ~reporting ~> LinkLevel(diag, TRUE) # OK

\* README.md:671: a move is outstanding while "a `:DPA` sent and no `REACHED
\* TARGET`, `REACHED HOME` or timeout seen yet".  When the firmware has printed
\* the end of its move and everything was read, none is.  A section that is open
\* swallows that line, and settings writes, bench drives and the refresh then
\* wait for a move that is over.
EndedMoveIsNotOutstanding ==
  /\ lastEnd # "none" /\ ~moving /\ ~disturbed /\ "reboot" \notin Events
  /\ printing = <<>> /\ toDevice = <<>> /\ toHost = <<>> /\ lines = <<>>
  => ~moveOutstanding

\* README.md:757: the device.* parameters are "synchronized with controller
\* configuration snapshots".  A dump that a stall or a reboot cuts is flushed by
\* the idle timeout, and every key it did not bring becomes its default.
ParamsAreReported == params = synced
===============================================================================
