------------------------------- MODULE Startup --------------------------------
(***************************************************************************)
(* RoamadomeControl::openDeviceAndRunStartup: the port is opened, the      *)
(* wanted baud rate is told to a device that may be at any, and a sequence *)
(* of commands and probes (runStartupStateMachine) configures the device   *)
(* before the interface may be activated; with the serial reader that      *)
(* hands over the answers.                                                 *)
(*                                                                         *)
(* The loop runs on the controller manager thread: read() whatever bytes   *)
(* have arrived, then one step of the state machine.  pc says where in the *)
(* loop it is; read() is also called once in each turn of the baud sweep.  *)
(* The firmware answers the commands it was sent one by one; a line may be *)
(* lost on its way to the host, a send or a read may fail, answers may be  *)
(* late by any time, and answers to an earlier session may still be under  *)
(* way.                                                                    *)
(*                                                                         *)
(* A config dump is one line here and a status dump is the line about auto *)
(* safety; the age of the configuration (a warning) is left out.  What is  *)
(* sent at a rate that is not the device's spoils the line it next reads;  *)
(* of the five blank lines that precede a baud command one is enough.      *)
(*                                                                         *)
(* A definition Name_Variant, placed before Name, is Name with a plausible *)
(* mistake in it; no other definition uses it.                             *)
(***************************************************************************)
EXTENDS Integers, Sequences, Functions

CONSTANTS
  AutoMode, HomeMode,   \* autoModeEnabled_, homeModeEnabled_: the wanted modes
  MaxRetries,           \* startupMaxRetries_
  Rates,                \* mSupportedBaudRates
  WantedBaud,           \* serialBaud_
  Devices,              \* settings that the device may hold at the start
  Leftovers,            \* lines that are still under way: of an earlier session, or
                        \* answers to the sweep
  NoConfig,             \* an empty configuration map
  MaxFailures,          \* bound: sends and reads that fail
  MaxLost               \* bound: lines lost

ASSUME ModesAssumption == AutoMode \in BOOLEAN /\ HomeMode \in BOOLEAN
ASSUME RetriesAssumption == MaxRetries \in Nat
ASSUME RatesAssumption ==
  Rates \in Seq(Nat) /\ \E i \in DOMAIN Rates : Rates[i] = WantedBaud
ASSUME NoConfigAssumption ==
  NoConfig \notin [autoSafety : BOOLEAN, autoMode : BOOLEAN, homeMode : BOOLEAN]
ASSUME FaultsAssumption == MaxFailures \in Nat /\ MaxLost \in Nat

VARIABLES
  \* the baud sweep: its turn, and the rates of both ends
  turn, hostBaud, deviceBaud,
  spoilt,           \* the line that the device next reads is spoilt
  \* StartupContext; before it the port is CLOSED, then it is in its SWEEP
  state, currentCommand, retriesUsed, probeProcessSeen, probeInvalidSeen,
  autoSafetyEngaged, configMap,
  pc,
  \* the serial reader: parseState_ and the data of the open section
  parseState, section,
  \* the firmware, and the wire in both directions
  device, engaged, executed, toDevice, toHost,
  failures, lost, timeouts,
  leftover          \* whether the state machine begins with lines or an open section
                    \* of what was before it

linkVars    == <<turn, hostBaud, deviceBaud, spoilt>>
contextVars == <<state, currentCommand, retriesUsed, probeProcessSeen, probeInvalidSeen>>
answerVars  == <<autoSafetyEngaged, configMap>>
readerVars  == <<parseState, section>>
deviceVars  == <<device, engaged, executed>>
faultVars   == <<failures, lost, timeouts, leftover>>
vars == <<linkVars, contextVars, answerVars, pc, readerVars, deviceVars, toDevice, toHost, faultVars>>

-----------------------------------------------------------------------------
CommandId == {"CONFIG_INITIAL", "SETUP", "AUTOSAFETY0", "VERIFY_AUTOSAFETY",
              "STATUS", "SET_AUTOMODE", "SET_HOMEMODE", "REPORT"}

\* #DPINVALID, the probe that follows every command.
Wire == CommandId \cup {"PROBE"}

ConfigMaps == [autoSafety : BOOLEAN, autoMode : BOOLEAN, homeMode : BOOLEAN]

\* Lines: the PROCESS echoes, and the answers.
Echo == {"ProcessConfig", "ProcessStatus", "ProcessInvalid", "Process"}
Line == [kind : Echo \cup {"Invalid", "Engaged", "Disengaged"}]
        \cup [kind : {"Config"}, map : ConfigMaps]

OfKind(k) == [kind |-> k]

ASSUME DevicesAssumption == Devices \subseteq ConfigMaps

\* What is left over tells nothing of the settings.
ASSUME LeftoversAssumption ==
  Leftovers \subseteq Seq([kind : Echo \cup {"Invalid", "Engaged"}])

Init ==
  /\ turn = 1 /\ hostBaud \in Range(Rates) /\ deviceBaud \in Range(Rates)
  /\ spoilt = FALSE
  /\ state = "CLOSED" /\ currentCommand = "NONE" /\ retriesUsed = 0
  /\ probeProcessSeen = FALSE /\ probeInvalidSeen = FALSE
  /\ autoSafetyEngaged = TRUE /\ configMap = NoConfig
  /\ pc = "read"
  /\ parseState = "NONE" /\ section = <<>>
  /\ device \in Devices /\ engaged \in BOOLEAN /\ executed = {}
  /\ toDevice = <<>> /\ toHost \in Leftovers
  /\ failures = 0 /\ lost = 0 /\ timeouts = 0 /\ leftover = (toHost # <<>>)

-----------------------------------------------------------------------------
(* The firmware: external, as the host's tests emulate it.                  *)

Answer(command) ==
  CASE command \in {"CONFIG_INITIAL", "VERIFY_AUTOSAFETY"}
         -> <<OfKind("ProcessConfig"), [kind |-> "Config", map |-> device]>>
    [] command = "STATUS"
         -> <<OfKind("ProcessStatus"), OfKind(IF engaged THEN "Engaged" ELSE "Disengaged")>>
    [] command = "PROBE"
         -> <<OfKind("ProcessInvalid"), OfKind("Invalid")>>
    [] command = "SPOILT"
         -> <<OfKind("Process"), OfKind("Invalid")>>
    [] OTHER -> <<OfKind("Process")>>

\* One command after the other.
DeviceExecutes ==
  /\ toDevice # <<>>
  /\ LET command == IF spoilt THEN "SPOILT" ELSE Head(toDevice)
     IN  /\ toHost' = toHost \o Answer(command)
         /\ executed' = executed \cup ({command} \cap CommandId)
         /\ device' = CASE command = "AUTOSAFETY0"  -> [device EXCEPT !.autoSafety = FALSE]
                        [] command = "SET_AUTOMODE" -> [device EXCEPT !.autoMode = AutoMode]
                        [] command = "SET_HOMEMODE" -> [device EXCEPT !.homeMode = HomeMode]
                        [] OTHER -> device
         /\ engaged' = (engaged /\ command # "AUTOSAFETY0")
  /\ toDevice' = Tail(toDevice) /\ spoilt' = FALSE
  /\ UNCHANGED <<turn, hostBaud, deviceBaud, contextVars, answerVars, pc, readerVars,
                 faultVars>>

LineIsLost ==
  /\ lost < MaxLost
  /\ \E i \in 1..Len(toHost) :
       toHost' = SubSeq(toHost, 1, i - 1) \o SubSeq(toHost, i + 1, Len(toHost))
  /\ lost' = lost + 1
  /\ UNCHANGED <<linkVars, contextVars, answerVars, pc, readerVars, deviceVars, toDevice,
                 failures, timeouts, leftover>>

-----------------------------------------------------------------------------
(* openDeviceAndRunStartup, before the state machine.                       *)

Fails ==
  /\ failures < MaxFailures /\ failures' = failures + 1
  /\ state' = "FAILED"

OpenPort ==
  /\ state = "CLOSED"
  /\ \/ state' = "SWEEP" /\ UNCHANGED failures
     \/ Fails
  /\ pc' = "step"
  /\ UNCHANGED <<linkVars, currentCommand, retriesUsed, probeProcessSeen, probeInvalidSeen,
                 answerVars, readerVars, deviceVars, toDevice, toHost, lost, timeouts,
                 leftover>>

SweepOver_OneEarly == turn >= Len(Rates)
SweepOver == turn > Len(Rates)

\* The blank lines and the baud command at one rate.  What was under way at
\* another rate may arrive garbled, and no line comes of it.
SweepTurn ==
  /\ state = "SWEEP" /\ pc = "step" /\ ~SweepOver
  /\ \/ /\ hostBaud' = Rates[turn] /\ turn' = turn + 1
        /\ IF deviceBaud = Rates[turn]
           THEN deviceBaud' = WantedBaud /\ spoilt' = FALSE
           ELSE UNCHANGED deviceBaud /\ spoilt' \in {spoilt, TRUE}
        /\ toHost' \in {<<>>, toHost}
        /\ UNCHANGED <<state, failures>>
     \/ Fails /\ UNCHANGED <<linkVars, toHost>>
  /\ pc' = "read"
  /\ UNCHANGED <<currentCommand, retriesUsed, probeProcessSeen, probeInvalidSeen, answerVars,
                 readerVars, deviceVars, toDevice, lost, timeouts, leftover>>

\* The wanted rate, and resetStartupContext, which forgets what the sweep has
\* heard; a section that it has left open stays open.
BeginStartup ==
  /\ state = "SWEEP" /\ pc = "step" /\ SweepOver
  /\ \/ /\ hostBaud' = WantedBaud /\ state' = "SEND_COMMAND"
        /\ currentCommand' = "NONE" /\ retriesUsed' = 0
        /\ probeProcessSeen' = FALSE /\ probeInvalidSeen' = FALSE
        /\ autoSafetyEngaged' = TRUE /\ configMap' = NoConfig
        /\ leftover' = (toHost # <<>> \/ readerVars # <<"NONE", <<>>>>)
        /\ UNCHANGED failures
     \/ Fails /\ UNCHANGED <<hostBaud, currentCommand, retriesUsed, probeProcessSeen,
                             probeInvalidSeen, answerVars, leftover>>
  /\ pc' = "read"
  /\ UNCHANGED <<turn, deviceBaud, spoilt, readerVars, deviceVars, toDevice, toHost, lost,
                 timeouts>>

-----------------------------------------------------------------------------
(* read(): the serial reader and the observers it calls.                    *)

\* The last that the section says of the safety.
SectionSays(kind) ==
  \E i \in DOMAIN section :
    /\ section[i].kind = kind
    /\ \A j \in (i + 1)..Len(section) : section[j].kind \notin {"Engaged", "Disengaged"}

\* The observers of a section that ends: onConfigUpdate, onStatusUpdate.
NotifySection ==
  IF section = <<>> THEN UNCHANGED answerVars
  ELSE IF parseState = "CONFIG"
  THEN configMap' = section[Len(section)].map /\ UNCHANGED autoSafetyEngaged
  ELSE /\ autoSafetyEngaged' = IF SectionSays("Disengaged") THEN FALSE
                               ELSE autoSafetyEngaged \/ SectionSays("Engaged")
       /\ UNCHANGED configMap

\* flushActiveSectionIfReady(true) at a PROCESS line, which then may begin a
\* section of its own.
ReadEcho_NotFlushed(line) ==
  /\ line.kind \in Echo
  /\ UNCHANGED answerVars
  /\ parseState' = CASE line.kind = "ProcessConfig" -> "CONFIG"
                     [] line.kind = "ProcessStatus" -> "STATUS"
                     [] OTHER -> "NONE"
  /\ section' = <<>>
  /\ probeProcessSeen' = (probeProcessSeen \/ line.kind = "ProcessInvalid")
  /\ UNCHANGED probeInvalidSeen
ReadEcho(line) ==
  /\ line.kind \in Echo
  /\ NotifySection
  /\ parseState' = CASE line.kind = "ProcessConfig" -> "CONFIG"
                     [] line.kind = "ProcessStatus" -> "STATUS"
                     [] OTHER -> "NONE"
  /\ section' = <<>>
  /\ probeProcessSeen' = (probeProcessSeen \/ line.kind = "ProcessInvalid")
  /\ UNCHANGED probeInvalidSeen

\* While a section is open every other line belongs to it; a CONFIG section
\* keeps only key = value lines.
ReadInSection(line) ==
  /\ line.kind \notin Echo /\ parseState # "NONE"
  /\ section' = IF parseState = "STATUS" \/ line.kind = "Config"
                THEN Append(section, line) ELSE section
  /\ UNCHANGED <<parseState, answerVars, probeProcessSeen, probeInvalidSeen>>

\* handleStartupUnhandledLine.
ReadUnhandled(line) ==
  /\ line.kind \notin Echo /\ parseState = "NONE"
  /\ probeInvalidSeen' = (probeInvalidSeen \/ line.kind = "Invalid")
  /\ autoSafetyEngaged' = CASE line.kind = "Engaged"    -> TRUE
                            [] line.kind = "Disengaged" -> FALSE
                            [] OTHER -> autoSafetyEngaged
  /\ UNCHANGED <<configMap, readerVars, probeProcessSeen>>

Running == state \in {"SEND_COMMAND", "WAIT_PROBE"}
Reading == Running \/ state = "SWEEP"

ReadLine ==
  /\ Reading /\ pc \in {"read", "more"} /\ toHost # <<>>
  /\ LET line == Head(toHost)
     IN  ReadEcho(line) \/ ReadInSection(line) \/ ReadUnhandled(line)
  /\ toHost' = Tail(toHost)
  /\ pc' = "more"
  /\ UNCHANGED <<linkVars, state, currentCommand, retriesUsed, deviceVars, toDevice, faultVars>>

\* All the bytes that had arrived are read.
ReadEnds ==
  /\ Reading /\ pc = "more"
  /\ pc' = "step"
  /\ UNCHANGED <<linkVars, contextVars, answerVars, readerVars, deviceVars, toDevice, toHost, faultVars>>

\* No bytes: a section that has data and has been idle for the flush timeout
\* ends.
ReadNothing ==
  /\ Reading /\ pc = "read"
  /\ \/ UNCHANGED <<answerVars, readerVars>>
     \/ /\ section # <<>>
        /\ NotifySection
        /\ parseState' = "NONE" /\ section' = <<>>
  /\ pc' = "step"
  /\ UNCHANGED <<linkVars, contextVars, deviceVars, toDevice, toHost, faultVars>>

\* The sweep does not look at what read() returns.
ReadFails ==
  /\ Running /\ pc = "read" /\ failures < MaxFailures
  /\ failures' = failures + 1
  /\ state' = "FAILED"
  /\ UNCHANGED <<linkVars, currentCommand, retriesUsed, probeProcessSeen, probeInvalidSeen,
                 answerVars, pc, readerVars, deviceVars, toDevice, toHost, lost, timeouts,
                 leftover>>

-----------------------------------------------------------------------------
(* The state machine.  Resolve is resolveStartupNextCommand: the next       *)
(* command, or "COMPLETE" after the terminal one, or "FAILED" when a        *)
(* transition throws.                                                       *)

SafetyOff == configMap # NoConfig /\ ~configMap.autoSafety
AutoModeOk == configMap # NoConfig /\ configMap.autoMode = AutoMode
HomeModeOk == configMap # NoConfig /\ configMap.homeMode = HomeMode

AfterAutoMode_Report == "REPORT"
AfterAutoMode == IF HomeModeOk THEN "REPORT" ELSE "SET_HOMEMODE"

AfterStatus_Unchecked == IF AutoModeOk THEN AfterAutoMode ELSE "SET_AUTOMODE"
AfterStatus ==
  IF autoSafetyEngaged THEN "FAILED"
  ELSE IF AutoModeOk THEN AfterAutoMode ELSE "SET_AUTOMODE"

Resolve ==
  CASE currentCommand = "NONE"              -> "CONFIG_INITIAL"
    [] currentCommand = "CONFIG_INITIAL"    -> IF SafetyOff THEN "STATUS" ELSE "SETUP"
    [] currentCommand = "SETUP"             -> "AUTOSAFETY0"
    [] currentCommand = "AUTOSAFETY0"       -> "VERIFY_AUTOSAFETY"
    [] currentCommand = "VERIFY_AUTOSAFETY" -> IF SafetyOff THEN "STATUS" ELSE "FAILED"
    [] currentCommand = "STATUS"            -> AfterStatus
    [] currentCommand = "SET_AUTOMODE"      -> AfterAutoMode
    [] currentCommand = "SET_HOMEMODE"      -> "REPORT"
    [] currentCommand = "REPORT"            -> "COMPLETE"

\* The command and then its probe are sent; either send may fail.
SendWithProbe(command, next) ==
  \/ /\ toDevice' = toDevice \o <<command, "PROBE">>
     /\ state' = next
     /\ UNCHANGED failures
  \/ /\ failures < MaxFailures /\ failures' = failures + 1
     /\ \/ UNCHANGED toDevice
        \/ toDevice' = Append(toDevice, command)
     /\ state' = "FAILED"

ForgetProbe == probeProcessSeen' = FALSE /\ probeInvalidSeen' = FALSE

SendCommand ==
  /\ state = "SEND_COMMAND" /\ pc = "step" /\ Resolve \in CommandId
  /\ currentCommand' = Resolve /\ retriesUsed' = 0
  /\ ForgetProbe
  /\ SendWithProbe(Resolve, "WAIT_PROBE")
  /\ pc' = "read"
  /\ UNCHANGED <<linkVars, answerVars, readerVars, deviceVars, toHost, lost, timeouts, leftover>>

Finish ==
  /\ state = "SEND_COMMAND" /\ pc = "step" /\ Resolve \in {"COMPLETE", "FAILED"}
  /\ state' = Resolve
  /\ pc' = "read"
  /\ UNCHANGED <<linkVars, currentCommand, retriesUsed, probeProcessSeen, probeInvalidSeen,
                 answerVars, readerVars, deviceVars, toDevice, toHost, faultVars>>

StartupProbeComplete == probeProcessSeen /\ probeInvalidSeen

ProbeCompletes ==
  /\ state = "WAIT_PROBE" /\ pc = "step" /\ StartupProbeComplete
  /\ state' = "SEND_COMMAND"
  /\ pc' = "read"
  /\ UNCHANGED <<linkVars, currentCommand, retriesUsed, probeProcessSeen, probeInvalidSeen,
                 answerVars, readerVars, deviceVars, toDevice, toHost, faultVars>>

StillWaiting ==
  /\ state = "WAIT_PROBE" /\ pc = "step" /\ ~StartupProbeComplete
  /\ pc' = "read"
  /\ UNCHANGED <<linkVars, contextVars, answerVars, readerVars, deviceVars, toDevice, toHost, faultVars>>

\* retryCurrentStartupCommand: the same command and a new probe.
GiveUp_WaitsOn == UNCHANGED state
GiveUp == state' = "FAILED"

RetriesLeft == retriesUsed < MaxRetries

TimedOut ==
  /\ state = "WAIT_PROBE" /\ pc = "step" /\ ~StartupProbeComplete
  /\ timeouts' = 1      \* whether there was one
  /\ pc' = "read"
  /\ \/ /\ RetriesLeft
        /\ retriesUsed' = retriesUsed + 1
        /\ ForgetProbe
        /\ SendWithProbe(currentCommand, "WAIT_PROBE")
        /\ UNCHANGED currentCommand
     \/ /\ ~RetriesLeft
        /\ GiveUp
        /\ UNCHANGED <<currentCommand, retriesUsed, probeProcessSeen, probeInvalidSeen,
                       toDevice, failures>>
  /\ UNCHANGED <<linkVars, answerVars, readerVars, deviceVars, toHost, lost, leftover>>

-----------------------------------------------------------------------------
HostSteps ==
  \/ OpenPort \/ SweepTurn \/ BeginStartup
  \/ ReadLine \/ ReadEnds \/ ReadNothing \/ ReadFails
  \/ SendCommand \/ Finish \/ ProbeCompletes \/ StillWaiting \/ TimedOut

Next == HostSteps \/ DeviceExecutes \/ LineIsLost

Spec == Init /\ [][Next]_vars

\* The loop goes on, and a wait that does not end times out.
FairSpec == Spec /\ WF_vars(HostSteps) /\ SF_vars(TimedOut)

-----------------------------------------------------------------------------
(* Properties.                                                              *)

\* Every variable has a value of its type, and no command is tried more often
\* than configured.
TypeOK ==
  /\ turn \in 1..(Len(Rates) + 1) /\ spoilt \in BOOLEAN
  /\ hostBaud \in Range(Rates) /\ deviceBaud \in Range(Rates)
  /\ state \in {"CLOSED", "SWEEP", "SEND_COMMAND", "WAIT_PROBE", "COMPLETE", "FAILED"}
  /\ currentCommand \in CommandId \cup {"NONE"}
  /\ retriesUsed \in 0..MaxRetries
  /\ probeProcessSeen \in BOOLEAN /\ probeInvalidSeen \in BOOLEAN
  /\ autoSafetyEngaged \in BOOLEAN /\ configMap \in ConfigMaps \cup {NoConfig}
  /\ pc \in {"read", "more", "step"}
  /\ parseState \in {"NONE", "CONFIG", "STATUS"} /\ section \in Seq(Line)
  /\ device \in ConfigMaps /\ engaged \in BOOLEAN /\ executed \subseteq CommandId
  /\ toDevice \in Seq(Wire) /\ toHost \in Seq(Line)
  /\ failures \in 0..MaxFailures /\ lost \in 0..MaxLost /\ timeouts \in 0..1
  /\ leftover \in BOOLEAN

\* A startup that succeeded leaves a device whose auto safety is off, in its
\* settings and in fact, whatever lines were lost, late or left over.
CompleteMeansSafe == state = "COMPLETE" => ~device.autoSafety /\ ~engaged

\* Once the device has worked off what it was sent by a startup that succeeded,
\* its modes are the wanted ones and it reports its position.
CompleteMeansConfigured ==
  state = "COMPLETE" /\ toDevice = <<>> =>
    device.autoMode = AutoMode /\ device.homeMode = HomeMode /\ "REPORT" \in executed

\* A startup fails only for a reason: a send or read that failed, a wait that
\* timed out, an answer of an earlier session, or a device that holds its
\* safety engaged.
FailureHasReason ==
  state = "FAILED" =>
    failures > 0 \/ timeouts > 0 \/ lost > 0 \/ leftover \/ engaged

\* Startup ends, however many lines are lost.
StartupEnds == <>(state \in {"COMPLETE", "FAILED"})

\* Whatever rate the device is at, the commands of startup go out at its rate.
LinkAgrees == toDevice # <<>> => hostBaud = deviceBaud

\* A probe that completes means that the device has executed the command before
\* it.
ProbeMeansExecuted ==
  [][state = "WAIT_PROBE" /\ state' = "SEND_COMMAND" => currentCommand \in executed]_vars
===============================================================================
