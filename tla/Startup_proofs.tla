----------------------------- MODULE Startup_proofs -----------------------------
(***************************************************************************)
(* Proofs that startup talks to the device at the device's rate, and that  *)
(* success means that the auto safety is off and failure has a reason, for *)
(* every list of rates, every device, every number of retries and every    *)
(* number of faults.                                                       *)
(***************************************************************************)
EXTENDS Startup, SequenceTheorems, TLAPS

-----------------------------------------------------------------------------
(* Sequences.                                                               *)

\* One line less is a sequence of the same lines.
LEMMA LineTaken ==
  ASSUME NEW S, NEW q \in Seq(S), NEW i \in 1..Len(q)
  PROVE  SubSeq(q, 1, i - 1) \o SubSeq(q, i + 1, Len(q)) \in Seq(S)
<1>1. \A j \in 1..(i - 1) : q[j] \in S
  OBVIOUS
<1>2. \A j \in (i + 1)..Len(q) : q[j] \in S
  OBVIOUS
<1>3. SubSeq(q, 1, i - 1) \in Seq(S)
  BY <1>1, SubSeqProperties
<1>4. SubSeq(q, i + 1, Len(q)) \in Seq(S)
  BY <1>2, SubSeqProperties
<1> QED
  BY <1>3, <1>4, ConcatProperties

\* What is true of all lines stays true when more lines are allowed.
LEMMA SeqMonotone ==
  ASSUME NEW S, NEW T, S \subseteq T
  PROVE  Seq(S) \subseteq Seq(T)
<1> SUFFICES ASSUME NEW q \in Seq(S) PROVE q \in Seq(T)
  OBVIOUS
<1>1. \A i \in 1..Len(q) : q[i] \in T
  OBVIOUS
<1> QED
  BY <1>1, IsASeq, LenProperties

LEMMA RateOfTurn == \A i \in 1..Len(Rates) : Rates[i] \in Range(Rates)
BY RatesAssumption DEF Range

LEMMA WantedIsRate == WantedBaud \in Range(Rates)
BY RatesAssumption DEF Range

\* The firmware answers with lines of a few kinds.
LEMMA AnswerLines ==
  ASSUME NEW S, NEW command \in Wire \cup {"SPOILT"},
         \A k \in Echo \cup {"Invalid"} : OfKind(k) \in S,
         [kind |-> "Config", map |-> device] \in S,
         OfKind(IF engaged THEN "Engaged" ELSE "Disengaged") \in S
  PROVE  Answer(command) \in Seq(S)
<1>1. CASE command \in {"CONFIG_INITIAL", "VERIFY_AUTOSAFETY"}
  <2>1. Answer(command) = <<OfKind("ProcessConfig"), [kind |-> "Config", map |-> device]>>
    BY <1>1 DEF Answer
  <2> QED BY <2>1 DEF Echo
<1>2. CASE command = "STATUS"
  <2>1. Answer(command) = <<OfKind("ProcessStatus"),
                            OfKind(IF engaged THEN "Engaged" ELSE "Disengaged")>>
    BY <1>2 DEF Answer
  <2> QED BY <2>1 DEF Echo
<1>3. CASE command = "PROBE"
  <2>1. Answer(command) = <<OfKind("ProcessInvalid"), OfKind("Invalid")>>
    BY <1>3 DEF Answer
  <2> QED BY <2>1 DEF Echo
<1>4. CASE command = "SPOILT"
  <2>1. Answer(command) = <<OfKind("Process"), OfKind("Invalid")>>
    BY <1>4 DEF Answer
  <2> QED BY <2>1 DEF Echo
<1>5. CASE command \notin {"CONFIG_INITIAL", "VERIFY_AUTOSAFETY", "STATUS", "PROBE", "SPOILT"}
  <2>1. Answer(command) = <<OfKind("Process")>>
    BY <1>5 DEF Answer
  <2> QED BY <2>1 DEF Echo
<1> QED
  BY <1>1, <1>2, <1>3, <1>4, <1>5

\* The next command is a command, or tells how startup ends.
LEMMA ResolveResult ==
  ASSUME currentCommand \in CommandId \cup {"NONE"}
  PROVE  Resolve \in CommandId \cup {"COMPLETE", "FAILED"}
<1>1. AfterAutoMode \in {"REPORT", "SET_HOMEMODE"}
  BY DEF AfterAutoMode
<1>2. AfterStatus \in {"FAILED", "REPORT", "SET_HOMEMODE", "SET_AUTOMODE"}
  BY <1>1 DEF AfterStatus
<1>3. CASE currentCommand = "NONE"
  BY <1>3 DEF Resolve, CommandId
<1>4. CASE currentCommand = "CONFIG_INITIAL"
  <2>1. Resolve = IF SafetyOff THEN "STATUS" ELSE "SETUP"
    BY <1>4 DEF Resolve
  <2> QED BY <2>1 DEF CommandId
<1>5. CASE currentCommand = "SETUP"
  BY <1>5 DEF Resolve, CommandId
<1>6. CASE currentCommand = "AUTOSAFETY0"
  BY <1>6 DEF Resolve, CommandId
<1>7. CASE currentCommand = "VERIFY_AUTOSAFETY"
  <2>1. Resolve = IF SafetyOff THEN "STATUS" ELSE "FAILED"
    BY <1>7 DEF Resolve
  <2> QED BY <2>1 DEF CommandId
<1>8. CASE currentCommand = "STATUS"
  <2>1. Resolve = AfterStatus
    BY <1>8 DEF Resolve
  <2> QED BY <1>2, <2>1 DEF CommandId
<1>9. CASE currentCommand = "SET_AUTOMODE"
  <2>1. Resolve = AfterAutoMode
    BY <1>9 DEF Resolve
  <2> QED BY <1>1, <2>1 DEF CommandId
<1>10. CASE currentCommand = "SET_HOMEMODE"
  BY <1>10 DEF Resolve, CommandId
<1>11. CASE currentCommand = "REPORT"
  <2>1. Resolve = "COMPLETE"
    BY <1>11 DEF Resolve
  <2> QED BY <2>1
<1> QED
  BY <1>3, <1>4, <1>5, <1>6, <1>7, <1>8, <1>9, <1>10, <1>11 DEF CommandId

-----------------------------------------------------------------------------
(* Types.                                                                   *)

\* An open CONFIG section holds key = value lines only.
ConfigSection ==
  parseState = "CONFIG" => \A i \in DOMAIN section : section[i].kind = "Config"

\* What is waited for is the answer to a command.
WaitsForCommand == state = "WAIT_PROBE" => currentCommand \in CommandId

TypeInv == TypeOK /\ ConfigSection /\ WaitsForCommand

\* A section that is handed on leaves answers of the right types.
LEMMA NotifiedTypes ==
  ASSUME TypeOK, NotifySection,
         ConfigSection
  PROVE  autoSafetyEngaged' \in BOOLEAN /\ configMap' \in ConfigMaps \cup {NoConfig}
<1>1. CASE section = <<>>
  BY <1>1 DEF NotifySection, answerVars, TypeOK
<1>2. CASE section # <<>> /\ parseState = "CONFIG"
  <2>1. section \in Seq(Line)
    BY DEF TypeOK
  <2>2. Len(section) \in DOMAIN section
    BY <1>2, <2>1
  <2>3. section[Len(section)] \in Line /\ section[Len(section)].kind = "Config"
    BY <1>2, <2>1, <2>2 DEF ConfigSection
  <2>4. section[Len(section)].map \in ConfigMaps
    BY <2>3 DEF Line, Echo
  <2> QED BY <1>2, <2>4 DEF NotifySection, TypeOK
<1>3. CASE section # <<>> /\ parseState # "CONFIG"
  BY <1>3 DEF NotifySection, TypeOK
<1> QED
  BY <1>1, <1>2, <1>3

\* Executing a command changes the device's settings within their type.
LEMMA DeviceStep ==
  ASSUME TypeOK, DeviceExecutes
  PROVE  /\ device' \in ConfigMaps
         /\ \E command \in Wire \cup {"SPOILT"} :
              /\ toHost' = toHost \o Answer(command)
              /\ executed' = executed \cup ({command} \cap CommandId)
         /\ ~device.autoSafety => ~device'.autoSafety
         /\ engaged' \in BOOLEAN /\ (engaged' => engaged)
<1> DEFINE command == IF spoilt THEN "SPOILT" ELSE Head(toDevice)
<1>1. toDevice \in Seq(Wire) /\ toDevice # <<>>
  BY DEF DeviceExecutes, TypeOK
<1>2. Head(toDevice) \in Wire
  BY <1>1
<1>3. command \in Wire \cup {"SPOILT"}
  BY <1>2
<1>4. /\ toHost' = toHost \o Answer(command)
      /\ executed' = executed \cup ({command} \cap CommandId)
      /\ device' = CASE command = "AUTOSAFETY0"  -> [device EXCEPT !.autoSafety = FALSE]
                     [] command = "SET_AUTOMODE" -> [device EXCEPT !.autoMode = AutoMode]
                     [] command = "SET_HOMEMODE" -> [device EXCEPT !.homeMode = HomeMode]
                     [] OTHER -> device
      /\ engaged' = (engaged /\ command # "AUTOSAFETY0")
  BY DEF DeviceExecutes
<1> HIDE DEF command
<1>5. device \in ConfigMaps /\ engaged \in BOOLEAN
  BY DEF TypeOK
<1>6. device' \in ConfigMaps /\ (~device.autoSafety => ~device'.autoSafety)
  <2>1. CASE command = "AUTOSAFETY0"
    <3>1. device' = [device EXCEPT !.autoSafety = FALSE]
      BY <1>4, <2>1
    <3> QED BY <1>5, <3>1 DEF ConfigMaps
  <2>2. CASE command = "SET_AUTOMODE"
    <3>1. device' = [device EXCEPT !.autoMode = AutoMode]
      BY <1>4, <2>2
    <3> QED BY <1>5, <3>1, ModesAssumption DEF ConfigMaps
  <2>3. CASE command = "SET_HOMEMODE"
    <3>1. device' = [device EXCEPT !.homeMode = HomeMode]
      BY <1>4, <2>3
    <3> QED BY <1>5, <3>1, ModesAssumption DEF ConfigMaps
  <2>4. CASE command \notin {"AUTOSAFETY0", "SET_AUTOMODE", "SET_HOMEMODE"}
    <3>1. device' = device
      BY <1>4, <2>4
    <3> QED BY <1>5, <3>1
  <2> QED BY <2>1, <2>2, <2>3, <2>4
<1>7. engaged' \in BOOLEAN /\ (engaged' => engaged)
  BY <1>4, <1>5
<1> QED
  BY <1>3, <1>4, <1>6, <1>7

\* A line that is read leaves the reader and the answers with right types.
LEMMA ReadTypes ==
  ASSUME TypeInv, NEW line \in Line,
         ReadEcho(line) \/ ReadInSection(line) \/ ReadUnhandled(line)
  PROVE  /\ parseState' \in {"NONE", "CONFIG", "STATUS"} /\ section' \in Seq(Line)
         /\ ConfigSection'
         /\ autoSafetyEngaged' \in BOOLEAN /\ configMap' \in ConfigMaps \cup {NoConfig}
         /\ probeProcessSeen' \in BOOLEAN /\ probeInvalidSeen' \in BOOLEAN
<1>1. CASE ReadEcho(line)
  <2>1. autoSafetyEngaged' \in BOOLEAN /\ configMap' \in ConfigMaps \cup {NoConfig}
    BY <1>1, NotifiedTypes DEF ReadEcho, TypeInv
  <2>2. parseState' \in {"NONE", "CONFIG", "STATUS"}
    <3>1. CASE line.kind = "ProcessConfig"
      BY <1>1, <3>1 DEF ReadEcho
    <3>2. CASE line.kind = "ProcessStatus"
      BY <1>1, <3>2 DEF ReadEcho
    <3>3. CASE line.kind \notin {"ProcessConfig", "ProcessStatus"}
      BY <1>1, <3>3 DEF ReadEcho
    <3> QED BY <3>1, <3>2, <3>3
  <2>3. section' = <<>> /\ section' \in Seq(Line) /\ ConfigSection'
    BY <1>1 DEF ReadEcho, ConfigSection
  <2>4. probeProcessSeen' \in BOOLEAN /\ probeInvalidSeen' \in BOOLEAN
    BY <1>1 DEF ReadEcho, TypeInv, TypeOK
  <2> QED BY <2>1, <2>2, <2>3, <2>4
<1>2. CASE ReadInSection(line)
  <2>1. section \in Seq(Line)
    BY DEF TypeInv, TypeOK
  <2>2. section' \in Seq(Line)
    BY <1>2, <2>1 DEF ReadInSection
  <2>3. ConfigSection'
    <3>1. ASSUME parseState = "CONFIG"
          PROVE  \A i \in DOMAIN section' : section'[i].kind = "Config"
      BY <1>2, <2>1, <3>1 DEF ReadInSection, TypeInv, ConfigSection
    <3> QED BY <1>2, <3>1 DEF ReadInSection, ConfigSection
  <2> QED BY <1>2, <2>2, <2>3 DEF ReadInSection, TypeInv, TypeOK, answerVars
<1>3. CASE ReadUnhandled(line)
  <2>1. autoSafetyEngaged' \in BOOLEAN
    <3>1. CASE line.kind = "Engaged"
      BY <1>3, <3>1 DEF ReadUnhandled
    <3>2. CASE line.kind = "Disengaged"
      BY <1>3, <3>2 DEF ReadUnhandled
    <3>3. CASE line.kind \notin {"Engaged", "Disengaged"}
      BY <1>3, <3>3 DEF ReadUnhandled, TypeInv, TypeOK
    <3> QED BY <3>1, <3>2, <3>3
  <2>2. UNCHANGED <<configMap, parseState, section, probeProcessSeen>>
    BY <1>3 DEF ReadUnhandled, readerVars
  <2>3. probeInvalidSeen' \in BOOLEAN
    BY <1>3 DEF ReadUnhandled, TypeInv, TypeOK
  <2> QED BY <2>1, <2>2, <2>3 DEF TypeInv, TypeOK, ConfigSection
<1> QED
  BY <1>1, <1>2, <1>3

\* Sending a command and its probe changes the wire, the state and the failures
\* within their types.
LEMMA SendTypes ==
  ASSUME TypeOK, NEW command \in CommandId, NEW next, SendWithProbe(command, next)
  PROVE  /\ toDevice' \in Seq(Wire) /\ failures' \in 0..MaxFailures
         /\ state' \in {next, "FAILED"}
<1>1. command \in Wire /\ "PROBE" \in Wire /\ toDevice \in Seq(Wire)
  BY DEF Wire, TypeOK
<1>2. toDevice \o <<command, "PROBE">> \in Seq(Wire) /\ Append(toDevice, command) \in Seq(Wire)
  BY <1>1
<1>3. failures \in 0..MaxFailures /\ MaxFailures \in Nat
  BY FaultsAssumption DEF TypeOK
<1>4. CASE toDevice' = toDevice \o <<command, "PROBE">> /\ state' = next /\ UNCHANGED failures
  BY <1>2, <1>3, <1>4
<1>5. CASE /\ failures < MaxFailures /\ failures' = failures + 1 /\ state' = "FAILED"
           /\ UNCHANGED toDevice \/ toDevice' = Append(toDevice, command)
  BY <1>1, <1>2, <1>3, <1>5
<1> QED
  BY <1>4, <1>5 DEF SendWithProbe

LEMMA TypeInit == Init => TypeInv
<1> SUFFICES ASSUME Init PROVE TypeInv
  OBVIOUS
<1>1. 1 \in 1..(Len(Rates) + 1)
  BY RatesAssumption
<1>2. toHost \in Seq(Line)
  <2>1. [kind : Echo \cup {"Invalid", "Engaged"}] \subseteq Line
    BY DEF Line
  <2> QED BY <2>1, SeqMonotone, LeftoversAssumption DEF Init
<1>3. device \in ConfigMaps
  BY DevicesAssumption DEF Init
<1>4. leftover \in BOOLEAN
  BY DEF Init
<1>5. section \in Seq(Line) /\ toDevice \in Seq(Wire)
  BY DEF Init
<1>7. ConfigSection /\ WaitsForCommand
  BY DEF Init, ConfigSection, WaitsForCommand
<1>6. retriesUsed \in 0..MaxRetries /\ failures \in 0..MaxFailures /\ lost \in 0..MaxLost
  BY RetriesAssumption, FaultsAssumption DEF Init
<1> QED
  <2>1. TypeOK
    <3>1. turn \in 1..(Len(Rates) + 1) /\ hostBaud \in Range(Rates) /\ deviceBaud \in Range(Rates)
      BY <1>1 DEF Init
    <3>2. /\ state = "CLOSED" /\ currentCommand = "NONE" /\ pc = "read" /\ parseState = "NONE"
          /\ configMap = NoConfig /\ executed = {} /\ timeouts = 0
      BY DEF Init
    <3>3. /\ spoilt \in BOOLEAN /\ probeProcessSeen \in BOOLEAN /\ probeInvalidSeen \in BOOLEAN
          /\ autoSafetyEngaged \in BOOLEAN /\ engaged \in BOOLEAN
      BY DEF Init
    <3> QED
      BY <1>2, <1>3, <1>4, <1>5, <1>6, <3>1, <3>2, <3>3 DEF TypeOK
  <2> QED BY <1>7, <2>1 DEF TypeInv

\* No step leaves the types.
LEMMA TypeStep == TypeInv /\ [Next]_vars => TypeInv'
<1> SUFFICES ASSUME TypeInv, [Next]_vars PROVE TypeInv'
  OBVIOUS
<1> USE DEF TypeInv
<1>1. CASE UNCHANGED vars
  BY <1>1 DEF vars, linkVars, contextVars, answerVars, readerVars, deviceVars, faultVars,
              TypeOK, ConfigSection, WaitsForCommand
<1>2. CASE OpenPort
  <2>1. state' \in {"SWEEP", "FAILED"} /\ failures' \in 0..MaxFailures
    BY <1>2, FaultsAssumption DEF OpenPort, Fails, TypeOK
  <2> QED
    BY <1>2, <2>1 DEF OpenPort, linkVars, answerVars, readerVars, deviceVars,
                      TypeOK, ConfigSection, WaitsForCommand
<1>3. CASE SweepTurn
  <2>1. /\ turn' \in 1..(Len(Rates) + 1) /\ spoilt' \in BOOLEAN
        /\ hostBaud' \in Range(Rates) /\ deviceBaud' \in Range(Rates)
        /\ state' \in {"SWEEP", "FAILED"} /\ failures' \in 0..MaxFailures
        /\ toHost' \in Seq(Line)
    <3>1. CASE Fails /\ UNCHANGED <<linkVars, toHost>>
      BY <3>1, FaultsAssumption DEF Fails, linkVars, TypeOK
    <3>2. CASE /\ hostBaud' = Rates[turn] /\ turn' = turn + 1
               /\ IF deviceBaud = Rates[turn]
                  THEN deviceBaud' = WantedBaud /\ spoilt' = FALSE
                  ELSE UNCHANGED deviceBaud /\ spoilt' \in {spoilt, TRUE}
               /\ toHost' \in {<<>>, toHost}
               /\ UNCHANGED <<state, failures>>
      <4>1. turn \in 1..Len(Rates) /\ Len(Rates) \in Nat /\ state = "SWEEP"
        BY <1>3, RatesAssumption DEF SweepTurn, SweepOver, TypeOK
      <4>2. hostBaud' \in Range(Rates) /\ deviceBaud' \in Range(Rates)
        BY <3>2, <4>1, RateOfTurn, WantedIsRate DEF TypeOK
      <4>3. turn' \in 1..(Len(Rates) + 1) /\ failures' \in 0..MaxFailures
        BY <3>2, <4>1 DEF TypeOK
      <4>4. spoilt' \in BOOLEAN
        BY <3>2 DEF TypeOK
      <4>5. toHost \in Seq(Line) /\ <<>> \in Seq(Line)
        BY DEF TypeOK
      <4>7. toHost' \in Seq(Line)
        BY <3>2, <4>5
      <4> QED BY <3>2, <4>1, <4>2, <4>3, <4>4, <4>7
    <3> QED BY <1>3, <3>1, <3>2 DEF SweepTurn
  <2> QED
    BY <1>3, <2>1 DEF SweepTurn, answerVars, readerVars, deviceVars, TypeOK,
                      ConfigSection, WaitsForCommand
<1>4. CASE BeginStartup
  <2>1. /\ state' \in {"SEND_COMMAND", "FAILED"} /\ failures' \in 0..MaxFailures
        /\ hostBaud' \in Range(Rates)
    BY <1>4, WantedIsRate, FaultsAssumption DEF BeginStartup, Fails, TypeOK
  <2>2. /\ currentCommand' \in CommandId \cup {"NONE"} /\ retriesUsed' \in 0..MaxRetries
        /\ probeProcessSeen' \in BOOLEAN /\ probeInvalidSeen' \in BOOLEAN
        /\ autoSafetyEngaged' \in BOOLEAN /\ configMap' \in ConfigMaps \cup {NoConfig}
        /\ leftover' \in BOOLEAN
    <3>1. CASE state' = "SEND_COMMAND"
      <4>1. 0 \in 0..MaxRetries
        BY RetriesAssumption
      <4>2. leftover' \in BOOLEAN
        BY <1>4, <3>1 DEF BeginStartup, Fails
      <4> QED BY <1>4, <3>1, <4>1, <4>2 DEF BeginStartup, Fails
    <3>2. CASE Fails
      BY <1>4, <3>2 DEF BeginStartup, Fails, answerVars, TypeOK
    <3> QED BY <1>4, <3>1, <3>2 DEF BeginStartup
  <2> QED
    BY <1>4, <2>1, <2>2 DEF BeginStartup, readerVars, deviceVars, TypeOK,
                            ConfigSection, WaitsForCommand
<1>5. CASE ReadLine
  <2>1. toHost \in Seq(Line) /\ toHost # <<>>
    BY <1>5 DEF ReadLine, TypeOK
  <2>2. Head(toHost) \in Line /\ Tail(toHost) \in Seq(Line)
    BY <2>1
  <2>3. ReadEcho(Head(toHost)) \/ ReadInSection(Head(toHost)) \/ ReadUnhandled(Head(toHost))
    BY <1>5 DEF ReadLine
  <2>4. /\ parseState' \in {"NONE", "CONFIG", "STATUS"} /\ section' \in Seq(Line)
        /\ ConfigSection'
        /\ autoSafetyEngaged' \in BOOLEAN /\ configMap' \in ConfigMaps \cup {NoConfig}
        /\ probeProcessSeen' \in BOOLEAN /\ probeInvalidSeen' \in BOOLEAN
    BY <2>2, <2>3, ReadTypes
  <2>5. /\ toHost' = Tail(toHost) /\ pc' = "more"
        /\ UNCHANGED <<linkVars, state, currentCommand, retriesUsed, deviceVars, toDevice,
                       faultVars>>
    BY <1>5 DEF ReadLine
  <2> QED
    BY <2>2, <2>4, <2>5 DEF linkVars, deviceVars, faultVars, TypeOK, WaitsForCommand
<1>6. CASE ReadEnds
  BY <1>6 DEF ReadEnds, linkVars, contextVars, answerVars, readerVars, deviceVars, faultVars,
              TypeOK, ConfigSection, WaitsForCommand
<1>7. CASE ReadNothing
  <2>1. /\ autoSafetyEngaged' \in BOOLEAN /\ configMap' \in ConfigMaps \cup {NoConfig}
        /\ parseState' \in {"NONE", "CONFIG", "STATUS"} /\ section' \in Seq(Line)
        /\ ConfigSection'
    <3>1. CASE UNCHANGED <<answerVars, readerVars>>
      BY <3>1 DEF answerVars, readerVars, TypeOK, ConfigSection, WaitsForCommand
    <3>2. CASE NotifySection /\ parseState' = "NONE" /\ section' = <<>>
      <4>1. autoSafetyEngaged' \in BOOLEAN /\ configMap' \in ConfigMaps \cup {NoConfig}
        BY <3>2, NotifiedTypes
      <4> QED BY <3>2, <4>1 DEF ConfigSection, WaitsForCommand
    <3> QED BY <1>7, <3>1, <3>2 DEF ReadNothing
  <2> QED
    BY <1>7, <2>1 DEF ReadNothing, linkVars, contextVars, deviceVars, faultVars, TypeOK,
                      WaitsForCommand
<1>8. CASE ReadFails
  <2>1. failures' \in 0..MaxFailures
    BY <1>8, FaultsAssumption DEF ReadFails, TypeOK
  <2> QED
    BY <1>8, <2>1 DEF ReadFails, linkVars, answerVars, readerVars, deviceVars, TypeOK,
                      ConfigSection, WaitsForCommand
<1>9. CASE SendCommand
  <2>1. Resolve \in CommandId /\ SendWithProbe(Resolve, "WAIT_PROBE")
    BY <1>9 DEF SendCommand
  <2>2. /\ toDevice' \in Seq(Wire) /\ failures' \in 0..MaxFailures
        /\ state' \in {"WAIT_PROBE", "FAILED"}
    BY <2>1, SendTypes
  <2>3. currentCommand' \in CommandId /\ retriesUsed' \in 0..MaxRetries
    BY <1>9, RetriesAssumption DEF SendCommand
  <2>4. probeProcessSeen' = FALSE /\ probeInvalidSeen' = FALSE
    BY <1>9 DEF SendCommand, ForgetProbe
  <2>5. /\ pc' = "read"
        /\ UNCHANGED <<linkVars, answerVars, readerVars, deviceVars, toHost, lost, timeouts,
                       leftover>>
    BY <1>9 DEF SendCommand
  <2> QED
    BY <2>2, <2>3, <2>4, <2>5 DEF linkVars, answerVars, readerVars, deviceVars, TypeOK,
                                  ConfigSection, WaitsForCommand
<1>10. CASE Finish
  <2>1. state' \in {"COMPLETE", "FAILED"}
    BY <1>10 DEF Finish
  <2> QED
    BY <1>10, <2>1 DEF Finish, linkVars, answerVars, readerVars, deviceVars, faultVars, TypeOK,
                       ConfigSection, WaitsForCommand
<1>11. CASE ProbeCompletes
  BY <1>11 DEF ProbeCompletes, linkVars, answerVars, readerVars, deviceVars, faultVars, TypeOK,
               ConfigSection, WaitsForCommand
<1>12. CASE StillWaiting
  BY <1>12 DEF StillWaiting, linkVars, contextVars, answerVars, readerVars, deviceVars,
               faultVars, TypeOK, ConfigSection, WaitsForCommand
<1>13. CASE TimedOut
  <2>1. /\ toDevice' \in Seq(Wire) /\ failures' \in 0..MaxFailures
        /\ state' \in {"WAIT_PROBE", "FAILED"}
        /\ currentCommand' = currentCommand /\ retriesUsed' \in 0..MaxRetries
        /\ probeProcessSeen' \in BOOLEAN /\ probeInvalidSeen' \in BOOLEAN
    <3>1. CASE /\ RetriesLeft /\ retriesUsed' = retriesUsed + 1 /\ ForgetProbe
               /\ SendWithProbe(currentCommand, "WAIT_PROBE") /\ UNCHANGED currentCommand
      <4>1. retriesUsed' \in 0..MaxRetries
        BY <3>1, RetriesAssumption DEF RetriesLeft, TypeOK
      <4>2. currentCommand \in CommandId
        BY <1>13 DEF TimedOut, WaitsForCommand
      <4>3. /\ toDevice' \in Seq(Wire) /\ failures' \in 0..MaxFailures
            /\ state' \in {"WAIT_PROBE", "FAILED"}
        BY <3>1, <4>2, SendTypes
      <4> QED BY <3>1, <4>1, <4>3 DEF ForgetProbe
    <3>2. CASE /\ ~RetriesLeft /\ GiveUp
               /\ UNCHANGED <<currentCommand, retriesUsed, probeProcessSeen, probeInvalidSeen,
                              toDevice, failures>>
      BY <3>2 DEF GiveUp, TypeOK
    <3> QED BY <1>13, <3>1, <3>2 DEF TimedOut
  <2>2. /\ timeouts' = 1 /\ pc' = "read"
        /\ UNCHANGED <<linkVars, answerVars, readerVars, deviceVars, toHost, lost, leftover>>
    BY <1>13 DEF TimedOut
  <2> QED
    <3>1. TypeOK'
      BY <2>1, <2>2 DEF linkVars, answerVars, readerVars, deviceVars, TypeOK
    <3>2. ConfigSection'
      BY <2>2 DEF readerVars, ConfigSection
    <3>3. WaitsForCommand'
      BY <1>13, <2>1 DEF TimedOut, WaitsForCommand
    <3> QED BY <3>1, <3>2, <3>3
<1>14. CASE DeviceExecutes
  <2>1. device' \in ConfigMaps /\ engaged' \in BOOLEAN
    BY <1>14, DeviceStep
  <2>2. toHost' \in Seq(Line) /\ executed' \subseteq CommandId
    <3>1. PICK command \in Wire \cup {"SPOILT"} :
            /\ toHost' = toHost \o Answer(command)
            /\ executed' = executed \cup ({command} \cap CommandId)
      BY <1>14, DeviceStep
    <3>2. /\ \A k \in Echo \cup {"Invalid"} : OfKind(k) \in Line
          /\ [kind |-> "Config", map |-> device] \in Line
          /\ OfKind(IF engaged THEN "Engaged" ELSE "Disengaged") \in Line
      BY DEF Line, OfKind, TypeOK
    <3>3. Answer(command) \in Seq(Line)
      BY <3>2, AnswerLines
    <3> QED BY <3>1, <3>3 DEF TypeOK
  <2>3. toDevice' \in Seq(Wire)
    BY <1>14 DEF DeviceExecutes, TypeOK
  <2>4. /\ spoilt' = FALSE
        /\ UNCHANGED <<turn, hostBaud, deviceBaud, contextVars, answerVars, pc, readerVars,
                       faultVars>>
    BY <1>14 DEF DeviceExecutes
  <2> QED
    <3>1. TypeOK'
      <4>1. spoilt' \in BOOLEAN
        BY <2>4
      <4>2. /\ turn' \in 1..(Len(Rates) + 1)
            /\ hostBaud' \in Range(Rates) /\ deviceBaud' \in Range(Rates)
            /\ pc' \in {"read", "more", "step"}
        BY <2>4 DEF TypeOK
      <4>3. /\ state' \in {"CLOSED", "SWEEP", "SEND_COMMAND", "WAIT_PROBE", "COMPLETE", "FAILED"}
            /\ currentCommand' \in CommandId \cup {"NONE"}
            /\ retriesUsed' \in 0..MaxRetries
            /\ probeProcessSeen' \in BOOLEAN /\ probeInvalidSeen' \in BOOLEAN
        BY <2>4 DEF contextVars, TypeOK
      <4>4. /\ autoSafetyEngaged' \in BOOLEAN /\ configMap' \in ConfigMaps \cup {NoConfig}
            /\ parseState' \in {"NONE", "CONFIG", "STATUS"} /\ section' \in Seq(Line)
            /\ failures' \in 0..MaxFailures /\ lost' \in 0..MaxLost /\ timeouts' \in 0..1
            /\ leftover' \in BOOLEAN
        BY <2>4 DEF answerVars, readerVars, faultVars, TypeOK
      <4> QED BY <2>1, <2>2, <2>3, <4>1, <4>2, <4>3, <4>4 DEF TypeOK
    <3>2. ConfigSection' /\ WaitsForCommand'
      BY <2>4 DEF contextVars, readerVars, ConfigSection, WaitsForCommand
    <3> QED BY <3>1, <3>2
<1>15. CASE LineIsLost
  <2>1. PICK i \in 1..Len(toHost) :
          toHost' = SubSeq(toHost, 1, i - 1) \o SubSeq(toHost, i + 1, Len(toHost))
    BY <1>15 DEF LineIsLost
  <2>2. toHost' \in Seq(Line)
    BY <2>1, LineTaken DEF TypeOK
  <2>3. lost' \in 0..MaxLost
    BY <1>15, FaultsAssumption DEF LineIsLost, TypeOK
  <2> QED
    BY <1>15, <2>2, <2>3 DEF LineIsLost, linkVars, contextVars, answerVars, readerVars,
                             deviceVars, TypeOK, ConfigSection, WaitsForCommand
<1> QED
  BY <1>1, <1>2, <1>3, <1>4, <1>5, <1>6, <1>7, <1>8, <1>9, <1>10, <1>11, <1>12, <1>13, <1>14,
     <1>15 DEF Next, HostSteps

\* Every variable of startup has a value of its type, and no command is tried
\* more often than configured (retryCurrentStartupCommand).
THEOREM StartupTypes == Spec => []TypeOK
<1>1. TypeInv => TypeOK
  BY DEF TypeInv
<1> QED
  BY <1>1, TypeInit, TypeStep, PTL DEF Spec

-----------------------------------------------------------------------------
(* The rate.                                                                *)

\* Before the commands the device is at the wanted rate, or at one whose turn
\* is still to come; afterwards both ends are at the wanted rate.
Opening == state \in {"CLOSED", "SWEEP"}

TurnToCome ==
  Opening => \/ deviceBaud = WantedBaud
             \/ \E i \in turn..Len(Rates) : Rates[i] = deviceBaud

LinkInv ==
  /\ state = "CLOSED" => turn = 1
  /\ Opening => toDevice = <<>>
  /\ TurnToCome
  /\ Running \/ state = "COMPLETE" => hostBaud = WantedBaud /\ deviceBaud = WantedBaud
  /\ state = "FAILED" => toDevice = <<>> \/ hostBaud = deviceBaud

LEMMA LinkInit == Init => LinkInv
<1> SUFFICES ASSUME Init PROVE LinkInv
  OBVIOUS
<1>1. \E i \in turn..Len(Rates) : Rates[i] = deviceBaud
  <2>1. PICK i \in DOMAIN Rates : Rates[i] = deviceBaud
    BY DEF Init, Range
  <2>2. i \in turn..Len(Rates)
    BY RatesAssumption DEF Init
  <2> QED BY <2>1, <2>2
<1>2. state = "CLOSED" /\ turn = 1 /\ toDevice = <<>>
  BY DEF Init
<1> QED
  BY <1>1, <1>2 DEF LinkInv, TurnToCome, Opening, Running

\* A step of the running state machine keeps the rates.
LEMMA LinkWhileRunning ==
  ASSUME LinkInv, Running, UNCHANGED linkVars,
         state' \in {"SEND_COMMAND", "WAIT_PROBE", "COMPLETE", "FAILED"}
  PROVE  LinkInv'
BY DEF LinkInv, TurnToCome, Opening, Running, linkVars

LEMMA LinkStep == TypeOK /\ LinkInv /\ [Next]_vars => LinkInv'
<1> SUFFICES ASSUME TypeOK, LinkInv, [Next]_vars PROVE LinkInv'
  OBVIOUS
<1>1. CASE UNCHANGED <<linkVars, state, toDevice>>
  BY <1>1 DEF linkVars, LinkInv, TurnToCome, Opening, Running
<1>2. CASE UNCHANGED vars
  BY <1>1, <1>2 DEF vars, contextVars
<1>3. CASE OpenPort
  <2>1. state = "CLOSED" /\ state' \in {"SWEEP", "FAILED"}
    BY <1>3 DEF OpenPort, Fails
  <2>2. UNCHANGED <<linkVars, toDevice>>
    BY <1>3 DEF OpenPort
  <2> QED
    BY <2>1, <2>2 DEF linkVars, LinkInv, TurnToCome, Opening, Running
<1>4. CASE SweepTurn
  <2>1. state = "SWEEP" /\ turn <= Len(Rates) /\ UNCHANGED toDevice /\ toDevice = <<>>
    <3>1. turn \in 1..(Len(Rates) + 1) /\ Len(Rates) \in Nat
      BY RatesAssumption DEF TypeOK
    <3> QED BY <1>4, <3>1 DEF SweepTurn, SweepOver, LinkInv, Opening
  <2>2. CASE Fails /\ UNCHANGED <<linkVars, toHost, leftover>>
    BY <2>1, <2>2 DEF Fails, LinkInv, TurnToCome, Opening, Running
  <2>3. CASE /\ turn' = turn + 1 /\ UNCHANGED state
             /\ IF deviceBaud = Rates[turn] THEN deviceBaud' = WantedBaud
                                            ELSE UNCHANGED deviceBaud
    <3>1. TurnToCome'
      <4>1. CASE deviceBaud = Rates[turn] \/ deviceBaud = WantedBaud
        <5>1. deviceBaud' = WantedBaud
          BY <2>3, <4>1
        <5> QED BY <5>1 DEF TurnToCome
      <4>2. CASE deviceBaud # Rates[turn] /\ deviceBaud # WantedBaud
        <5>1. PICK i \in turn..Len(Rates) : Rates[i] = deviceBaud
          BY <2>1, <4>2 DEF LinkInv, TurnToCome, Opening
        <5>2. turn \in Int /\ Len(Rates) \in Int
          BY RatesAssumption DEF TypeOK
        <5>3. i \in turn'..Len(Rates)
          BY <2>3, <4>2, <5>1, <5>2
        <5>4. Rates[i] = deviceBaud'
          BY <2>3, <4>2, <5>1
        <5> QED BY <5>3, <5>4 DEF TurnToCome
      <4> QED BY <4>1, <4>2
    <3> QED
      BY <2>1, <2>3, <3>1 DEF LinkInv, Opening, Running
  <2> QED
    BY <1>4, <2>2, <2>3 DEF SweepTurn
<1>5. CASE BeginStartup
  <2>1. state = "SWEEP" /\ toDevice' = <<>> /\ UNCHANGED deviceBaud
    BY <1>5 DEF BeginStartup, LinkInv, Opening
  <2>2. deviceBaud = WantedBaud
    <3>1. turn > Len(Rates) /\ turn \in Int /\ Len(Rates) \in Int
      BY <1>5, RatesAssumption DEF BeginStartup, SweepOver, TypeOK
    <3>2. turn..Len(Rates) = {}
      BY <3>1
    <3> QED BY <2>1, <3>2 DEF LinkInv, TurnToCome, Opening
  <2>3. CASE hostBaud' = WantedBaud /\ state' = "SEND_COMMAND"
    BY <2>1, <2>2, <2>3 DEF LinkInv, TurnToCome, Opening, Running
  <2>4. CASE Fails
    BY <2>1, <2>4 DEF Fails, LinkInv, TurnToCome, Opening, Running
  <2> QED
    BY <1>5, <2>3, <2>4 DEF BeginStartup
<1>6. CASE ReadLine
  BY <1>1, <1>6 DEF ReadLine
<1>7. CASE ReadEnds
  BY <1>1, <1>7 DEF ReadEnds, contextVars
<1>8. CASE ReadNothing
  BY <1>1, <1>8 DEF ReadNothing, contextVars
<1>9. CASE ReadFails
  BY <1>9, LinkWhileRunning DEF ReadFails
<1>10. CASE SendCommand
  BY <1>10, LinkWhileRunning DEF SendCommand, SendWithProbe, Running
<1>11. CASE Finish
  BY <1>11, LinkWhileRunning DEF Finish, Running
<1>12. CASE ProbeCompletes
  BY <1>12, LinkWhileRunning DEF ProbeCompletes, Running
<1>13. CASE StillWaiting
  BY <1>1, <1>13 DEF StillWaiting, contextVars
<1>14. CASE TimedOut
  <2>1. state' \in {"WAIT_PROBE", "FAILED"}
    BY <1>14 DEF TimedOut, SendWithProbe, GiveUp
  <2>2. UNCHANGED linkVars /\ Running
    BY <1>14 DEF TimedOut, Running
  <2> QED
    BY <2>1, <2>2, LinkWhileRunning
<1>15. CASE DeviceExecutes
  <2>1. toDevice # <<>> /\ UNCHANGED <<turn, hostBaud, deviceBaud, state>>
    BY <1>15 DEF DeviceExecutes, contextVars
  <2>2. ~Opening
    BY <2>1 DEF LinkInv
  <2> QED
    BY <2>1, <2>2 DEF LinkInv, TurnToCome, Opening, Running
<1>16. CASE LineIsLost
  BY <1>1, <1>16 DEF LineIsLost, contextVars
<1> QED
  BY <1>2, <1>3, <1>4, <1>5, <1>6, <1>7, <1>8, <1>9, <1>10, <1>11, <1>12, <1>13, <1>14, <1>15,
     <1>16 DEF Next, HostSteps

\* Whatever rate the device is at when the port is opened, the commands of
\* startup go out at its rate (the baud sweep of openDeviceAndRunStartup).
THEOREM StartupLink == Spec => []LinkAgrees
<1>1. TypeInv => TypeOK
  BY DEF TypeInv
<1>2. TypeOK /\ LinkInv => LinkAgrees
  BY DEF TypeOK, LinkInv, LinkAgrees, Opening, Running
<1> QED
  BY <1>1, <1>2, TypeInit, TypeStep, LinkInit, LinkStep, PTL DEF Spec

-----------------------------------------------------------------------------
(* The safety.                                                              *)

\* A line that says that the safety is off is true when it is read: nothing
\* turns the safety on, so it does not matter when the line was written.
TrueLine ==
  {line \in Line : /\ line.kind = "Config" /\ ~line.map.autoSafety => ~device.autoSafety
                   /\ line.kind = "Disengaged" => ~engaged}

LinesTrue == toHost \in Seq(TrueLine) /\ section \in Seq(TrueLine)

AnswersTrue ==
  /\ SafetyOff => ~device.autoSafety
  /\ ~autoSafetyEngaged => ~engaged

\* The command that startup has reached tells what it has verified.
SafetyChecked ==
  /\ currentCommand \in {"STATUS", "SET_AUTOMODE", "SET_HOMEMODE", "REPORT"}
       => ~device.autoSafety
  /\ currentCommand \in {"SET_AUTOMODE", "SET_HOMEMODE", "REPORT"} => ~engaged
  /\ state = "COMPLETE" => currentCommand = "REPORT"

SafetyInv == LinesTrue /\ AnswersTrue /\ SafetyChecked

LEMMA SafetyInit == Init => SafetyInv
<1> SUFFICES ASSUME Init PROVE SafetyInv
  OBVIOUS
<1>1. LinesTrue
  <2>1. [kind : Echo \cup {"Invalid", "Engaged"}] \subseteq TrueLine
    BY DEF TrueLine, Line, Echo
  <2>2. toHost \in Seq(TrueLine)
    BY <2>1, SeqMonotone, LeftoversAssumption DEF Init
  <2>3. section \in Seq(TrueLine)
    BY DEF Init
  <2> QED BY <2>2, <2>3 DEF LinesTrue
<1>2. AnswersTrue /\ SafetyChecked
  BY DEF Init, AnswersTrue, SafetyOff, SafetyChecked
<1> QED
  BY <1>1, <1>2 DEF SafetyInv

\* What a section says is true when it is handed on.
LEMMA NotifiedTrue ==
  ASSUME TypeInv, SafetyInv, NotifySection
  PROVE  /\ SafetyOff' => ~device.autoSafety
         /\ ~autoSafetyEngaged' => ~engaged
<1>1. section \in Seq(TrueLine)
  BY DEF SafetyInv, LinesTrue
<1>2. CASE section = <<>>
  BY <1>2 DEF NotifySection, answerVars, SafetyInv, AnswersTrue, SafetyOff
<1>3. CASE section # <<>> /\ parseState = "CONFIG"
  <2>1. Len(section) \in DOMAIN section
    BY <1>1, <1>3
  <2> DEFINE last == section[Len(section)]
  <2>2. last \in TrueLine /\ last.kind = "Config"
    BY <1>1, <1>3, <2>1 DEF TypeInv, ConfigSection
  <2>3. configMap' = last.map /\ UNCHANGED autoSafetyEngaged
    BY <1>3 DEF NotifySection
  <2> HIDE DEF last
  <2>4. ~last.map.autoSafety => ~device.autoSafety
    BY <2>2 DEF TrueLine
  <2>5. SafetyOff' => ~configMap'.autoSafety
    BY DEF SafetyOff
  <2>6. SafetyOff' => ~device.autoSafety
    BY <2>3, <2>4, <2>5
  <2>7. ~autoSafetyEngaged' => ~engaged
    BY <2>3 DEF SafetyInv, AnswersTrue
  <2> QED BY <2>6, <2>7
<1>4. CASE section # <<>> /\ parseState # "CONFIG"
  <2>1. /\ autoSafetyEngaged' = IF SectionSays("Disengaged") THEN FALSE
                                ELSE autoSafetyEngaged \/ SectionSays("Engaged")
        /\ UNCHANGED configMap
    BY <1>4 DEF NotifySection
  <2>2. SafetyOff' => ~device.autoSafety
    BY <2>1 DEF SafetyInv, AnswersTrue, SafetyOff
  <2>3. CASE SectionSays("Disengaged")
    <3>1. PICK i \in DOMAIN section : section[i].kind = "Disengaged"
      BY <2>3 DEF SectionSays
    <3>2. section[i] \in TrueLine
      BY <1>1, <3>1
    <3>3. ~engaged
      BY <3>1, <3>2 DEF TrueLine
    <3> QED BY <2>2, <3>3
  <2>4. CASE ~SectionSays("Disengaged")
    <3>1. ~autoSafetyEngaged' => ~autoSafetyEngaged
      BY <2>1, <2>4
    <3> QED BY <2>2, <3>1 DEF SafetyInv, AnswersTrue
  <2> QED BY <2>3, <2>4
<1> QED
  BY <1>2, <1>3, <1>4

\* So is what any line says.
LEMMA ReadTrue ==
  ASSUME TypeInv, SafetyInv, NEW line \in TrueLine,
         ReadEcho(line) \/ ReadInSection(line) \/ ReadUnhandled(line)
  PROVE  /\ section' \in Seq(TrueLine)
         /\ SafetyOff' => ~device.autoSafety
         /\ ~autoSafetyEngaged' => ~engaged
<1>1. section \in Seq(TrueLine)
  BY DEF SafetyInv, LinesTrue
<1>2. CASE ReadEcho(line)
  <2>1. section' \in Seq(TrueLine)
    BY <1>2 DEF ReadEcho
  <2>2. NotifySection
    BY <1>2 DEF ReadEcho
  <2> QED BY <2>1, <2>2, NotifiedTrue
<1>3. CASE ReadInSection(line)
  <2>1. section' \in Seq(TrueLine)
    BY <1>1, <1>3 DEF ReadInSection
  <2>2. UNCHANGED answerVars
    BY <1>3 DEF ReadInSection, answerVars
  <2> QED BY <2>1, <2>2 DEF answerVars, SafetyInv, AnswersTrue, SafetyOff
<1>4. CASE ReadUnhandled(line)
  <2>1. section' \in Seq(TrueLine)
    BY <1>1, <1>4 DEF ReadUnhandled, readerVars
  <2>2. SafetyOff' => ~device.autoSafety
    BY <1>4 DEF ReadUnhandled, SafetyInv, AnswersTrue, SafetyOff
  <2>3. ~autoSafetyEngaged' => ~engaged
    <3>1. CASE line.kind = "Disengaged"
      BY <3>1 DEF TrueLine
    <3>2. CASE line.kind = "Engaged"
      <4>1. autoSafetyEngaged' = TRUE
        BY <1>4, <3>2 DEF ReadUnhandled
      <4> QED BY <4>1
    <3>3. CASE line.kind \notin {"Disengaged", "Engaged"}
      <4>1. autoSafetyEngaged' = autoSafetyEngaged
        BY <1>4, <3>3 DEF ReadUnhandled
      <4> QED BY <4>1 DEF SafetyInv, AnswersTrue
    <3> QED BY <3>1, <3>2, <3>3
  <2> QED BY <2>1, <2>2, <2>3
<1> QED
  BY <1>2, <1>3, <1>4

\* A step that leaves the device and the answers alone keeps what is true.
LEMMA SafetyKept ==
  ASSUME SafetyInv, UNCHANGED <<device, engaged, answerVars, section, currentCommand>>,
         toHost' \in Seq(TrueLine), state' # "COMPLETE" \/ state' = state
  PROVE  SafetyInv'
<1>1. TrueLine' = TrueLine
  BY DEF TrueLine
<1>2. LinesTrue'
  BY <1>1 DEF SafetyInv, LinesTrue
<1>3. AnswersTrue'
  BY DEF answerVars, SafetyInv, AnswersTrue, SafetyOff
<1>4. SafetyChecked'
  BY DEF SafetyInv, SafetyChecked
<1> QED
  BY <1>2, <1>3, <1>4 DEF SafetyInv

\* The next command is reached only when what it presumes has been verified.
LEMMA ResolveChecked ==
  ASSUME TypeInv, SafetyInv
  PROVE  /\ Resolve \in {"STATUS", "SET_AUTOMODE", "SET_HOMEMODE", "REPORT"} => ~device.autoSafety
         /\ Resolve \in {"SET_AUTOMODE", "SET_HOMEMODE", "REPORT"} => ~engaged
         /\ Resolve = "COMPLETE" => currentCommand = "REPORT"
<1> USE DEF SafetyInv, AnswersTrue, SafetyChecked
<1>1. AfterAutoMode \in {"REPORT", "SET_HOMEMODE"}
  BY DEF AfterAutoMode
<1>2. /\ AfterStatus \in {"FAILED", "REPORT", "SET_HOMEMODE", "SET_AUTOMODE"}
      /\ AfterStatus # "FAILED" => ~autoSafetyEngaged
  BY <1>1 DEF AfterStatus
<1>3. CASE currentCommand = "NONE"
  BY <1>3 DEF Resolve
<1>4. CASE currentCommand = "CONFIG_INITIAL"
  BY <1>4 DEF Resolve
<1>5. CASE currentCommand = "SETUP"
  BY <1>5 DEF Resolve
<1>6. CASE currentCommand = "AUTOSAFETY0"
  BY <1>6 DEF Resolve
<1>7. CASE currentCommand = "VERIFY_AUTOSAFETY"
  BY <1>7 DEF Resolve
<1>8. CASE currentCommand = "STATUS"
  <2>1. Resolve = AfterStatus
    BY <1>8 DEF Resolve
  <2> QED BY <1>2, <1>8, <2>1
<1>9. CASE currentCommand = "SET_AUTOMODE"
  <2>1. Resolve = AfterAutoMode
    BY <1>9 DEF Resolve
  <2> QED BY <1>1, <1>9, <2>1
<1>10. CASE currentCommand = "SET_HOMEMODE"
  BY <1>10 DEF Resolve
<1>11. CASE currentCommand = "REPORT"
  BY <1>11 DEF Resolve
<1> QED
  BY <1>3, <1>4, <1>5, <1>6, <1>7, <1>8, <1>9, <1>10, <1>11 DEF TypeInv, TypeOK, CommandId

LEMMA SafetyStep == TypeInv /\ SafetyInv /\ [Next]_vars => SafetyInv'
<1> SUFFICES ASSUME TypeInv, SafetyInv, [Next]_vars PROVE SafetyInv'
  OBVIOUS
<1>0. toHost \in Seq(TrueLine)
  BY DEF SafetyInv, LinesTrue
<1>1. CASE UNCHANGED vars
  BY <1>0, <1>1, SafetyKept DEF vars, contextVars, readerVars, deviceVars
<1>2. CASE OpenPort
  BY <1>0, <1>2, SafetyKept DEF OpenPort, Fails, readerVars, deviceVars
<1>3. CASE SweepTurn
  <2>1. /\ toHost' \in {<<>>, toHost}
        /\ state' # "COMPLETE" \/ state' = state
    BY <1>3 DEF SweepTurn, Fails
  <2>2. toHost' \in Seq(TrueLine)
    <3>1. <<>> \in Seq(TrueLine)
      OBVIOUS
    <3>2. CASE toHost' = <<>>
      BY <3>1, <3>2
    <3>3. CASE toHost' = toHost
      BY <1>0, <3>3
    <3> QED BY <2>1, <3>2, <3>3
  <2>3. UNCHANGED <<device, engaged, answerVars, section, currentCommand>>
    BY <1>3 DEF SweepTurn, readerVars, deviceVars
  <2> QED
    BY <2>1, <2>2, <2>3, SafetyKept
<1>4. CASE BeginStartup
  <2>1. UNCHANGED <<device, engaged, section, toHost>>
    BY <1>4 DEF BeginStartup, readerVars, deviceVars
  <2>2. CASE Fails /\ UNCHANGED <<currentCommand, answerVars>>
    BY <1>0, <2>1, <2>2, SafetyKept DEF Fails
  <2>3. CASE /\ state' = "SEND_COMMAND" /\ currentCommand' = "NONE"
             /\ autoSafetyEngaged' = TRUE /\ configMap' = NoConfig
    <3>1. LinesTrue'
      BY <2>1 DEF SafetyInv, LinesTrue, TrueLine
    <3>2. AnswersTrue' /\ SafetyChecked'
      BY <2>3 DEF AnswersTrue, SafetyOff, SafetyChecked
    <3> QED BY <3>1, <3>2 DEF SafetyInv
  <2> QED BY <1>4, <2>2, <2>3 DEF BeginStartup
<1>5. CASE ReadLine
  <2>1. toHost # <<>> /\ Head(toHost) \in TrueLine /\ Tail(toHost) \in Seq(TrueLine)
    BY <1>0, <1>5 DEF ReadLine
  <2>2. /\ ReadEcho(Head(toHost)) \/ ReadInSection(Head(toHost)) \/ ReadUnhandled(Head(toHost))
        /\ toHost' = Tail(toHost)
        /\ UNCHANGED <<state, currentCommand, device, engaged>>
    BY <1>5 DEF ReadLine, deviceVars
  <2>3. /\ section' \in Seq(TrueLine)
        /\ SafetyOff' => ~device.autoSafety
        /\ ~autoSafetyEngaged' => ~engaged
    BY <2>1, <2>2, ReadTrue
  <2>4. TrueLine' = TrueLine
    BY <2>2 DEF TrueLine
  <2>5. LinesTrue' /\ AnswersTrue'
    BY <2>1, <2>2, <2>3, <2>4 DEF LinesTrue, AnswersTrue
  <2>6. SafetyChecked'
    BY <2>2 DEF SafetyInv, SafetyChecked
  <2> QED BY <2>5, <2>6 DEF SafetyInv
<1>6. CASE ReadEnds
  BY <1>0, <1>6, SafetyKept DEF ReadEnds, contextVars, readerVars, deviceVars
<1>7. CASE ReadNothing
  <2>1. UNCHANGED <<state, currentCommand, device, engaged, toHost>>
    BY <1>7 DEF ReadNothing, contextVars, deviceVars
  <2>2. CASE UNCHANGED <<answerVars, readerVars>>
    BY <1>0, <2>1, <2>2, SafetyKept DEF readerVars
  <2>3. CASE NotifySection /\ section' = <<>>
    <3>1. /\ SafetyOff' => ~device.autoSafety
          /\ ~autoSafetyEngaged' => ~engaged
      BY <2>3, NotifiedTrue
    <3>2. TrueLine' = TrueLine
      BY <2>1 DEF TrueLine
    <3>3. LinesTrue' /\ AnswersTrue'
      BY <1>0, <2>1, <2>3, <3>1, <3>2 DEF LinesTrue, AnswersTrue
    <3>4. SafetyChecked'
      BY <2>1 DEF SafetyInv, SafetyChecked
    <3> QED BY <3>3, <3>4 DEF SafetyInv
  <2> QED
    BY <1>7, <2>2, <2>3 DEF ReadNothing
<1>8. CASE ReadFails
  BY <1>0, <1>8, SafetyKept DEF ReadFails, readerVars, deviceVars
<1>9. CASE SendCommand
  <2>1. /\ currentCommand' = Resolve /\ state' \in {"WAIT_PROBE", "FAILED"}
        /\ UNCHANGED <<answerVars, section, device, engaged, toHost>>
    BY <1>9 DEF SendCommand, SendWithProbe, readerVars, deviceVars
  <2>2. SafetyChecked'
    BY <2>1, ResolveChecked DEF SafetyChecked
  <2>3. TrueLine' = TrueLine
    BY <2>1 DEF TrueLine
  <2>4. LinesTrue' /\ AnswersTrue'
    BY <2>1, <2>3 DEF answerVars, SafetyInv, LinesTrue, AnswersTrue, SafetyOff
  <2> QED BY <2>2, <2>4 DEF SafetyInv
<1>10. CASE Finish
  <2>1. /\ state' = Resolve
        /\ UNCHANGED <<currentCommand, answerVars, section, device, engaged, toHost>>
    BY <1>10 DEF Finish, readerVars, deviceVars
  <2>2. SafetyChecked'
    BY <2>1, ResolveChecked DEF SafetyInv, SafetyChecked
  <2>3. TrueLine' = TrueLine
    BY <2>1 DEF TrueLine
  <2>4. LinesTrue' /\ AnswersTrue'
    BY <2>1, <2>3 DEF answerVars, SafetyInv, LinesTrue, AnswersTrue, SafetyOff
  <2> QED BY <2>2, <2>4 DEF SafetyInv
<1>11. CASE ProbeCompletes
  BY <1>0, <1>11, SafetyKept DEF ProbeCompletes, readerVars, deviceVars
<1>12. CASE StillWaiting
  BY <1>0, <1>12, SafetyKept DEF StillWaiting, contextVars, readerVars, deviceVars
<1>13. CASE TimedOut
  <2>1. state' \in {"WAIT_PROBE", "FAILED"} /\ UNCHANGED currentCommand
    BY <1>13 DEF TimedOut, SendWithProbe, GiveUp
  <2>2. UNCHANGED <<answerVars, section, device, engaged, toHost>>
    BY <1>13 DEF TimedOut, readerVars, deviceVars
  <2> QED
    BY <1>0, <2>1, <2>2, SafetyKept
<1>14. CASE DeviceExecutes
  <2>1. (~device.autoSafety => ~device'.autoSafety) /\ (engaged' => engaged)
    BY <1>14, DeviceStep DEF TypeInv
  <2>2. UNCHANGED <<answerVars, section, state, currentCommand>>
    BY <1>14 DEF DeviceExecutes, readerVars, contextVars
  <2>3. TrueLine \subseteq TrueLine'
    BY <2>1 DEF TrueLine
  <2>4. PICK command \in Wire \cup {"SPOILT"} : toHost' = toHost \o Answer(command)
    BY <1>14, DeviceStep DEF TypeInv
  <2>5. Answer(command) \in Seq(TrueLine)
    <3>1. device \in ConfigMaps /\ engaged \in BOOLEAN
      BY DEF TypeInv, TypeOK
    <3>2. \A k \in Echo \cup {"Invalid"} : OfKind(k) \in TrueLine
      BY DEF TrueLine, Line, OfKind, Echo
    <3>3. [kind |-> "Config", map |-> device] \in TrueLine
      BY <3>1 DEF TrueLine, Line
    <3>4. OfKind(IF engaged THEN "Engaged" ELSE "Disengaged") \in TrueLine
      BY <3>1 DEF TrueLine, Line, OfKind
    <3> QED BY <3>2, <3>3, <3>4, AnswerLines
  <2>6. toHost' \in Seq(TrueLine)
    BY <1>0, <2>4, <2>5
  <2>7. LinesTrue'
    BY <2>2, <2>3, <2>6, SeqMonotone DEF SafetyInv, LinesTrue
  <2>8. AnswersTrue' /\ SafetyChecked'
    BY <2>1, <2>2 DEF answerVars, SafetyInv, AnswersTrue, SafetyChecked, SafetyOff
  <2> QED BY <2>7, <2>8 DEF SafetyInv
<1>15. CASE LineIsLost
  <2>1. PICK i \in 1..Len(toHost) :
          toHost' = SubSeq(toHost, 1, i - 1) \o SubSeq(toHost, i + 1, Len(toHost))
    BY <1>15 DEF LineIsLost
  <2>2. toHost' \in Seq(TrueLine)
    BY <1>0, <2>1, LineTaken
  <2> QED
    BY <1>15, <2>2, SafetyKept DEF LineIsLost, contextVars, readerVars, deviceVars
<1> QED
  BY <1>1, <1>2, <1>3, <1>4, <1>5, <1>6, <1>7, <1>8, <1>9, <1>10, <1>11, <1>12, <1>13, <1>14,
     <1>15 DEF Next, HostSteps

\* A startup that succeeded leaves a device whose auto safety is off, in its
\* settings and in fact, whatever lines were lost, late or left over
\* (runStartupStateMachine, resolveStartupNextCommand).
THEOREM StartupSafe == Spec => []CompleteMeansSafe
<1>1. SafetyInv => CompleteMeansSafe
  BY DEF SafetyInv, SafetyChecked, CompleteMeansSafe
<1> QED
  BY <1>1, TypeInit, TypeStep, SafetyInit, SafetyStep, PTL DEF Spec

-----------------------------------------------------------------------------
(* The modes.                                                               *)

\* A dump that shows a wanted mode is true when it is read: nothing unsets it.
WantedShown(map) ==
  /\ map.autoMode = AutoMode => device.autoMode = AutoMode
  /\ map.homeMode = HomeMode => device.homeMode = HomeMode

ShownLine == {line \in Line : line.kind = "Config" => WantedShown(line.map)}

\* A command is on its way to the device.
Sent(command) == \E i \in DOMAIN toDevice : toDevice[i] = command

\* Only the very first command may be spoilt.
FirstSpoilt ==
  spoilt => \/ toDevice = <<>> /\ (currentCommand = "NONE" \/ state = "FAILED")
            \/ toDevice # <<>> /\ Head(toDevice) = "CONFIG_INITIAL"

ShownInv ==
  /\ toHost \in Seq(ShownLine) /\ section \in Seq(ShownLine)
  /\ configMap # NoConfig => WantedShown(configMap)

\* What startup has been through is done, or on its way.
DoneInv ==
  state # "FAILED" =>
    /\ currentCommand \in {"SET_AUTOMODE", "SET_HOMEMODE", "REPORT"} =>
         device.autoMode = AutoMode \/ Sent("SET_AUTOMODE")
    /\ currentCommand \in {"SET_HOMEMODE", "REPORT"} =>
         device.homeMode = HomeMode \/ Sent("SET_HOMEMODE")
    /\ currentCommand = "REPORT" => "REPORT" \in executed \/ Sent("REPORT")
    /\ state = "COMPLETE" => currentCommand = "REPORT"

\* What is sent stays on its way when more is sent.
LEMMA SentStays ==
  ASSUME toDevice \in Seq(Wire), NEW q \in Seq(Wire), toDevice' = toDevice \o q,
         NEW command, Sent(command)
  PROVE  Sent(command)'
<1>1. PICK i \in DOMAIN toDevice : toDevice[i] = command
  BY DEF Sent
<1>2. i \in DOMAIN toDevice' /\ toDevice'[i] = command
  BY <1>1
<1> QED
  BY <1>2 DEF Sent

LEMMA NowSent ==
  ASSUME toDevice \in Seq(Wire), NEW command \in Wire, toDevice' = toDevice \o <<command, "PROBE">>
  PROVE  Sent(command)'
<1>1. Len(toDevice) + 1 \in DOMAIN toDevice' /\ toDevice'[Len(toDevice) + 1] = command
  OBVIOUS
<1> QED
  BY <1>1 DEF Sent

\* ... and until it is the first.
LEMMA SentUntilFirst ==
  ASSUME toDevice \in Seq(Wire), toDevice # <<>>, toDevice' = Tail(toDevice),
         NEW command, Sent(command), Head(toDevice) # command
  PROVE  Sent(command)'
<1>1. PICK i \in DOMAIN toDevice : toDevice[i] = command
  BY DEF Sent
<1>2. i # 1
  BY <1>1
<1>3. i - 1 \in DOMAIN toDevice' /\ toDevice'[i - 1] = command
  BY <1>1, <1>2
<1> QED
  BY <1>3 DEF Sent

\* A send keeps what was sent, and a spoilt command the first.
LEMMA SendKeeps ==
  ASSUME TypeOK, FirstSpoilt, NEW command \in CommandId, NEW next, SendWithProbe(command, next),
         toDevice = <<>> /\ spoilt /\ state # "FAILED" => command = "CONFIG_INITIAL",
         state # "FAILED", UNCHANGED spoilt
  PROVE  /\ \A c \in Wire : Sent(c) => Sent(c)'
         /\ state' # "FAILED" => Sent(command)'
         /\ FirstSpoilt'
<1>1. toDevice \in Seq(Wire) /\ command \in Wire /\ "PROBE" \in Wire
  BY DEF TypeOK, Wire
<1>2. ASSUME NEW q \in Seq(Wire), q # <<>>, Head(q) = command, toDevice' = toDevice \o q
      PROVE  (\A c \in Wire : Sent(c) => Sent(c)') /\ FirstSpoilt'
  <2>1. \A c \in Wire : Sent(c) => Sent(c)'
    BY <1>1, <1>2, SentStays
  <2>2. CASE toDevice = <<>> /\ spoilt
    <3>1. toDevice' = q
      BY <1>2, <2>2
    <3>2. toDevice' # <<>> /\ Head(toDevice') = "CONFIG_INITIAL"
      BY <1>2, <2>2, <3>1
    <3> QED BY <2>1, <3>2 DEF FirstSpoilt
  <2>3. CASE toDevice # <<>> /\ spoilt
    <3>1. Head(toDevice) = "CONFIG_INITIAL"
      BY <2>3 DEF FirstSpoilt
    <3>2. toDevice' # <<>> /\ Head(toDevice') = Head(toDevice)
      BY <1>1, <1>2, <2>3
    <3> QED BY <2>1, <3>1, <3>2 DEF FirstSpoilt
  <2>4. CASE ~spoilt
    BY <2>1, <2>4 DEF FirstSpoilt
  <2> QED BY <2>2, <2>3, <2>4
<1>3. CASE toDevice' = toDevice \o <<command, "PROBE">>
  <2>1. <<command, "PROBE">> \in Seq(Wire) /\ Head(<<command, "PROBE">>) = command
    BY <1>1
  <2>2. Sent(command)'
    BY <1>1, <1>3, NowSent
  <2> QED BY <1>2, <1>3, <2>1, <2>2
<1>4. CASE toDevice' = Append(toDevice, command) /\ state' = "FAILED"
  <2>1. toDevice' = toDevice \o <<command>>
    BY <1>1, <1>4
  <2>2. <<command>> \in Seq(Wire) /\ Head(<<command>>) = command
    BY <1>1
  <2> QED BY <1>2, <1>4, <2>1, <2>2
<1>5. CASE UNCHANGED toDevice /\ state' = "FAILED"
  BY <1>5 DEF Sent, FirstSpoilt
<1> QED
  BY <1>3, <1>4, <1>5 DEF SendWithProbe

\* What the host reads and keeps comes from the lines it was sent.
LEMMA FromLines ==
  ASSUME TypeInv, NEW S, toHost \in Seq(S), section \in Seq(S),
         HostSteps \/ LineIsLost \/ UNCHANGED vars
  PROVE  /\ toHost' \in Seq(S) /\ section' \in Seq(S)
         /\ \/ configMap' \in {configMap, NoConfig}
            \/ \E line \in S : line.kind = "Config" /\ configMap' = line.map
<1> DEFINE Shown == UNCHANGED configMap
                    \/ \E line \in S : line.kind = "Config" /\ configMap' = line.map
<1>1. ASSUME NotifySection PROVE Shown
  <2>1. CASE section # <<>> /\ parseState = "CONFIG"
    <3>1. Len(section) \in DOMAIN section
      BY <2>1
    <3>2. section[Len(section)] \in S /\ section[Len(section)].kind = "Config"
      BY <2>1, <3>1 DEF TypeInv, ConfigSection
    <3> QED BY <1>1, <2>1, <3>2 DEF NotifySection
  <2>2. CASE ~(section # <<>> /\ parseState = "CONFIG")
    BY <1>1, <2>2 DEF NotifySection, answerVars
  <2> QED BY <2>1, <2>2
<1>2. <<>> \in Seq(S)
  OBVIOUS
<1>3. CASE ReadLine
  <2>1. toHost # <<>> /\ Head(toHost) \in S /\ Tail(toHost) \in Seq(S) /\ toHost' = Tail(toHost)
    BY <1>3 DEF ReadLine
  <2>2. CASE ReadEcho(Head(toHost))
    <3>1. NotifySection /\ section' = <<>>
      BY <2>2 DEF ReadEcho
    <3> QED BY <1>1, <1>2, <2>1, <3>1
  <2>3. CASE ReadInSection(Head(toHost))
    <3>1. section' \in Seq(S) /\ UNCHANGED configMap
      BY <2>1, <2>3 DEF ReadInSection, answerVars
    <3> QED BY <2>1, <3>1
  <2>4. CASE ReadUnhandled(Head(toHost))
    <3>1. UNCHANGED <<section, configMap>>
      BY <2>4 DEF ReadUnhandled, readerVars
    <3> QED BY <2>1, <3>1
  <2> QED BY <1>3, <2>2, <2>3, <2>4 DEF ReadLine
<1>4. CASE ReadNothing
  <2>1. UNCHANGED toHost
    BY <1>4 DEF ReadNothing
  <2>2. CASE UNCHANGED <<answerVars, readerVars>>
    BY <2>1, <2>2 DEF answerVars, readerVars
  <2>3. CASE NotifySection /\ section' = <<>>
    BY <1>1, <1>2, <2>1, <2>3
  <2> QED BY <1>4, <2>2, <2>3 DEF ReadNothing
<1>5. CASE SweepTurn
  <2>1. UNCHANGED <<section, configMap>> /\ toHost' \in {<<>>, toHost}
    BY <1>5 DEF SweepTurn, readerVars, answerVars
  <2>2. CASE toHost' = <<>>
    BY <1>2, <2>1, <2>2
  <2>3. CASE toHost' = toHost
    BY <2>1, <2>3
  <2> QED BY <2>1, <2>2, <2>3
<1>6. CASE LineIsLost
  <2>1. PICK i \in 1..Len(toHost) :
          toHost' = SubSeq(toHost, 1, i - 1) \o SubSeq(toHost, i + 1, Len(toHost))
    BY <1>6 DEF LineIsLost
  <2>2. toHost' \in Seq(S)
    BY <2>1, LineTaken
  <2> QED BY <1>6, <2>2 DEF LineIsLost, answerVars, readerVars
<1>7. CASE BeginStartup
  BY <1>7 DEF BeginStartup, readerVars, answerVars
<1>8. CASE /\ ~ReadLine /\ ~ReadNothing /\ ~SweepTurn /\ ~LineIsLost
           /\ ~BeginStartup
  <2>1. UNCHANGED <<toHost, section, configMap>>
    BY <1>8 DEF HostSteps, vars, OpenPort, ReadEnds, ReadFails, SendCommand, Finish,
                ProbeCompletes, StillWaiting, TimedOut, readerVars, answerVars
  <2> QED BY <2>1
<1> QED
  BY <1>3, <1>4, <1>5, <1>6, <1>7, <1>8

LEMMA ShownInit == Init => ShownInv
<1> SUFFICES ASSUME Init PROVE ShownInv
  OBVIOUS
<1>1. [kind : Echo \cup {"Invalid", "Engaged"}] \subseteq ShownLine
  BY DEF ShownLine, Line, Echo
<1>2. toHost \in Seq(ShownLine)
  BY <1>1, SeqMonotone, LeftoversAssumption DEF Init
<1>3. section \in Seq(ShownLine) /\ configMap = NoConfig
  BY DEF Init
<1> QED
  BY <1>2, <1>3 DEF ShownInv

\* Executing a command unsets no wanted mode.
LEMMA WantedStays ==
  ASSUME TypeOK, DeviceExecutes
  PROVE  /\ device.autoMode = AutoMode => device'.autoMode = AutoMode
         /\ device.homeMode = HomeMode => device'.homeMode = HomeMode
         /\ ~spoilt /\ Head(toDevice) = "SET_AUTOMODE" => device'.autoMode = AutoMode
         /\ ~spoilt /\ Head(toDevice) = "SET_HOMEMODE" => device'.homeMode = HomeMode
         /\ executed \subseteq executed'
         /\ ~spoilt /\ Head(toDevice) = "REPORT" => "REPORT" \in executed'
<1> DEFINE command == IF spoilt THEN "SPOILT" ELSE Head(toDevice)
<1>1. /\ device' = CASE command = "AUTOSAFETY0"  -> [device EXCEPT !.autoSafety = FALSE]
                     [] command = "SET_AUTOMODE" -> [device EXCEPT !.autoMode = AutoMode]
                     [] command = "SET_HOMEMODE" -> [device EXCEPT !.homeMode = HomeMode]
                     [] OTHER -> device
      /\ executed' = executed \cup ({command} \cap CommandId)
  BY DEF DeviceExecutes
<1>2. ~spoilt => command = Head(toDevice)
  OBVIOUS
<1> HIDE DEF command
<1>3. device \in ConfigMaps
  BY DEF TypeOK
<1>4. CASE command = "AUTOSAFETY0"
  <2>1. device' = [device EXCEPT !.autoSafety = FALSE]
    BY <1>1, <1>4
  <2> QED BY <1>1, <1>2, <1>3, <1>4, <2>1 DEF ConfigMaps
<1>5. CASE command = "SET_AUTOMODE"
  <2>1. device' = [device EXCEPT !.autoMode = AutoMode]
    BY <1>1, <1>5
  <2> QED BY <1>1, <1>2, <1>3, <1>5, <2>1 DEF ConfigMaps
<1>6. CASE command = "SET_HOMEMODE"
  <2>1. device' = [device EXCEPT !.homeMode = HomeMode]
    BY <1>1, <1>6
  <2> QED BY <1>1, <1>2, <1>3, <1>6, <2>1 DEF ConfigMaps
<1>7. CASE command \notin {"AUTOSAFETY0", "SET_AUTOMODE", "SET_HOMEMODE"}
  <2>1. device' = device
    BY <1>1, <1>7
  <2> QED BY <1>1, <1>2, <1>7, <2>1 DEF CommandId
<1> QED
  BY <1>4, <1>5, <1>6, <1>7

LEMMA ShownStep == TypeInv /\ ShownInv /\ [Next]_vars => ShownInv'
<1> SUFFICES ASSUME TypeInv, ShownInv, [Next]_vars PROVE ShownInv'
  OBVIOUS
<1>0. toHost \in Seq(ShownLine) /\ section \in Seq(ShownLine)
  BY DEF ShownInv
<1>1. CASE DeviceExecutes
  <2>1. /\ device.autoMode = AutoMode => device'.autoMode = AutoMode
        /\ device.homeMode = HomeMode => device'.homeMode = HomeMode
    BY <1>1, WantedStays DEF TypeInv
  <2>2. \A map : WantedShown(map) => WantedShown(map)'
    BY <2>1 DEF WantedShown
  <2>3. ShownLine \subseteq ShownLine'
    BY <2>2 DEF ShownLine
  <2>4. PICK command \in Wire \cup {"SPOILT"} : toHost' = toHost \o Answer(command)
    BY <1>1, DeviceStep DEF TypeInv
  <2>5. Answer(command) \in Seq(ShownLine)
    <3>1. \A k \in Echo \cup {"Invalid", "Engaged", "Disengaged"} : OfKind(k) \in ShownLine
      BY DEF ShownLine, Line, OfKind, Echo
    <3>2. [kind |-> "Config", map |-> device] \in ShownLine
      BY DEF TypeInv, TypeOK, ShownLine, Line, WantedShown
    <3> QED BY <3>1, <3>2, AnswerLines
  <2>6. toHost' \in Seq(ShownLine)
    BY <1>0, <2>4, <2>5
  <2>7. UNCHANGED <<section, configMap>>
    BY <1>1 DEF DeviceExecutes, readerVars, answerVars
  <2>8. toHost' \in Seq(ShownLine') /\ section' \in Seq(ShownLine')
    BY <1>0, <2>3, <2>6, <2>7, SeqMonotone
  <2>9. (configMap # NoConfig => WantedShown(configMap))'
    BY <2>1, <2>7 DEF ShownInv, WantedShown
  <2> QED BY <2>8, <2>9 DEF ShownInv
<1>2. CASE HostSteps \/ LineIsLost \/ UNCHANGED vars
  <2>1. /\ toHost' \in Seq(ShownLine) /\ section' \in Seq(ShownLine)
        /\ \/ configMap' \in {configMap, NoConfig}
           \/ \E line \in ShownLine : line.kind = "Config" /\ configMap' = line.map
    BY <1>0, <1>2, FromLines
  <2>2. UNCHANGED device
    BY <1>2 DEF HostSteps, LineIsLost, vars, OpenPort, SweepTurn, BeginStartup, ReadLine, ReadEnds,
                ReadNothing, ReadFails, SendCommand, Finish, ProbeCompletes, StillWaiting,
                TimedOut, deviceVars
  <2>3. ShownLine' = ShownLine
    BY <2>2 DEF ShownLine, WantedShown
  <2>4. configMap' # NoConfig => WantedShown(configMap')
    BY <2>1 DEF ShownInv, ShownLine
  <2> QED BY <2>1, <2>2, <2>3, <2>4 DEF ShownInv, WantedShown
<1> QED
  BY <1>1, <1>2 DEF Next

\* What the host resolves to send next has been prepared.
LEMMA ResolveDone ==
  ASSUME TypeInv, ShownInv, DoneInv, state # "FAILED"
  PROVE  /\ Resolve \in {"SET_HOMEMODE", "REPORT"} =>
              device.autoMode = AutoMode \/ Sent("SET_AUTOMODE")
         /\ Resolve = "REPORT" => device.homeMode = HomeMode \/ Sent("SET_HOMEMODE")
         /\ Resolve = "COMPLETE" => currentCommand = "REPORT"
<1> USE DEF DoneInv
<1>1. /\ AutoModeOk => device.autoMode = AutoMode
      /\ HomeModeOk => device.homeMode = HomeMode
  BY DEF AutoModeOk, HomeModeOk, ShownInv, WantedShown
<1>2. /\ AfterAutoMode \in {"REPORT", "SET_HOMEMODE"}
      /\ AfterAutoMode = "REPORT" => device.homeMode = HomeMode
  BY <1>1 DEF AfterAutoMode
<1>3. CASE currentCommand = "STATUS"
  <2>1. Resolve = AfterStatus
    BY <1>3 DEF Resolve
  <2>2. CASE AfterStatus \in {"FAILED", "SET_AUTOMODE"}
    BY <2>1, <2>2
  <2>3. CASE AutoModeOk /\ AfterStatus = AfterAutoMode
    BY <1>1, <1>2, <2>1, <2>3
  <2> QED BY <2>2, <2>3 DEF AfterStatus
<1>4. CASE currentCommand = "SET_AUTOMODE"
  <2>1. Resolve = AfterAutoMode
    BY <1>4 DEF Resolve
  <2> QED BY <1>2, <1>4, <2>1
<1>5. CASE currentCommand = "SET_HOMEMODE"
  <2>1. Resolve = "REPORT"
    BY <1>5 DEF Resolve
  <2> QED BY <1>5, <2>1
<1>6. CASE currentCommand = "REPORT"
  <2>1. Resolve = "COMPLETE"
    BY <1>6 DEF Resolve
  <2> QED BY <1>6, <2>1
<1>7. CASE currentCommand \in {"NONE", "CONFIG_INITIAL", "SETUP", "AUTOSAFETY0", "VERIFY_AUTOSAFETY"}
  <2>1. Resolve \in {"CONFIG_INITIAL", "STATUS", "SETUP", "AUTOSAFETY0", "VERIFY_AUTOSAFETY",
                     "FAILED"}
    <3>1. CASE currentCommand = "NONE"
      BY <3>1 DEF Resolve
    <3>2. CASE currentCommand = "CONFIG_INITIAL"
      BY <3>2 DEF Resolve
    <3>3. CASE currentCommand = "SETUP"
      BY <3>3 DEF Resolve
    <3>4. CASE currentCommand = "AUTOSAFETY0"
      BY <3>4 DEF Resolve
    <3>5. CASE currentCommand = "VERIFY_AUTOSAFETY"
      BY <3>5 DEF Resolve
    <3> QED BY <1>7, <3>1, <3>2, <3>3, <3>4, <3>5
  <2> QED BY <2>1
<1> QED
  BY <1>3, <1>4, <1>5, <1>6, <1>7 DEF TypeInv, TypeOK, CommandId

\* Nothing is sent before the first command.
NothingSent ==
  /\ Opening => currentCommand = "NONE"
  /\ currentCommand = "NONE" /\ state # "FAILED" => toDevice = <<>>

DoneParts == DoneInv /\ FirstSpoilt /\ NothingSent

LEMMA DoneInit == Init => DoneParts
BY DEF Init, DoneParts, DoneInv, FirstSpoilt, NothingSent, Opening

LEMMA DoneStep ==
  TypeInv /\ LinkInv /\ ShownInv /\ DoneParts /\ [Next]_vars => DoneParts'
<1> SUFFICES ASSUME TypeInv, LinkInv, ShownInv, DoneParts, [Next]_vars PROVE DoneParts'
  OBVIOUS
<1> USE DEF DoneParts
<1>1. ASSUME UNCHANGED <<spoilt, currentCommand, device, executed, toDevice>>,
             state = "FAILED" => state' = "FAILED", Opening' => Opening,
             state' # "COMPLETE" \/ currentCommand = "REPORT"
      PROVE  DoneParts'
  <2>1. DoneInv'
    BY <1>1 DEF DoneInv, Sent
  <2>2. FirstSpoilt' /\ NothingSent'
    BY <1>1 DEF FirstSpoilt, NothingSent
  <2> QED BY <2>1, <2>2
<1>2. CASE UNCHANGED vars
  <2>1. UNCHANGED <<spoilt, currentCommand, device, executed, toDevice, state>>
    BY <1>2 DEF vars, linkVars, contextVars, deviceVars
  <2> QED BY <1>1, <2>1 DEF DoneInv, Opening
<1>3. CASE OpenPort
  BY <1>1, <1>3 DEF OpenPort, Fails, linkVars, deviceVars, Opening
<1>4. CASE SweepTurn
  <2>1. state = "SWEEP" /\ toDevice = <<>> /\ state' \in {"SWEEP", "FAILED"}
    BY <1>4 DEF SweepTurn, Fails, LinkInv, Opening
  <2>2. UNCHANGED <<currentCommand, device, executed, toDevice>>
    BY <1>4 DEF SweepTurn, deviceVars
  <2>3. DoneInv'
    BY <2>1, <2>2 DEF DoneInv, Sent
  <2>4. NothingSent'
    BY <2>1, <2>2 DEF NothingSent, Opening
  <2>5. FirstSpoilt'
    <3>1. currentCommand = "NONE"
      BY <2>1 DEF NothingSent, Opening
    <3> QED BY <2>1, <2>2, <3>1 DEF FirstSpoilt
  <2> QED BY <2>3, <2>4, <2>5
<1>5. CASE BeginStartup
  <2>1. currentCommand = "NONE"
    BY <1>5 DEF BeginStartup, NothingSent, Opening
  <2> QED BY <1>1, <1>5, <2>1 DEF BeginStartup, Fails, deviceVars, Opening
<1>6. CASE ReadLine
  BY <1>1, <1>6 DEF ReadLine, linkVars, deviceVars, Reading, Running, Opening
<1>7. CASE ReadEnds
  BY <1>1, <1>7 DEF ReadEnds, linkVars, contextVars, deviceVars, Reading, Running, Opening
<1>8. CASE ReadNothing
  BY <1>1, <1>8 DEF ReadNothing, linkVars, contextVars, deviceVars, Reading, Running, Opening
<1>9. CASE ReadFails
  BY <1>1, <1>9 DEF ReadFails, linkVars, deviceVars, Opening
<1>10. CASE SendCommand
  <2>0. PICK command \in CommandId : command = Resolve
    BY <1>10 DEF SendCommand
  <2>1. /\ SendWithProbe(command, "WAIT_PROBE")
        /\ state = "SEND_COMMAND" /\ currentCommand' = command
        /\ UNCHANGED <<spoilt, device, executed>>
    BY <1>10, <2>0 DEF SendCommand, linkVars, deviceVars
  <2>2. toDevice = <<>> /\ spoilt => command = "CONFIG_INITIAL"
    <3>1. toDevice = <<>> /\ spoilt => currentCommand = "NONE"
      BY <2>1 DEF FirstSpoilt
    <3> QED BY <2>0, <3>1 DEF Resolve
  <2>3. /\ \A c \in Wire : Sent(c) => Sent(c)'
        /\ state' # "FAILED" => Sent(command)'
        /\ FirstSpoilt'
    BY <2>1, <2>2, SendKeeps DEF TypeInv
  <2>4. NothingSent'
    <3>1. state' \in {"WAIT_PROBE", "FAILED"} /\ currentCommand' # "NONE"
      BY <2>1 DEF SendWithProbe, CommandId
    <3> QED BY <3>1 DEF NothingSent, Opening
  <2>5. DoneInv'
    <3> SUFFICES ASSUME state' # "FAILED" PROVE DoneInv'
      BY DEF DoneInv
    <3>1. state' = "WAIT_PROBE" /\ currentCommand' = command /\ Sent(command)'
      BY <2>1, <2>3 DEF SendWithProbe
    <3>2. /\ command \in {"SET_HOMEMODE", "REPORT"} =>
               device.autoMode = AutoMode \/ Sent("SET_AUTOMODE")
          /\ command = "REPORT" => device.homeMode = HomeMode \/ Sent("SET_HOMEMODE")
      BY <2>0, <2>1, ResolveDone
    <3>3. (Sent("SET_AUTOMODE") => Sent("SET_AUTOMODE")')
          /\ (Sent("SET_HOMEMODE") => Sent("SET_HOMEMODE")')
      BY <2>3 DEF Wire, CommandId
    <3>4. currentCommand' \in {"SET_AUTOMODE", "SET_HOMEMODE", "REPORT"} =>
            device'.autoMode = AutoMode \/ Sent("SET_AUTOMODE")'
      BY <2>1, <3>1, <3>2, <3>3
    <3>5. currentCommand' \in {"SET_HOMEMODE", "REPORT"} =>
            device'.homeMode = HomeMode \/ Sent("SET_HOMEMODE")'
      BY <2>1, <3>1, <3>2, <3>3
    <3>6. currentCommand' = "REPORT" => Sent("REPORT")'
      BY <3>1
    <3> QED BY <3>1, <3>4, <3>5, <3>6 DEF DoneInv
  <2> QED BY <2>3, <2>4, <2>5
<1>11. CASE Finish
  <2>1. /\ UNCHANGED <<spoilt, currentCommand, device, executed, toDevice>>
        /\ state = "SEND_COMMAND" /\ state' = Resolve /\ Resolve \in {"COMPLETE", "FAILED"}
    BY <1>11 DEF Finish, linkVars, deviceVars
  <2>2. Resolve = "COMPLETE" => currentCommand = "REPORT"
    BY <2>1, ResolveDone
  <2> QED BY <1>1, <2>1, <2>2 DEF Opening
<1>12. CASE ProbeCompletes
  BY <1>1, <1>12 DEF ProbeCompletes, linkVars, deviceVars, Opening
<1>13. CASE StillWaiting
  BY <1>1, <1>13 DEF StillWaiting, linkVars, contextVars, deviceVars, Opening
<1>14. CASE TimedOut
  <2>1. state = "WAIT_PROBE" /\ UNCHANGED <<spoilt, device, executed>>
    BY <1>14 DEF TimedOut, linkVars, deviceVars
  <2>2. currentCommand \in CommandId /\ currentCommand # "NONE"
    BY <2>1 DEF TypeInv, WaitsForCommand, CommandId
  <2>3. CASE SendWithProbe(currentCommand, "WAIT_PROBE") /\ UNCHANGED currentCommand
    <3>1. ~(toDevice = <<>> /\ spoilt)
      BY <2>1, <2>2 DEF FirstSpoilt
    <3>2. (\A c \in Wire : Sent(c) => Sent(c)') /\ FirstSpoilt'
      BY <2>1, <2>2, <2>3, <3>1, SendKeeps DEF TypeInv
    <3>3. state' \in {"WAIT_PROBE", "FAILED"}
      BY <2>3 DEF SendWithProbe
    <3>4. DoneInv'
      BY <2>1, <2>3, <3>2, <3>3 DEF DoneInv, Wire, CommandId
    <3>5. NothingSent'
      BY <2>2, <2>3, <3>3 DEF NothingSent, Opening
    <3> QED BY <3>2, <3>4, <3>5
  <2>4. CASE GiveUp /\ UNCHANGED <<currentCommand, toDevice>>
    BY <1>1, <2>1, <2>4 DEF GiveUp, Opening
  <2> QED BY <1>14, <2>3, <2>4 DEF TimedOut
<1>15. CASE DeviceExecutes
  <2>1. /\ toDevice \in Seq(Wire) /\ toDevice # <<>> /\ toDevice' = Tail(toDevice)
        /\ spoilt' = FALSE /\ UNCHANGED <<state, currentCommand>>
    BY <1>15 DEF DeviceExecutes, contextVars, TypeInv, TypeOK
  <2>2. spoilt => Head(toDevice) = "CONFIG_INITIAL"
    BY <2>1 DEF FirstSpoilt
  <2>3. /\ device.autoMode = AutoMode \/ Sent("SET_AUTOMODE") =>
             device'.autoMode = AutoMode \/ Sent("SET_AUTOMODE")'
        /\ device.homeMode = HomeMode \/ Sent("SET_HOMEMODE") =>
             device'.homeMode = HomeMode \/ Sent("SET_HOMEMODE")'
        /\ "REPORT" \in executed \/ Sent("REPORT") =>
             "REPORT" \in executed' \/ Sent("REPORT")'
    <3>1. \A c \in Wire : Sent(c) /\ Head(toDevice) # c => Sent(c)'
      BY <2>1, SentUntilFirst
    <3>2. {"SET_AUTOMODE", "SET_HOMEMODE", "REPORT"} \subseteq Wire
      BY DEF Wire, CommandId
    <3>3. /\ device.autoMode = AutoMode => device'.autoMode = AutoMode
          /\ device.homeMode = HomeMode => device'.homeMode = HomeMode
          /\ ~spoilt /\ Head(toDevice) = "SET_AUTOMODE" => device'.autoMode = AutoMode
          /\ ~spoilt /\ Head(toDevice) = "SET_HOMEMODE" => device'.homeMode = HomeMode
          /\ executed \subseteq executed'
          /\ ~spoilt /\ Head(toDevice) = "REPORT" => "REPORT" \in executed'
      BY <1>15, WantedStays DEF TypeInv
    <3> QED BY <2>2, <3>1, <3>2, <3>3
  <2>4. DoneInv'
    BY <2>1, <2>3 DEF DoneInv
  <2>5. FirstSpoilt'
    BY <2>1 DEF FirstSpoilt
  <2>6. NothingSent'
    BY <2>1 DEF NothingSent, Opening
  <2> QED BY <2>4, <2>5, <2>6
<1>16. CASE LineIsLost
  <2>1. UNCHANGED <<spoilt, currentCommand, device, executed, toDevice, state>>
    BY <1>16 DEF LineIsLost, linkVars, contextVars, deviceVars
  <2> QED BY <1>1, <2>1 DEF DoneInv, Opening
<1> QED
  BY <1>2, <1>3, <1>4, <1>5, <1>6, <1>7, <1>8, <1>9, <1>10, <1>11, <1>12, <1>13, <1>14, <1>15,
     <1>16 DEF Next, HostSteps

\* Once the device has worked off what a startup that succeeded has sent it, its
\* modes are the wanted ones and it reports its position, whatever it held
\* before and whichever writes were skipped as already true.
THEOREM StartupConfigures == Spec => []CompleteMeansConfigured
<1>1. TypeInv => TypeOK
  BY DEF TypeInv
<1>2. DoneParts => CompleteMeansConfigured
  <2> SUFFICES ASSUME DoneParts, state = "COMPLETE", toDevice = <<>>
               PROVE  device.autoMode = AutoMode /\ device.homeMode = HomeMode
                      /\ "REPORT" \in executed
    BY DEF CompleteMeansConfigured
  <2>1. \A c : ~Sent(c)
    BY DEF Sent
  <2> QED BY <2>1 DEF DoneParts, DoneInv
<1> QED
  BY <1>1, <1>2, TypeInit, TypeStep, LinkInit, LinkStep, ShownInit, ShownStep, DoneInit, DoneStep,
     PTL DEF Spec

-----------------------------------------------------------------------------
(* A startup fails only for a reason.  As long as nothing has gone wrong    *)
(* the host and the device go in step: one command and its probe are under  *)
(* way at a time, their answers are read before the next command is sent,   *)
(* and what the answers tell is what the next transition looks for.         *)

\* Nothing has gone wrong so far.
Clean == failures = 0 /\ timeouts = 0 /\ lost = 0 /\ ~leftover

\* Nothing is under way to the host but the end of a probe that has completed
\* already, and no section is open.
Quiet ==
  /\ \A i \in 1..Len(toHost) : toHost[i].kind = "Invalid"
  /\ parseState = "NONE" /\ section = <<>>

\* A line of a kind is under way right behind the echo that opens its section,
\* or is next, and the reader is open for it.
Comes(kind, echo, open) ==
  \E i \in 1..Len(toHost) :
    /\ toHost[i].kind = kind
    /\ IF i = 1 THEN open ELSE toHost[i - 1].kind = echo

\* The device has worked off the current command.
Answered == state = "SEND_COMMAND" \/ Len(toDevice) # 2

ProbeInStep ==
  /\ state = "SEND_COMMAND" => toDevice = <<>> /\ Quiet
  /\ state = "WAIT_PROBE" =>
       toDevice \in {<<currentCommand, "PROBE">>, <<"PROBE">>, <<>>}
  /\ Len(toDevice) = 2 => Quiet
  /\ state = "WAIT_PROBE" /\ probeProcessSeen => toDevice = <<>> /\ Quiet
  /\ \A i \in 1..Len(toHost) :
       toHost[i].kind = "ProcessInvalid" =>
         /\ toDevice = <<>>
         /\ \A k \in (i + 1)..Len(toHost) : toHost[k].kind = "Invalid"

\* The dump that verifies the safety is under way, in an open section, or has
\* been handed over.
ConfigShows ==
  /\ currentCommand = "AUTOSAFETY0" /\ Answered => ~device.autoSafety
  /\ currentCommand = "VERIFY_AUTOSAFETY" =>
       /\ ~device.autoSafety
       /\ \A i \in 1..Len(toHost) : toHost[i].kind = "Config" => ~toHost[i].map.autoSafety
       /\ \A i \in 1..Len(section) : section[i].kind = "Config" => ~section[i].map.autoSafety
       /\ Answered => \/ SafetyOff
                      \/ parseState = "CONFIG" /\ section # <<>>
                      \/ Comes("Config", "ProcessConfig", parseState = "CONFIG")

\* So has the line that says that the safety is disengaged, if it is.
StatusShows ==
  currentCommand = "STATUS" /\ ~engaged =>
    /\ \A i \in 1..Len(toHost) : toHost[i].kind # "Engaged"
    /\ \A i \in 1..Len(section) : section[i].kind # "Engaged"
    /\ Answered => \/ ~autoSafetyEngaged
                   \/ parseState = "STATUS" /\ SectionSays("Disengaged")
                   \/ Comes("Disengaged", "ProcessStatus", parseState # "CONFIG")

InStep ==
  /\ Clean /\ Running => ProbeInStep /\ ConfigShows /\ StatusShows
  /\ Clean /\ state = "FAILED" => engaged /\ toDevice = <<>>

\* Reading takes the first line; the others move up.
LEMMA FirstLineTaken ==
  ASSUME NEW S, NEW q \in Seq(S), q # <<>>
  PROVE  /\ Tail(q) \in Seq(S) /\ Len(Tail(q)) = Len(q) - 1 /\ Len(q) \in Nat \ {0}
         /\ Head(q) = q[1] /\ Head(q) \in S
         /\ \A i \in 1..(Len(q) - 1) : Tail(q)[i] = q[i + 1]
  OBVIOUS

\* A line that comes moves up or is read.
LEMMA ComesMovesUp ==
  ASSUME TypeOK, toHost # <<>>, toHost' = Tail(toHost), NEW kind, NEW echo,
         NEW open \in BOOLEAN, NEW now \in BOOLEAN, Comes(kind, echo, open),
         Head(toHost).kind = echo => now,
         ~(Head(toHost).kind = kind /\ open)
  PROVE  \E i \in 1..Len(toHost') :
           /\ toHost'[i].kind = kind
           /\ IF i = 1 THEN now ELSE toHost'[i - 1].kind = echo
<1>1. PICK i \in 1..Len(toHost) :
        /\ toHost[i].kind = kind
        /\ IF i = 1 THEN open ELSE toHost[i - 1].kind = echo
  BY DEF Comes
<1>2. /\ Len(toHost') = Len(toHost) - 1 /\ Len(toHost) \in Nat \ {0}
      /\ Head(toHost) = toHost[1]
      /\ \A k \in 1..(Len(toHost) - 1) : toHost'[k] = toHost[k + 1]
  BY FirstLineTaken DEF TypeOK
<1>3. i # 1
  BY <1>1, <1>2
<1>4. i - 1 \in 1..Len(toHost') /\ toHost'[i - 1] = toHost[i]
  BY <1>2, <1>3
<1>5. i - 1 = 1 => now
  BY <1>1, <1>2, <1>3
<1>6. i - 1 # 1 => toHost'[(i - 1) - 1] = toHost[i - 1]
  BY <1>2, <1>3
<1> QED
  BY <1>1, <1>3, <1>4, <1>5, <1>6

\* A line that is read keeps the probe in step, ...
LEMMA ProbeRead ==
  ASSUME TypeInv, Running, ProbeInStep, ReadLine
  PROVE  ProbeInStep'
<1>1. /\ Running /\ toHost # <<>> /\ toHost' = Tail(toHost)
      /\ UNCHANGED <<state, currentCommand, toDevice>>
  BY DEF ReadLine
<1>2. /\ Len(toHost') = Len(toHost) - 1 /\ Len(toHost) \in Nat \ {0}
      /\ Head(toHost) = toHost[1] /\ Head(toHost) \in Line
      /\ \A k \in 1..(Len(toHost) - 1) : toHost'[k] = toHost[k + 1]
  BY <1>1, FirstLineTaken DEF TypeInv, TypeOK
<1>3. Quiet => Quiet' /\ UNCHANGED probeProcessSeen
  <2> SUFFICES ASSUME Quiet PROVE Quiet' /\ UNCHANGED probeProcessSeen
    OBVIOUS
  <2>1. Head(toHost).kind = "Invalid" /\ parseState = "NONE"
    BY <1>2 DEF Quiet
  <2>2. ReadUnhandled(Head(toHost))
    BY <2>1 DEF ReadLine, ReadEcho, ReadInSection, Echo
  <2>3. UNCHANGED <<parseState, section, probeProcessSeen>>
    BY <2>2 DEF ReadUnhandled, readerVars
  <2>4. \A i \in 1..Len(toHost') : toHost'[i].kind = "Invalid"
    BY <1>2 DEF Quiet
  <2> QED BY <2>3, <2>4 DEF Quiet
<1>4. \A i \in 1..Len(toHost') :
        toHost'[i].kind = "ProcessInvalid" =>
          /\ toDevice' = <<>>
          /\ \A k \in (i + 1)..Len(toHost') : toHost'[k].kind = "Invalid"
  <2> SUFFICES ASSUME NEW i \in 1..Len(toHost'), toHost'[i].kind = "ProcessInvalid"
               PROVE  /\ toDevice' = <<>>
                      /\ \A k \in (i + 1)..Len(toHost') : toHost'[k].kind = "Invalid"
    OBVIOUS
  <2>1. i + 1 \in 1..Len(toHost) /\ toHost[i + 1].kind = "ProcessInvalid"
    BY <1>2
  <2>2. toDevice = <<>> /\ \A k \in ((i + 1) + 1)..Len(toHost) : toHost[k].kind = "Invalid"
    BY <2>1 DEF ProbeInStep
  <2>3. ASSUME NEW k \in (i + 1)..Len(toHost') PROVE toHost'[k].kind = "Invalid"
    <3>1. k + 1 \in ((i + 1) + 1)..Len(toHost) /\ toHost'[k] = toHost[k + 1]
      BY <1>2
    <3> QED BY <2>2, <3>1
  <2> QED BY <1>1, <2>2, <2>3
<1>5. probeProcessSeen' => probeProcessSeen \/ (toDevice = <<>> /\ Quiet')
  <2> SUFFICES ASSUME probeProcessSeen', ~probeProcessSeen PROVE toDevice = <<>> /\ Quiet'
    OBVIOUS
  <2>1. ReadEcho(Head(toHost)) /\ Head(toHost).kind = "ProcessInvalid"
    BY DEF ReadLine, ReadEcho, ReadInSection, ReadUnhandled
  <2>2. parseState' = "NONE" /\ section' = <<>>
    BY <2>1 DEF ReadEcho
  <2>3. toDevice = <<>> /\ \A k \in 2..Len(toHost) : toHost[k].kind = "Invalid"
    BY <1>2, <2>1 DEF ProbeInStep
  <2>4. ASSUME NEW i \in 1..Len(toHost') PROVE toHost'[i].kind = "Invalid"
    <3>1. i + 1 \in 2..Len(toHost) /\ toHost'[i] = toHost[i + 1]
      BY <1>2
    <3> QED BY <2>3, <3>1
  <2> QED BY <2>2, <2>3, <2>4 DEF Quiet
<1>6. /\ state' = "SEND_COMMAND" => toDevice' = <<>> /\ Quiet'
      /\ state' = "WAIT_PROBE" =>
           toDevice' \in {<<currentCommand', "PROBE">>, <<"PROBE">>, <<>>}
      /\ Len(toDevice') = 2 => Quiet'
  BY <1>1, <1>3 DEF ProbeInStep
<1>7. state' = "WAIT_PROBE" /\ probeProcessSeen' => toDevice' = <<>> /\ Quiet'
  BY <1>1, <1>3, <1>5 DEF ProbeInStep
<1> QED
  BY <1>4, <1>6, <1>7 DEF ProbeInStep

\* ... what a section that is handed on says about the settings, ...
LEMMA NotifiedConfig ==
  ASSUME TypeInv, NotifySection,
         \A i \in 1..Len(section) : section[i].kind = "Config" => ~section[i].map.autoSafety
  PROVE  /\ SafetyOff => SafetyOff'
         /\ parseState = "CONFIG" /\ section # <<>> => SafetyOff'
<1>1. CASE section = <<>> \/ parseState # "CONFIG"
  BY <1>1 DEF NotifySection, answerVars, SafetyOff
<1>2. CASE section # <<>> /\ parseState = "CONFIG"
  <2>1. section \in Seq(Line) /\ Len(section) \in 1..Len(section)
    BY <1>2 DEF TypeInv, TypeOK
  <2>2. section[Len(section)] \in Line /\ section[Len(section)].kind = "Config"
    BY <1>2, <2>1 DEF TypeInv, ConfigSection
  <2>3. section[Len(section)].map \in ConfigMaps /\ ~section[Len(section)].map.autoSafety
    BY <2>1, <2>2 DEF Line, Echo
  <2>4. section[Len(section)].map # NoConfig
    BY <2>3, NoConfigAssumption DEF ConfigMaps
  <2>5. configMap' = section[Len(section)].map
    BY <1>2 DEF NotifySection
  <2> QED BY <2>3, <2>4, <2>5 DEF SafetyOff
<1> QED
  BY <1>1, <1>2

\* ... the dump on its way, ...
LEMMA ConfigRead ==
  ASSUME TypeInv, Running, ProbeInStep, ConfigShows, ReadLine
  PROVE  ConfigShows'
<1>1. /\ Running /\ toHost # <<>> /\ toHost' = Tail(toHost)
      /\ UNCHANGED <<state, currentCommand, toDevice, device>>
  BY DEF ReadLine, deviceVars
<1>2. /\ Len(toHost') = Len(toHost) - 1 /\ Len(toHost) \in Nat \ {0}
      /\ Head(toHost) = toHost[1] /\ Head(toHost) \in Line
      /\ \A k \in 1..(Len(toHost) - 1) : toHost'[k] = toHost[k + 1]
  BY <1>1, FirstLineTaken DEF TypeInv, TypeOK
<1>3. Answered' = Answered
  BY <1>1 DEF Answered
<1> SUFFICES ASSUME currentCommand = "VERIFY_AUTOSAFETY"
             PROVE  ConfigShows'
  BY <1>1, <1>3 DEF ConfigShows
<1> DEFINE line == Head(toHost)
<1>4. /\ \A i \in 1..Len(toHost) : toHost[i].kind = "Config" => ~toHost[i].map.autoSafety
      /\ \A i \in 1..Len(section) : section[i].kind = "Config" => ~section[i].map.autoSafety
      /\ ~device.autoSafety
  BY DEF ConfigShows
<1>5. \A i \in 1..Len(toHost') : toHost'[i].kind = "Config" => ~toHost'[i].map.autoSafety
  BY <1>2, <1>4
<1>6. line.kind = "Config" => ~line.map.autoSafety
  BY <1>2, <1>4
<1>7. section \in Seq(Line)
  BY DEF TypeInv, TypeOK
<1>8. ReadEcho(line) \/ ReadInSection(line) \/ ReadUnhandled(line)
  BY DEF ReadLine
<1> HIDE DEF line
<1>9. \A i \in 1..Len(section') : section'[i].kind = "Config" => ~section'[i].map.autoSafety
  <2>1. CASE ReadEcho(line)
    BY <2>1 DEF ReadEcho
  <2>2. CASE ReadInSection(line)
    <3>1. section' = Append(section, line) \/ section' = section
      BY <2>2 DEF ReadInSection
    <3> QED BY <1>2, <1>4, <1>6, <1>7, <3>1, SMTT(20)
  <2>3. CASE ReadUnhandled(line)
    BY <1>4, <2>3 DEF ReadUnhandled, readerVars
  <2> QED BY <1>8, <2>1, <2>2, <2>3
<1>10. ASSUME Answered
       PROVE  \/ SafetyOff'
              \/ parseState' = "CONFIG" /\ section' # <<>>
              \/ Comes("Config", "ProcessConfig", parseState = "CONFIG")'
  <2>1. \/ SafetyOff
        \/ parseState = "CONFIG" /\ section # <<>>
        \/ Comes("Config", "ProcessConfig", parseState = "CONFIG")
    BY <1>10 DEF ConfigShows
  <2>2. CASE SafetyOff
    <3>1. CASE ReadEcho(line)
      BY <1>4, <2>2, <3>1, NotifiedConfig DEF ReadEcho
    <3>2. CASE ReadInSection(line) \/ ReadUnhandled(line)
      BY <2>2, <3>2 DEF ReadInSection, ReadUnhandled, answerVars, SafetyOff
    <3> QED BY <1>8, <3>1, <3>2
  <2>3. CASE parseState = "CONFIG" /\ section # <<>>
    <3>1. CASE ReadEcho(line)
      BY <1>4, <2>3, <3>1, NotifiedConfig DEF ReadEcho
    <3>2. CASE ReadInSection(line)
      BY <1>7, <2>3, <3>2 DEF ReadInSection
    <3>3. CASE ReadUnhandled(line)
      BY <2>3, <3>3 DEF ReadUnhandled
    <3> QED BY <1>8, <3>1, <3>2, <3>3
  <2>4. CASE Comes("Config", "ProcessConfig", parseState = "CONFIG")
    <3>1. CASE line.kind = "Config" /\ parseState = "CONFIG"
      <4>1. ReadInSection(line)
        BY <1>8, <3>1 DEF ReadEcho, ReadUnhandled, Echo
      <4> QED BY <1>7, <3>1, <4>1 DEF ReadInSection
    <3>2. CASE ~(line.kind = "Config" /\ parseState = "CONFIG")
      <4>1. line.kind = "ProcessConfig" => parseState' = "CONFIG"
        BY <1>8 DEF ReadEcho, ReadInSection, ReadUnhandled, Echo
      <4>2. \E i \in 1..Len(toHost') :
              /\ toHost'[i].kind = "Config"
              /\ IF i = 1 THEN parseState' = "CONFIG" ELSE toHost'[i - 1].kind = "ProcessConfig"
        <5> DEFINE open == parseState = "CONFIG"
                   now  == parseState' = "CONFIG"
        <5>1. open \in BOOLEAN /\ now \in BOOLEAN /\ Comes("Config", "ProcessConfig", open)
          BY <2>4
        <5>2. line.kind = "ProcessConfig" => now
          BY <4>1
        <5>3. ~(line.kind = "Config" /\ open)
          BY <3>2
        <5> HIDE DEF open, now
        <5>4. \E i \in 1..Len(toHost') :
                /\ toHost'[i].kind = "Config"
                /\ IF i = 1 THEN now ELSE toHost'[i - 1].kind = "ProcessConfig"
          BY <1>1, <5>1, <5>2, <5>3, ComesMovesUp DEF TypeInv, line
        <5> QED BY <5>4 DEF now
      <4> QED BY <4>2 DEF Comes
    <3> QED BY <3>1, <3>2
  <2> QED BY <2>1, <2>2, <2>3, <2>4
<1> QED
  BY <1>1, <1>3, <1>4, <1>5, <1>9, <1>10 DEF ConfigShows

\* ... what a section that is handed on says about the safety, ...
LEMMA NotifiedStatus ==
  ASSUME TypeInv, NotifySection,
         \A i \in 1..Len(section) : section[i].kind # "Engaged"
  PROVE  /\ ~autoSafetyEngaged => ~autoSafetyEngaged'
         /\ parseState = "STATUS" /\ SectionSays("Disengaged") => ~autoSafetyEngaged'
<1>1. section \in Seq(Line) /\ ~SectionSays("Engaged")
  BY DEF TypeInv, TypeOK, SectionSays
<1>2. SectionSays("Disengaged") => section # <<>>
  BY <1>1 DEF SectionSays
<1>3. CASE section = <<>> \/ parseState = "CONFIG"
  BY <1>2, <1>3 DEF NotifySection, answerVars
<1>4. CASE section # <<>> /\ parseState # "CONFIG"
  BY <1>1, <1>4 DEF NotifySection
<1> QED
  BY <1>3, <1>4

\* ... and the line about the safety.
LEMMA StatusRead ==
  ASSUME TypeInv, Running, ProbeInStep, StatusShows, ReadLine
  PROVE  StatusShows'
<1>1. /\ Running /\ toHost # <<>> /\ toHost' = Tail(toHost)
      /\ UNCHANGED <<state, currentCommand, toDevice, engaged>>
  BY DEF ReadLine, deviceVars
<1>2. /\ Len(toHost') = Len(toHost) - 1 /\ Len(toHost) \in Nat \ {0}
      /\ Head(toHost) = toHost[1] /\ Head(toHost) \in Line
      /\ \A k \in 1..(Len(toHost) - 1) : toHost'[k] = toHost[k + 1]
  BY <1>1, FirstLineTaken DEF TypeInv, TypeOK
<1>3. Answered' = Answered
  BY <1>1 DEF Answered
<1> SUFFICES ASSUME currentCommand = "STATUS", ~engaged
             PROVE  StatusShows'
  BY <1>1 DEF StatusShows
<1> DEFINE line == Head(toHost)
<1>4. /\ \A i \in 1..Len(toHost) : toHost[i].kind # "Engaged"
      /\ \A i \in 1..Len(section) : section[i].kind # "Engaged"
  BY DEF StatusShows
<1>5. \A i \in 1..Len(toHost') : toHost'[i].kind # "Engaged"
  BY <1>2, <1>4
<1>6. line.kind # "Engaged"
  BY <1>2, <1>4
<1>7. section \in Seq(Line)
  BY DEF TypeInv, TypeOK
<1>8. ReadEcho(line) \/ ReadInSection(line) \/ ReadUnhandled(line)
  BY DEF ReadLine
<1> HIDE DEF line
<1>9. \A i \in 1..Len(section') : section'[i].kind # "Engaged"
  <2>1. CASE ReadEcho(line)
    BY <2>1 DEF ReadEcho
  <2>2. CASE ReadInSection(line)
    <3>1. CASE section' = section
      BY <1>4, <3>1
    <3>2. CASE section' = Append(section, line)
      <4>1. /\ Len(section') = Len(section) + 1 /\ Len(section) \in Nat
            /\ section'[Len(section) + 1] = line
            /\ \A i \in 1..Len(section) : section'[i] = section[i]
        BY <1>2, <1>7, <3>2 DEF line
      <4> QED BY <1>4, <1>6, <4>1
    <3> QED BY <2>2, <3>1, <3>2 DEF ReadInSection
  <2>3. CASE ReadUnhandled(line)
    BY <1>4, <2>3 DEF ReadUnhandled, readerVars
  <2> QED BY <1>8, <2>1, <2>2, <2>3
<1>10. ASSUME Answered
       PROVE  \/ ~autoSafetyEngaged'
              \/ parseState' = "STATUS" /\ SectionSays("Disengaged")'
              \/ Comes("Disengaged", "ProcessStatus", parseState # "CONFIG")'
  <2>1. \/ ~autoSafetyEngaged
        \/ parseState = "STATUS" /\ SectionSays("Disengaged")
        \/ Comes("Disengaged", "ProcessStatus", parseState # "CONFIG")
    BY <1>10 DEF StatusShows
  <2>2. CASE ~autoSafetyEngaged
    <3>1. CASE ReadEcho(line)
      BY <1>4, <2>2, <3>1, NotifiedStatus DEF ReadEcho
    <3>2. CASE ReadInSection(line)
      BY <2>2, <3>2 DEF ReadInSection, answerVars
    <3>3. CASE ReadUnhandled(line)
      BY <1>6, <2>2, <3>3 DEF ReadUnhandled
    <3> QED BY <1>8, <3>1, <3>2, <3>3
  <2>3. CASE parseState = "STATUS" /\ SectionSays("Disengaged")
    <3>1. CASE ReadEcho(line)
      BY <1>4, <2>3, <3>1, NotifiedStatus DEF ReadEcho
    <3>2. CASE ReadInSection(line)
      <4>1. section' = Append(section, line) /\ parseState' = "STATUS"
        BY <2>3, <3>2 DEF ReadInSection
      <4>2. /\ Len(section') = Len(section) + 1 /\ Len(section) \in Nat
            /\ section'[Len(section) + 1] = line
            /\ \A i \in 1..Len(section) : section'[i] = section[i]
            /\ DOMAIN section' = 1..(Len(section) + 1) /\ DOMAIN section = 1..Len(section)
        BY <1>7, <1>2, <4>1 DEF line
      <4>3. CASE line.kind = "Disengaged"
        BY <4>1, <4>2, <4>3 DEF SectionSays
      <4>4. CASE line.kind # "Disengaged"
        <5>1. PICK i \in 1..Len(section) :
                /\ section[i].kind = "Disengaged"
                /\ \A k \in (i + 1)..Len(section) : section[k].kind \notin {"Engaged", "Disengaged"}
          BY <2>3, <4>2 DEF SectionSays
        <5>2. i \in DOMAIN section' /\ section'[i].kind = "Disengaged"
          BY <4>2, <5>1
        <5>3. \A k \in (i + 1)..Len(section') : section'[k].kind \notin {"Engaged", "Disengaged"}
          BY <1>6, <4>2, <4>4, <5>1
        <5> QED BY <4>1, <5>2, <5>3 DEF SectionSays
      <4> QED BY <4>3, <4>4
    <3>3. CASE ReadUnhandled(line)
      BY <2>3, <3>3 DEF ReadUnhandled
    <3> QED BY <1>8, <3>1, <3>2, <3>3
  <2>4. CASE Comes("Disengaged", "ProcessStatus", parseState # "CONFIG")
    <3>1. CASE line.kind = "Disengaged" /\ parseState # "CONFIG"
      <4>1. CASE ReadInSection(line)
        <5>1. section' = Append(section, line) /\ parseState' = "STATUS"
          BY <3>1, <4>1 DEF ReadInSection, TypeInv, TypeOK
        <5>2. /\ Len(section') = Len(section) + 1 /\ Len(section) \in Nat
              /\ section'[Len(section) + 1] = line
              /\ DOMAIN section' = 1..(Len(section) + 1)
          BY <1>7, <1>2, <5>1 DEF line
        <5> QED BY <3>1, <5>1, <5>2 DEF SectionSays
      <4>2. CASE ReadUnhandled(line)
        BY <3>1, <4>2 DEF ReadUnhandled
      <4> QED BY <1>8, <3>1, <4>1, <4>2 DEF ReadEcho, Echo
    <3>2. CASE ~(line.kind = "Disengaged" /\ parseState # "CONFIG")
      <4>1. line.kind = "ProcessStatus" => parseState' # "CONFIG"
        BY <1>8 DEF ReadEcho, ReadInSection, ReadUnhandled, Echo
      <4>2. \E i \in 1..Len(toHost') :
              /\ toHost'[i].kind = "Disengaged"
              /\ IF i = 1 THEN parseState' # "CONFIG" ELSE toHost'[i - 1].kind = "ProcessStatus"
        <5> DEFINE open == parseState # "CONFIG"
                   now  == parseState' # "CONFIG"
        <5>1. open \in BOOLEAN /\ now \in BOOLEAN /\ Comes("Disengaged", "ProcessStatus", open)
          BY <2>4
        <5>2. line.kind = "ProcessStatus" => now
          BY <4>1
        <5>3. ~(line.kind = "Disengaged" /\ open)
          BY <3>2
        <5> HIDE DEF open, now
        <5>4. \E i \in 1..Len(toHost') :
                /\ toHost'[i].kind = "Disengaged"
                /\ IF i = 1 THEN now ELSE toHost'[i - 1].kind = "ProcessStatus"
          BY <1>1, <5>1, <5>2, <5>3, ComesMovesUp, SMTT(20) DEF TypeInv, line
        <5> QED BY <5>4 DEF now
      <4> QED BY <4>2 DEF Comes
    <3> QED BY <3>1, <3>2
  <2> QED BY <2>1, <2>2, <2>3, <2>4
<1> QED
  BY <1>1, <1>3, <1>5, <1>9, <1>10 DEF StatusShows

\* A section that ends because the line has gone quiet is handed on as well.
LEMMA NothingRead ==
  ASSUME TypeInv, Running, ProbeInStep, ConfigShows, StatusShows, ReadNothing
  PROVE  ProbeInStep' /\ ConfigShows' /\ StatusShows'
<1>1. UNCHANGED <<state, currentCommand, probeProcessSeen, device, engaged, toDevice, toHost>>
  BY DEF ReadNothing, contextVars, deviceVars
<1>2. CASE UNCHANGED <<answerVars, readerVars>>
  <2>1. UNCHANGED <<autoSafetyEngaged, configMap, parseState, section>>
    BY <1>2 DEF answerVars, readerVars
  <2>2. ProbeInStep'
    BY <1>1, <2>1 DEF ProbeInStep, Quiet
  <2>3. ConfigShows'
    BY <1>1, <2>1 DEF ConfigShows, Answered, Comes, SafetyOff
  <2>4. StatusShows'
    BY <1>1, <2>1 DEF StatusShows, Answered, Comes, SectionSays
  <2> QED BY <2>2, <2>3, <2>4
<1>3. CASE section # <<>> /\ NotifySection /\ parseState' = "NONE" /\ section' = <<>>
  <2>1. ProbeInStep'
    BY <1>1, <1>3 DEF ProbeInStep, Quiet
  <2>2. ConfigShows'
    <3> SUFFICES ASSUME currentCommand = "VERIFY_AUTOSAFETY"
                 PROVE  Answered => SafetyOff' \/ Comes("Config", "ProcessConfig", parseState = "CONFIG")'
      BY <1>1, <1>3 DEF ConfigShows, Answered
    <3>1. /\ SafetyOff => SafetyOff'
          /\ parseState = "CONFIG" /\ section # <<>> => SafetyOff'
      BY <1>3, NotifiedConfig DEF ConfigShows
    <3>2. parseState # "CONFIG" /\ Comes("Config", "ProcessConfig", parseState = "CONFIG")
            => Comes("Config", "ProcessConfig", parseState = "CONFIG")'
      BY <1>1, <1>3 DEF Comes
    <3> QED BY <1>3, <3>1, <3>2 DEF ConfigShows
  <2>3. StatusShows'
    <3> SUFFICES ASSUME currentCommand = "STATUS", ~engaged
                 PROVE  Answered => \/ ~autoSafetyEngaged'
                                    \/ Comes("Disengaged", "ProcessStatus", parseState # "CONFIG")'
      BY <1>1, <1>3 DEF StatusShows, Answered
    <3>1. /\ ~autoSafetyEngaged => ~autoSafetyEngaged'
          /\ parseState = "STATUS" /\ SectionSays("Disengaged") => ~autoSafetyEngaged'
      BY <1>3, NotifiedStatus DEF StatusShows
    <3>2. Comes("Disengaged", "ProcessStatus", parseState # "CONFIG")
            => Comes("Disengaged", "ProcessStatus", parseState # "CONFIG")'
      BY <1>1, <1>3 DEF Comes
    <3> QED BY <3>1, <3>2 DEF StatusShows
  <2> QED BY <2>1, <2>2, <2>3
<1> QED
  BY <1>2, <1>3 DEF ReadNothing

\* Lines that are appended leave the earlier ones where they are.
LEMMA LinesAppended ==
  ASSUME NEW S, NEW q \in Seq(S), NEW a \in S
  PROVE  /\ \A b \in S :
              /\ Len(q \o <<a, b>>) = Len(q) + 2
              /\ (q \o <<a, b>>)[Len(q) + 1] = a /\ (q \o <<a, b>>)[Len(q) + 2] = b
              /\ \A i \in 1..Len(q) : (q \o <<a, b>>)[i] = q[i]
         /\ Len(q \o <<a>>) = Len(q) + 1 /\ (q \o <<a>>)[Len(q) + 1] = a
         /\ \A i \in 1..Len(q) : (q \o <<a>>)[i] = q[i]
<1>1. ASSUME NEW b \in S
      PROVE  /\ Len(q \o <<a, b>>) = Len(q) + 2
             /\ (q \o <<a, b>>)[Len(q) + 1] = a /\ (q \o <<a, b>>)[Len(q) + 2] = b
             /\ \A i \in 1..Len(q) : (q \o <<a, b>>)[i] = q[i]
  <2>1. <<a, b>> \in Seq(S) /\ Len(<<a, b>>) = 2 /\ <<a, b>>[1] = a /\ <<a, b>>[2] = b
    OBVIOUS
  <2>2. Len(q) \in Nat
    OBVIOUS
  <2> QED BY <2>1, <2>2, ConcatProperties
<1>2. <<a>> \in Seq(S) /\ Len(<<a>>) = 1 /\ <<a>>[1] = a
  OBVIOUS
<1>3. Len(q) \in Nat
  OBVIOUS
<1> QED
  BY <1>1, <1>2, <1>3, ConcatProperties

\* A line that comes still comes when others follow it.
LEMMA StillComes ==
  ASSUME Len(toHost) \in Nat, Len(toHost') \in Nat, Len(toHost') >= Len(toHost),
         \A i \in 1..Len(toHost) : toHost'[i] = toHost[i],
         UNCHANGED parseState, NEW kind, NEW echo
  PROVE  /\ Comes(kind, echo, parseState = "CONFIG") => Comes(kind, echo, parseState = "CONFIG")'
         /\ Comes(kind, echo, parseState # "CONFIG") => Comes(kind, echo, parseState # "CONFIG")'
<1>1. ASSUME NEW i \in 1..Len(toHost)
      PROVE  i \in 1..Len(toHost') /\ toHost'[i] = toHost[i]
             /\ (i # 1 => toHost'[i - 1] = toHost[i - 1])
  OBVIOUS
<1> QED
  BY <1>1 DEF Comes

\* The device executes the command that is current, ...
LEMMA CommandExecuted ==
  ASSUME TypeInv, FirstSpoilt, Running, ProbeInStep, ConfigShows, StatusShows,
         DeviceExecutes, Len(toDevice) = 2
  PROVE  ProbeInStep' /\ ConfigShows' /\ StatusShows'
<1>1. state = "WAIT_PROBE" /\ toDevice = <<currentCommand, "PROBE">> /\ Quiet /\ ~probeProcessSeen
  BY DEF Running, ProbeInStep
<1>2. /\ UNCHANGED <<state, currentCommand, probeProcessSeen, autoSafetyEngaged, configMap,
                     parseState, section>>
      /\ toDevice' = <<"PROBE">>
  BY <1>1 DEF DeviceExecutes, contextVars, answerVars, readerVars
<1>3. currentCommand \in CommandId
  BY <1>1 DEF TypeInv, WaitsForCommand
<1> DEFINE command == IF spoilt THEN "SPOILT" ELSE Head(toDevice)
<1>4. command = currentCommand \/ (command = "SPOILT" /\ currentCommand = "CONFIG_INITIAL")
  <2>1. Head(toDevice) = currentCommand /\ toDevice # <<>>
    BY <1>1
  <2>2. CASE spoilt
    <3>1. Head(toDevice) = "CONFIG_INITIAL"
      BY <2>1, <2>2 DEF FirstSpoilt
    <3> QED BY <2>1, <2>2, <3>1
  <2>3. CASE ~spoilt
    <3>1. command = Head(toDevice)
      BY <2>3
    <3> HIDE DEF command
    <3> QED BY <2>1, <3>1
  <2> QED BY <2>2, <2>3
<1>5. /\ toHost' = toHost \o Answer(command)
      /\ device' = CASE command = "AUTOSAFETY0"  -> [device EXCEPT !.autoSafety = FALSE]
                     [] command = "SET_AUTOMODE" -> [device EXCEPT !.autoMode = AutoMode]
                     [] command = "SET_HOMEMODE" -> [device EXCEPT !.homeMode = HomeMode]
                     [] OTHER -> device
      /\ engaged' = (engaged /\ command # "AUTOSAFETY0")
  BY DEF DeviceExecutes
<1> HIDE DEF command
<1>6. toHost \in Seq(Line) /\ device \in ConfigMaps /\ engaged \in BOOLEAN
  BY DEF TypeInv, TypeOK
<1>7. \A k \in Echo \cup {"Invalid", "Engaged", "Disengaged"} : OfKind(k) \in Line
  BY DEF Line, OfKind
<1>8. [kind |-> "Config", map |-> device] \in Line
  BY <1>6 DEF Line
<1>9. command \in CommandId \cup {"SPOILT"} /\ "PROBE" \notin CommandId
  BY <1>3, <1>4 DEF CommandId
<1>10. \A i \in 1..Len(toHost) : toHost[i].kind = "Invalid"
  BY <1>1 DEF Quiet
<1>11. \A i \in 1..Len(toHost') : toHost'[i].kind # "ProcessInvalid"
  <2>1. CASE command \in {"CONFIG_INITIAL", "VERIFY_AUTOSAFETY"}
    <3>1. toHost' = toHost \o <<OfKind("ProcessConfig"), [kind |-> "Config", map |-> device]>>
      BY <1>5, <2>1 DEF Answer
    <3> QED BY <1>6, <1>7, <1>8, <1>10, <3>1, LinesAppended DEF OfKind, Echo
  <2>2. CASE command = "STATUS"
    <3>1. toHost' = toHost \o <<OfKind("ProcessStatus"),
                                OfKind(IF engaged THEN "Engaged" ELSE "Disengaged")>>
      BY <1>5, <2>2 DEF Answer
    <3> QED BY <1>6, <1>7, <1>10, <3>1, LinesAppended DEF OfKind, Echo
  <2>3. CASE command = "SPOILT"
    <3>1. toHost' = toHost \o <<OfKind("Process"), OfKind("Invalid")>>
      BY <1>5, <2>3 DEF Answer
    <3> QED BY <1>6, <1>7, <1>10, <3>1, LinesAppended DEF OfKind, Echo
  <2>4. CASE command \notin {"CONFIG_INITIAL", "VERIFY_AUTOSAFETY", "STATUS", "SPOILT"}
    <3>1. toHost' = toHost \o <<OfKind("Process")>>
      BY <1>5, <1>9, <2>4 DEF Answer
    <3> QED BY <1>6, <1>7, <1>10, <3>1, LinesAppended DEF OfKind, Echo
  <2> QED BY <2>1, <2>2, <2>3, <2>4
<1>12. ProbeInStep'
  BY <1>1, <1>2, <1>11 DEF ProbeInStep
<1>13. ConfigShows'
  <2>1. currentCommand = "AUTOSAFETY0" => ~device'.autoSafety
    BY <1>4, <1>5, <1>6 DEF ConfigMaps
  <2>2. CASE currentCommand # "VERIFY_AUTOSAFETY"
    BY <1>2, <2>1, <2>2 DEF ConfigShows
  <2>3. CASE currentCommand = "VERIFY_AUTOSAFETY"
    <3>1. /\ toHost' = toHost \o <<OfKind("ProcessConfig"), [kind |-> "Config", map |-> device]>>
          /\ device' = device
      BY <1>4, <1>5, <2>3 DEF Answer
    <3>2. /\ Len(toHost') = Len(toHost) + 2 /\ Len(toHost) \in Nat
          /\ toHost'[Len(toHost) + 1] = OfKind("ProcessConfig")
          /\ toHost'[Len(toHost) + 2] = [kind |-> "Config", map |-> device]
          /\ \A i \in 1..Len(toHost) : toHost'[i] = toHost[i]
      BY <1>6, <1>7, <1>8, <3>1, LinesAppended DEF Echo
    <3>3. ~device.autoSafety
      BY <2>3 DEF ConfigShows
    <3>4. \A i \in 1..Len(toHost') : toHost'[i].kind = "Config" => ~toHost'[i].map.autoSafety
      BY <1>10, <3>2, <3>3 DEF OfKind
    <3>5. Comes("Config", "ProcessConfig", parseState = "CONFIG")'
      <4>1. Len(toHost) + 2 \in 1..Len(toHost') /\ Len(toHost) + 2 # 1
            /\ toHost'[(Len(toHost) + 2) - 1].kind = "ProcessConfig"
            /\ toHost'[Len(toHost) + 2].kind = "Config"
        BY <3>2 DEF OfKind
      <4> QED BY <4>1 DEF Comes
    <3>6. section' = <<>>
      BY <1>1, <1>2 DEF Quiet
    <3> QED BY <1>2, <2>3, <3>1, <3>3, <3>4, <3>5, <3>6 DEF ConfigShows
  <2> QED BY <2>2, <2>3
<1>14. StatusShows'
  <2> SUFFICES ASSUME currentCommand = "STATUS", ~engaged' PROVE StatusShows'
    BY <1>2 DEF StatusShows
  <2>1. ~engaged
    BY <1>4, <1>5, <1>6
  <2>2. toHost' = toHost \o <<OfKind("ProcessStatus"), OfKind("Disengaged")>>
    BY <1>4, <1>5, <2>1 DEF Answer
  <2>3. /\ Len(toHost') = Len(toHost) + 2 /\ Len(toHost) \in Nat
        /\ toHost'[Len(toHost) + 1] = OfKind("ProcessStatus")
        /\ toHost'[Len(toHost) + 2] = OfKind("Disengaged")
        /\ \A i \in 1..Len(toHost) : toHost'[i] = toHost[i]
    BY <1>6, <1>7, <2>2, LinesAppended DEF Echo
  <2>4. \A i \in 1..Len(toHost') : toHost'[i].kind # "Engaged"
    BY <1>10, <2>3 DEF OfKind
  <2>5. Comes("Disengaged", "ProcessStatus", parseState # "CONFIG")'
    <3>1. Len(toHost) + 2 \in 1..Len(toHost') /\ Len(toHost) + 2 # 1
          /\ toHost'[(Len(toHost) + 2) - 1].kind = "ProcessStatus"
          /\ toHost'[Len(toHost) + 2].kind = "Disengaged"
      BY <2>3 DEF OfKind
    <3> QED BY <3>1 DEF Comes
  <2>6. section' = <<>>
    BY <1>1, <1>2 DEF Quiet
  <2> QED BY <2>4, <2>5, <2>6 DEF StatusShows
<1> QED
  BY <1>12, <1>13, <1>14

\* ... and then its probe.
LEMMA ProbeExecuted ==
  ASSUME TypeInv, FirstSpoilt, Running, ProbeInStep, ConfigShows, StatusShows,
         DeviceExecutes, Len(toDevice) # 2
  PROVE  ProbeInStep' /\ ConfigShows' /\ StatusShows'
<1>1. state = "WAIT_PROBE" /\ toDevice = <<"PROBE">> /\ ~probeProcessSeen
  BY DEF Running, ProbeInStep, DeviceExecutes
<1>2. /\ UNCHANGED <<state, currentCommand, probeProcessSeen, autoSafetyEngaged, configMap,
                     parseState, section>>
      /\ toDevice' = <<>>
  BY <1>1 DEF DeviceExecutes, contextVars, answerVars, readerVars
<1>3. ~spoilt
  BY <1>1 DEF FirstSpoilt
<1>4. /\ toHost' = toHost \o Answer("PROBE") /\ device' = device /\ engaged' = engaged
  BY <1>1, <1>3 DEF DeviceExecutes, TypeInv, TypeOK
<1>5. toHost' = toHost \o <<OfKind("ProcessInvalid"), OfKind("Invalid")>>
  BY <1>4 DEF Answer
<1>6. toHost \in Seq(Line)
  BY DEF TypeInv, TypeOK
<1>7. OfKind("ProcessInvalid") \in Line /\ OfKind("Invalid") \in Line
  BY DEF Line, OfKind, Echo
<1>8. /\ Len(toHost') = Len(toHost) + 2 /\ Len(toHost) \in Nat
      /\ toHost'[Len(toHost) + 1] = OfKind("ProcessInvalid")
      /\ toHost'[Len(toHost) + 2] = OfKind("Invalid")
      /\ \A i \in 1..Len(toHost) : toHost'[i] = toHost[i]
  BY <1>5, <1>6, <1>7, LinesAppended
<1>9. ASSUME NEW i \in 1..Len(toHost'), toHost'[i].kind = "ProcessInvalid"
      PROVE  \A k \in (i + 1)..Len(toHost') : toHost'[k].kind = "Invalid"
  <2>1. i \notin 1..Len(toHost)
    BY <1>1, <1>8, <1>9 DEF ProbeInStep
  <2> QED BY <1>8, <2>1 DEF OfKind
<1>10. ProbeInStep'
  BY <1>1, <1>2, <1>9 DEF ProbeInStep
<1>11. /\ Comes("Config", "ProcessConfig", parseState = "CONFIG")
            => Comes("Config", "ProcessConfig", parseState = "CONFIG")'
       /\ Comes("Disengaged", "ProcessStatus", parseState # "CONFIG")
            => Comes("Disengaged", "ProcessStatus", parseState # "CONFIG")'
  BY <1>2, <1>8, StillComes
<1>12. \A i \in 1..Len(toHost') :
         \/ i \in 1..Len(toHost) /\ toHost'[i] = toHost[i]
         \/ toHost'[i].kind \in {"ProcessInvalid", "Invalid"}
  BY <1>8 DEF OfKind
<1>13. Answered
  BY DEF Answered
<1>14. ConfigShows'
  BY <1>2, <1>4, <1>11, <1>12, <1>13 DEF ConfigShows, SafetyOff
<1>15. StatusShows'
  BY <1>2, <1>4, <1>11, <1>12, <1>13 DEF StatusShows, SectionSays
<1> QED
  BY <1>10, <1>14, <1>15

\* Before the next command is sent nothing of the last is under way, and what
\* the next transition looks for is known.
LEMMA KnownBetween ==
  ASSUME ProbeInStep, ConfigShows, StatusShows, state = "SEND_COMMAND"
  PROVE  /\ toDevice = <<>> /\ Quiet
         /\ currentCommand \in {"AUTOSAFETY0", "VERIFY_AUTOSAFETY"} => ~device.autoSafety
         /\ currentCommand = "VERIFY_AUTOSAFETY" => SafetyOff
         /\ currentCommand = "STATUS" /\ ~engaged => ~autoSafetyEngaged
<1>1. toDevice = <<>> /\ Quiet /\ Answered
  BY DEF ProbeInStep, Answered
<1>2. ~Comes("Config", "ProcessConfig", parseState = "CONFIG")
      /\ ~Comes("Disengaged", "ProcessStatus", parseState # "CONFIG")
  BY <1>1 DEF Comes, Quiet
<1> QED
  BY <1>1, <1>2 DEF ConfigShows, StatusShows, Quiet

\* The next command and its probe are sent.
LEMMA NextSent ==
  ASSUME TypeInv, ProbeInStep, ConfigShows, StatusShows, SendCommand, state' # "FAILED"
  PROVE  ProbeInStep' /\ ConfigShows' /\ StatusShows'
<1>1. PICK command \in CommandId : command = Resolve
  BY DEF SendCommand
<1>2. /\ state = "SEND_COMMAND" /\ state' = "WAIT_PROBE" /\ currentCommand' = command
      /\ ~probeProcessSeen'
      /\ toDevice' = toDevice \o <<command, "PROBE">>
      /\ UNCHANGED <<autoSafetyEngaged, configMap, parseState, section, device, engaged, toHost>>
  BY <1>1 DEF SendCommand, SendWithProbe, ForgetProbe, answerVars, readerVars, deviceVars
<1>3. /\ toDevice = <<>> /\ Quiet
      /\ currentCommand = "AUTOSAFETY0" => ~device.autoSafety
  BY <1>2, KnownBetween
<1>4. toDevice' = <<command, "PROBE">> /\ Len(toDevice') = 2
  BY <1>2, <1>3
<1>5. Quiet' /\ ~Answered'
  BY <1>2, <1>3, <1>4 DEF Quiet, Answered
<1>6. ProbeInStep'
  BY <1>2, <1>4, <1>5 DEF ProbeInStep, Quiet
<1>7. command = "VERIFY_AUTOSAFETY" => currentCommand = "AUTOSAFETY0"
  <2>1. AfterAutoMode # "VERIFY_AUTOSAFETY"
    BY DEF AfterAutoMode
  <2>2. AfterStatus # "VERIFY_AUTOSAFETY"
    BY <2>1 DEF AfterStatus
  <2>3. currentCommand \in CommandId \cup {"NONE"}
    BY DEF TypeInv, TypeOK
  <2> QED BY <1>1, <2>1, <2>2, <2>3 DEF Resolve, CommandId
<1>8. ConfigShows'
  BY <1>2, <1>3, <1>5, <1>7 DEF ConfigShows, Quiet
<1>9. StatusShows'
  BY <1>2, <1>5 DEF StatusShows, Quiet
<1> QED
  BY <1>6, <1>8, <1>9

\* Startup gives up only over a safety that is engaged.
LEMMA GivenUp ==
  ASSUME TypeInv, ProbeInStep, ConfigShows, StatusShows, Finish, state' = "FAILED"
  PROVE  engaged /\ toDevice = <<>>
<1>1. state = "SEND_COMMAND" /\ Resolve = "FAILED"
  BY DEF Finish
<1>2. currentCommand \in CommandId \cup {"NONE"} /\ AfterAutoMode # "FAILED"
  BY DEF TypeInv, TypeOK, AfterAutoMode
<1>3. \/ currentCommand = "VERIFY_AUTOSAFETY" /\ ~SafetyOff
      \/ currentCommand = "STATUS" /\ autoSafetyEngaged
  <2>1. AfterStatus = "FAILED" => autoSafetyEngaged
    BY <1>2 DEF AfterStatus
  <2>2. CASE currentCommand = "VERIFY_AUTOSAFETY"
    BY <1>1, <2>2 DEF Resolve
  <2>3. CASE currentCommand = "STATUS"
    BY <1>1, <2>1, <2>3 DEF Resolve
  <2>4. CASE currentCommand = "CONFIG_INITIAL"
    BY <1>1, <2>4 DEF Resolve
  <2>5. CASE currentCommand \notin {"VERIFY_AUTOSAFETY", "STATUS", "CONFIG_INITIAL"}
    BY <1>1, <1>2, <2>5 DEF Resolve, CommandId
  <2> QED BY <2>2, <2>3, <2>4, <2>5
<1> QED
  BY <1>1, <1>3, KnownBetween

\* The state that the steps of a running startup need.
LEMMA InStepInit == Init => InStep
  BY DEF Init, InStep, Opening, Running

LEMMA InStepStep ==
  TypeInv /\ LinkInv /\ DoneParts /\ InStep /\ [Next]_vars => InStep'
<1> SUFFICES ASSUME TypeInv, LinkInv, DoneParts, InStep, [Next]_vars PROVE InStep'
  OBVIOUS
<1>1. ASSUME ~Clean' \/ Opening' PROVE InStep'
  BY <1>1 DEF InStep, Opening, Running
<1>2. ASSUME Running, Running', Clean' => Clean,
             Clean => ProbeInStep' /\ ConfigShows' /\ StatusShows'
      PROVE  InStep'
  BY <1>2 DEF InStep, Running
<1>3. failures \in Nat /\ lost \in Nat /\ FirstSpoilt
  BY FaultsAssumption DEF TypeInv, TypeOK, DoneParts
<1>4. Clean /\ Running => ProbeInStep /\ ConfigShows /\ StatusShows
  BY DEF InStep
<1>6. CASE UNCHANGED vars
  <2>1. UNCHANGED <<state, currentCommand, probeProcessSeen, autoSafetyEngaged, configMap,
                    parseState, section, device, engaged, toDevice, toHost,
                    failures, lost, timeouts, leftover>>
    BY <1>6 DEF vars, contextVars, answerVars, readerVars, deviceVars, faultVars
  <2>2. UNCHANGED <<Running, Clean>>
    BY <2>1 DEF Running, Clean
  <2>3. ProbeInStep' = ProbeInStep
    BY <2>1 DEF ProbeInStep, Quiet
  <2>4. ConfigShows => ConfigShows'
    BY <2>1 DEF ConfigShows, Answered, Comes, SafetyOff
  <2>5. StatusShows => StatusShows'
    BY <2>1 DEF StatusShows, Answered, Comes, SectionSays
  <2> QED BY <2>1, <2>2, <2>3, <2>4, <2>5 DEF InStep
<1>7. CASE OpenPort
  <2>1. CASE Fails
    BY <1>1, <1>3, <1>7, <2>1 DEF OpenPort, Fails, Clean
  <2>2. CASE state' = "SWEEP"
    BY <1>1, <2>2 DEF Opening
  <2> QED BY <1>7, <2>1, <2>2 DEF OpenPort
<1>8. CASE SweepTurn
  <2>1. CASE Fails
    BY <1>1, <1>3, <2>1 DEF Fails, Clean
  <2>2. CASE UNCHANGED state
    BY <1>1, <1>8, <2>2 DEF SweepTurn, Opening
  <2> QED BY <1>8, <2>1, <2>2 DEF SweepTurn
<1>9. CASE BeginStartup
  <2>1. CASE Fails
    BY <1>1, <1>3, <2>1 DEF Fails, Clean
  <2>2. CASE /\ state' = "SEND_COMMAND" /\ currentCommand' = "NONE"
             /\ leftover' = (toHost # <<>> \/ readerVars # <<"NONE", <<>>>>)
    <3>1. UNCHANGED <<toHost, toDevice, parseState, section>> /\ toDevice = <<>>
      BY <1>9 DEF BeginStartup, readerVars, deviceVars, LinkInv, Opening
    <3>2. Clean' => toHost' = <<>> /\ Quiet'
      <4>1. Clean' => toHost = <<>> /\ parseState = "NONE" /\ section = <<>>
        BY <2>2 DEF Clean, readerVars
      <4> QED BY <3>1, <4>1 DEF Quiet
    <3>3. Clean' => ProbeInStep'
      BY <2>2, <3>1, <3>2 DEF ProbeInStep
    <3>4. ConfigShows' /\ StatusShows'
      BY <2>2 DEF ConfigShows, StatusShows
    <3> QED BY <2>2, <3>3, <3>4 DEF InStep
  <2> QED BY <1>9, <2>1, <2>2 DEF BeginStartup
<1>10. CASE ReadLine
  <2>1. UNCHANGED <<state, failures, lost, timeouts, leftover>>
    BY <1>10 DEF ReadLine, faultVars
  <2>2. CASE state = "SWEEP"
    BY <1>1, <2>1, <2>2 DEF Opening
  <2>3. CASE Running
    <3>1. Clean => ProbeInStep' /\ ConfigShows' /\ StatusShows'
      BY <1>4, <1>10, <2>3, ProbeRead, ConfigRead, StatusRead
    <3> QED BY <1>2, <2>1, <2>3, <3>1 DEF Running, Clean
  <2> QED BY <1>10, <2>2, <2>3 DEF ReadLine, Reading
<1>11. CASE ReadEnds \/ StillWaiting
  <2>1. UNCHANGED <<state, currentCommand, probeProcessSeen, autoSafetyEngaged,
                    configMap, parseState, section, device, engaged, toDevice, toHost,
                    failures, lost, timeouts, leftover>>
    BY <1>11 DEF ReadEnds, StillWaiting, contextVars, answerVars, readerVars, deviceVars,
                 faultVars
  <2>2. ProbeInStep' = ProbeInStep
    BY <2>1 DEF ProbeInStep, Quiet
  <2>3. ConfigShows => ConfigShows'
    BY <2>1 DEF ConfigShows, Answered, Comes, SafetyOff
  <2>4. StatusShows => StatusShows'
    BY <2>1 DEF StatusShows, Answered, Comes, SectionSays
  <2>5. Running \/ state = "SWEEP"
    BY <1>11 DEF ReadEnds, StillWaiting, Reading, Running
  <2>6. CASE state = "SWEEP"
    BY <1>1, <2>1, <2>6 DEF Opening
  <2>7. CASE Running
    BY <1>2, <1>4, <2>1, <2>2, <2>3, <2>4, <2>7 DEF Running, Clean
  <2> QED BY <2>5, <2>6, <2>7
<1>12. CASE ReadNothing
  <2>1. UNCHANGED <<state, failures, lost, timeouts, leftover>>
    BY <1>12 DEF ReadNothing, contextVars, faultVars
  <2>2. CASE state = "SWEEP"
    BY <1>1, <2>1, <2>2 DEF Opening
  <2>3. CASE Running
    <3>1. Clean => ProbeInStep' /\ ConfigShows' /\ StatusShows'
      BY <1>4, <1>12, <2>3, NothingRead
    <3> QED BY <1>2, <2>1, <2>3, <3>1 DEF Running, Clean
  <2> QED BY <1>12, <2>2, <2>3 DEF ReadNothing, Reading
<1>13. CASE ReadFails
  BY <1>1, <1>3, <1>13 DEF ReadFails, Clean
<1>14. CASE SendCommand
  <2>0. PICK command \in CommandId : SendWithProbe(command, "WAIT_PROBE")
    BY <1>14 DEF SendCommand
  <2>1. CASE state' = "FAILED" /\ failures' = failures + 1
    BY <1>1, <1>3, <2>1 DEF Clean
  <2>2. CASE state' = "WAIT_PROBE" /\ UNCHANGED failures
    <3>1. Running /\ UNCHANGED <<failures, lost, timeouts, leftover>>
      BY <1>14, <2>2 DEF SendCommand, Running
    <3>2. Clean => ProbeInStep' /\ ConfigShows' /\ StatusShows'
      BY <1>4, <1>14, <2>2, <3>1, NextSent
    <3> QED BY <1>2, <2>2, <3>1, <3>2 DEF Running, Clean
  <2> QED BY <2>0, <2>1, <2>2 DEF SendWithProbe
<1>15. CASE Finish
  <2>1. Running /\ state' \in {"COMPLETE", "FAILED"}
        /\ UNCHANGED <<failures, lost, timeouts, leftover, engaged, toDevice>>
    BY <1>15 DEF Finish, Running, deviceVars, faultVars
  <2>2. Clean /\ state' = "FAILED" => engaged' /\ toDevice' = <<>>
    BY <1>4, <1>15, <2>1, GivenUp
  <2> QED BY <2>1, <2>2 DEF InStep, Running, Clean
<1>16. CASE ProbeCompletes
  <2>1. /\ state = "WAIT_PROBE" /\ state' = "SEND_COMMAND" /\ probeProcessSeen
        /\ UNCHANGED <<currentCommand, autoSafetyEngaged, configMap, parseState, section,
                       device, engaged, toDevice, toHost, failures, lost, timeouts, leftover>>
    BY <1>16 DEF ProbeCompletes, StartupProbeComplete, answerVars, readerVars, deviceVars, faultVars
  <2>2. Running /\ Running'
    BY <2>1 DEF Running
  <2>3. ASSUME Clean PROVE ProbeInStep' /\ ConfigShows' /\ StatusShows'
    <3>1. ProbeInStep /\ ConfigShows /\ StatusShows /\ toDevice = <<>> /\ Quiet
      BY <1>4, <2>1, <2>2, <2>3 DEF ProbeInStep
    <3>2. ProbeInStep'
      BY <2>1, <3>1 DEF ProbeInStep, Quiet
    <3>3. Answered
      BY <3>1 DEF Answered
    <3>4. ConfigShows'
      BY <2>1, <3>1, <3>3 DEF ConfigShows, Comes, SafetyOff
    <3>5. StatusShows'
      BY <2>1, <3>1, <3>3 DEF StatusShows, Comes, SectionSays
    <3> QED BY <3>2, <3>4, <3>5
  <2> QED BY <1>2, <2>1, <2>2, <2>3 DEF Clean
<1>17. CASE TimedOut
  <2>1. timeouts' = 1 /\ state' \in {"WAIT_PROBE", "FAILED"}
    BY <1>17 DEF TimedOut, SendWithProbe, GiveUp
  <2> QED BY <1>1, <2>1 DEF Clean
<1>18. CASE DeviceExecutes
  <2>1. toDevice # <<>> /\ UNCHANGED <<state, failures, lost, timeouts, leftover>>
    BY <1>18 DEF DeviceExecutes, contextVars, faultVars
  <2>2. ~Opening
    BY <2>1 DEF LinkInv
  <2>3. CASE Running
    <3>1. Clean => ProbeInStep' /\ ConfigShows' /\ StatusShows'
      BY <1>3, <1>4, <1>18, <2>3, CommandExecuted, ProbeExecuted
    <3> QED BY <1>2, <2>1, <2>3, <3>1 DEF Running, Clean
  <2>4. CASE ~Running
    BY <2>1, <2>2, <2>4 DEF InStep, Opening, Running, Clean
  <2> QED BY <2>3, <2>4
<1>19. CASE LineIsLost
  <2>1. ~Clean'
    BY <1>3, <1>19 DEF LineIsLost, Clean
  <2> QED BY <1>1, <2>1
<1> QED
  BY <1>6, <1>7, <1>8, <1>9, <1>10, <1>11, <1>12, <1>13, <1>14, <1>15, <1>16, <1>17, <1>18, <1>19
     DEF Next, HostSteps

\* A startup fails only for a reason: as long as no send or read fails, no wait
\* times out, no line is lost and none is left over, every transition finds what
\* it looks for, unless the device holds its safety engaged.
THEOREM StartupFailsForAReason == Spec => []FailureHasReason
<1>1. TypeInv /\ InStep => FailureHasReason
  BY FaultsAssumption DEF TypeInv, TypeOK, InStep, Clean, FailureHasReason
<1>2. TypeInv => TypeOK
  BY DEF TypeInv
<1> QED
  BY <1>1, <1>2, TypeInit, TypeStep, LinkInit, LinkStep, ShownInit, ShownStep, DoneInit, DoneStep,
     InStepInit, InStepStep, PTL DEF Spec

===============================================================================
