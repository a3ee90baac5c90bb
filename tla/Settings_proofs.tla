----------------------------- MODULE Settings_proofs -----------------------------
(***************************************************************************)
(* Proofs that whatever is accepted as a setting, the dump that tells of   *)
(* it parses, that the writes are settled as SettingsWrites promises, and  *)
(* that the device holds what the bench node reports as restored, for      *)
(* every set of settings, every call of an operator, every fault and every *)
(* queue.                                                                  *)
(***************************************************************************)
EXTENDS Settings, SequenceTheorems, FiniteSetTheorems, WellFoundedInduction, TLAPS

-----------------------------------------------------------------------------
(* The table.                                                               *)

\* What a parameter may hold: a value of its type in the parser's range.
Held(f) == {Parameter(f, n) : n \in 0..MaxValue(f)}

LEMMA MaxOfClass ==
  /\ \A f \in PercentFields \cup {"input_speed"} : MaxValue(f) = 100
  /\ \A f \in ByteFields \cup ReadOnlyBytes : MaxValue(f) = 255
  /\ \A f \in {"auto_left", "auto_right"} : MaxValue(f) = 180
  /\ MaxValue("timeout") = 30 /\ MaxValue("fudge") = 20
  /\ \A f \in BoolFields : MaxValue(f) = 1
  /\ MaxValue("home_pos") = 359
  /\ \A f \in ReadOnlyShorts : MaxValue(f) = 65535
  /\ \A f \in ReadOnlyWords : MaxValue(f) = 2147483647
<1> USE DEF MaxValue, PercentFields, ByteFields, ReadOnlyBytes, BoolFields, WritableBools,
            ReadOnlyBools, ReadOnlyShorts, ReadOnlyWords
<1>1. \A f \in PercentFields \cup {"input_speed"} : MaxValue(f) = 100
  OBVIOUS
<1>2. \A f \in ByteFields \cup ReadOnlyBytes : MaxValue(f) = 255
  OBVIOUS
<1>3. \A f \in {"auto_left", "auto_right"} : MaxValue(f) = 180
  OBVIOUS
<1>4. MaxValue("timeout") = 30 /\ MaxValue("fudge") = 20
  OBVIOUS
<1>5. \A f \in BoolFields : MaxValue(f) = 1
  OBVIOUS
<1>6. MaxValue("home_pos") = 359
  OBVIOUS
<1>7. \A f \in ReadOnlyShorts : MaxValue(f) = 65535
  OBVIOUS
<1>8. \A f \in ReadOnlyWords : MaxValue(f) = 2147483647
  OBVIOUS
<1> QED
  BY <1>1, <1>2, <1>3, <1>4, <1>5, <1>6, <1>7, <1>8

LEMMA MaxInNat == \A f \in Field : MaxValue(f) \in Nat \ {0}
<1> SUFFICES ASSUME NEW f \in Field PROVE MaxValue(f) \in Nat \ {0}
  OBVIOUS
<1>1. \/ f \in PercentFields \cup {"input_speed"}
      \/ f \in ByteFields \cup ReadOnlyBytes
      \/ f \in {"auto_left", "auto_right"}
      \/ f \in {"timeout", "fudge", "home_pos"}
      \/ f \in BoolFields
      \/ f \in ReadOnlyShorts \cup ReadOnlyWords
  BY DEF Field, WritableFields, ReadOnlyFields, BoolFields
<1> QED
  BY <1>1, MaxOfClass

\* The defaults are in the parser's range.
LEMMA DefaultInRange == \A f \in Field : DefaultNumber(f) \in 0..MaxValue(f)
<1>1. \A f \in PercentFields \cup {"input_speed"} : DefaultNumber(f) \in {15, 30, 40, 50, 100}
  BY DEF DefaultNumber, PercentFields
<1>2. \A f \in ByteFields \cup ReadOnlyBytes : DefaultNumber(f) \in {0, 1, 5, 6, 8, 20, 50, 129}
  BY DEF DefaultNumber, ByteFields, ReadOnlyBytes
<1>3. \A f \in {"auto_left", "auto_right"} : DefaultNumber(f) = 80
  BY DEF DefaultNumber
<1>4. DefaultNumber("timeout") = 5 /\ DefaultNumber("fudge") = 5 /\ DefaultNumber("home_pos") = 0
  BY DEF DefaultNumber
<1>5. \A f \in BoolFields : DefaultNumber(f) \in {0, 1}
  BY DEF DefaultNumber, BoolFields, WritableBools, ReadOnlyBools
<1>6. \A f \in ReadOnlyShorts : DefaultNumber(f) \in {100, 1000, 1500, 2000}
  BY DEF DefaultNumber, ReadOnlyShorts
<1>7. \A f \in ReadOnlyWords : DefaultNumber(f) \in {9600, 115200}
  BY DEF DefaultNumber, ReadOnlyWords
<1> SUFFICES ASSUME NEW f \in Field PROVE DefaultNumber(f) \in 0..MaxValue(f)
  OBVIOUS
<1>8. \/ f \in PercentFields \cup {"input_speed"}
      \/ f \in ByteFields \cup ReadOnlyBytes
      \/ f \in {"auto_left", "auto_right"}
      \/ f \in {"timeout", "fudge", "home_pos"}
      \/ f \in BoolFields
      \/ f \in ReadOnlyShorts
      \/ f \in ReadOnlyWords
  BY DEF Field, WritableFields, ReadOnlyFields, BoolFields
<1> QED
  BY <1>1, <1>2, <1>3, <1>4, <1>5, <1>6, <1>7, <1>8, MaxOfClass

\* Of the parameter values those in the parser's range.
LEMMA HeldIsValue ==
  ASSUME NEW f \in Field
  PROVE  Held(f) \subseteq ParameterValue
<1> SUFFICES ASSUME NEW n \in 0..MaxValue(f) PROVE Parameter(f, n) \in ParameterValue
  BY DEF Held
<1>1. CASE f \in BoolFields
  BY <1>1, MaxOfClass DEF Parameter, TypeOf, ParameterValue
<1>2. CASE f \notin BoolFields
  BY <1>2, MaxInNat DEF Parameter, TypeOf, ParameterValue
<1> QED
  BY <1>1, <1>2

\* What validateAndBuildCommand accepts, the parser would take.
LEMMA AcceptedIsHeld ==
  ASSUME NEW f \in Field, NEW p \in ParameterValue, Accepts(f, p)
  PROVE  p.n \in 0..MaxValue(f) /\ p = Parameter(f, p.n) /\ p \in Held(f)
<1>1. p.n \in 0..MaxValue(f)
  <2>1. CASE p.type = "int"
    <3>1. p.n \in WriteMin(f)..MaxValue(f) /\ WriteMin(f) \in {0, 1}
      BY <2>1 DEF Accepts, WriteMin
    <3>2. MaxValue(f) \in Nat
      BY MaxInNat
    <3> QED BY <3>1, <3>2
  <2>2. CASE p.type # "int"
    <3>1. p \in [type : {"bool"}, n : 0..1]
      BY <2>2 DEF ParameterValue
    <3>2. f \in BoolFields
      BY <2>2 DEF Accepts, TypeOf
    <3> QED BY <3>1, <3>2, MaxOfClass
  <2> QED BY <2>1, <2>2
<1>2. p = Parameter(f, p.n)
  BY DEF Accepts, Parameter, ParameterValue
<1> QED
  BY <1>1, <1>2 DEF Held

\* What is read out of any dump is in the parser's range.
LEMMA ReadIsHeld ==
  ASSUME NEW f \in Field, NEW dump
  PROVE  FieldOf(dump, f) \in Held(f)
<1>1. DefaultOf(f) \in Held(f)
  BY DefaultInRange DEF DefaultOf, Held
<1>2. ASSUME NEW text, ParseConfigScalar(f, text) # NoValue
      PROVE  ParseConfigScalar(f, text) \in Held(f)
  BY <1>2 DEF ParseConfigScalar, Held
<1> QED
  BY <1>1, <1>2 DEF FieldOf

\* A number in the range comes back from the dump that tells of it.
LEMMA TextIsRead ==
  ASSUME NEW f \in Field, NEW n \in 0..MaxValue(f)
  PROVE  ParseConfigScalar(f, Text(n)) = Parameter(f, n)
BY DEF ParseConfigScalar, Text, SuffixAllowed

\* What the bench node saves, it may write back.
LEMMA HeldIsAccepted ==
  ASSUME NEW f \in Field, IsWritable(f), WriteMin(f) = 0, NEW p \in Held(f)
  PROVE  Accepts(f, p)
BY DEF Held, Accepts, Parameter

-----------------------------------------------------------------------------
(* Sequences.                                                               *)

\* The first of a set of places.
LEMMA LeastIndex ==
  ASSUME NEW T \in SUBSET Nat, T # {}
  PROVE  \E i \in T : \A j \in T : i <= j
<1>1. PICK i \in T : \A j \in T : <<j, i>> \notin OpToRel(<, Nat)
  BY NatLessThanWellFounded, WFMin, Zenon
<1>2. \A j \in T : ~(j < i)
  BY <1>1 DEF OpToRel
<1> QED
  BY <1>2

\* A queue that is turned at one of its entries holds the same entries.
LEMMA TurnedAt ==
  ASSUME NEW S, NEW q \in Seq(S), NEW i \in DOMAIN q
  PROVE  SubSeq(q, i + 1, Len(q)) \o SubSeq(q, 1, i - 1) \in Seq(S)
<1>1. \A j \in 1..(i - 1) : q[j] \in S
  OBVIOUS
<1>2. \A j \in (i + 1)..Len(q) : q[j] \in S
  OBVIOUS
<1>3. SubSeq(q, 1, i - 1) \in Seq(S) /\ SubSeq(q, i + 1, Len(q)) \in Seq(S)
  BY <1>1, <1>2, SubSeqProperties
<1> QED
  BY <1>3, ConcatProperties

-----------------------------------------------------------------------------
(* The invariant: every number on the way is in the parser's range.         *)

Values == {v \in [Settings -> ParameterValue] : \A f \in Settings : v[f] \in Held(f)}

Writing == {w \in [kind : {"write"}, name : Settings, n : Int] : w.n \in 0..MaxValue(w.name)}
Entry   == Writing \cup {Dump}

HostInv ==
  /\ param \in Values
  /\ queue \in Seq(Entry)
  /\ active \in Writing \cup {NoWrite}
  /\ stage = "IDLE" <=> active = NoWrite
  /\ acks \in Nat /\ timeouts \in Nat
  /\ claim \in {"none", "stop", "drive"}

DeviceInv ==
  /\ device \in [Settings -> Nat] /\ \A f \in Settings : device[f] \in 0..MaxValue(f)
  /\ toDevice \in Seq(Entry)

BenchInv ==
  /\ before \in Values
  /\ todo \subseteq DOMAIN RawSettings
  /\ late \in Seq(Settings \X ParameterValue)
  /\ events \in 0..MaxEvents

SettingsInv == HostInv /\ DeviceInv /\ BenchInv

LEMMA SettingIsField == \A f \in Settings : f \in Field
BY SettingsAssumption

LEMMA EventsCounted ==
  ASSUME events \in 0..MaxEvents, Event \/ NoEvent
  PROVE  events' \in 0..MaxEvents
BY FaultsAssumption DEF Event, NoEvent

\* An accepted call queues writes in the range, and stores values in it.
LEMMA CallIsHeld ==
  ASSUME HostInv, NEW call \in Seq(Settings \X ParameterValue), SetParameters(call)
  PROVE  HostInv'
<1>1. \A i \in DOMAIN call :
        /\ call[i][1] \in Settings /\ call[i][2] \in ParameterValue
        /\ Accepts(call[i][1], call[i][2])
  BY DEF SetParameters, Accepted
<1>2. \A i \in DOMAIN call :
        /\ call[i][2].n \in 0..MaxValue(call[i][1]) /\ call[i][2] \in Held(call[i][1])
  BY <1>1, SettingIsField, AcceptedIsHeld
<1>3. queue' \in Seq(Entry)
  <2> DEFINE writes == [i \in DOMAIN call |-> Write(call[i][1], call[i][2].n)]
  <2>1. \A i \in DOMAIN call : Write(call[i][1], call[i][2].n) \in Entry
    <3> SUFFICES ASSUME NEW i \in DOMAIN call
                 PROVE  Write(call[i][1], call[i][2].n) \in Writing
      BY DEF Entry
    <3>1. call[i][2].n \in Int
      BY <1>1 DEF ParameterValue
    <3> QED BY <1>1, <1>2, <3>1 DEF Write, Writing
  <2>2. DOMAIN call = 1..Len(call) /\ Len(call) \in Nat
    OBVIOUS
  <2>3. writes \in Seq(Entry)
    BY <2>1, <2>2, IsASeq
  <2>4. queue' = queue \o writes
    BY DEF SetParameters
  <2> HIDE DEF writes
  <2> QED BY <2>3, <2>4, ConcatProperties DEF HostInv
<1>4. param' \in Values
  <2>1. ASSUME NEW f \in Settings
        PROVE  param'[f] \in Held(f)
    <3>1. CASE \E i \in DOMAIN call : IsLast(call, i, f)
      <4> DEFINE last == CHOOSE i \in DOMAIN call : IsLast(call, i, f)
      <4>1. last \in DOMAIN call /\ IsLast(call, last, f)
        BY <3>1
      <4>2. param'[f] = call[last][2]
        BY <3>1 DEF SetParameters
      <4> HIDE DEF last
      <4> QED BY <1>2, <4>1, <4>2 DEF IsLast
    <3>2. CASE ~\E i \in DOMAIN call : IsLast(call, i, f)
      <4>1. param'[f] = param[f]
        BY <3>2 DEF SetParameters
      <4> QED BY <4>1 DEF HostInv, Values
    <3> QED BY <3>1, <3>2
  <2>2. \A f \in Settings : param'[f] \in ParameterValue
    BY <2>1, HeldIsValue, SettingIsField
  <2>3. param' = [f \in Settings |-> param'[f]]
    BY DEF SetParameters
  <2>4. param' \in [Settings -> ParameterValue]
    BY <2>2, <2>3
  <2> QED BY <2>1, <2>4 DEF Values
<1>5. UNCHANGED <<active, stage, acks, timeouts, claim>>
  BY DEF SetParameters
<1> QED
  BY <1>3, <1>4, <1>5 DEF HostInv

\* A send leaves the queue, the active write and the wire in the range.
LEMMA SendIsHeld ==
  ASSUME HostInv, DeviceInv, events \in 0..MaxEvents, SendNext
  PROVE  /\ queue' \in Seq(Entry) /\ toDevice' \in Seq(Entry)
         /\ active' \in Writing \cup {NoWrite}
         /\ stage' = "IDLE" <=> active' = NoWrite
         /\ events' \in 0..MaxEvents
<1>1. CASE SendableAt = {}
  <2>1. /\ active' = NoWrite /\ stage' = "IDLE" /\ NoEvent /\ UNCHANGED <<queue, toDevice>>
    BY <1>1 DEF SendNext
  <2> QED BY <2>1, EventsCounted DEF HostInv, DeviceInv
<1>2. CASE SendableAt # {}
  <2> DEFINE i == CHOOSE j \in SendableAt : \A k \in SendableAt : j <= k
  <2>1. SendableAt \subseteq DOMAIN queue /\ queue \in Seq(Entry)
    BY DEF SendableAt, HostInv
  <2>2. i \in SendableAt
    <3>1. SendableAt \in SUBSET Nat
      BY <2>1
    <3>2. \E j \in SendableAt : \A k \in SendableAt : j <= k
      BY <1>2, <3>1, LeastIndex
    <3> QED BY <3>2
  <2>3. /\ queue' = SubSeq(queue, i + 1, Len(queue)) \o SubSeq(queue, 1, i - 1)
        /\ Send(queue[i])
    BY <1>2 DEF SendNext
  <2> HIDE DEF i
  <2>4. queue' \in Seq(Entry) /\ queue[i] \in Entry
    BY <2>1, <2>2, <2>3, TurnedAt
  <2>5. CASE /\ toDevice' = Append(toDevice, queue[i])
             /\ active' = IF IsWrite(queue[i]) THEN queue[i] ELSE NoWrite
             /\ stage' = IF IsWrite(queue[i]) THEN "WAIT_WRITE_SETTINGS" ELSE "IDLE"
             /\ NoEvent
    <3>1. toDevice' \in Seq(Entry)
      BY <2>4, <2>5 DEF DeviceInv
    <3>2. CASE IsWrite(queue[i])
      <4>1. queue[i] \in Writing /\ queue[i] # NoWrite
        BY <2>4, <3>2, NoWriteAssumption DEF IsWrite, Entry, Dump, Writing
      <4> QED BY <2>4, <2>5, <3>1, <3>2, <4>1, EventsCounted
    <3>3. CASE ~IsWrite(queue[i])
      BY <2>4, <2>5, <3>1, <3>3, EventsCounted
    <3> QED BY <3>2, <3>3
  <2>6. CASE /\ Losing(queue[i], "send")
             /\ active' = NoWrite /\ stage' = "IDLE" /\ UNCHANGED toDevice
    <3>1. Event
      BY <2>6 DEF Losing, Fault
    <3> QED BY <2>4, <2>6, <3>1, EventsCounted DEF DeviceInv
  <2> QED
    BY <2>3, <2>5, <2>6 DEF Send
<1> QED
  BY <1>1, <1>2

\* What the firmware says leaves the host in the range.
LEMMA FeedbackIsHeld ==
  ASSUME HostInv, UNCHANGED claim, NEW line, Feedback(line)
  PROVE  HostInv'
<1>1. CASE UNCHANGED <<param, queue, active, stage, acks, timeouts, stored>>
  BY <1>1 DEF HostInv
<1>2. CASE /\ stage = "WAIT_WRITE_SETTINGS" /\ stage' = "WAIT_UPDATED"
           /\ UNCHANGED <<param, queue, active, acks, timeouts, stored>>
  BY <1>2 DEF HostInv
<1>3. CASE Settle /\ (UNCHANGED queue \/ queue' = Append(queue, Dump))
  <2>1. queue' \in Seq(Entry)
    <3>1. Dump \in Entry /\ queue \in Seq(Entry)
      BY DEF Entry, HostInv
    <3> QED BY <1>3, <3>1
  <2>2. acks' \in Nat /\ active' = NoWrite /\ stage' = "IDLE" /\ UNCHANGED <<param, timeouts>>
    BY <1>3 DEF Settle, HostInv
  <2> QED BY <2>1, <2>2 DEF HostInv
<1> QED
  BY <1>1, <1>2, <1>3 DEF Feedback

\* What the bench node writes is a setting and a value of a parameter.
LEMMA ToWriteIsCall ==
  ASSUME BenchInv, todo # {}
  PROVE  <<ToWrite>> \in Seq(Settings \X ParameterValue)
<1>1. RawSettings \in Seq(Settings \X ParameterValue)
  BY CallsAssumption
<1>2. NextToDo \in DOMAIN RawSettings
  <2>1. todo \in SUBSET Nat /\ todo \subseteq DOMAIN RawSettings
    BY <1>1 DEF BenchInv
  <2>2. \E i \in todo : \A j \in todo : i <= j
    BY <2>1, LeastIndex
  <2> QED BY <2>1, <2>2 DEF NextToDo
<1>3. \A i \in DOMAIN RawSettings : RawSettings[i] \in Settings \X ParameterValue
  BY <1>1
<1>4. ToWrite \in Settings \X ParameterValue
  <2>1. CASE phase = "raw"
    BY <1>2, <1>3, <2>1 DEF ToWrite, Desired
  <2>2. CASE phase # "raw"
    <3>1. ToWrite = <<RawSettings[NextToDo][1], before[RawSettings[NextToDo][1]]>>
      BY <1>2, <2>2 DEF ToWrite, Desired
    <3>2. RawSettings[NextToDo][1] \in Settings
      BY <1>2, <1>3
    <3>3. \A f \in Settings : before[f] \in ParameterValue
      BY DEF BenchInv, Values
    <3> QED BY <3>1, <3>2, <3>3
  <2> QED BY <2>1, <2>2
<1> QED
  BY <1>4

LEMMA SettingsInit == Init => SettingsInv
<1> SUFFICES ASSUME Init PROVE SettingsInv
  OBVIOUS
<1>1. device \in [Settings -> Nat] /\ \A f \in Settings : device[f] \in 0..MaxValue(f)
  <2>1. device \in Initial
    BY DEF Init
  <2>2. \A f \in Settings : device[f] \in Nat /\ device[f] <= MaxValue(f) /\ MaxValue(f) \in Nat
    BY <2>1, SettingsAssumption, MaxInNat
  <2> QED BY <2>1, <2>2, SettingsAssumption
<1>2. param \in Values
  <2>1. param = [f \in Settings |-> Parameter(f, device[f])]
    BY DEF Init
  <2>2. \A f \in Settings : param[f] \in Held(f)
    BY <1>1, <2>1 DEF Held
  <2>3. \A f \in Settings : param[f] \in ParameterValue
    BY <2>2, HeldIsValue, SettingIsField
  <2> QED BY <2>1, <2>2, <2>3 DEF Values
<1>3. HostInv
  BY <1>2 DEF Init, HostInv
<1>4. DeviceInv
  BY <1>1 DEF Init, DeviceInv
<1>5. BenchInv
  BY <1>2, FaultsAssumption DEF Init, BenchInv
<1> QED
  BY <1>3, <1>4, <1>5 DEF SettingsInv

\* The steps of the executor.
LEMMA ExecutorStep == SettingsInv /\ Executor => SettingsInv'
<1> SUFFICES ASSUME SettingsInv, Executor PROVE SettingsInv'
  OBVIOUS
<1> USE DEF SettingsInv
<1>1. CASE OperatorSets
  <2>1. PICK call \in Calls : SetParameters(call)
    BY <1>1 DEF OperatorSets
  <2>2. HostInv'
    BY <2>1, CallIsHeld, CallsAssumption
  <2>3. DeviceInv'
    BY <1>1 DEF OperatorSets, wireVars, DeviceInv
  <2>4. events' \in 0..MaxEvents
    BY <1>1, EventsCounted DEF OperatorSets, OperatorCalls, BenchInv
  <2>5. BenchInv'
    BY <1>1, <2>4 DEF OperatorSets, benchVars, BenchInv
  <2> QED BY <2>2, <2>3, <2>5
<1>2. CASE SetHomeHere
  <2>1. queue' \in Seq(Entry)
    <3>1. HomeHere \in 0..MaxValue("home_pos") /\ HomeHere \in Int
      BY SettingsAssumption, MaxOfClass
    <3>2. "home_pos" \in Settings
      BY <1>2 DEF SetHomeHere
    <3>3. Write("home_pos", HomeHere) \in Entry
      BY <3>1, <3>2 DEF Write, Writing, Entry
    <3> QED BY <1>2, <3>3 DEF SetHomeHere, HostInv
  <2>2. HostInv'
    BY <1>2, <2>1 DEF SetHomeHere, HostInv
  <2>3. DeviceInv'
    BY <1>2 DEF SetHomeHere, wireVars, DeviceInv
  <2>4. events' \in 0..MaxEvents
    BY <1>2, EventsCounted DEF SetHomeHere, OperatorCalls, BenchInv
  <2>5. BenchInv'
    BY <1>2, <2>4 DEF SetHomeHere, benchVars, BenchInv
  <2> QED BY <2>2, <2>3, <2>5
<1>3. CASE LateSet
  <2>1. HostInv'
    <3>1. CASE SetParameters(late)
      BY <3>1, CallIsHeld DEF BenchInv
    <3>2. CASE UNCHANGED <<hostVars, meddled>>
      BY <3>2 DEF hostVars, HostInv
    <3> QED BY <1>3, <3>1, <3>2 DEF LateSet
  <2>2. DeviceInv'
    BY <1>3 DEF LateSet, wireVars, DeviceInv
  <2>3. late' \in Seq(Settings \X ParameterValue)
    BY <1>3 DEF LateSet
  <2>4. BenchInv'
    BY <1>3, <2>3 DEF LateSet, benchVars, BenchInv
  <2> QED BY <2>1, <2>2, <2>4
<1>4. CASE PeriodicRefresh
  <2>1. queue' \in Seq(Entry)
    <3>1. Dump \in Entry
      BY DEF Entry
    <3> QED BY <1>4, <3>1 DEF PeriodicRefresh, HostInv
  <2>2. HostInv'
    BY <1>4, <2>1 DEF PeriodicRefresh, HostInv
  <2>3. DeviceInv'
    BY <1>4 DEF PeriodicRefresh, wireVars, DeviceInv
  <2>4. events' \in 0..MaxEvents
    BY <1>4, EventsCounted DEF PeriodicRefresh, BenchInv
  <2>5. BenchInv'
    BY <1>4, <2>4 DEF PeriodicRefresh, benchVars, BenchInv
  <2> QED BY <2>2, <2>3, <2>5
<1>5. CASE StopCall
  <2>1. HostInv'
    BY <1>5 DEF StopCall, HostInv
  <2>2. DeviceInv'
    BY <1>5 DEF StopCall, wireVars, DeviceInv
  <2>3. events' \in 0..MaxEvents
    BY <1>5, EventsCounted DEF StopCall, Fault, BenchInv
  <2>4. BenchInv'
    BY <1>5, <2>3 DEF StopCall, benchVars, BenchInv
  <2> QED BY <2>1, <2>2, <2>4
<1> QED
  BY <1>1, <1>2, <1>3, <1>4, <1>5 DEF Executor

\* The steps of the controller manager.
LEMMA ManagerStep == SettingsInv /\ (WriteCycle \/ ReadLine) => SettingsInv'
<1> SUFFICES ASSUME SettingsInv, WriteCycle \/ ReadLine PROVE SettingsInv'
  OBVIOUS
<1> USE DEF SettingsInv
<1>1. CASE WriteCycle
  <2>1. /\ SendNext
        /\ timeouts' = timeouts + 1 \/ timeouts' = timeouts
        /\ claim' = IF claim = "stop" THEN "none" ELSE claim
        /\ UNCHANGED <<param, acks, device, before, todo, late>>
    BY <1>1 DEF WriteCycle, benchVars
  <2>2. /\ queue' \in Seq(Entry) /\ toDevice' \in Seq(Entry)
        /\ active' \in Writing \cup {NoWrite}
        /\ stage' = "IDLE" <=> active' = NoWrite
        /\ events' \in 0..MaxEvents
    BY <2>1, SendIsHeld DEF BenchInv
  <2>3. HostInv'
    BY <2>1, <2>2 DEF HostInv
  <2> QED BY <2>1, <2>2, <2>3 DEF DeviceInv, BenchInv
<1>2. CASE ReadLine
  <2>1. HostInv'
    <3>1. CASE \E dump : SyncParameters(dump)
      <4>1. PICK dump : SyncParameters(dump)
        BY <3>1
      <4>2. param' \in Values
        <5>1. CASE param' = param
          BY <5>1 DEF HostInv
        <5>2. CASE param' = [f \in Settings |-> FieldOf(dump, f)]
          <6>1. \A f \in Settings : param'[f] \in Held(f)
            BY <5>2, ReadIsHeld, SettingIsField
          <6>2. \A f \in Settings : param'[f] \in ParameterValue
            BY <6>1, HeldIsValue, SettingIsField
          <6> QED BY <5>2, <6>1, <6>2 DEF Values
        <5> QED BY <4>1, <5>1, <5>2 DEF SyncParameters
      <4>3. UNCHANGED <<queue, active, stage, acks, timeouts, claim>>
        BY <1>2, <4>1 DEF SyncParameters, ReadLine
      <4> QED BY <4>2, <4>3 DEF HostInv
    <3>2. CASE \E line : Feedback(line)
      <4>1. UNCHANGED claim
        BY <1>2 DEF ReadLine
      <4> QED BY <3>2, <4>1, FeedbackIsHeld
    <3> QED BY <1>2, <3>1, <3>2 DEF ReadLine
  <2> QED
    BY <1>2, <2>1 DEF ReadLine, benchVars, DeviceInv, BenchInv
<1> QED
  BY <1>1, <1>2

\* The steps of the firmware and the wire.
LEMMA WireStep == SettingsInv /\ Wire => SettingsInv'
<1> SUFFICES ASSUME SettingsInv, Wire PROVE SettingsInv'
  OBVIOUS
<1> USE DEF SettingsInv
<1>0. HostInv' /\ UNCHANGED <<before, todo, late>>
  <2>1. UNCHANGED <<hostVars, benchVars, late>>
    BY DEF Wire, FwExecutes, CommandIsLost, LineIsLost
  <2> QED BY <2>1 DEF hostVars, benchVars, HostInv
<1>1. CASE FwExecutes
  <2>1. toDevice \in Seq(Entry) /\ toDevice # <<>>
    BY <1>1 DEF FwExecutes, DeviceInv
  <2>2. Head(toDevice) \in Entry /\ toDevice' \in Seq(Entry) /\ Execute(Head(toDevice))
    BY <1>1, <2>1 DEF FwExecutes
  <2>3. events' \in 0..MaxEvents
    <3>1. Event \/ NoEvent
      BY <2>2 DEF Execute, Fault
    <3> QED BY <3>1, EventsCounted DEF BenchInv
  <2>4. device' \in [Settings -> Nat] /\ \A f \in Settings : device'[f] \in 0..MaxValue(f)
    <3>1. CASE IsDump(Head(toDevice))
      BY <2>2, <3>1 DEF Execute, DeviceInv
    <3>2. CASE ~IsDump(Head(toDevice))
      <4> DEFINE entry == Head(toDevice)
      <4>1. entry \in Writing
        BY <2>2, <3>2 DEF Entry, Dump, IsDump
      <4>2. device' = [device EXCEPT ![entry.name] = entry.n]
        BY <2>2, <3>2 DEF Execute
      <4> HIDE DEF entry
      <4>3. entry.name \in Settings /\ entry.n \in Int /\ entry.n \in 0..MaxValue(entry.name)
        BY <4>1 DEF Writing
      <4>4. MaxValue(entry.name) \in Nat
        BY <4>3, MaxInNat, SettingIsField
      <4>5. entry.n \in Nat
        BY <4>3, <4>4
      <4> QED BY <4>2, <4>3, <4>5 DEF DeviceInv
    <3> QED BY <3>1, <3>2
  <2> QED
    BY <1>0, <2>2, <2>3, <2>4 DEF DeviceInv, BenchInv
<1>2. CASE CommandIsLost
  <2>1. toDevice' \in Seq(Entry)
    BY <1>2 DEF CommandIsLost, DeviceInv
  <2>2. events' \in 0..MaxEvents
    BY <1>2, EventsCounted DEF CommandIsLost, Losing, Fault, BenchInv
  <2>3. UNCHANGED device
    BY <1>2 DEF CommandIsLost
  <2> QED BY <1>0, <2>1, <2>2, <2>3 DEF DeviceInv, BenchInv
<1>3. CASE LineIsLost
  <2>1. events' \in 0..MaxEvents
    BY <1>3, EventsCounted DEF LineIsLost, Losing, Fault, BenchInv
  <2>2. UNCHANGED <<device, toDevice>>
    BY <1>3 DEF LineIsLost
  <2> QED BY <1>0, <2>1, <2>2 DEF DeviceInv, BenchInv
<1> QED
  BY <1>1, <1>2, <1>3 DEF Wire

\* The steps of the bench node.
LEMMA BenchStep == SettingsInv /\ BenchSteps => SettingsInv'
<1> SUFFICES ASSUME SettingsInv, BenchSteps PROVE SettingsInv'
  OBVIOUS
<1> USE DEF SettingsInv
<1>1. CASE BenchSets
  <2>1. todo # {} /\ UNCHANGED <<wireVars, before>>
    BY <1>1 DEF BenchSets
  <2>2. <<ToWrite>> \in Seq(Settings \X ParameterValue)
    BY <2>1, ToWriteIsCall
  <2>3. todo' \subseteq DOMAIN RawSettings
    BY <1>1 DEF BenchSets, Raise, BenchInv
  <2>4. CASE SetParameters(<<ToWrite>>) /\ NoEvent /\ UNCHANGED late
    BY <2>1, <2>2, <2>3, <2>4, CallIsHeld, EventsCounted DEF wireVars, DeviceInv, BenchInv
  <2>5. CASE NoEvent /\ UNCHANGED <<hostVars, late>>
    BY <2>1, <2>3, <2>5, EventsCounted DEF hostVars, wireVars, HostInv, DeviceInv, BenchInv
  <2>6. CASE Fault("late") /\ late' = <<ToWrite>> /\ UNCHANGED hostVars
    BY <2>1, <2>2, <2>3, <2>6, EventsCounted
       DEF Fault, hostVars, wireVars, HostInv, DeviceInv, BenchInv
  <2> QED BY <1>1, <2>4, <2>5, <2>6 DEF BenchSets
<1>2. CASE /\ SaveSettings \/ TakeBaseline \/ CompareSettings \/ ReadBack \/ Issued
              \/ WaitAcked \/ SweepDrives \/ SweepEnds \/ CheckRestored
           /\ UNCHANGED <<param, queue, active, stage, acks, timeouts>>
           /\ UNCHANGED <<wireVars, diag, late, meddled>> /\ (Event \/ NoEvent)
  <2>1. before' \in Values
    <3>1. before' = before \/ before' = param
      BY <1>2 DEF SaveSettings, TakeBaseline, CompareSettings, ReadBack, Issued, WaitAcked,
                  SweepDrives, SweepEnds, CheckRestored
    <3> QED BY <3>1 DEF HostInv, BenchInv
  <2>2. todo' \subseteq DOMAIN RawSettings
    <3>1. CASE CompareSettings
      <4>1. todo' \subseteq DOMAIN Desired
        BY <3>1 DEF CompareSettings
      <4> QED BY <4>1 DEF Desired
    <3>2. CASE ~CompareSettings
      <4>1. todo' \subseteq todo
        BY <1>2, <3>2 DEF SaveSettings, TakeBaseline, ReadBack, Raise, Issued, WaitAcked,
                          SweepDrives, SweepEnds, CheckRestored
      <4> QED BY <4>1 DEF BenchInv
    <3> QED BY <3>1, <3>2
  <2>3. claim' \in {"none", "stop", "drive"}
    <3>1. claim' = claim \/ claim' \in {"none", "drive"}
      BY <1>2 DEF SaveSettings, TakeBaseline, CompareSettings, ReadBack, Issued, WaitAcked,
                  SweepDrives, SweepEnds, CheckRestored
    <3> QED BY <3>1 DEF HostInv
  <2>4. HostInv'
    BY <1>2, <2>3 DEF HostInv
  <2>5. DeviceInv'
    BY <1>2 DEF wireVars, DeviceInv
  <2>6. BenchInv'
    BY <1>2, <2>1, <2>2, EventsCounted DEF BenchInv
  <2> QED BY <2>4, <2>5, <2>6
<1>3. TakeBaseline => Event \/ NoEvent
  BY DEF TakeBaseline, Fault
<1> QED
  BY <1>1, <1>2, <1>3 DEF BenchSteps

LEMMA SettingsStep == SettingsInv /\ [Next]_vars => SettingsInv'
<1> SUFFICES ASSUME SettingsInv, [Next]_vars PROVE SettingsInv'
  OBVIOUS
<1>1. CASE UNCHANGED vars
  BY <1>1 DEF vars, hostVars, wireVars, benchVars, SettingsInv, HostInv, DeviceInv, BenchInv
<1>2. CASE PublishDiagnostics
  BY <1>2 DEF PublishDiagnostics, hostVars, wireVars, benchVars, SettingsInv, HostInv, DeviceInv,
              BenchInv
<1> QED
  BY <1>1, <1>2, ExecutorStep, ManagerStep, WireStep, BenchStep DEF Next

\* Every variable of the settings' way has a value of its type, and a write is
\* waited for exactly when the queue is not idle (completeActiveSendQueueCommand).
THEOREM SettingsTypes == Spec => []TypeOK
<1>1. SettingsInv => TypeOK
  BY DEF SettingsInv, HostInv, DeviceInv, BenchInv, Values, TypeOK
<1> QED
  BY <1>1, SettingsInit, SettingsStep, PTL DEF Spec

\* Whatever is accepted, the dump that tells of it parses, and what the bench
\* node has saved it is allowed to write back (validateAndBuildCommand against
\* parseConfigScalar, for the whole table).
THEOREM AcceptedIsReadBack == Spec => []WrittenIsReadBack
<1>1. SettingsInv => WrittenIsReadBack
  <2> SUFFICES ASSUME SettingsInv PROVE WrittenIsReadBack
    OBVIOUS
  <2>1. \A f \in Settings : ParseConfigScalar(f, Text(device[f])) = Parameter(f, device[f])
    BY TextIsRead, SettingIsField DEF SettingsInv, DeviceInv
  <2>2. \A f \in Saved : Accepts(f, before[f])
    BY HeldIsAccepted, SettingIsField, SettingsAssumption DEF SettingsInv, BenchInv, Values
  <2> QED BY <2>1, <2>2 DEF WrittenIsReadBack
<1> QED
  BY <1>1, SettingsInit, SettingsStep, PTL DEF Spec

-----------------------------------------------------------------------------
(* The writes of a sequence.                                                *)

\* Induction up to a bound.
LEMMA UpTo ==
  ASSUME NEW N \in Nat, NEW T \in SUBSET (0..N), 0 \in T,
         \A n \in 0..N : n + 1 \in 0..N /\ n \in T => n + 1 \in T
  PROVE  \A n \in 0..N : n \in T
<1> DEFINE Left == (0..N) \ T
<1>1. SUFFICES ASSUME Left # {} PROVE FALSE
  OBVIOUS
<1>2. PICK i \in Left : \A j \in Left : i <= j
  <2>1. Left \in SUBSET Nat
    OBVIOUS
  <2> HIDE DEF Left
  <2> QED BY <1>1, <2>1, LeastIndex
<1>3. i - 1 \in 0..N /\ i - 1 \notin Left
  BY <1>2
<1> QED
  BY <1>2, <1>3

\* What Writes is built from: the writes among the first n commands.
Selects(q, g, n) ==
  g = [i \in 0..n |-> IF i = 0 THEN <<>>
                      ELSE IF IsWrite(q[i]) THEN Append(g[i - 1], q[i]) ELSE g[i - 1]]

LEMMA SelectionExists ==
  ASSUME NEW q \in Seq(Entry), NEW N \in 0..Len(q)
  PROVE  \E g \in [0..N -> Seq(Entry)] : Selects(q, g, N)
<1> DEFINE T == {n \in 0..N : \E g \in [0..n -> Seq(Entry)] : Selects(q, g, n)}
<1>1. 0 \in T
  <2> DEFINE g == [i \in 0..0 |-> <<>>]
  <2>1. g \in [0..0 -> Seq(Entry)] /\ Selects(q, g, 0)
    BY DEF Selects
  <2>2. 0 \in 0..N
    OBVIOUS
  <2> HIDE DEF g
  <2> QED BY <2>1, <2>2
<1>2. ASSUME NEW n \in 0..N, n + 1 \in 0..N, n \in T PROVE n + 1 \in T
  <2>1. PICK g \in [0..n -> Seq(Entry)] : Selects(q, g, n)
    BY <1>2
  <2> DEFINE last == IF IsWrite(q[n + 1]) THEN Append(g[n], q[n + 1]) ELSE g[n]
             h    == [i \in 0..(n + 1) |-> IF i = n + 1 THEN last ELSE g[i]]
  <2>2. q[n + 1] \in Entry
    BY <1>2
  <2>3. last \in Seq(Entry)
    BY <2>1, <2>2
  <2>4. h \in [0..(n + 1) -> Seq(Entry)]
    BY <2>1, <2>3
  <2>5. ASSUME NEW i \in 0..(n + 1)
        PROVE  h[i] = IF i = 0 THEN <<>>
                      ELSE IF IsWrite(q[i]) THEN Append(h[i - 1], q[i]) ELSE h[i - 1]
    <3>1. CASE i = n + 1
      BY <3>1
    <3>2. CASE i # n + 1
      <4>1. i \in 0..n /\ (i # 0 => i - 1 \in 0..n)
        BY <3>2
      <4>2. g[i] = IF i = 0 THEN <<>>
                   ELSE IF IsWrite(q[i]) THEN Append(g[i - 1], q[i]) ELSE g[i - 1]
        BY <2>1, <4>1 DEF Selects
      <4>3. h[i] = g[i] /\ (i # 0 => h[i - 1] = g[i - 1])
        BY <3>2, <4>1
      <4> HIDE DEF h
      <4> QED BY <4>2, <4>3
    <3> QED BY <3>1, <3>2
  <2>6. Selects(q, h, n + 1)
    <3>1. h = [i \in 0..(n + 1) |-> h[i]]
      OBVIOUS
    <3> HIDE DEF h
    <3> QED BY <2>5, <3>1 DEF Selects
  <2> HIDE DEF h
  <2> QED BY <1>2, <2>4, <2>6
<1> HIDE DEF T
<1>3. \A n \in 0..N : n \in T
  <2>1. T \in SUBSET (0..N) /\ N \in Nat
    BY DEF T
  <2> QED BY <1>1, <1>2, <2>1, UpTo
<1> QED
  BY <1>3 DEF T

SameUpTo(q, p, n) == \A i \in 1..n : q[i] = p[i]

\* Two sequences that agree on the first n commands select the same of them.
LEMMA SelectionIsUnique ==
  ASSUME NEW q, NEW p, NEW M \in Nat, NEW N \in 0..M, NEW g, NEW h,
         Selects(q, g, N), Selects(p, h, M), SameUpTo(q, p, N)
  PROVE  g[N] = h[N]
<1> DEFINE T == {n \in 0..N : g[n] = h[n]}
<1>1. \A i \in 0..N :
        /\ g[i] = IF i = 0 THEN <<>>
                  ELSE IF IsWrite(q[i]) THEN Append(g[i - 1], q[i]) ELSE g[i - 1]
        /\ h[i] = IF i = 0 THEN <<>>
                  ELSE IF IsWrite(p[i]) THEN Append(h[i - 1], p[i]) ELSE h[i - 1]
  <2> TAKE i \in 0..N
  <2>1. i \in 0..M
    OBVIOUS
  <2> QED BY <2>1 DEF Selects
<1>2. 0 \in T
  BY <1>1
<1>3. ASSUME NEW n \in 0..N, n + 1 \in 0..N, n \in T PROVE n + 1 \in T
  <2>1. n + 1 \in 1..N /\ n + 1 # 0 /\ (n + 1) - 1 = n /\ g[n] = h[n]
    BY <1>3
  <2>2. g[n + 1] = h[n + 1]
    BY <1>1, <1>3, <2>1 DEF SameUpTo
  <2> QED BY <1>3, <2>2
<1> HIDE DEF T
<1>4. \A n \in 0..N : n \in T
  <2>1. T \in SUBSET (0..N) /\ N \in Nat
    BY DEF T
  <2> QED BY <1>2, <1>3, <2>1, UpTo
<1> QED
  <2>1. N \in 0..N
    OBVIOUS
  <2> QED BY <1>4, <2>1 DEF T

LEMMA WritesAreSelected ==
  ASSUME NEW q \in Seq(Entry)
  PROVE  \E g \in [0..Len(q) -> Seq(Entry)] : Selects(q, g, Len(q)) /\ Writes(q) = g[Len(q)]
<1> DEFINE upTo[i \in 0..Len(q)] ==
             IF i = 0 THEN <<>>
             ELSE IF IsWrite(q[i]) THEN Append(upTo[i - 1], q[i]) ELSE upTo[i - 1]
<1>1. Writes(q) = upTo[Len(q)]
  BY DEF Writes
<1>2. PICK g \in [0..Len(q) -> Seq(Entry)] : Selects(q, g, Len(q))
  BY SelectionExists
<1>3. Selects(q, upTo, Len(q))
  BY <1>2 DEF Selects
<1> HIDE DEF upTo
<1>4. g[Len(q)] = upTo[Len(q)]
  <2> DEFINE n == Len(q)
  <2>1. n \in Nat /\ n \in 0..n /\ SameUpTo(q, q, n)
    BY DEF SameUpTo
  <2>2. Selects(q, g, n) /\ Selects(q, upTo, n)
    BY <1>2, <1>3
  <2> HIDE DEF n
  <2>3. g[n] = upTo[n]
    BY <2>1, <2>2, SelectionIsUnique
  <2> QED BY <2>3 DEF n
<1> QED
  BY <1>1, <1>2, <1>4

LEMMA WritesOfNone == Writes(<<>>) = <<>>
<1>1. <<>> \in Seq(Entry) /\ Len(<<>>) = 0
  OBVIOUS
<1>2. PICK g \in [0..0 -> Seq(Entry)] : Selects(<<>>, g, 0) /\ Writes(<<>>) = g[0]
  BY <1>1, WritesAreSelected
<1> QED
  BY <1>2 DEF Selects

LEMMA WritesOfAppend ==
  ASSUME NEW q \in Seq(Entry), NEW e \in Entry
  PROVE  Writes(Append(q, e)) = IF IsWrite(e) THEN Append(Writes(q), e) ELSE Writes(q)
<1> DEFINE p == Append(q, e)
<1>1. /\ p \in Seq(Entry) /\ Len(p) = Len(q) + 1 /\ p[Len(q) + 1] = e
      /\ \A i \in 1..Len(q) : q[i] = p[i]
  OBVIOUS
<1>2. Len(q) \in Nat /\ Len(q) \in 0..(Len(q) + 1) /\ Len(q) + 1 \in Nat
  OBVIOUS
<1> HIDE DEF p
<1>3. PICK g \in [0..Len(q) -> Seq(Entry)] : Selects(q, g, Len(q)) /\ Writes(q) = g[Len(q)]
  BY WritesAreSelected
<1>4. PICK h \in [0..Len(p) -> Seq(Entry)] : Selects(p, h, Len(p)) /\ Writes(p) = h[Len(p)]
  BY <1>1, WritesAreSelected
<1>5. g[Len(q)] = h[Len(q)]
  <2> DEFINE n == Len(q)
             m == Len(p)
  <2>1. Selects(p, h, m) /\ Selects(q, g, n) /\ SameUpTo(q, p, n)
    BY <1>1, <1>3, <1>4 DEF SameUpTo
  <2>2. m \in Nat /\ n \in 0..m /\ n \in 0..n
    BY <1>1, <1>2
  <2> HIDE DEF n, m
  <2>3. g[n] = h[n]
    BY <2>1, <2>2, SelectionIsUnique
  <2> QED BY <2>2, <2>3 DEF n
<1>6. h[Len(q) + 1] = IF IsWrite(e) THEN Append(h[Len(q)], e) ELSE h[Len(q)]
  <2>1. Len(q) + 1 \in 0..Len(p) /\ Len(q) + 1 # 0 /\ (Len(q) + 1) - 1 = Len(q)
    BY <1>1, <1>2
  <2> QED BY <1>1, <1>4, <2>1 DEF Selects
<1> QED
  BY <1>1, <1>3, <1>4, <1>5, <1>6 DEF p

LEMMA WritesOfConcat ==
  ASSUME NEW p \in Seq(Entry), NEW q \in Seq(Entry)
  PROVE  Writes(p \o q) = Writes(p) \o Writes(q)
<1> DEFINE T == {n \in 0..Len(q) : Writes(p \o SubSeq(q, 1, n)) = Writes(p) \o Writes(SubSeq(q, 1, n))}
<1>1. \A r \in Seq(Entry) : Writes(r) \in Seq(Entry)
  BY WritesAreSelected, SMTT(30)
<1>2. 0 \in T
  <2>1. SubSeq(q, 1, 0) = <<>> /\ p \o <<>> = p /\ Writes(p) \o <<>> = Writes(p)
    BY <1>1
  <2>2. 0 \in 0..Len(q)
    OBVIOUS
  <2> QED BY <2>1, <2>2, WritesOfNone
<1>3. ASSUME NEW n \in 0..Len(q), n + 1 \in 0..Len(q), n \in T PROVE n + 1 \in T
  <2> DEFINE r == SubSeq(q, 1, n)
             e == q[n + 1]
  <2>1. e \in Entry /\ r \in Seq(Entry) /\ SubSeq(q, 1, n + 1) = Append(r, e)
    BY <1>3
  <2>2. Writes(p \o r) = Writes(p) \o Writes(r)
    BY <1>3
  <2> HIDE DEF r, e
  <2>3. p \o Append(r, e) = Append(p \o r, e) /\ p \o r \in Seq(Entry)
    BY <2>1
  <2>4. Writes(p) \in Seq(Entry) /\ Writes(r) \in Seq(Entry)
    BY <1>1, <2>1
  <2>5. Writes(p) \o Append(Writes(r), e) = Append(Writes(p) \o Writes(r), e)
    BY <2>1, <2>4
  <2>6. Writes(p \o Append(r, e)) = Writes(p) \o Writes(Append(r, e))
    BY <2>1, <2>2, <2>3, <2>5, WritesOfAppend
  <2> QED BY <1>3, <2>1, <2>6
<1> HIDE DEF T
<1>4. Len(q) \in T
  <2>1. T \in SUBSET (0..Len(q)) /\ Len(q) \in Nat /\ Len(q) \in 0..Len(q)
    BY DEF T
  <2>2. \A n \in 0..Len(q) : n \in T
    BY <1>2, <1>3, <2>1, UpTo
  <2> QED BY <2>1, <2>2
<1>5. SubSeq(q, 1, Len(q)) = q
  OBVIOUS
<1> QED
  BY <1>4, <1>5 DEF T

\* Of writes, all; of other commands, none.
LEMMA WritesOfSame ==
  ASSUME NEW q \in Seq(Entry)
  PROVE  /\ (\A i \in DOMAIN q : IsWrite(q[i])) => Writes(q) = q
         /\ (\A i \in DOMAIN q : ~IsWrite(q[i])) => Writes(q) = <<>>
<1> DEFINE T == {n \in 0..Len(q) :
                   /\ (\A i \in DOMAIN q : IsWrite(q[i])) => Writes(SubSeq(q, 1, n)) = SubSeq(q, 1, n)
                   /\ (\A i \in DOMAIN q : ~IsWrite(q[i])) => Writes(SubSeq(q, 1, n)) = <<>>}
<1>1. 0 \in T
  <2>1. SubSeq(q, 1, 0) = <<>>
    OBVIOUS
  <2>2. 0 \in 0..Len(q)
    OBVIOUS
  <2> QED BY <2>1, <2>2, WritesOfNone
<1>2. ASSUME NEW n \in 0..Len(q), n + 1 \in 0..Len(q), n \in T PROVE n + 1 \in T
  <2> DEFINE r == SubSeq(q, 1, n)
             e == q[n + 1]
  <2>1. e \in Entry /\ r \in Seq(Entry) /\ SubSeq(q, 1, n + 1) = Append(r, e) /\ n + 1 \in DOMAIN q
    BY <1>2
  <2>2. Writes(Append(r, e)) = IF IsWrite(e) THEN Append(Writes(r), e) ELSE Writes(r)
    BY <2>1, WritesOfAppend
  <2>3. (\A i \in DOMAIN q : IsWrite(q[i])) => Writes(r) = r /\ IsWrite(e)
    BY <1>2, <2>1
  <2>4. (\A i \in DOMAIN q : ~IsWrite(q[i])) => Writes(r) = <<>> /\ ~IsWrite(e)
    BY <1>2, <2>1
  <2> HIDE DEF r, e
  <2> QED BY <1>2, <2>1, <2>2, <2>3, <2>4
<1> HIDE DEF T
<1>3. Len(q) \in T
  <2>1. T \in SUBSET (0..Len(q)) /\ Len(q) \in Nat /\ Len(q) \in 0..Len(q)
    BY DEF T
  <2>2. \A n \in 0..Len(q) : n \in T
    BY <1>1, <1>2, <2>1, UpTo
  <2> QED BY <2>1, <2>2
<1>4. SubSeq(q, 1, Len(q)) = q
  OBVIOUS
<1> QED
  BY <1>3, <1>4 DEF T

LEMMA WritesAreWriting ==
  ASSUME NEW q \in Seq(Entry)
  PROVE  Writes(q) \in Seq(Writing)
<1> DEFINE T == {n \in 0..Len(q) : Writes(SubSeq(q, 1, n)) \in Seq(Writing)}
<1>1. 0 \in T
  <2>1. SubSeq(q, 1, 0) = <<>>
    OBVIOUS
  <2>2. 0 \in 0..Len(q) /\ <<>> \in Seq(Writing)
    OBVIOUS
  <2> QED BY <2>1, <2>2, WritesOfNone
<1>2. ASSUME NEW n \in 0..Len(q), n + 1 \in 0..Len(q), n \in T PROVE n + 1 \in T
  <2> DEFINE r == SubSeq(q, 1, n)
             e == q[n + 1]
  <2>1. e \in Entry /\ r \in Seq(Entry) /\ SubSeq(q, 1, n + 1) = Append(r, e)
    BY <1>2
  <2>2. Writes(Append(r, e)) = IF IsWrite(e) THEN Append(Writes(r), e) ELSE Writes(r)
    BY <2>1, WritesOfAppend
  <2>3. Writes(r) \in Seq(Writing)
    BY <1>2
  <2> HIDE DEF r, e
  <2>4. IsWrite(e) => e \in Writing
    BY <2>1 DEF Entry, Dump, IsWrite
  <2>5. Writes(Append(r, e)) \in Seq(Writing)
    BY <2>2, <2>3, <2>4
  <2> QED BY <1>2, <2>1, <2>5
<1> HIDE DEF T
<1>3. Len(q) \in T
  <2>1. T \in SUBSET (0..Len(q)) /\ Len(q) \in Nat /\ Len(q) \in 0..Len(q)
    BY DEF T
  <2>2. \A n \in 0..Len(q) : n \in T
    BY <1>1, <1>2, <2>1, UpTo
  <2> QED BY <2>1, <2>2
<1>4. SubSeq(q, 1, Len(q)) = q
  OBVIOUS
<1> QED
  BY <1>3, <1>4 DEF T

-----------------------------------------------------------------------------
(* One write at a time.                                                     *)

Reply == {Says(kind) : kind \in {"Unchanged", "Write Settings", "Updated"}}
           \cup [kind : {"dump"}, texts : UNION {[fields -> {Text(n) : n \in Nat}] : fields \in SUBSET Settings}]

\* A write on the way to the device is the one that the host waits for, and
\* nothing has been answered to it.
CommandInv ==
  \A i \in DOMAIN toDevice : IsWrite(toDevice[i]) =>
    /\ toDevice[i] = active /\ ~stored
    /\ \A j \in DOMAIN toDevice : IsWrite(toDevice[j]) => j = i
    /\ \A k \in DOMAIN toHost : IsDump(toHost[k])

\* An answer to a write says that the device has stored it; only "Write
\* Settings" has another one behind it.
AnswerInv ==
  \A k \in DOMAIN toHost : ~IsDump(toHost[k]) =>
    /\ stored
    /\ \A j \in 1..(k - 1) : ~IsDump(toHost[j]) => toHost[j].kind = "Write Settings"

OneAtATime ==
  /\ toHost \in Seq(Reply) /\ stored \in BOOLEAN
  /\ CommandInv
  /\ AnswerInv
  /\ stored => active # NoWrite

LEMMA TailShifts ==
  ASSUME NEW S, NEW s \in Seq(S), s # <<>>
  PROVE  /\ Tail(s) \in Seq(S) /\ Head(s) \in S /\ Head(s) = s[1] /\ 1 \in DOMAIN s
         /\ \A k \in DOMAIN Tail(s) : k \in Nat \ {0} /\ k + 1 \in DOMAIN s /\ Tail(s)[k] = s[k + 1]
OBVIOUS

LEMMA OneInit == Init => OneAtATime
<1>1. <<>> \in Seq(Reply) /\ DOMAIN <<>> = {}
  OBVIOUS
<1> QED
  BY <1>1 DEF Init, OneAtATime, CommandInv, AnswerInv

LEMMA OneKept ==
  ASSUME OneAtATime, UNCHANGED <<active, toDevice, toHost, stored>>
  PROVE  OneAtATime'
BY DEF OneAtATime, CommandInv, AnswerInv

\* A line that is gone takes nothing with it.
LEMMA LineGone ==
  ASSUME OneAtATime, toHost # <<>>, toHost' = Tail(toHost), UNCHANGED <<active, toDevice, stored>>
  PROVE  OneAtATime'
<1>1. /\ toHost' \in Seq(Reply)
      /\ \A k \in DOMAIN toHost' : k \in Nat \ {0} /\ k + 1 \in DOMAIN toHost /\ toHost'[k] = toHost[k + 1]
  BY TailShifts DEF OneAtATime
<1>2. CommandInv'
  <2>1. ASSUME NEW i \in DOMAIN toDevice, IsWrite(toDevice[i]), NEW k \in DOMAIN toHost'
        PROVE  IsDump(toHost'[k])
    BY <1>1, <2>1 DEF OneAtATime, CommandInv
  <2> QED BY <2>1 DEF OneAtATime, CommandInv
<1>3. AnswerInv'
  <2> SUFFICES ASSUME NEW k \in DOMAIN toHost', ~IsDump(toHost'[k])
               PROVE  /\ stored
                      /\ \A j \in 1..(k - 1) : ~IsDump(toHost'[j]) => toHost'[j].kind = "Write Settings"
    BY DEF AnswerInv
  <2>1. k + 1 \in DOMAIN toHost /\ ~IsDump(toHost[k + 1])
    BY <1>1
  <2>2. stored /\ \A j \in 1..k : ~IsDump(toHost[j]) => toHost[j].kind = "Write Settings"
    <3> DEFINE m == k + 1
    <3>1. m - 1 = k /\ m \in DOMAIN toHost /\ ~IsDump(toHost[m])
      BY <1>1, <2>1
    <3> HIDE DEF m
    <3>2. stored /\ \A j \in 1..(m - 1) : ~IsDump(toHost[j]) => toHost[j].kind = "Write Settings"
      BY <3>1 DEF OneAtATime, AnswerInv
    <3> QED BY <3>1, <3>2
  <2>3. \A j \in 1..(k - 1) : j + 1 \in 1..k /\ j \in DOMAIN toHost' /\ toHost'[j] = toHost[j + 1]
    BY <1>1
  <2> QED BY <2>2, <2>3
<1> QED
  BY <1>1, <1>2, <1>3 DEF OneAtATime

\* So does a command.
LEMMA CommandGone ==
  ASSUME SettingsInv, OneAtATime, toDevice # <<>>, toDevice' = Tail(toDevice),
         UNCHANGED <<active, toHost, stored>>
  PROVE  OneAtATime'
<1>1. \A k \in DOMAIN toDevice' :
        k \in Nat \ {0} /\ k + 1 \in DOMAIN toDevice /\ toDevice'[k] = toDevice[k + 1]
  BY TailShifts DEF SettingsInv, DeviceInv
<1>2. CommandInv'
  <2> SUFFICES ASSUME NEW i \in DOMAIN toDevice', IsWrite(toDevice'[i])
               PROVE  /\ toDevice'[i] = active /\ ~stored
                      /\ \A j \in DOMAIN toDevice' : IsWrite(toDevice'[j]) => j = i
                      /\ \A k \in DOMAIN toHost : IsDump(toHost[k])
    BY DEF CommandInv
  <2>1. i + 1 \in DOMAIN toDevice /\ IsWrite(toDevice[i + 1])
    BY <1>1
  <2>2. /\ toDevice[i + 1] = active /\ ~stored
        /\ \A j \in DOMAIN toDevice : IsWrite(toDevice[j]) => j = i + 1
        /\ \A k \in DOMAIN toHost : IsDump(toHost[k])
    BY <2>1 DEF OneAtATime, CommandInv
  <2>3. ASSUME NEW j \in DOMAIN toDevice', IsWrite(toDevice'[j]) PROVE j = i
    <3>1. j + 1 = i + 1
      BY <1>1, <2>2, <2>3
    <3> QED BY <1>1, <3>1
  <2> QED BY <1>1, <2>2, <2>3
<1> QED
  BY <1>2 DEF OneAtATime, AnswerInv

\* Where nothing is awaited, or nothing more can come, no write and no answer
\* is on the way.
NoneUnderWay ==
  /\ \A i \in DOMAIN toDevice : ~IsWrite(toDevice[i])
  /\ \A k \in DOMAIN toHost : IsDump(toHost[k])

LEMMA NoneWhenFree ==
  ASSUME SettingsInv, OneAtATime, active = NoWrite \/ Quiet
  PROVE  NoneUnderWay
<1>1. CASE active = NoWrite
  <2>1. ASSUME NEW i \in DOMAIN toDevice PROVE ~IsWrite(toDevice[i])
    <3>1. toDevice[i] \in Entry
      BY DEF SettingsInv, DeviceInv
    <3>2. IsWrite(toDevice[i]) => toDevice[i] \in Writing
      BY <3>1 DEF Entry, Dump, IsWrite
    <3>3. NoWrite \notin Writing
      BY NoWriteAssumption DEF Writing
    <3> QED BY <1>1, <3>2, <3>3 DEF OneAtATime, CommandInv
  <2>2. \A k \in DOMAIN toHost : IsDump(toHost[k])
    BY <1>1 DEF OneAtATime, AnswerInv
  <2> QED BY <2>1, <2>2 DEF NoneUnderWay
<1>2. CASE Quiet
  BY <1>2 DEF Quiet, NoneUnderWay
<1> QED
  BY <1>1, <1>2

LEMMA FreeToSend ==
  ASSUME "slow" \notin Faults, NEW expired \in BOOLEAN, expired => AckExpired, Free(expired)
  PROVE  active = NoWrite \/ Quiet
BY DEF AckExpired, Free

\* What is sent next is awaited if it is a write, and alone.
LEMMA OneWriteCycle ==
  ASSUME "slow" \notin Faults, SettingsInv, OneAtATime, WriteCycle
  PROVE  OneAtATime'
<1>1. SendNext /\ stored' = FALSE /\ UNCHANGED toHost
  BY DEF WriteCycle
<1>2. NoneUnderWay
  BY FreeToSend, NoneWhenFree DEF WriteCycle
<1>3. AnswerInv'
  BY <1>1, <1>2 DEF AnswerInv, NoneUnderWay
<1>4. CommandInv'
  <2>1. CASE UNCHANGED toDevice
    BY <1>2, <2>1 DEF CommandInv, NoneUnderWay
  <2>2. ASSUME NEW e, toDevice' = Append(toDevice, e), active' = IF IsWrite(e) THEN e ELSE NoWrite
        PROVE  CommandInv'
    <3>1. \A i \in DOMAIN toDevice' : IsWrite(toDevice'[i]) => i = Len(toDevice) + 1
      BY <1>2, <2>2 DEF NoneUnderWay, SettingsInv, DeviceInv
    <3>2. toDevice'[Len(toDevice) + 1] = e
      BY <2>2 DEF SettingsInv, DeviceInv
    <3> QED BY <1>1, <1>2, <2>2, <3>1, <3>2 DEF CommandInv, NoneUnderWay
  <2> QED BY <1>1, <2>1, <2>2 DEF SendNext, Send
<1> QED
  BY <1>1, <1>3, <1>4 DEF OneAtATime

\* An answer that settles a write is the last one to it.
LEMMA OneReadLine ==
  ASSUME SettingsInv, OneAtATime, ReadLine
  PROVE  OneAtATime'
<1>1. toHost # <<>> /\ toHost' = Tail(toHost) /\ UNCHANGED toDevice
  BY DEF ReadLine
<1>2. CASE UNCHANGED <<active, stored>>
  BY <1>1, <1>2, LineGone
<1>3. CASE /\ active' = NoWrite /\ stored' = FALSE
           /\ Head(toHost).kind \in {"Unchanged", "Updated"}
  <2>1. /\ toHost' \in Seq(Reply) /\ Head(toHost) = toHost[1] /\ 1 \in DOMAIN toHost
        /\ \A k \in DOMAIN toHost' :
             k \in Nat \ {0} /\ k + 1 \in DOMAIN toHost /\ toHost'[k] = toHost[k + 1]
    BY <1>1, TailShifts DEF OneAtATime
  <2>2. ~IsDump(toHost[1])
    BY <1>3, <2>1 DEF IsDump
  <2>3. ASSUME NEW k \in DOMAIN toHost' PROVE IsDump(toHost'[k])
    <3>1. ~IsDump(toHost[k + 1]) => toHost[1].kind = "Write Settings"
      <4> DEFINE m == k + 1
      <4>1. 1 \in 1..(m - 1) /\ m \in DOMAIN toHost
        BY <2>1
      <4> HIDE DEF m
      <4>2. ~IsDump(toHost[m]) => toHost[1].kind = "Write Settings"
        BY <2>2, <4>1 DEF OneAtATime, AnswerInv
      <4> QED BY <4>2 DEF m
    <3> QED BY <1>3, <2>1, <3>1
  <2>4. \A i \in DOMAIN toDevice : ~IsWrite(toDevice[i])
    BY <2>1, <2>2 DEF OneAtATime, CommandInv, AnswerInv
  <2> QED BY <1>1, <1>3, <2>1, <2>3, <2>4 DEF OneAtATime, CommandInv, AnswerInv
<1> QED
  BY <1>2, <1>3 DEF ReadLine, SyncParameters, Feedback, Settle

LEMMA OneExecution ==
  ASSUME SettingsInv, OneAtATime, FwExecutes
  PROVE  OneAtATime'
<1> DEFINE entry == Head(toDevice)
<1>1. /\ toDevice # <<>> /\ toDevice' = Tail(toDevice) /\ UNCHANGED active
      /\ Execute(entry) /\ toDevice \in Seq(Entry)
  BY DEF FwExecutes, hostVars, SettingsInv, DeviceInv
<1>2. /\ entry \in Entry /\ entry = toDevice[1] /\ 1 \in DOMAIN toDevice
      /\ \A k \in DOMAIN toDevice' :
           k \in Nat \ {0} /\ k + 1 \in DOMAIN toDevice /\ toDevice'[k] = toDevice[k + 1]
  BY <1>1, TailShifts
<1> HIDE DEF entry
<1>3. CASE IsDump(entry)
  <2>1. PICK missing \in {{}} \cup {{f} : f \in Settings} :
          toHost' = Append(toHost, [kind |-> "dump", texts |-> [f \in Settings \ missing |-> Text(device[f])]])
    BY <1>1, <1>3 DEF Execute
  <2> DEFINE reply == [kind |-> "dump", texts |-> [f \in Settings \ missing |-> Text(device[f])]]
  <2>2. reply \in Reply /\ IsDump(reply)
    <3>1. \A f \in Settings : Text(device[f]) \in {Text(n) : n \in Nat}
      BY DEF SettingsInv, DeviceInv
    <3>2. [f \in Settings \ missing |-> Text(device[f])]
            \in [Settings \ missing -> {Text(n) : n \in Nat}]
      BY <3>1
    <3>3. Settings \ missing \in SUBSET Settings
      OBVIOUS
    <3> QED BY <3>2, <3>3 DEF Reply, IsDump
  <2> HIDE DEF reply
  <2>3. toHost' = Append(toHost, reply) /\ UNCHANGED stored
    BY <1>1, <1>3, <2>1 DEF Execute, reply
  <2>4. /\ toHost' \in Seq(Reply) /\ DOMAIN toHost' = 1..(Len(toHost) + 1)
        /\ \A k \in DOMAIN toHost : toHost'[k] = toHost[k]
        /\ toHost'[Len(toHost) + 1] = reply
        /\ DOMAIN toHost = 1..Len(toHost) /\ Len(toHost) \in Nat
    BY <2>2, <2>3 DEF OneAtATime
  <2>5. \A k \in DOMAIN toHost' :
          ~IsDump(toHost'[k]) => k \in DOMAIN toHost /\ ~IsDump(toHost[k])
    BY <2>2, <2>4
  <2>6. AnswerInv'
    <3> SUFFICES ASSUME NEW k \in DOMAIN toHost', ~IsDump(toHost'[k])
                 PROVE  /\ stored'
                        /\ \A j \in 1..(k - 1) : ~IsDump(toHost'[j]) => toHost'[j].kind = "Write Settings"
      BY DEF AnswerInv
    <3>1. k \in DOMAIN toHost /\ ~IsDump(toHost[k])
      BY <2>5
    <3>2. stored /\ \A j \in 1..(k - 1) : ~IsDump(toHost[j]) => toHost[j].kind = "Write Settings"
      BY <3>1 DEF OneAtATime, AnswerInv
    <3>3. \A j \in 1..(k - 1) : toHost'[j] = toHost[j]
      BY <2>4, <3>1
    <3> QED BY <2>3, <3>2, <3>3
  <2>7. CommandInv'
    <3> SUFFICES ASSUME NEW i \in DOMAIN toDevice', IsWrite(toDevice'[i])
                 PROVE  /\ toDevice'[i] = active' /\ ~stored'
                        /\ \A j \in DOMAIN toDevice' : IsWrite(toDevice'[j]) => j = i
                        /\ \A k \in DOMAIN toHost' : IsDump(toHost'[k])
      BY DEF CommandInv
    <3>1. i + 1 \in DOMAIN toDevice /\ IsWrite(toDevice[i + 1])
      BY <1>2
    <3>2. /\ toDevice[i + 1] = active /\ ~stored
          /\ \A j \in DOMAIN toDevice : IsWrite(toDevice[j]) => j = i + 1
          /\ \A k \in DOMAIN toHost : IsDump(toHost[k])
      BY <3>1 DEF OneAtATime, CommandInv
    <3>3. ASSUME NEW j \in DOMAIN toDevice', IsWrite(toDevice'[j]) PROVE j = i
      <4>1. j + 1 = i + 1
        BY <1>2, <3>2, <3>3
      <4> QED BY <1>2, <4>1
    <3> QED BY <1>1, <1>2, <2>3, <2>5, <3>2, <3>3
  <2> QED BY <1>1, <2>3, <2>4, <2>6, <2>7 DEF OneAtATime
<1>4. CASE ~IsDump(entry)
  <2>1. IsWrite(entry) /\ entry.name \in Settings
    BY <1>2, <1>4 DEF Entry, Writing, Dump, IsDump, IsWrite
  <2>2. /\ entry = active /\ ~stored
        /\ \A j \in DOMAIN toDevice : IsWrite(toDevice[j]) => j = 1
        /\ \A k \in DOMAIN toHost : IsDump(toHost[k])
    BY <1>2, <2>1 DEF OneAtATime, CommandInv
  <2>3. stored'
    BY <1>1, <1>4, <2>2 DEF Execute
  <2>4. active # NoWrite
    <3>1. entry \in Writing
      BY <1>2, <2>1 DEF Entry, Dump, IsWrite
    <3> QED BY <2>2, <3>1, NoWriteAssumption DEF Writing
  <2>5. ASSUME NEW i \in DOMAIN toDevice' PROVE ~IsWrite(toDevice'[i])
    <3>1. i + 1 # 1
      BY <1>2
    <3> QED BY <1>2, <2>2, <3>1
  <2>6. CASE toHost' = toHost \o <<Says("Unchanged")>>
    <3>1. Says("Unchanged") \in Reply
      BY DEF Reply
    <3>2. toHost' \in Seq(Reply) /\ \A k \in DOMAIN toHost' : k <= Len(toHost) => IsDump(toHost'[k])
      BY <2>2, <2>6, <3>1 DEF OneAtATime
    <3>3. DOMAIN toHost' = 1..(Len(toHost) + 1) /\ Len(toHost) \in Nat
      BY <2>6 DEF OneAtATime
    <3>4. AnswerInv'
      <4>1. \A k \in DOMAIN toHost' : \A j \in 1..(k - 1) : IsDump(toHost'[j])
        BY <3>2, <3>3
      <4> QED BY <2>3, <4>1 DEF AnswerInv
    <3> QED BY <1>1, <2>3, <2>4, <2>5, <3>2, <3>4 DEF OneAtATime, CommandInv
  <2>7. CASE toHost' = toHost \o <<Says("Write Settings"), Says("Updated")>>
    <3> DEFINE L == Len(toHost)
               first == Says("Write Settings")
               second == Says("Updated")
    <3>1. first \in Reply /\ second \in Reply /\ first.kind = "Write Settings"
      BY DEF Reply, Says
    <3>2. toHost' = toHost \o <<first, second>>
      BY <2>7
    <3> HIDE DEF first, second
    <3>3. L \in Nat /\ toHost \in Seq(Reply) /\ <<first, second>> \in Seq(Reply)
      <4>1. first \in Reply /\ second \in Reply
        BY <3>1
      <4>2. <<first, second>> \in Seq(Reply)
        BY <4>1
      <4>3. toHost \in Seq(Reply)
        BY DEF OneAtATime
      <4> QED BY <4>2, <4>3
    <3>4. /\ toHost' \in Seq(Reply)
          /\ DOMAIN toHost' = 1..(L + 2)
          /\ \A k \in 1..L : k \in DOMAIN toHost /\ toHost'[k] = toHost[k]
          /\ toHost'[L + 1] = first
      BY <3>2, <3>3
    <3>5. \A k \in 1..L : IsDump(toHost'[k])
      BY <2>2, <3>4
    <3> HIDE DEF L
    <3>6. AnswerInv'
      <4>1. ASSUME NEW k \in DOMAIN toHost', NEW j \in 1..(k - 1), ~IsDump(toHost'[j])
            PROVE  toHost'[j].kind = "Write Settings"
        <5>1. j \in 1..(L + 1) /\ j \notin 1..L
          BY <3>3, <3>4, <3>5, <4>1
        <5>2. j = L + 1
          BY <3>3, <5>1
        <5> QED BY <3>1, <3>4, <5>2
      <4> QED BY <2>3, <4>1 DEF AnswerInv
    <3> QED BY <1>1, <2>3, <2>4, <2>5, <3>4, <3>6 DEF OneAtATime, CommandInv
  <2> QED BY <1>1, <1>4, <2>6, <2>7 DEF Execute
<1> QED
  BY <1>3, <1>4

LEMMA OneStep ==
  ASSUME "slow" \notin Faults, SettingsInv, OneAtATime, [Next]_vars
  PROVE  OneAtATime'
<1>1. CASE UNCHANGED <<active, wireVars>>
  BY <1>1, OneKept DEF wireVars
<1>2. CASE CommandIsLost
  BY <1>2, CommandGone DEF CommandIsLost, hostVars
<1>3. CASE LineIsLost
  BY <1>3, LineGone DEF LineIsLost, hostVars
<1>4. CASE Executor \/ PublishDiagnostics \/ BenchSteps \/ UNCHANGED vars
  <2>1. UNCHANGED <<active, wireVars>>
    BY <1>4 DEF Executor, OperatorSets, SetHomeHere, LateSet, PeriodicRefresh, StopCall,
                PublishDiagnostics, BenchSteps, BenchSets, SetParameters, hostVars, vars
  <2> QED BY <1>1, <2>1
<1> QED
  BY <1>2, <1>3, <1>4, OneWriteCycle, OneReadLine, OneExecution DEF Next, Wire

-----------------------------------------------------------------------------
(* The writes are those of SettingsWrites.                                  *)

Pair       == Settings \X Int
Pairs(s)   == [i \in DOMAIN s |-> AsPair(s[i])]
Awaited(a) == IF a = NoWrite THEN <<>> ELSE <<a>>

\* The writes that are not settled, when a is at the device and q waits.
WaitingOf(a, q) == Pairs(Awaited(a) \o Writes(q))

LEMMA WaitingIs ==
  /\ Waiting = WaitingOf(active, queue)
  /\ Waiting' = WaitingOf(active', queue')
BY DEF Waiting, WaitingOf, Pairs, Awaited

LEMMA ConcatIsASeq ==
  ASSUME NEW S, NEW p \in Seq(S), NEW r \in Seq(S)
  PROVE  p \o r \in Seq(S) /\ Len(p \o r) = Len(p) + Len(r)
OBVIOUS

LEMMA PairsOfConcat ==
  ASSUME NEW s \in Seq(Writing), NEW t \in Seq(Writing)
  PROVE  /\ Pairs(s) \in Seq(Pair) /\ Len(Pairs(s)) = Len(s)
         /\ Pairs(s \o t) = Pairs(s) \o Pairs(t)
<1>1. \A w \in Writing : AsPair(w) \in Pair
  BY DEF AsPair, Pair, Writing
<1>2. \A r \in Seq(Writing) :
        Pairs(r) \in Seq(Pair) /\ Len(Pairs(r)) = Len(r) /\ \A i \in 1..Len(r) : Pairs(r)[i] = AsPair(r[i])
  <2> SUFFICES ASSUME NEW r \in Seq(Writing)
               PROVE  /\ Pairs(r) \in Seq(Pair) /\ Len(Pairs(r)) = Len(r)
                      /\ \A i \in 1..Len(r) : Pairs(r)[i] = AsPair(r[i])
    OBVIOUS
  <2>1. DOMAIN r = 1..Len(r) /\ Len(r) \in Nat /\ \A i \in 1..Len(r) : r[i] \in Writing
    OBVIOUS
  <2>2. Pairs(r) = [i \in 1..Len(r) |-> AsPair(r[i])]
    BY <2>1 DEF Pairs
  <2>3. \A i \in 1..Len(r) : AsPair(r[i]) \in Pair
    BY <1>1, <2>1
  <2>4. Pairs(r) \in Seq(Pair)
    BY <2>1, <2>2, <2>3, IsASeq
  <2>5. Len(Pairs(r)) = Len(r)
    BY <2>1, <2>2, <2>4
  <2> QED BY <2>2, <2>4, <2>5
<1>3. /\ s \o t \in Seq(Writing) /\ Len(s \o t) = Len(s) + Len(t)
      /\ \A i \in 1..Len(s) : (s \o t)[i] = s[i]
      /\ \A i \in (Len(s) + 1)..(Len(s) + Len(t)) : (s \o t)[i] = t[i - Len(s)]
  OBVIOUS
<1>4. ASSUME NEW i \in 1..(Len(s) + Len(t))
      PROVE  Pairs(s \o t)[i] = (Pairs(s) \o Pairs(t))[i]
  <2>1. Pairs(s \o t)[i] = AsPair((s \o t)[i])
    BY <1>2, <1>3
  <2>2. CASE i <= Len(s)
    <3>1. (Pairs(s) \o Pairs(t))[i] = Pairs(s)[i]
      BY <1>2, <2>2
    <3> QED BY <1>2, <1>3, <2>1, <2>2, <3>1
  <2>3. CASE i > Len(s)
    <3>1. i - Len(s) \in 1..Len(t)
      BY <2>3
    <3>2. (Pairs(s) \o Pairs(t))[i] = Pairs(t)[i - Len(s)]
      BY <1>2, <2>3
    <3>3. Pairs(t)[i - Len(s)] = AsPair(t[i - Len(s)])
      BY <1>2, <3>1
    <3>4. (s \o t)[i] = t[i - Len(s)]
      BY <1>3, <2>3
    <3> QED BY <2>1, <3>2, <3>3, <3>4
  <2>4. i <= Len(s) \/ i > Len(s)
    <3>1. Len(s) \in Nat /\ Len(t) \in Nat
      OBVIOUS
    <3> QED BY <3>1
  <2> QED BY <2>2, <2>3, <2>4
<1>5. Pairs(s \o t) = Pairs(s) \o Pairs(t)
  <2>1. Pairs(s \o t) \in Seq(Pair) /\ Len(Pairs(s \o t)) = Len(s) + Len(t)
    BY <1>2, <1>3
  <2>2. /\ Pairs(s) \in Seq(Pair) /\ Len(Pairs(s)) = Len(s)
        /\ Pairs(t) \in Seq(Pair) /\ Len(Pairs(t)) = Len(t)
    BY <1>2
  <2>3. /\ Pairs(s) \o Pairs(t) \in Seq(Pair)
        /\ Len(Pairs(s) \o Pairs(t)) = Len(s) + Len(t)
    <3>1. /\ Pairs(s) \o Pairs(t) \in Seq(Pair)
          /\ Len(Pairs(s) \o Pairs(t)) = Len(Pairs(s)) + Len(Pairs(t))
      BY <2>2, ConcatIsASeq, ZenonT(30)
    <3> QED BY <2>2, <3>1, Zenon
  <2> QED BY <1>4, <2>1, <2>3, SeqEqual
<1> QED
  BY <1>2, <1>5

LEMMA WaitingParts ==
  ASSUME NEW a \in Writing \cup {NoWrite}, NEW q \in Seq(Entry)
  PROVE  /\ WaitingOf(a, q) = Pairs(Awaited(a)) \o Pairs(Writes(q))
         /\ Pairs(Awaited(a)) \in Seq(Pair) /\ Pairs(Writes(q)) \in Seq(Pair)
         /\ WaitingOf(a, q) \in Seq(Pair)
         /\ Awaited(a) \in Seq(Writing) /\ Writes(q) \in Seq(Writing)
<1>1. Awaited(a) \in Seq(Writing)
  BY DEF Awaited
<1>2. Writes(q) \in Seq(Writing)
  BY WritesAreWriting
<1>3. Awaited(a) \o Writes(q) \in Seq(Writing)
  BY <1>1, <1>2
<1> QED
  BY <1>1, <1>2, <1>3, PairsOfConcat DEF WaitingOf

\* Giving up the first of a sequence, and putting them behind the others.
LEMMA Dropped ==
  ASSUME NEW S, NEW pre \in Seq(S), NEW post \in Seq(S)
  PROVE  /\ SubSeq(pre \o post, Len(pre) + 1, Len(pre \o post)) = post
         /\ pre # <<>> => Len(pre) \in 1..Len(pre \o post)
<1>1. Len(pre \o post) = Len(pre) + Len(post)
  OBVIOUS
<1>2. SubSeq(pre \o post, Len(pre) + 1, Len(pre) + Len(post)) = post
  OBVIOUS
<1> QED
  BY <1>1, <1>2

LEMMA Turned ==
  ASSUME NEW S, NEW pre \in Seq(S), NEW post \in Seq(S)
  PROVE  Promise!Behind(pre \o post, Len(pre)) = post \o pre
<1>1. SubSeq(pre \o post, 1, Len(pre)) = pre
  OBVIOUS
<1> QED
  BY <1>1, Dropped DEF Promise!Behind

LEMMA AsPromised ==
  ASSUME \/ Promise!Accept \/ Promise!Store \/ Promise!Acknowledge \/ Promise!Abandon
         \/ Promise!Defer
         \/ UNCHANGED <<Waiting, device, stored, acks>>
  PROVE  Promise!Next
BY DEF Promise!Next

\* Accepted writes come behind those that wait.
LEMMA CallIsAccepted ==
  ASSUME SettingsInv, NEW w \in Seq(Writing), queue' = queue \o w,
         UNCHANGED <<active, device, stored, acks>>
  PROVE  Promise!Next
<1>1. w \in Seq(Entry) /\ queue \in Seq(Entry) /\ active \in Writing \cup {NoWrite}
  BY DEF Entry, SettingsInv, HostInv
<1>2. Writes(w) = w
  <2>1. \A i \in DOMAIN w : IsWrite(w[i])
    BY DEF IsWrite, Writing
  <2> QED BY <1>1, <2>1, WritesOfSame
<1>3. Writes(queue') = Writes(queue) \o w
  BY <1>1, <1>2, WritesOfConcat
<1> DEFINE writes == Awaited(active) \o Writes(queue)
<1>4. writes \in Seq(Writing) /\ Waiting = Pairs(writes) /\ Waiting' = Pairs(writes \o w)
  <2>1. Awaited(active) \in Seq(Writing) /\ Writes(queue) \in Seq(Writing)
    BY <1>1, WaitingParts
  <2>2. Awaited(active) \o (Writes(queue) \o w) = (Awaited(active) \o Writes(queue)) \o w
    BY <2>1, SMTT(30)
  <2>3. writes \in Seq(Writing)
    BY <2>1
  <2>4. Waiting = Pairs(writes)
    BY WaitingIs DEF WaitingOf
  <2>5. Waiting' = Pairs(Awaited(active) \o Writes(queue'))
    BY WaitingIs DEF WaitingOf
  <2> QED BY <1>3, <2>2, <2>3, <2>4, <2>5
<1> HIDE DEF writes
<1>5. Waiting' = Waiting \o Pairs(w) /\ Waiting \in Seq(Pair) /\ Pairs(w) \in Seq(Pair)
  BY <1>4, PairsOfConcat
<1>6. CASE Pairs(w) = <<>>
  BY <1>5, <1>6, AsPromised
<1>7. CASE Pairs(w) # <<>>
  <2>1. Len(Waiting') > Len(Waiting) /\ SubSeq(Waiting', 1, Len(Waiting)) = Waiting
    BY <1>5, <1>7
  <2> QED BY <2>1, AsPromised DEF Promise!Accept
<1> QED
  BY <1>6, <1>7

\* A queue that has got nothing but a dump has the same writes.
LEMMA DumpIsNoWrite ==
  ASSUME SettingsInv, queue' = queue \/ queue' = Append(queue, Dump),
         UNCHANGED <<active, device, stored, acks>>
  PROVE  Promise!Next
<1>1. Dump \in Entry /\ ~IsWrite(Dump) /\ queue \in Seq(Entry)
  BY DEF Entry, Dump, IsWrite, SettingsInv, HostInv
<1>2. Writes(queue') = Writes(queue)
  BY <1>1, WritesOfAppend
<1>3. Waiting' = Waiting
  BY <1>2, WaitingIs DEF WaitingOf
<1> QED
  BY <1>3, AsPromised

LEMMA CallIsPromised ==
  ASSUME SettingsInv, NEW call \in Seq(Settings \X ParameterValue), SetParameters(call),
         UNCHANGED wireVars
  PROVE  Promise!Next
<1> DEFINE writes == [i \in DOMAIN call |-> Write(call[i][1], call[i][2].n)]
<1>1. \A i \in DOMAIN call :
        /\ call[i][1] \in Settings /\ call[i][2] \in ParameterValue
        /\ Accepts(call[i][1], call[i][2])
  BY DEF SetParameters, Accepted
<1>2. \A i \in DOMAIN call : call[i][2].n \in Int /\ call[i][2].n \in 0..MaxValue(call[i][1])
  BY <1>1, SettingIsField, AcceptedIsHeld DEF ParameterValue
<1>3. \A i \in DOMAIN call : Write(call[i][1], call[i][2].n) \in Writing
  BY <1>1, <1>2 DEF Write, Writing
<1>4. DOMAIN call = 1..Len(call) /\ Len(call) \in Nat
  OBVIOUS
<1>5. writes \in Seq(Writing)
  BY <1>3, <1>4, IsASeq
<1>6. queue' = queue \o writes /\ UNCHANGED <<active, acks, device, stored>>
  BY DEF SetParameters, wireVars
<1> HIDE DEF writes
<1> QED
  BY <1>5, <1>6, CallIsAccepted

LEMMA ExecutorPromised ==
  ASSUME SettingsInv, Executor
  PROVE  Promise!Next
<1>2. CASE OperatorSets
  BY <1>2, CallIsPromised, CallsAssumption DEF OperatorSets
<1>3. CASE LateSet
  <2>1. CASE SetParameters(late)
    BY <1>3, <2>1, CallIsPromised DEF LateSet, SettingsInv, BenchInv
  <2>2. CASE UNCHANGED hostVars
    BY <1>3, <2>2, DumpIsNoWrite DEF LateSet, hostVars, wireVars
  <2> QED BY <1>3, <2>1, <2>2 DEF LateSet
<1>4. CASE SetHomeHere
  <2> DEFINE w == <<Write("home_pos", HomeHere)>>
  <2>1. Write("home_pos", HomeHere) \in Writing
    <3>1. HomeHere \in 0..MaxValue("home_pos") /\ HomeHere \in Int
      BY SettingsAssumption, MaxOfClass
    <3> QED BY <1>4, <3>1 DEF SetHomeHere, Write, Writing
  <2>2. w \in Seq(Writing) /\ queue' = queue \o w /\ UNCHANGED <<active, acks, device, stored>>
    BY <1>4, <2>1 DEF SetHomeHere, wireVars, SettingsInv, HostInv
  <2> HIDE DEF w
  <2> QED BY <2>2, CallIsAccepted
<1>5. CASE PeriodicRefresh
  BY <1>5, DumpIsNoWrite DEF PeriodicRefresh, wireVars
<1>6. CASE StopCall
  BY <1>6, DumpIsNoWrite DEF StopCall, wireVars
<1> QED
  BY <1>2, <1>3, <1>4, <1>5, <1>6 DEF Executor

\* What is left of a queue from which one command was taken, and the commands in
\* front of which were put behind the others.
LEMMA TakenOut ==
  ASSUME NEW q \in Seq(Entry), NEW i \in DOMAIN q,
         claim # "none" => \A j \in 1..(i - 1) : IsWrite(q[j]),
         claim = "none" => i = 1
  PROVE  \E front \in Seq(Writing), rest \in Seq(Entry) :
           /\ Writes(q) = front \o Writes(<<q[i]>>) \o Writes(rest)
           /\ Writes(SubSeq(q, i + 1, Len(q)) \o SubSeq(q, 1, i - 1)) = Writes(rest) \o front
           /\ claim = "none" => front = <<>>
<1> DEFINE front == SubSeq(q, 1, i - 1)
           rest  == SubSeq(q, i + 1, Len(q))
           e     == <<q[i]>>
<1>1. i \in 1..Len(q) /\ Len(q) \in Nat
  OBVIOUS
<1>2. front \in Seq(Entry) /\ rest \in Seq(Entry) /\ e \in Seq(Entry)
  <2>1. \A j \in 1..(i - 1) : q[j] \in Entry
    OBVIOUS
  <2>2. \A j \in (i + 1)..Len(q) : q[j] \in Entry
    OBVIOUS
  <2> QED BY <2>1, <2>2, SubSeqProperties
<1>3. q = (front \o e) \o rest
  <2>0. /\ 1 \in 1..Len(q) /\ i \in 1..Len(q) /\ i \in (1 - 1)..Len(q)
        /\ 1 \in 1..(Len(q) + 1) /\ Len(q) \in i..Len(q)
    BY <1>1
  <2>1. front \o e = SubSeq(q, 1, i)
    BY <2>0, SubSeqRecursiveSecond
  <2>2. SubSeq(q, 1, i) \o rest = SubSeq(q, 1, Len(q))
    BY <2>0, ConcatAdjacentSubSeq
  <2>3. SubSeq(q, 1, Len(q)) = q
    BY SubSeqFull
  <2> QED BY <2>1, <2>2, <2>3
<1>4. \A j \in DOMAIN front : IsWrite(front[j])
  <2>1. CASE claim = "none"
    <3>1. front = <<>>
      BY <2>1
    <3>2. DOMAIN <<>> = {}
      OBVIOUS
    <3> QED BY <3>1, <3>2
  <2>2. CASE claim # "none"
    <3>1. DOMAIN front = 1..(i - 1) /\ \A j \in 1..(i - 1) : front[j] = q[j]
      BY <1>1
    <3> HIDE DEF front
    <3> QED BY <2>2, <3>1
  <2> QED BY <2>1, <2>2
<1>5. claim = "none" => front = <<>>
  OBVIOUS
<1> HIDE DEF front, rest, e
<1>6. Writes(front) = front /\ front \in Seq(Writing)
  BY <1>2, <1>4, WritesOfSame, WritesAreWriting
<1>7. Writes(q) = front \o Writes(e) \o Writes(rest)
  <2>1. front \o e \in Seq(Entry)
    BY <1>2
  <2>2. Writes(q) = Writes(front \o e) \o Writes(rest)
    BY <1>2, <1>3, <2>1, WritesOfConcat
  <2>3. Writes(front \o e) = front \o Writes(e)
    BY <1>2, <1>6, WritesOfConcat
  <2> QED BY <2>2, <2>3
<1>8. Writes(rest \o front) = Writes(rest) \o front
  BY <1>2, <1>6, WritesOfConcat, ZenonT(30)
<1> QED
  BY <1>2, <1>5, <1>6, <1>7, <1>8 DEF front, rest, e

LEMMA Regrouped ==
  ASSUME NEW S, NEW a \in Seq(S), NEW b \in Seq(S), NEW c \in Seq(S)
  PROVE  /\ a \o (b \o c) = (a \o b) \o c /\ a \o b \in Seq(S)
         /\ a \o b = <<>> => a = <<>>
<1>1. a \o (b \o c) = (a \o b) \o c /\ a \o b \in Seq(S)
  OBVIOUS
<1>2. ASSUME a \o b = <<>> PROVE a = <<>>
  <2>1. Len(a \o b) = Len(a) + Len(b) /\ Len(a) \in Nat /\ Len(b) \in Nat /\ Len(<<>>) = 0
    OBVIOUS
  <2>2. Len(a) = 0
    BY <1>2, <2>1
  <2> QED BY <2>2
<1> QED
  BY <1>1, <1>2

\* The first ones are given up.
LEMMA FirstGivenUp ==
  ASSUME NEW pre \in Seq(Pair), NEW post \in Seq(Pair),
         Waiting = pre \o post, Waiting' = post, stored' = FALSE, UNCHANGED <<device, acks>>,
         pre = <<>> => ~stored, stored \in BOOLEAN
  PROVE  Promise!Next
<1>1. CASE pre = <<>>
  <2>1. Waiting' = Waiting
    BY <1>1
  <2> QED BY <1>1, <2>1, AsPromised
<1>2. CASE pre # <<>>
  <2>1. Len(pre) \in 1..Len(Waiting) /\ Waiting' = SubSeq(Waiting, Len(pre) + 1, Len(Waiting))
    BY <1>2, Dropped
  <2> QED BY <2>1, AsPromised DEF Promise!Abandon
<1> QED
  BY <1>1, <1>2

\* The first one may be given up, and the next ones are put behind the others.
LEMMA NextPutBehind ==
  ASSUME NEW pre \in Seq(Pair), NEW front \in Seq(Pair), NEW rest \in Seq(Pair),
         claim # "none",
         Waiting = pre \o (front \o rest), Waiting' = rest \o front,
         stored' = FALSE, UNCHANGED <<device, acks>>,
         pre = <<>> => ~stored, stored \in BOOLEAN
  PROVE  Promise!Next
<1>1. CASE front = <<>>
  <2>1. front \o rest = rest /\ rest \o front = rest
    BY <1>1
  <2>2. Waiting = pre \o rest /\ Waiting' = rest
    BY <2>1
  <2> QED BY <2>2, FirstGivenUp
<1>2. CASE front # <<>> /\ pre = <<>>
  <2>1. Len(front) \in 1..Len(Waiting) /\ Waiting' = Promise!Behind(Waiting, Len(front))
    BY <1>2, Dropped, Turned
  <2> QED BY <1>2, <2>1, AsPromised DEF Promise!Defer
<1>3. CASE front # <<>> /\ pre # <<>>
  <2> DEFINE others == front \o rest
  <2>1. others \in Seq(Pair) /\ Len(front) \in 1..Len(others)
        /\ Waiting' = Promise!Behind(others, Len(front))
    BY <1>3, Dropped, Turned
  <2>2. Waiting = pre \o others
    OBVIOUS
  <2> HIDE DEF others
  <2>3. Len(pre) \in 1..Len(Waiting) /\ others = SubSeq(Waiting, Len(pre) + 1, Len(Waiting))
    BY <1>3, <2>1, <2>2, Dropped
  <2> QED BY <2>1, <2>3, AsPromised DEF Promise!Abandon
<1> QED
  BY <1>1, <1>2, <1>3

LEMMA WriteCyclePromised ==
  ASSUME "slow" \notin Faults, SettingsInv, SettingsInv', OneAtATime, WriteCycle
  PROVE  Promise!Next
<1> DEFINE A == Pairs(Awaited(active))
           W(q) == Pairs(Writes(q))
<1>1. /\ queue \in Seq(Entry) /\ active \in Writing \cup {NoWrite}
      /\ queue' \in Seq(Entry) /\ active' \in Writing \cup {NoWrite}
      /\ stored => active # NoWrite
  BY DEF SettingsInv, HostInv, OneAtATime
<1>0. stored \in BOOLEAN
  BY DEF OneAtATime
<1>2. SendNext /\ stored' = FALSE /\ UNCHANGED <<device, acks>>
  BY DEF WriteCycle
<1>3. /\ Waiting = A \o W(queue)
      /\ A \in Seq(Pair) /\ W(queue) \in Seq(Pair)
      /\ A = <<>> => ~stored
  <2>1. Awaited(active) = <<>> => active = NoWrite
    BY DEF Awaited
  <2>2. A = <<>> => Awaited(active) = <<>>
    BY <1>1, WaitingParts, PairsOfConcat, SMTT(30)
  <2> QED BY <1>1, <2>1, <2>2, WaitingIs, WaitingParts
<1>4. Waiting' = Pairs(Awaited(active')) \o W(queue')
  BY <1>1, WaitingIs, WaitingParts
<1>5. Pairs(<<>>) = <<>> /\ Awaited(NoWrite) = <<>>
  BY DEF Pairs, Awaited
<1>6. CASE SendableAt = {}
  <2>1. active' = NoWrite /\ UNCHANGED queue
    BY <1>2, <1>6 DEF SendNext
  <2>2. Waiting' = W(queue)
    <3>1. <<>> \o W(queue) = W(queue)
      BY <1>3
    <3> QED BY <1>4, <1>5, <2>1, <3>1
  <2> DEFINE Q == W(queue)
  <2>3. Q \in Seq(Pair) /\ Waiting = A \o Q /\ Waiting' = Q
    BY <1>3, <2>2
  <2> HIDE DEF A, W, Q
  <2> QED BY <1>0, <1>2, <1>3, <2>3, FirstGivenUp
<1>7. CASE SendableAt # {}
  <2> DEFINE i == CHOOSE j \in SendableAt : \A k \in SendableAt : j <= k
  <2>1. i \in SendableAt /\ \A k \in SendableAt : i <= k
    <3>1. SendableAt \in SUBSET Nat
      BY <1>1 DEF SendableAt
    <3>2. \E j \in SendableAt : \A k \in SendableAt : j <= k
      BY <1>7, <3>1, LeastIndex
    <3> QED BY <3>2
  <2>2. /\ queue' = SubSeq(queue, i + 1, Len(queue)) \o SubSeq(queue, 1, i - 1)
        /\ Send(queue[i])
    BY <1>2, <1>7 DEF SendNext
  <2> HIDE DEF i
  <2>3. i \in DOMAIN queue /\ Sendable(queue[i]) /\ queue[i] \in Entry
    BY <1>1, <2>1 DEF SendableAt
  <2>4. claim # "none" => \A j \in 1..(i - 1) : IsWrite(queue[j])
    <3>1. ASSUME NEW j \in 1..(i - 1), ~Sendable(queue[j]) PROVE IsWrite(queue[j])
      BY <3>1 DEF Sendable
    <3>2. ASSUME NEW j \in 1..(i - 1) PROVE ~Sendable(queue[j])
      <4>1. j \in DOMAIN queue /\ ~(i <= j)
        BY <1>1, <2>3
      <4> QED BY <2>1, <4>1 DEF SendableAt
    <3> QED BY <3>1, <3>2
  <2>5. claim = "none" => i = 1
    <3>1. ASSUME claim = "none" PROVE 1 \in SendableAt
      <4>1. 1 \in DOMAIN queue
        BY <1>1, <2>3
      <4> QED BY <3>1, <4>1 DEF SendableAt, Sendable
    <3> QED BY <1>1, <2>1, <2>3, <3>1
  <2>6. PICK front \in Seq(Writing), rest \in Seq(Entry) :
          /\ Writes(queue) = front \o Writes(<<queue[i]>>) \o Writes(rest)
          /\ Writes(queue') = Writes(rest) \o front
          /\ claim = "none" => front = <<>>
    <3>1. \E front \in Seq(Writing), rest \in Seq(Entry) :
            /\ Writes(queue) = front \o Writes(<<queue[i]>>) \o Writes(rest)
            /\ Writes(SubSeq(queue, i + 1, Len(queue)) \o SubSeq(queue, 1, i - 1))
                 = Writes(rest) \o front
            /\ claim = "none" => front = <<>>
      BY <1>1, <2>3, <2>4, <2>5, TakenOut
    <3> QED BY <2>2, <3>1
  <2> DEFINE next == Writes(<<queue[i]>>)
             R == Pairs(Writes(rest))
             F == Pairs(front)
  <2>7. next \in Seq(Writing) /\ Writes(rest) \in Seq(Writing)
        /\ next = IF IsWrite(queue[i]) THEN <<queue[i]>> ELSE <<>>
    <3>1. <<queue[i]>> \in Seq(Entry) /\ DOMAIN <<queue[i]>> = {1} /\ <<queue[i]>>[1] = queue[i]
      BY <2>3
    <3> QED BY <2>6, <3>1, WritesAreWriting, WritesOfSame
  <2>8. CASE claim # "none"
    <3>1. ~IsWrite(queue[i]) /\ next = <<>>
      BY <2>3, <2>7, <2>8 DEF Sendable
    <3>2. active' = NoWrite
      BY <2>2, <3>1 DEF Send
    <3>3. Writes(queue) = front \o Writes(rest)
      <4>1. front \o <<>> = front
        OBVIOUS
      <4> QED BY <2>6, <3>1, <4>1
    <3>4. F \in Seq(Pair) /\ R \in Seq(Pair) /\ W(queue) = F \o R /\ W(queue') = R \o F
      BY <2>6, <2>7, <3>3, PairsOfConcat
    <3>5. Waiting' = R \o F
      <4>1. <<>> \o (R \o F) = R \o F
        BY <3>4
      <4> QED BY <1>4, <1>5, <3>2, <3>4, <4>1
    <3>6. Waiting = A \o (F \o R)
      BY <1>3, <3>4
    <3> HIDE DEF A, W, F, R
    <3> QED BY <1>0, <1>2, <1>3, <2>8, <3>4, <3>5, <3>6, NextPutBehind
  <2>9. CASE claim = "none"
    <3>1. Writes(queue) = next \o Writes(rest) /\ Writes(queue') = Writes(rest)
      BY <2>6, <2>7, <2>9
    <3> DEFINE N == Pairs(next)
    <3>2. N \in Seq(Pair) /\ R \in Seq(Pair) /\ W(queue) = N \o R /\ W(queue') = R
      BY <2>7, <3>1, PairsOfConcat
    <3>3. Awaited(active') = next \/ Awaited(active') = <<>>
      BY <2>2, <2>3, <2>7 DEF Send, Awaited
    <3>4. CASE Awaited(active') = next
      <4>1. Waiting' = N \o R
        BY <1>4, <3>2, <3>4
      <4>2. N \o R \in Seq(Pair)
        BY <3>2
      <4> DEFINE Q == N \o R
      <4>3. Q \in Seq(Pair) /\ Waiting = A \o Q /\ Waiting' = Q
        BY <1>3, <3>2, <4>1, <4>2
      <4> HIDE DEF A, W, Q
      <4> QED BY <1>0, <1>2, <1>3, <4>3, FirstGivenUp
    <3>5. CASE Awaited(active') = <<>>
      <4>1. Waiting' = R
        <5>1. <<>> \o R = R
          BY <3>2
        <5> QED BY <1>4, <1>5, <3>2, <3>5, <5>1
      <4> HIDE DEF A, W, N, R
      <4> DEFINE P == A \o N
      <4>2. Waiting = P \o R /\ P \in Seq(Pair) /\ (P = <<>> => A = <<>>)
        <5>1. A \in Seq(Pair) /\ N \in Seq(Pair) /\ R \in Seq(Pair) /\ Waiting = A \o (N \o R)
          BY <1>3, <3>2
        <5>2. A \o (N \o R) = (A \o N) \o R /\ A \o N \in Seq(Pair) /\ (A \o N = <<>> => A = <<>>)
          BY <5>1, Regrouped, SMTT(30)
        <5> QED BY <5>1, <5>2
      <4> HIDE DEF P
      <4> QED BY <1>0, <1>2, <1>3, <3>2, <4>1, <4>2, FirstGivenUp
    <3> QED BY <3>3, <3>4, <3>5
  <2> QED BY <2>8, <2>9
<1> QED
  BY <1>6, <1>7

\* A counted acknowledgement settles the first write, which the device has stored.
LEMMA ReadLinePromised ==
  ASSUME SettingsInv, SettingsInv', OneAtATime, ReadLine
  PROVE  Promise!Next
<1>1. toHost # <<>> /\ UNCHANGED device
  BY DEF ReadLine
<1>2. CASE UNCHANGED <<queue, active, stored, acks>>
  BY <1>1, <1>2, DumpIsNoWrite
<1>3. CASE /\ Settle /\ Head(toHost).kind \in {"Unchanged", "Updated"}
           /\ queue' = queue \/ queue' = Append(queue, Dump)
  <2>1. stored /\ active # NoWrite
    <3>1. Head(toHost) = toHost[1] /\ 1 \in DOMAIN toHost
      BY <1>1, TailShifts DEF OneAtATime
    <3>2. ~IsDump(toHost[1])
      BY <1>3, <3>1 DEF IsDump
    <3> QED BY <3>1, <3>2 DEF OneAtATime, AnswerInv
  <2>2. active \in Writing /\ queue \in Seq(Entry) /\ active' = NoWrite /\ queue' \in Seq(Entry)
    BY <1>3, <2>1 DEF Settle, SettingsInv, HostInv
  <2>3. Writes(queue') = Writes(queue)
    <3>1. Dump \in Entry /\ ~IsWrite(Dump)
      BY DEF Entry, Dump, IsWrite
    <3> QED BY <1>3, <2>2, <3>1, WritesOfAppend
  <2> DEFINE Q == Pairs(Writes(queue))
  <2>4. Pairs(Awaited(active)) = <<AsPair(active)>>
    BY <2>1 DEF Awaited, Pairs
  <2>5. Waiting = <<AsPair(active)>> \o Q /\ Q \in Seq(Pair) /\ <<AsPair(active)>> \in Seq(Pair)
    BY <2>2, <2>4, WaitingIs, WaitingParts
  <2>6. Waiting' = Q
    <3>1. Awaited(NoWrite) = <<>> /\ Pairs(<<>>) = <<>>
      BY DEF Awaited, Pairs
    <3>2. Waiting' = <<>> \o Q
      BY <2>2, <2>3, <3>1, WaitingIs, WaitingParts
    <3> QED BY <2>5, <3>2
  <2> HIDE DEF Q
  <2>7. Waiting' = Tail(Waiting)
    <3>1. AsPair(active) \in Pair
      BY <2>2 DEF AsPair, Pair, Writing
    <3>2. Tail(<<AsPair(active)>> \o Q) = Q
      BY <2>5, <3>1
    <3> QED BY <2>5, <2>6, <3>2
  <2>8. stored' = FALSE /\ acks' = acks + 1
    BY <1>3 DEF Settle
  <2> QED BY <1>1, <2>1, <2>7, <2>8, AsPromised DEF Promise!Acknowledge
<1> QED
  BY <1>2, <1>3 DEF ReadLine, SyncParameters, Feedback, Settle

\* What the device stores is the first write, and once.
LEMMA WirePromised ==
  ASSUME SettingsInv, OneAtATime, Wire
  PROVE  Promise!Next
<1>1. UNCHANGED <<queue, active, acks>>
  BY DEF Wire, FwExecutes, CommandIsLost, LineIsLost, hostVars
<1>2. CASE UNCHANGED <<device, stored>>
  BY <1>1, <1>2, DumpIsNoWrite
<1>3. CASE FwExecutes /\ ~IsDump(Head(toDevice))
  <2> DEFINE entry == Head(toDevice)
  <2>1. entry = toDevice[1] /\ 1 \in DOMAIN toDevice /\ entry \in Entry /\ Execute(entry)
    BY <1>3, TailShifts DEF FwExecutes, SettingsInv, DeviceInv
  <2> HIDE DEF entry
  <2>2. ~IsDump(entry)
    BY <1>3 DEF entry
  <2>3. IsWrite(entry) /\ entry \in Writing
    BY <2>1, <2>2 DEF Entry, Dump, IsDump, IsWrite, Writing
  <2>4. entry = active /\ ~stored
    BY <2>1, <2>3 DEF OneAtATime, CommandInv
  <2>5. stored' = TRUE /\ device' = [device EXCEPT ![entry.name] = entry.n]
    BY <2>1, <2>2, <2>4 DEF Execute
  <2>6. active # NoWrite /\ queue \in Seq(Entry)
    BY <2>3, <2>4, NoWriteAssumption DEF Writing, SettingsInv, HostInv
  <2> DEFINE Q == Pairs(Writes(queue))
  <2>7. Waiting = <<AsPair(active)>> \o Q /\ Q \in Seq(Pair)
    <3>1. Pairs(Awaited(active)) = <<AsPair(active)>>
      BY <2>6 DEF Awaited, Pairs
    <3> QED BY <2>3, <2>4, <2>6, <3>1, WaitingIs, WaitingParts
  <2> HIDE DEF Q
  <2>8. Waiting # <<>> /\ Head(Waiting) = <<entry.name, entry.n>>
    <3>1. AsPair(active) \in Pair
      BY <2>3, <2>4 DEF AsPair, Pair, Writing
    <3>2. <<AsPair(active)>> \o Q # <<>> /\ Head(<<AsPair(active)>> \o Q) = AsPair(active)
      BY <2>7, <3>1
    <3> QED BY <2>4, <2>7, <3>2 DEF AsPair
  <2>9. UNCHANGED Waiting
    BY <1>1, WaitingIs
  <2>10. Promise!Store
    <3>1. Head(Waiting)[1] = entry.name /\ Head(Waiting)[2] = entry.n
      BY <2>8
    <3>2. device' = [device EXCEPT ![Head(Waiting)[1]] = Head(Waiting)[2]]
      BY <2>5, <3>1
    <3> QED BY <1>1, <2>4, <2>5, <2>8, <2>9, <3>2 DEF Promise!Store
  <2> QED BY <2>10, AsPromised
<1> QED
  BY <1>2, <1>3 DEF Wire, FwExecutes, CommandIsLost, LineIsLost, Execute

LEMMA PromiseStep ==
  ASSUME "slow" \notin Faults, SettingsInv, SettingsInv', OneAtATime, [Next]_vars
  PROVE  [Promise!Next]_(Promise!vars)
<1>1. CASE BenchSets
  <2>1. CASE SetParameters(<<ToWrite>>)
    <3>1. Promise!Next
      <4>1. UNCHANGED wireVars /\ <<ToWrite>> \in Seq(Settings \X ParameterValue)
        BY <1>1, ToWriteIsCall DEF BenchSets, SettingsInv
      <4> QED BY <2>1, <4>1, CallIsPromised
    <3> QED BY <3>1
  <2>2. CASE UNCHANGED hostVars
    BY <1>1, <2>2, DumpIsNoWrite DEF BenchSets, hostVars, wireVars
  <2> QED BY <1>1, <2>1, <2>2 DEF BenchSets
<1>2. CASE BenchSteps /\ ~BenchSets
  BY <1>2, DumpIsNoWrite DEF BenchSteps, wireVars
<1>3. CASE PublishDiagnostics
  BY <1>3, DumpIsNoWrite DEF PublishDiagnostics, hostVars, wireVars
<1>4. CASE UNCHANGED vars
  <2>1. UNCHANGED <<active, queue, claim, device, stored, acks>>
    BY <1>4 DEF vars, hostVars, wireVars
  <2>2. UNCHANGED Waiting
    BY <2>1, WaitingIs
  <2> QED BY <2>1, <2>2 DEF Promise!vars
<1> QED
  BY <1>1, <1>2, <1>3, <1>4, ExecutorPromised, WriteCyclePromised, ReadLinePromised, WirePromised
     DEF Next

LEMMA PromiseInit == Init => Promise!Init
<1> SUFFICES ASSUME Init PROVE Promise!Init
  OBVIOUS
<1>1. queue = <<>> /\ active = NoWrite /\ stored = FALSE /\ acks = 0 /\ device \in Initial
  BY DEF Init
<1>2. Waiting = <<>>
  <2>1. <<>> \o Writes(<<>>) = <<>>
    BY WritesOfNone
  <2> QED BY <1>1, <2>1, WaitingIs DEF WaitingOf, Awaited, Pairs
<1> QED
  BY <1>1, <1>2 DEF Promise!Init

\* As long as no answer comes after its time, the writes that set_parameters
\* accepts are settled as SettingsWrites promises: one is at the device at a
\* time, an acknowledgement is counted only for a write that the device has
\* stored, and nothing else changes the device (drainSendQueue,
\* handleSendQueueFeedback).  A late answer would be taken for that of the next
\* write, as it does not say to which one it belongs.
THEOREM WritesAreSettled ==
  ASSUME "slow" \notin Faults
  PROVE  Spec => SettingsAreWrites
<1>1. SettingsInv /\ OneAtATime /\ [Next]_vars => OneAtATime'
  BY OneStep
<1>2. SettingsInv /\ SettingsInv' /\ OneAtATime /\ [Next]_vars => [Promise!Next]_(Promise!vars)
  BY PromiseStep
<1> QED
  BY <1>1, <1>2, OneInit, SettingsInit, SettingsStep, PromiseInit, PTL
     DEF Spec, SettingsAreWrites, Promise!Spec

-----------------------------------------------------------------------------
(* Writes of one setting in a sequence of commands.                         *)

IsWriteOf(e, f) == IsWrite(e) /\ e.name = f

Has(q, f) == \E i \in DOMAIN q : IsWriteOf(q[i], f)

\* Every write of the setting carries n.
AllCarry(q, f, n) == \A i \in DOMAIN q : IsWriteOf(q[i], f) => q[i].n = n

\* A command more at the end.
LEMMA Appended ==
  ASSUME NEW q \in Seq(Entry), NEW e \in Entry, NEW f, NEW n
  PROVE  /\ Has(Append(q, e), f) <=> (Has(q, f) \/ IsWriteOf(e, f))
         /\ AllCarry(Append(q, e), f, n) <=> (AllCarry(q, f, n) /\ (IsWriteOf(e, f) => e.n = n))
<1> DEFINE p == Append(q, e)
           L == Len(q)
<1>1. /\ DOMAIN p = 1..(L + 1) /\ DOMAIN q = 1..L /\ L \in Nat /\ p[L + 1] = e
      /\ \A i \in 1..L : p[i] = q[i]
  OBVIOUS
<1> HIDE DEF p, L
<1>2. L + 1 \in 1..(L + 1) /\ \A i \in 1..L : i \in 1..(L + 1)
  BY <1>1
<1>3. \A i \in 1..(L + 1) : i \in 1..L \/ i = L + 1
  BY <1>1
<1>4. Has(p, f) <=> (Has(q, f) \/ IsWriteOf(e, f))
  BY <1>1, <1>2, <1>3 DEF Has
<1>5. AllCarry(p, f, n) <=> (AllCarry(q, f, n) /\ (IsWriteOf(e, f) => e.n = n))
  BY <1>1, <1>2, <1>3 DEF AllCarry
<1> QED
  BY <1>4, <1>5 DEF p

\* A queue turned at one of its commands, without it.
TurnedTo(q, i) == SubSeq(q, i + 1, Len(q)) \o SubSeq(q, 1, i - 1)

LEMMA TurnedWrites ==
  ASSUME NEW q \in Seq(Entry), NEW i \in DOMAIN q, NEW f, NEW n
  PROVE  /\ Has(q, f) <=> (IsWriteOf(q[i], f) \/ Has(TurnedTo(q, i), f))
         /\ AllCarry(q, f, n) <=>
              (AllCarry(TurnedTo(q, i), f, n) /\ (IsWriteOf(q[i], f) => q[i].n = n))
<1> DEFINE p == TurnedTo(q, i)
           L == Len(q)
<1>1. DOMAIN q = 1..L /\ L \in Nat /\ i \in 1..L
  OBVIOUS
<1>2. /\ DOMAIN p = 1..(L - 1)
      /\ \A j \in 1..(L - i) : p[j] = q[i + j]
      /\ \A j \in (L - i + 1)..(L - 1) : p[j] = q[j - (L - i)]
  <2> DEFINE a == SubSeq(q, i + 1, L)
             b == SubSeq(q, 1, i - 1)
  <2>1. a \in Seq(Entry) /\ Len(a) = L - i /\ \A j \in 1..(L - i) : a[j] = q[i + j]
    <3>1. \A j \in (i + 1)..L : q[j] \in Entry
      BY <1>1
    <3>2. a \in Seq(Entry)
      BY <1>1, <3>1, SubSeqProperties
    <3> QED BY <1>1, <3>2
  <2>2. b \in Seq(Entry) /\ Len(b) = i - 1 /\ \A j \in 1..(i - 1) : b[j] = q[j]
    <3>1. \A j \in 1..(i - 1) : q[j] \in Entry
      BY <1>1
    <3>2. b \in Seq(Entry)
      BY <1>1, <3>1, SubSeqProperties
    <3> QED BY <1>1, <3>2
  <2>3. p = a \o b
    BY DEF TurnedTo
  <2> HIDE DEF a, b, p, L
  <2>4. /\ DOMAIN p = 1..(Len(a) + Len(b)) /\ \A j \in 1..Len(a) : p[j] = a[j]
        /\ \A j \in (Len(a) + 1)..(Len(a) + Len(b)) : p[j] = b[j - Len(a)]
    BY <2>1, <2>2, <2>3
  <2>5. Len(a) + Len(b) = L - 1
    BY <1>1, <2>1, <2>2
  <2>6. ASSUME NEW j \in (L - i + 1)..(L - 1) PROVE p[j] = q[j - (L - i)]
    <3>1. j - (L - i) \in 1..(i - 1)
      BY <1>1
    <3> QED BY <2>1, <2>2, <2>4, <2>5, <3>1
  <2> QED BY <2>1, <2>4, <2>5, <2>6
<1> HIDE DEF p, L
<1>3. \A j \in DOMAIN p : \E k \in DOMAIN q : p[j] = q[k]
  <2> SUFFICES ASSUME NEW j \in 1..(L - 1) PROVE \E k \in 1..L : p[j] = q[k]
    BY <1>1, <1>2
  <2>1. CASE j <= L - i
    <3>1. i + j \in 1..L /\ j \in 1..(L - i)
      BY <1>1, <2>1
    <3> QED BY <1>2, <3>1
  <2>2. CASE j > L - i
    <3>1. j - (L - i) \in 1..L /\ j \in (L - i + 1)..(L - 1)
      BY <1>1, <2>2
    <3> QED BY <1>2, <3>1
  <2>3. j <= L - i \/ j > L - i
    BY <1>1
  <2> QED BY <2>1, <2>2, <2>3
<1>4. \A k \in DOMAIN q : k = i \/ \E j \in DOMAIN p : p[j] = q[k]
  <2> SUFFICES ASSUME NEW k \in 1..L, k # i PROVE \E j \in 1..(L - 1) : p[j] = q[k]
    BY <1>1, <1>2
  <2>1. CASE k > i
    <3>1. k - i \in 1..(L - i) /\ k - i \in 1..(L - 1) /\ i + (k - i) = k
      BY <1>1, <2>1
    <3> QED BY <1>2, <3>1
  <2>2. CASE k < i
    <3> DEFINE j == k + (L - i)
    <3>1. j \in (L - i + 1)..(L - 1) /\ j \in 1..(L - 1) /\ j - (L - i) = k
      BY <1>1, <2>2
    <3> HIDE DEF j
    <3> QED BY <1>2, <3>1
  <2>3. k > i \/ k < i
    BY <1>1
  <2> QED BY <2>1, <2>2, <2>3
<1>5. Has(q, f) <=> (IsWriteOf(q[i], f) \/ Has(p, f))
  BY <1>1, <1>3, <1>4 DEF Has
<1>6. AllCarry(q, f, n) <=> (AllCarry(p, f, n) /\ (IsWriteOf(q[i], f) => q[i].n = n))
  BY <1>1, <1>3, <1>4 DEF AllCarry
<1> QED
  BY <1>5, <1>6 DEF p

\* How many writes there are.
LEMMA CountOf ==
  ASSUME NEW q \in Seq(Entry)
  PROVE  /\ Len(Writes(q)) \in Nat
         /\ Writes(<<>>) = <<>> /\ Len(Writes(<<>>)) = 0
         /\ \A e \in Entry :
              Len(Writes(Append(q, e))) = IF IsWrite(e) THEN Len(Writes(q)) + 1 ELSE Len(Writes(q))
         /\ \A i \in DOMAIN q :
              Len(Writes(q)) = IF IsWrite(q[i]) THEN Len(Writes(TurnedTo(q, i))) + 1
                               ELSE Len(Writes(TurnedTo(q, i)))
<1>1. \A r \in Seq(Entry) : Writes(r) \in Seq(Writing) /\ Len(Writes(r)) \in Nat
  BY WritesAreWriting
<1>2. ASSUME NEW e \in Entry
      PROVE  Len(Writes(Append(q, e))) = IF IsWrite(e) THEN Len(Writes(q)) + 1 ELSE Len(Writes(q))
  <2>1. Writes(Append(q, e)) = IF IsWrite(e) THEN Append(Writes(q), e) ELSE Writes(q)
    BY WritesOfAppend
  <2>2. IsWrite(e) => e \in Writing
    BY DEF Entry, Dump, IsWrite
  <2> QED BY <1>1, <2>1, <2>2
<1>3. ASSUME NEW i \in DOMAIN q
      PROVE  Len(Writes(q)) = IF IsWrite(q[i]) THEN Len(Writes(TurnedTo(q, i))) + 1
                              ELSE Len(Writes(TurnedTo(q, i)))
  <2> DEFINE a == SubSeq(q, 1, i - 1)
             b == SubSeq(q, i + 1, Len(q))
             e == <<q[i]>>
  <2>1. i \in 1..Len(q) /\ Len(q) \in Nat
    OBVIOUS
  <2>2. a \in Seq(Entry) /\ b \in Seq(Entry) /\ e \in Seq(Entry)
    <3>1. \A j \in 1..(i - 1) : q[j] \in Entry
      OBVIOUS
    <3>2. \A j \in (i + 1)..Len(q) : q[j] \in Entry
      OBVIOUS
    <3> QED BY <3>1, <3>2, SubSeqProperties
  <2>3. q = (a \o e) \o b
    <3>0. /\ 1 \in 1..Len(q) /\ i \in 1..Len(q) /\ i \in (1 - 1)..Len(q)
          /\ 1 \in 1..(Len(q) + 1) /\ Len(q) \in i..Len(q)
      BY <2>1
    <3>1. a \o e = SubSeq(q, 1, i)
      BY <3>0, SubSeqRecursiveSecond
    <3>2. SubSeq(q, 1, i) \o b = SubSeq(q, 1, Len(q))
      BY <3>0, ConcatAdjacentSubSeq
    <3>3. SubSeq(q, 1, Len(q)) = q
      BY SubSeqFull
    <3> QED BY <3>1, <3>2, <3>3
  <2>4. TurnedTo(q, i) = b \o a
    BY DEF TurnedTo
  <2>5. Len(Writes(e)) = IF IsWrite(q[i]) THEN 1 ELSE 0
    <3>1. DOMAIN e = {1} /\ e[1] = q[i] /\ Len(e) = 1 /\ Len(<<>>) = 0
      OBVIOUS
    <3> HIDE DEF e
    <3> QED BY <2>2, <3>1, WritesOfSame
  <2> HIDE DEF a, b, e
  <2>6. a \o e \in Seq(Entry)
    BY <2>2
  <2>7. /\ Writes(q) = Writes(a \o e) \o Writes(b) /\ Writes(a \o e) = Writes(a) \o Writes(e)
        /\ Writes(b \o a) = Writes(b) \o Writes(a)
    BY <2>2, <2>3, <2>6, WritesOfConcat
  <2>8. /\ Len(Writes(q)) = Len(Writes(a \o e)) + Len(Writes(b))
        /\ Len(Writes(a \o e)) = Len(Writes(a)) + Len(Writes(e))
        /\ Len(Writes(b \o a)) = Len(Writes(b)) + Len(Writes(a))
    BY <1>1, <2>2, <2>6, <2>7, ConcatIsASeq
  <2> QED BY <1>1, <2>2, <2>4, <2>5, <2>8
<1>4. Len(<<>>) = 0
  OBVIOUS
<1> QED
  BY <1>1, <1>2, <1>3, <1>4, WritesOfNone

LEMMA NoneCounted ==
  ASSUME NEW q \in Seq(Entry)
  PROVE  Len(Writes(q)) = 0 <=> \A i \in DOMAIN q : ~IsWrite(q[i])
<1>1. ASSUME Len(Writes(q)) = 0, NEW i \in DOMAIN q PROVE ~IsWrite(q[i])
  <2>1. TurnedTo(q, i) \in Seq(Entry)
    BY TurnedAt DEF TurnedTo
  <2>2. Len(Writes(TurnedTo(q, i))) \in Nat
    BY <2>1, CountOf
  <2>3. Len(Writes(q)) = IF IsWrite(q[i]) THEN Len(Writes(TurnedTo(q, i))) + 1
                         ELSE Len(Writes(TurnedTo(q, i)))
    BY CountOf
  <2> DEFINE rest == Len(Writes(TurnedTo(q, i)))
  <2>4. ASSUME IsWrite(q[i]) PROVE FALSE
    <3> DEFINE all == Len(Writes(q))
    <3>1. all = rest + 1 /\ all = 0 /\ rest \in Nat
      BY <1>1, <2>2, <2>3, <2>4
    <3> HIDE DEF all, rest
    <3> QED BY <3>1
  <2> QED BY <2>4
<1>2. ASSUME \A i \in DOMAIN q : ~IsWrite(q[i]) PROVE Len(Writes(q)) = 0
  <2>1. Writes(q) = <<>>
    BY <1>2, WritesOfSame
  <2> QED BY <2>1
<1> QED
  BY <1>1, <1>2

-----------------------------------------------------------------------------
(* What the bench node reports as restored.                                 *)

\* What the device has stored is the write that the host waits for.
StoredHolds == stored => active # NoWrite /\ device[active.name] = active.n

Raw(i) == RawSettings[i][1]

\* A write of the setting waits or is at the device.
Under(f) == Has(queue, f) \/ (active # NoWrite /\ active.name = f)

\* The writes that the bench node has counted and not yet issued.
ToIssue ==
  IF pc = "write" THEN todo ELSE IF pc = "readback" THEN todo \ {NextToDo} ELSE {}

\* The device holds another value than before, and nothing is on the way to change that.
Astray ==
  {i \in DOMAIN RawSettings : /\ device[Raw(i)] # before[Raw(i)].n
                              /\ i \notin ToIssue /\ ~Under(Raw(i))}

\* Whatever is under way brings back what was before.
Restoring ==
  /\ \A f \in Settings : AllCarry(queue, f, before[f].n)
  /\ active # NoWrite => active.n = before[active.name].n

\* For each setting that went astray, one of the counted writes is not
\* acknowledged, nor pending, nor to be issued.
Tally   == Cardinality(Astray) + Pending + acks
Account == Tally + Cardinality(ToIssue) <= baseline.acks + written

Working == {"write", "readback", "ack"}

\* What the restore has come to, if nobody meddles and it was not misled.
Restores ==
  /\ pc = "current" => Pending = 0 /\ acks = baseline.acks
  /\ pc \in Working /\ timeouts = baseline.timeouts => Restoring /\ Account
  /\ pc = "ack" /\ fresh /\ diag.pending = 0 => Pending = 0 /\ diag.acks = acks /\ diag.timeouts = timeouts
  /\ pc = "settle" \/ restored = "true" => Pending = 0 /\ RawAsBefore

Trusted == phase = "restore" /\ baseline # NoCounters /\ ~meddled /\ misled = {}

Counts == [pending : Nat, acks : Nat, timeouts : Nat]

\* What holds whoever meddles.
ReportInv ==
  /\ pc \in {"idle", "sweep"} => phase = "raw"
  /\ pc \in {"settle", "settleUnconfirmed"} => phase = "restore"
  /\ phase \in {"raw", "restore"}
  /\ restored = "true" => pc = "done" /\ phase = "restore"
  /\ diag \in Counts /\ diag.timeouts <= timeouts
  /\ baseline \in Counts \cup {NoCounters}
  /\ baseline # NoCounters => baseline.timeouts <= timeouts
  /\ written \in Nat

Sound == SettingsInv /\ OneAtATime /\ StoredHolds /\ ReportInv

\* The sets of settings that are counted.
LEMMA RawSubset ==
  ASSUME NEW S \in SUBSET DOMAIN RawSettings, NEW T \in SUBSET DOMAIN RawSettings
  PROVE  /\ IsFiniteSet(S) /\ Cardinality(S) \in Nat
         /\ S \subseteq T => Cardinality(S) <= Cardinality(T)
         /\ \A k : S \subseteq T \cup {k} => Cardinality(S) <= Cardinality(T) + 1
<1>1. IsFiniteSet(DOMAIN RawSettings)
  <2>1. RawSettings \in Seq(Settings \X ParameterValue)
    BY CallsAssumption
  <2>2. DOMAIN RawSettings = 1..Len(RawSettings) /\ Len(RawSettings) \in Int /\ 1 \in Int
    BY <2>1
  <2> QED BY <2>2, FS_Interval
<1>2. IsFiniteSet(S) /\ IsFiniteSet(T)
  BY <1>1, FS_Subset
<1>3. Cardinality(S) \in Nat /\ Cardinality(T) \in Nat
  BY <1>2, FS_CardinalityType
<1>4. ASSUME NEW k, S \subseteq T \cup {k} PROVE Cardinality(S) <= Cardinality(T) + 1
  <2>1. IsFiniteSet(T \cup {k}) /\ Cardinality(T \cup {k}) <= Cardinality(T) + 1
    <3>1. /\ IsFiniteSet(T \cup {k})
          /\ Cardinality(T \cup {k}) = IF k \in T THEN Cardinality(T) ELSE Cardinality(T) + 1
      BY <1>2, FS_AddElement
    <3> QED BY <1>3, <3>1
  <2>2. Cardinality(S) <= Cardinality(T \cup {k}) /\ Cardinality(T \cup {k}) \in Nat
    BY <1>4, <2>1, FS_Subset, FS_CardinalityType
  <2> QED BY <1>3, <2>1, <2>2
<1>5. S \subseteq T => Cardinality(S) <= Cardinality(T)
  BY <1>2, FS_Subset
<1> QED
  BY <1>2, <1>3, <1>4, <1>5

\* RAW_MOTOR_SETTINGS names settings, each once.
LEMMA RawIsSetting ==
  ASSUME NEW i \in DOMAIN RawSettings
  PROVE  /\ Raw(i) \in Saved /\ Raw(i) \in Settings /\ Raw(i) \in Field
         /\ \A j \in DOMAIN RawSettings : Raw(i) = Raw(j) => i = j
<1>1. Raw(i) \in Saved
  BY CallsAssumption DEF Raw
<1> QED
  BY <1>1, SettingsAssumption, SettingIsField, RawAssumption DEF Raw

LEMMA TodoIsRaw ==
  ASSUME SettingsInv
  PROVE  /\ ToIssue \in SUBSET DOMAIN RawSettings /\ Astray \in SUBSET DOMAIN RawSettings
         /\ todo # {} => NextToDo \in todo
<1>1. RawSettings \in Seq(Settings \X ParameterValue)
  BY CallsAssumption
<1>2. ToIssue \subseteq todo /\ todo \subseteq DOMAIN RawSettings
  BY DEF ToIssue, SettingsInv, BenchInv
<1>3. todo # {} => NextToDo \in todo
  <2>1. todo \in SUBSET Nat
    BY <1>1, <1>2
  <2>2. todo # {} => \E i \in todo : \A j \in todo : i <= j
    BY <2>1, LeastIndex
  <2> QED BY <2>2 DEF NextToDo
<1> QED
  BY <1>2, <1>3 DEF Astray

\* Nothing is pending.
LEMMA PendingIs ==
  ASSUME SettingsInv
  PROVE  /\ Pending \in Nat /\ Len(Writes(queue)) \in Nat
         /\ active = NoWrite => Pending = Len(Writes(queue))
         /\ active # NoWrite => Pending = Len(Writes(queue)) + 1
         /\ Pending = 0 <=> (active = NoWrite /\ \A i \in DOMAIN queue : ~IsWrite(queue[i]))
<1>1. queue \in Seq(Entry)
  BY DEF SettingsInv, HostInv
<1>2. Len(Writes(queue)) \in Nat /\ (Len(Writes(queue)) = 0 <=> \A i \in DOMAIN queue : ~IsWrite(queue[i]))
  BY <1>1, CountOf, NoneCounted
<1> QED
  BY <1>2 DEF Pending

LEMMA PendingThen ==
  ASSUME SettingsInv'
  PROVE  /\ Pending' \in Nat /\ Len(Writes(queue')) \in Nat
         /\ active' = NoWrite => Pending' = Len(Writes(queue'))
         /\ active' # NoWrite => Pending' = Len(Writes(queue')) + 1
<1>1. queue' \in Seq(Entry)
  BY DEF SettingsInv, HostInv
<1>2. Len(Writes(queue')) \in Nat
  BY <1>1, CountOf
<1> QED
  BY <1>2 DEF Pending

-----------------------------------------------------------------------------
(* What holds whoever meddles.                                              *)

LEMMA StoredInit == Init => StoredHolds
BY DEF Init, StoredHolds

\* The device executes the write that is awaited, and none after it.
LEMMA StoredStep ==
  ASSUME "slow" \notin Faults, SettingsInv, OneAtATime, StoredHolds, [Next]_vars
  PROVE  StoredHolds'
<1>1. CASE UNCHANGED <<active, device, stored>>
  BY <1>1 DEF StoredHolds
<1>2. CASE stored' = FALSE
  BY <1>2 DEF StoredHolds
<1>3. CASE FwExecutes
  <2> DEFINE e == Head(toDevice)
  <2>1. toDevice \in Seq(Entry) /\ toDevice # <<>> /\ UNCHANGED active /\ Execute(e)
    BY <1>3 DEF FwExecutes, hostVars, SettingsInv, DeviceInv
  <2>2. e \in Entry /\ e = toDevice[1] /\ 1 \in DOMAIN toDevice
    BY <2>1, TailShifts
  <2> HIDE DEF e
  <2>3. CASE IsDump(e)
    BY <2>1, <2>3 DEF Execute, StoredHolds
  <2>4. CASE ~IsDump(e)
    <3>1. IsWrite(e) /\ e \in Writing /\ e.name \in Settings
      BY <2>2, <2>4 DEF Entry, Writing, Dump, IsDump, IsWrite
    <3>2. e = active
      BY <2>2, <3>1 DEF OneAtATime, CommandInv
    <3>3. device' = [device EXCEPT ![e.name] = e.n] /\ device \in [Settings -> Nat]
      BY <2>1, <2>4 DEF Execute, SettingsInv, DeviceInv
    <3>4. active # NoWrite
      BY <3>1, <3>2, NoWriteAssumption DEF Writing
    <3> QED BY <2>1, <3>1, <3>2, <3>3, <3>4 DEF StoredHolds
  <2> QED BY <2>3, <2>4
<1>4. CASE ReadLine
  <2>1. UNCHANGED <<active, device, stored>> \/ stored' = FALSE
    BY <1>4 DEF ReadLine, SyncParameters, Feedback, Settle
  <2> QED BY <1>1, <1>2, <2>1
<1>5. CASE WriteCycle
  BY <1>2, <1>5 DEF WriteCycle
<1>6. CASE Executor \/ PublishDiagnostics \/ BenchSteps \/ CommandIsLost \/ LineIsLost \/ UNCHANGED vars
  <2>1. UNCHANGED <<active, device, stored>>
    BY <1>6 DEF Executor, OperatorSets, SetHomeHere, LateSet, PeriodicRefresh, StopCall,
                PublishDiagnostics, BenchSteps, BenchSets, SetParameters, CommandIsLost, LineIsLost,
                hostVars, wireVars, vars
  <2> QED BY <1>1, <2>1
<1> QED
  BY <1>3, <1>4, <1>5, <1>6 DEF Next, Wire

LEMMA ReportInit == Init => ReportInv
BY DEF Init, ReportInv, Counts

\* The bench node and the counters change only so.
BenchKept == UNCHANGED <<pc, phase, before, todo, written, baseline, restored, diag, fresh, misled>>

LEMMA OthersKeepBench ==
  ASSUME [Next]_vars, ~BenchSteps, ~PublishDiagnostics
  PROVE  BenchKept
BY DEF Next, Executor, OperatorSets, OperatorCalls, SetHomeHere, LateSet, PeriodicRefresh, StopCall,
       WriteCycle, ReadLine, Wire, FwExecutes, CommandIsLost, LineIsLost, reportVars, benchVars,
       callVars, vars, BenchKept

LEMMA TimeoutsGrow ==
  ASSUME SettingsInv, [Next]_vars
  PROVE  timeouts' \in Nat /\ timeouts <= timeouts'
<1>0. timeouts \in Nat
  BY DEF SettingsInv, HostInv
<1>1. CASE WriteCycle
  BY <1>0, <1>1 DEF WriteCycle
<1>2. CASE ReadLine
  <2>1. UNCHANGED timeouts
    BY <1>2 DEF ReadLine, SyncParameters, Feedback, Settle
  <2> QED BY <1>0, <2>1
<1>3. CASE ~WriteCycle /\ ~ReadLine
  <2>1. UNCHANGED timeouts
    BY <1>3 DEF Next, Executor, OperatorSets, SetHomeHere, LateSet, SetParameters, PeriodicRefresh,
                StopCall, PublishDiagnostics, Wire, FwExecutes, CommandIsLost, LineIsLost,
                BenchSteps, BenchSets, hostVars, vars
  <2> QED BY <1>0, <2>1
<1> QED
  BY <1>1, <1>2, <1>3

LEMMA ReportStep ==
  ASSUME SettingsInv, SettingsInv', ReportInv, [Next]_vars
  PROVE  ReportInv'
<1>1. timeouts' \in Nat /\ timeouts \in Nat /\ timeouts <= timeouts'
  BY TimeoutsGrow DEF SettingsInv, HostInv
<1>2. CASE ~BenchSteps /\ ~PublishDiagnostics
  BY <1>1, <1>2, OthersKeepBench DEF BenchKept, ReportInv, Counts
<1>3. CASE PublishDiagnostics
  <2>1. acks \in Nat /\ Pending \in Nat /\ UNCHANGED timeouts
    BY <1>3, PendingIs DEF PublishDiagnostics, hostVars, SettingsInv, HostInv
  <2>2. diag' \in Counts /\ diag'.timeouts <= timeouts'
    BY <1>1, <1>3, <2>1 DEF PublishDiagnostics, Counters, Counts
  <2> QED BY <1>1, <1>3, <2>1, <2>2 DEF PublishDiagnostics, benchVars, ReportInv
<1>4. CASE BenchSteps
  <2>1. UNCHANGED <<diag, timeouts>>
    BY <1>4 DEF BenchSteps, BenchSets, SetParameters, hostVars, reportVars
  <2>2. CASE TakeBaseline
    <3>1. UNCHANGED <<phase, written, restored>> /\ pc = "baseline" /\ pc' = "current"
          /\ baseline' \in {diag, NoCounters}
      BY <2>2 DEF TakeBaseline
    <3>2. NoCounters \notin Counts
      BY NoCountersAssumption DEF Counts
    <3> QED BY <1>1, <2>1, <3>1, <3>2 DEF ReportInv
  <2>3. CASE CompareSettings
    <3>1. UNCHANGED <<phase, baseline, restored>> /\ pc = "current" /\ pc' = "write"
          /\ written' = Cardinality(todo')
      BY <2>3 DEF CompareSettings
    <3>2. todo' \in SUBSET DOMAIN RawSettings
      BY DEF SettingsInv, BenchInv
    <3>3. written' \in Nat
      BY <3>1, <3>2, RawSubset
    <3> QED BY <1>1, <2>1, <3>1, <3>3 DEF ReportInv
  <2>4. CASE ~TakeBaseline /\ ~CompareSettings
    <3>1. UNCHANGED <<baseline, written>>
      BY <1>4, <2>4 DEF BenchSteps, BenchSets, SaveSettings, ReadBack, Issued, WaitAcked,
                        SweepDrives, SweepEnds, CheckRestored
    <3>2. /\ pc' \in {"idle", "sweep"} => phase' = "raw"
          /\ pc' \in {"settle", "settleUnconfirmed"} => phase' = "restore"
          /\ phase' \in {"raw", "restore"}
          /\ restored' = "true" => pc' = "done" /\ phase' = "restore"
      <4>1. CASE BenchSets
        BY <4>1 DEF BenchSets, Raise, ReportInv
      <4>2. CASE SaveSettings \/ ReadBack \/ Issued
        BY <4>2 DEF SaveSettings, ReadBack, Raise, Issued, ReportInv
      <4>3. CASE WaitAcked
        BY <4>3 DEF WaitAcked, Acked, ReportInv
      <4>4. CASE SweepDrives \/ SweepEnds
        BY <4>4 DEF SweepDrives, SweepEnds, ReportInv
      <4>5. CASE CheckRestored
        <5>1. phase = "restore"
          BY <4>5 DEF CheckRestored, ReportInv
        <5> QED BY <4>5, <5>1 DEF CheckRestored, ReportInv
      <4> QED BY <1>4, <2>4, <4>1, <4>2, <4>3, <4>4, <4>5 DEF BenchSteps
    <3> QED BY <1>1, <2>1, <3>1, <3>2 DEF ReportInv
  <2> QED BY <2>2, <2>3, <2>4
<1> QED
  BY <1>2, <1>3, <1>4

-----------------------------------------------------------------------------
(* The steps of the others.                                                 *)

\* A step of another, after which every counted write is still accounted for.
LEMMA RestoresKept ==
  ASSUME Sound, Sound', Restores, Trusted, BenchKept, timeouts <= timeouts',
         Pending = 0 => Pending' = 0 /\ UNCHANGED <<acks, timeouts, device>>,
         timeouts' = timeouts /\ Restoring => Restoring' /\ Tally' <= Tally
  PROVE  Restores'
<1>1. /\ UNCHANGED <<pc, todo, before, written, baseline, restored, diag, fresh>>
      /\ UNCHANGED ToIssue
  BY DEF BenchKept, ToIssue, NextToDo
<1>2. ASSUME pc \in Working, timeouts' = baseline.timeouts PROVE Restoring' /\ Account'
  <2>1. timeouts' = timeouts
    BY <1>2 DEF Sound, SettingsInv, HostInv, ReportInv, Trusted, Counts
  <2>2. Restoring /\ Account
    BY <1>2, <2>1 DEF Restores
  <2>3. Restoring' /\ Tally' <= Tally
    BY <2>1, <2>2
  <2>4. /\ Tally \in Int /\ Tally' \in Int /\ Cardinality(ToIssue) \in Nat
        /\ baseline.acks + written \in Int
    <3>1. Cardinality(Astray) \in Nat /\ Cardinality(ToIssue) \in Nat
      BY TodoIsRaw, RawSubset DEF Sound
    <3>2. Cardinality(Astray') \in Nat
      <4>1. Astray' \in SUBSET DOMAIN RawSettings
        BY DEF Astray
      <4> QED BY <4>1, RawSubset
    <3>3. Pending \in Nat /\ Pending' \in Nat /\ acks \in Nat /\ acks' \in Nat
      BY PendingIs, PendingThen DEF Sound, SettingsInv, HostInv
    <3>4. baseline.acks \in Nat /\ written \in Nat
      BY DEF Sound, ReportInv, Trusted, Counts
    <3> QED BY <3>1, <3>2, <3>3, <3>4 DEF Tally
  <2>5. Tally' + Cardinality(ToIssue) <= baseline.acks + written
    BY <2>2, <2>3, <2>4 DEF Account
  <2> QED BY <1>1, <2>3, <2>5 DEF Account
<1>3. pc' = "current" => Pending' = 0 /\ acks' = baseline'.acks
  BY <1>1 DEF Restores
<1>4. pc' = "ack" /\ fresh' /\ diag'.pending = 0
        => Pending' = 0 /\ diag'.acks = acks' /\ diag'.timeouts = timeouts'
  BY <1>1 DEF Restores
<1>5. pc' = "settle" \/ restored' = "true" => Pending' = 0 /\ RawAsBefore'
  BY <1>1 DEF Restores, RawAsBefore
<1> QED
  BY <1>1, <1>2, <1>3, <1>4, <1>5 DEF Restores

\* Of the settings only those go astray that were under way or that the device changes.
LEMMA AstrayThen ==
  ASSUME SettingsInv, NEW K,
         UNCHANGED <<before, ToIssue>>,
         \A i \in DOMAIN RawSettings :
           /\ device'[Raw(i)] = device[Raw(i)] \/ device'[Raw(i)] = before[Raw(i)].n
           /\ Under(Raw(i)) /\ ~Under(Raw(i))' => i \in K \/ device'[Raw(i)] = before[Raw(i)].n
  PROVE  Astray' \subseteq Astray \cup K
BY DEF Astray

LEMMA SumsCompare ==
  ASSUME NEW c \in Nat, NEW p \in Nat, NEW a \in Nat,
         NEW d \in Nat, NEW q \in Nat, NEW b \in Nat,
         \/ d <= c /\ q + b <= p + a
         \/ d <= c + 1 /\ q + b + 1 <= p + a
  PROVE  d + q + b <= c + p + a
OBVIOUS

LEMMA TallyThen ==
  ASSUME SettingsInv, SettingsInv',
         \/ Astray' \subseteq Astray /\ Pending' + acks' <= Pending + acks
         \/ \E k : Astray' \subseteq Astray \cup {k} /\ Pending' + acks' + 1 <= Pending + acks
  PROVE  Tally' <= Tally
<1>1. Astray \in SUBSET DOMAIN RawSettings /\ Astray' \in SUBSET DOMAIN RawSettings
  BY DEF Astray
<1>2. Cardinality(Astray) \in Nat /\ Cardinality(Astray') \in Nat
  BY <1>1, RawSubset
<1>3. /\ Astray' \subseteq Astray => Cardinality(Astray') <= Cardinality(Astray)
      /\ \A k : Astray' \subseteq Astray \cup {k} => Cardinality(Astray') <= Cardinality(Astray) + 1
  BY <1>1, RawSubset
<1>4. Pending \in Nat /\ Pending' \in Nat /\ acks \in Nat /\ acks' \in Nat
  BY PendingIs, PendingThen DEF SettingsInv, HostInv
<1>5. \/ Cardinality(Astray') <= Cardinality(Astray) /\ Pending' + acks' <= Pending + acks
      \/ Cardinality(Astray') <= Cardinality(Astray) + 1 /\ Pending' + acks' + 1 <= Pending + acks
  BY <1>3
<1>6. Cardinality(Astray') + Pending' + acks' <= Cardinality(Astray) + Pending + acks
  BY <1>2, <1>4, <1>5, SumsCompare
<1>7. /\ Tally = Cardinality(Astray) + Pending + acks
      /\ Tally' = Cardinality(Astray') + Pending' + acks'
  BY DEF Tally
<1> QED
  BY <1>6, <1>7, Zenon

\* A step that moves no write.
LEMMA NoWriteMoved ==
  ASSUME Sound, Sound', Restores, Trusted, BenchKept,
         UNCHANGED <<active, acks, timeouts, device>>,
         queue' = queue \/ queue' = Append(queue, Dump)
  PROVE  Restores'
<1>1. queue \in Seq(Entry) /\ Dump \in Entry /\ ~IsWrite(Dump) /\ \A f : ~IsWriteOf(Dump, f)
  BY DEF Entry, Dump, IsWrite, IsWriteOf, Sound, SettingsInv, HostInv
<1>2. /\ Len(Writes(queue')) = Len(Writes(queue))
      /\ \A f, n : (Has(queue', f) <=> Has(queue, f)) /\ (AllCarry(queue', f, n) <=> AllCarry(queue, f, n))
  <2>1. CASE queue' = queue
    BY <2>1
  <2>2. CASE queue' = Append(queue, Dump)
    BY <1>1, <2>2, CountOf, Appended
  <2> QED BY <2>1, <2>2
<1>3. Pending' = Pending
  BY <1>2 DEF Pending
<1>4. Restoring => Restoring'
  BY <1>2 DEF BenchKept, Restoring
<1>5. \A f : Under(f)' <=> Under(f)
  BY <1>2 DEF Under
<1>6. Astray' \subseteq Astray
  <2>1. UNCHANGED <<before, ToIssue>>
    BY DEF BenchKept, ToIssue, NextToDo
  <2> QED BY <1>5, <2>1 DEF Astray
<1>7. Tally' <= Tally
  <2>1. Pending' + acks' <= Pending + acks
    BY <1>3, PendingIs DEF Sound, SettingsInv, HostInv
  <2> QED BY <1>6, <2>1, TallyThen DEF Sound
<1>8. timeouts <= timeouts'
  BY DEF Sound, SettingsInv, HostInv
<1> QED
  BY <1>3, <1>4, <1>7, <1>8, RestoresKept

\* An answer settles a write that the device has stored.
LEMMA WriteSettled ==
  ASSUME Sound, Sound', Restores, Trusted, BenchKept, Settle, stored,
         UNCHANGED <<timeouts, device>>, queue' = queue \/ queue' = Append(queue, Dump)
  PROVE  Restores'
<1>1. active # NoWrite /\ device[active.name] = active.n /\ active' = NoWrite /\ acks' = acks + 1
  BY DEF Sound, StoredHolds, Settle
<1>2. queue \in Seq(Entry) /\ Dump \in Entry /\ ~IsWrite(Dump) /\ \A f : ~IsWriteOf(Dump, f)
  BY DEF Entry, Dump, IsWrite, IsWriteOf, Sound, SettingsInv, HostInv
<1>3. /\ Len(Writes(queue')) = Len(Writes(queue))
      /\ \A f, n : (Has(queue', f) <=> Has(queue, f)) /\ (AllCarry(queue', f, n) <=> AllCarry(queue, f, n))
  <2>1. CASE queue' = queue
    BY <2>1
  <2>2. CASE queue' = Append(queue, Dump)
    BY <1>2, <2>2, CountOf, Appended
  <2> QED BY <2>1, <2>2
<1>4. Pending' + 1 = Pending /\ Pending # 0 /\ Pending \in Nat /\ acks \in Nat
  <2>1. Pending = Len(Writes(queue)) + 1 /\ Len(Writes(queue)) \in Nat
    BY <1>1, PendingIs DEF Sound
  <2>2. Pending' = Len(Writes(queue'))
    BY <1>1, PendingThen DEF Sound
  <2>3. acks \in Nat
    BY DEF Sound, SettingsInv, HostInv
  <2> QED BY <1>3, <2>1, <2>2, <2>3
<1>5. ASSUME Restoring PROVE Restoring' /\ Tally' <= Tally
  <2>1. Restoring'
    BY <1>1, <1>3, <1>5 DEF BenchKept, Restoring
  <2>2. active.n = before[active.name].n
    BY <1>1, <1>5 DEF Restoring
  <2>3. \A f : Under(f) /\ ~Under(f)' => f = active.name
    BY <1>1, <1>3 DEF Under
  <2>4. UNCHANGED <<before, ToIssue>>
    BY DEF BenchKept, ToIssue, NextToDo
  <2>5. \A i \in DOMAIN RawSettings :
          Under(Raw(i)) /\ ~Under(Raw(i))' => device'[Raw(i)] = before[Raw(i)].n
    BY <1>1, <2>2, <2>3
  <2>6. Astray' \subseteq Astray
    BY <2>4, <2>5 DEF Astray
  <2>7. Pending' + acks' <= Pending + acks
    <3> DEFINE p == Pending
               q == Pending'
    <3>1. q \in Nat /\ q + 1 = p /\ acks' = acks + 1 /\ acks \in Nat
      BY <1>1, <1>4, PendingThen DEF Sound
    <3> HIDE DEF p, q
    <3>2. q + acks' <= p + acks
      BY <3>1
    <3> QED BY <3>2 DEF p, q
  <2> QED BY <2>1, <2>6, <2>7, TallyThen DEF Sound
<1>6. timeouts <= timeouts'
  BY DEF Sound, SettingsInv, HostInv
<1> QED
  BY <1>4, <1>5, <1>6, RestoresKept

\* One write(): a write is sent, or it is lost, or the one before is given up.
LEMMA WriteCycled ==
  ASSUME "slow" \notin Faults, Sound, Sound', Restores, Trusted, BenchKept, WriteCycle
  PROVE  Restores'
<1>1. PICK expired \in BOOLEAN :
        /\ expired => AckExpired
        /\ Free(expired)
        /\ timeouts' = IF expired THEN timeouts + 1 ELSE timeouts
        /\ SendNext
  BY DEF WriteCycle
<1>2. UNCHANGED <<acks, device>> /\ timeouts \in Nat
  BY DEF WriteCycle, Sound, SettingsInv, HostInv
<1>3. CASE expired
  <2>1. active # NoWrite /\ timeouts' = timeouts + 1
    BY <1>1, <1>3 DEF AckExpired
  <2>2. Pending # 0
    BY <2>1, PendingIs DEF Sound
  <2>3. timeouts <= timeouts' /\ timeouts' # timeouts
    BY <1>2, <2>1
  <2> QED BY <2>2, <2>3, RestoresKept
<1>4. CASE ~expired
  <2>1. active = NoWrite /\ UNCHANGED timeouts
    BY <1>1, <1>4 DEF Free
  <2>2. CASE SendableAt = {}
    <3>1. UNCHANGED queue /\ active' = NoWrite
      BY <1>1, <2>2 DEF SendNext
    <3> QED BY <1>2, <2>1, <3>1, NoWriteMoved
  <2>3. CASE SendableAt # {}
    <3> DEFINE i == CHOOSE j \in SendableAt : \A k \in SendableAt : j <= k
               e == queue[i]
    <3>1. queue \in Seq(Entry) /\ SendableAt \in SUBSET Nat
      BY DEF Sound, SettingsInv, HostInv, SendableAt
    <3>2. \E j \in SendableAt : \A k \in SendableAt : j <= k
      BY <2>3, <3>1, LeastIndex
    <3>3. i \in SendableAt
      BY <3>2
    <3>4. queue' = TurnedTo(queue, i) /\ Send(e)
      BY <1>1, <2>3 DEF SendNext, TurnedTo
    <3> HIDE DEF i
    <3>5. i \in DOMAIN queue /\ e \in Entry
      BY <3>1, <3>3 DEF SendableAt
    <3>6. /\ \A f, n : /\ Has(queue, f) <=> (IsWriteOf(e, f) \/ Has(queue', f))
                       /\ AllCarry(queue, f, n) => AllCarry(queue', f, n)
          /\ Len(Writes(queue)) = IF IsWrite(e) THEN Len(Writes(queue')) + 1 ELSE Len(Writes(queue'))
      BY <3>1, <3>4, <3>5, TurnedWrites, CountOf
    <3>7. Pending = Len(Writes(queue)) /\ Len(Writes(queue')) \in Nat
      BY <2>1, PendingIs, PendingThen DEF Sound
    <3>8. IsWrite(e) => e \in Writing /\ e # NoWrite /\ e.name \in Settings
      BY <3>5, NoWriteAssumption DEF Entry, Dump, IsWrite, Writing
    <3>9. \A f : IsWriteOf(e, f) => IsWrite(e) /\ f = e.name
      BY DEF IsWriteOf
    <3>10. Restoring => \A f \in Settings : AllCarry(queue', f, before'[f].n)
      BY <3>6 DEF Restoring, BenchKept
    <3>11. UNCHANGED <<before, ToIssue>>
      BY DEF BenchKept, ToIssue, NextToDo
    <3>12. timeouts <= timeouts'
      BY <1>2, <2>1
    <3>13. CASE IsWrite(e) /\ active' = e
      <4>1. Pending' = Pending /\ Pending # 0
        <5>1. Pending' = Len(Writes(queue')) + 1
          BY <3>8, <3>13, PendingThen DEF Sound
        <5> QED BY <3>6, <3>7, <3>13, <5>1
      <4>2. Restoring => e.n = before[e.name].n
        BY <3>5, <3>8, <3>13 DEF Restoring, AllCarry, IsWriteOf
      <4>3. Restoring => Restoring'
        BY <3>10, <3>11, <3>13, <4>2 DEF Restoring
      <4>4. \A f : Under(f) => Under(f)'
        BY <2>1, <3>6, <3>8, <3>9, <3>13 DEF Under
      <4>5. Astray' \subseteq Astray
        BY <1>2, <3>11, <4>4 DEF Astray
      <4>6. Tally' <= Tally
        <5>1. Pending' + acks' <= Pending + acks
          BY <1>2, <4>1, PendingIs DEF Sound, SettingsInv, HostInv
        <5> QED BY <4>5, <5>1, TallyThen DEF Sound
      <4> QED BY <3>12, <4>1, <4>3, <4>6, RestoresKept
    <3>14. CASE IsWrite(e) /\ active' = NoWrite
      <4>1. Pending' + 1 = Pending /\ Pending # 0
        <5>1. Pending' = Len(Writes(queue'))
          BY <3>14, PendingThen DEF Sound
        <5> QED BY <3>6, <3>7, <3>14, <5>1
      <4>2. Restoring => Restoring'
        BY <3>10, <3>14 DEF Restoring
      <4>3. \A f : Under(f) /\ ~Under(f)' => f = e.name
        BY <2>1, <3>6, <3>9 DEF Under
      <4>4. \E k : Astray' \subseteq Astray \cup {k}
        <5> DEFINE k == CHOOSE j \in DOMAIN RawSettings : Raw(j) = e.name
        <5>1. ASSUME NEW j \in DOMAIN RawSettings, Raw(j) = e.name PROVE j = k
          <6>1. k \in DOMAIN RawSettings /\ Raw(k) = e.name
            BY <5>1
          <6> QED BY <5>1, <6>1, RawIsSetting
        <5> HIDE DEF k
        <5>2. Astray' \subseteq Astray \cup {k}
          BY <1>2, <3>11, <4>3, <5>1 DEF Astray
        <5> QED BY <5>2
      <4>5. Tally' <= Tally
        <5>1. Pending' + acks' + 1 <= Pending + acks
          <6> DEFINE p == Pending
                     q == Pending'
          <6>1. q \in Nat /\ q + 1 = p /\ acks' = acks /\ acks \in Nat
            BY <1>2, <4>1, PendingThen DEF Sound, SettingsInv, HostInv
          <6> HIDE DEF p, q
          <6>2. q + acks' + 1 <= p + acks
            BY <6>1
          <6> QED BY <6>2 DEF p, q
        <5> QED BY <4>4, <5>1, TallyThen DEF Sound
      <4> QED BY <3>12, <4>1, <4>2, <4>5, RestoresKept
    <3>15. CASE ~IsWrite(e) /\ active' = NoWrite
      <4>1. Pending' = Pending
        <5>1. Pending' = Len(Writes(queue'))
          BY <3>15, PendingThen DEF Sound
        <5> QED BY <3>6, <3>7, <3>15, <5>1
      <4>2. Restoring => Restoring'
        BY <3>10, <3>15 DEF Restoring
      <4>3. \A f : Under(f) => Under(f)'
        BY <2>1, <3>6, <3>9, <3>15 DEF Under
      <4>4. Astray' \subseteq Astray
        BY <1>2, <3>11, <4>3 DEF Astray
      <4>5. Tally' <= Tally
        <5>1. Pending' + acks' <= Pending + acks
          BY <1>2, <4>1, PendingIs DEF Sound, SettingsInv, HostInv
        <5> QED BY <4>4, <5>1, TallyThen DEF Sound
      <4> QED BY <1>2, <2>1, <3>12, <4>1, <4>2, <4>5, RestoresKept
    <3> QED BY <3>4, <3>13, <3>14, <3>15 DEF Send
  <2> QED BY <2>2, <2>3
<1> QED
  BY <1>3, <1>4

\* The device stores what was before.
LEMMA CommandExecuted ==
  ASSUME Sound, Sound', Restores, Trusted, BenchKept, FwExecutes
  PROVE  Restores'
<1> DEFINE e == Head(toDevice)
<1>1. /\ toDevice \in Seq(Entry) /\ toDevice # <<>> /\ Execute(e)
      /\ UNCHANGED <<queue, active, acks, timeouts>>
  BY DEF FwExecutes, hostVars, Sound, SettingsInv, DeviceInv
<1>2. e \in Entry /\ e = toDevice[1] /\ 1 \in DOMAIN toDevice
  BY <1>1, TailShifts
<1> HIDE DEF e
<1>3. CASE IsDump(e)
  <2>1. UNCHANGED device
    BY <1>1, <1>3 DEF Execute
  <2> QED BY <1>1, <2>1, NoWriteMoved
<1>4. CASE ~IsDump(e)
  <2>1. IsWrite(e) /\ e \in Writing /\ e.name \in Settings
    BY <1>2, <1>4 DEF Entry, Writing, Dump, IsDump, IsWrite
  <2>2. e = active /\ active # NoWrite
    <3>1. e = active
      BY <1>2, <2>1 DEF Sound, OneAtATime, CommandInv
    <3> QED BY <2>1, <3>1, NoWriteAssumption DEF Writing
  <2>3. device' = [device EXCEPT ![e.name] = e.n] /\ device \in [Settings -> Nat]
    BY <1>1, <1>4 DEF Execute, Sound, SettingsInv, DeviceInv
  <2>4. Pending' = Pending /\ Pending # 0
    <3>1. Pending' = Pending
      BY <1>1 DEF Pending
    <3> QED BY <2>2, <3>1, PendingIs DEF Sound
  <2>5. ASSUME Restoring PROVE Restoring' /\ Tally' <= Tally
    <3>1. Restoring'
      BY <1>1, <2>5 DEF BenchKept, Restoring
    <3>2. e.n = before[e.name].n
      BY <2>2, <2>5 DEF Restoring
    <3>3. \A i \in DOMAIN RawSettings :
            device'[Raw(i)] = device[Raw(i)] \/ device'[Raw(i)] = before[Raw(i)].n
      BY <2>1, <2>3, <3>2, RawIsSetting
    <3>4. UNCHANGED <<before, ToIssue>> /\ \A f : Under(f)' <=> Under(f)
      BY <1>1 DEF BenchKept, ToIssue, NextToDo, Under
    <3>5. Astray' \subseteq Astray
      BY <3>3, <3>4 DEF Astray
    <3>6. Pending' + acks' <= Pending + acks
      BY <1>1, <2>4, PendingIs DEF Sound, SettingsInv, HostInv
    <3> QED BY <3>1, <3>5, <3>6, TallyThen DEF Sound
  <2>6. timeouts <= timeouts'
    BY <1>1 DEF Sound, SettingsInv, HostInv
  <2> QED BY <2>4, <2>5, <2>6, RestoresKept
<1> QED
  BY <1>3, <1>4

LEMMA LineRead ==
  ASSUME Sound, Sound', Restores, Trusted, BenchKept, ReadLine
  PROVE  Restores'
<1> DEFINE line == Head(toHost)
<1>1. /\ toHost # <<>> /\ UNCHANGED device
      /\ IF IsDump(line) THEN SyncParameters(line.texts) ELSE Feedback(line.kind)
  BY DEF ReadLine
<1>2. line = toHost[1] /\ 1 \in DOMAIN toHost
  BY <1>1, TailShifts DEF Sound, OneAtATime
<1> HIDE DEF line
<1>3. CASE UNCHANGED <<queue, active, acks, timeouts>>
  BY <1>1, <1>3, NoWriteMoved
<1>4. CASE ~IsDump(line) /\ Settle /\ (queue' = queue \/ queue' = Append(queue, Dump))
  <2>1. stored
    BY <1>2, <1>4 DEF Sound, OneAtATime, AnswerInv
  <2>2. UNCHANGED timeouts
    BY <1>4 DEF Settle
  <2> QED BY <1>1, <1>4, <2>1, <2>2, WriteSettled
<1> QED
  BY <1>1, <1>3, <1>4 DEF SyncParameters, Feedback

LEMMA CountersPublished ==
  ASSUME Sound, Sound', Restores, PublishDiagnostics
  PROVE  Restores'
<1>1. /\ UNCHANGED <<queue, active, acks, timeouts, device>>
      /\ UNCHANGED <<pc, before, todo, written, baseline, restored>> /\ diag' = Counters
  BY DEF PublishDiagnostics, hostVars, wireVars, benchVars
<1>2. UNCHANGED <<Pending, ToIssue>> /\ \A f : Under(f)' <=> Under(f)
  BY <1>1 DEF Pending, ToIssue, NextToDo, Under
<1>3. UNCHANGED Astray
  BY <1>1, <1>2 DEF Astray
<1>4. (Restoring' <=> Restoring) /\ (Account' <=> Account) /\ (RawAsBefore' <=> RawAsBefore)
  BY <1>1, <1>2, <1>3 DEF Restoring, Account, Tally, RawAsBefore
<1>5. /\ diag'.pending = Pending /\ diag'.acks = acks /\ diag'.timeouts = timeouts
  BY <1>1 DEF Counters
<1> QED
  BY <1>1, <1>2, <1>4, <1>5 DEF Restores

LEMMA OthersRestore ==
  ASSUME "slow" \notin Faults, Sound, Sound', Restores, Trusted, Trusted', [Next]_vars, ~BenchSteps
  PROVE  Restores'
<1>1. CASE PublishDiagnostics
  BY <1>1, CountersPublished
<1>2. CASE ~PublishDiagnostics
  <2>1. BenchKept
    BY <1>2, OthersKeepBench
  <2>2. CASE OperatorSets \/ SetHomeHere \/ (LateSet /\ meddled')
    <3>1. meddled'
      BY <2>2 DEF OperatorSets, SetHomeHere, OperatorCalls, Trusted, Sound, ReportInv
    <3> QED BY <3>1 DEF Trusted
  <2>3. CASE \/ LateSet /\ ~meddled'
             \/ PeriodicRefresh
             \/ StopCall
             \/ CommandIsLost
             \/ LineIsLost
             \/ UNCHANGED vars
    <3>1. /\ UNCHANGED <<active, acks, timeouts, device>>
          /\ queue' = queue \/ queue' = Append(queue, Dump)
      BY <2>3 DEF LateSet, PeriodicRefresh, StopCall, CommandIsLost, LineIsLost, hostVars, wireVars,
                  vars
    <3> QED BY <2>1, <3>1, NoWriteMoved
  <2> QED
    BY <1>2, <2>1, <2>2, <2>3, WriteCycled, LineRead, CommandExecuted DEF Next, Executor, Wire
<1> QED
  BY <1>1, <1>2

-----------------------------------------------------------------------------
(* The steps of the bench node.                                             *)

LEMMA RaiseEnds ==
  ASSUME Sound, Raise, pc \in {"write", "readback"}
  PROVE  Restores'
<1>1. restored # "true" /\ phase \in {"raw", "restore"}
  BY DEF Sound, ReportInv
<1>2. pc' \in {"baseline", "done"} /\ restored' # "true"
  BY <1>1 DEF Raise
<1> QED
  BY <1>2 DEF Restores, Working

\* The comparison finds every setting that the device does not hold as before.
LEMMA ComparedRight ==
  ASSUME Sound, Sound', Restores, Trusted, Trusted', CompareSettings,
         UNCHANGED <<queue, active, acks, timeouts, device>>
  PROVE  Restores'
<1>1. /\ pc = "current" /\ pc' = "write" /\ UNCHANGED <<before, baseline, restored>>
      /\ todo' = {i \in DOMAIN Desired : param[Desired[i][1]] # Desired[i][2]}
      /\ written' = Cardinality(todo')
      /\ ~\E i \in DOMAIN RawSettings : ShownWrongly(Raw(i))
  BY DEF CompareSettings, Trusted, Raw
<1>2. Pending = 0 /\ acks = baseline.acks /\ restored # "true"
  BY <1>1 DEF Restores, Sound, ReportInv
<1>3. active = NoWrite /\ \A i \in DOMAIN queue : ~IsWrite(queue[i])
  BY <1>2, PendingIs DEF Sound
<1>4. Restoring'
  BY <1>1, <1>3 DEF Restoring, AllCarry, IsWriteOf
<1>5. Astray' = {}
  <2>1. ASSUME NEW i \in DOMAIN RawSettings, device[Raw(i)] # before[Raw(i)].n PROVE i \in todo'
    <3>1. param[Raw(i)] # before[Raw(i)]
      BY <1>1, <2>1 DEF ShownWrongly
    <3>2. i \in DOMAIN Desired /\ Desired[i] = <<Raw(i), before[Raw(i)]>>
      BY DEF Desired, Trusted, Raw
    <3> QED BY <1>1, <3>1, <3>2
  <2>2. ToIssue' = todo'
    BY <1>1 DEF ToIssue
  <2> QED BY <1>1, <2>1, <2>2 DEF Astray
<1>6. Account'
  <2>1. Cardinality(Astray') = 0
    BY <1>5, FS_EmptySet
  <2>2. Pending' = 0
    BY <1>2 DEF Pending
  <2>3. Tally' = 0 + 0 + acks
    BY <2>1, <2>2 DEF Tally
  <2>4. ToIssue' = todo'
    BY <1>1 DEF ToIssue
  <2>5. todo' \in SUBSET DOMAIN RawSettings
    BY DEF Sound, SettingsInv, BenchInv
  <2>6. Cardinality(todo') \in Nat /\ acks \in Nat
    BY <2>5, RawSubset DEF Sound, SettingsInv, HostInv
  <2> QED BY <1>1, <1>2, <2>3, <2>4, <2>6 DEF Account
<1> QED
  BY <1>1, <1>2, <1>4, <1>6 DEF Restores

\* A call that sets one parameter.
LEMMA OneIsSet ==
  ASSUME SettingsInv, SettingsInv', NEW w, <<w>> \in Seq(Settings \X ParameterValue), SetParameters(<<w>>)
  PROVE  /\ queue' = Append(queue, Write(w[1], w[2].n))
         /\ Write(w[1], w[2].n) \in Entry
         /\ \A f \in Settings : param'[f] = IF f = w[1] THEN w[2] ELSE param[f]
<1> DEFINE call == <<w>>
           e == Write(w[1], w[2].n)
<1>1. DOMAIN call = {1} /\ call[1] = w /\ Len(call) = 1
  OBVIOUS
<1>2. call \in Seq(Settings \X ParameterValue) /\ SetParameters(call)
  OBVIOUS
<1> HIDE DEF call
<1>3. queue' = Append(queue, e)
  <2>1. [i \in DOMAIN call |-> Write(call[i][1], call[i][2].n)] = <<e>>
    <3> HIDE DEF e
    <3>1. [i \in {1} |-> e] = <<e>>
      OBVIOUS
    <3>2. \A i \in DOMAIN call : Write(call[i][1], call[i][2].n) = e
      BY <1>1 DEF e
    <3> QED BY <1>1, <3>1, <3>2
  <2>2. queue' = queue \o <<e>>
    BY <1>2, <2>1 DEF SetParameters
  <2> HIDE DEF e
  <2>3. queue \in Seq(Entry)
    BY DEF SettingsInv, HostInv
  <2> QED BY <2>2, <2>3, AppendIsConcat
<1>4. e \in Entry
  <2>1. Len(queue) + 1 \in DOMAIN queue' /\ queue'[Len(queue) + 1] = e
    <3> HIDE DEF e
    <3> QED BY <1>3 DEF SettingsInv, HostInv
  <2> QED BY <2>1 DEF SettingsInv, HostInv
<1>5. ASSUME NEW f \in Settings PROVE param'[f] = IF f = w[1] THEN w[2] ELSE param[f]
  <2>1. param'[f] = IF \E i \in DOMAIN call : IsLast(call, i, f)
                    THEN call[CHOOSE i \in DOMAIN call : IsLast(call, i, f)][2] ELSE param[f]
    BY <1>2 DEF SetParameters
  <2>2. \A i \in DOMAIN call : IsLast(call, i, f) <=> f = w[1]
    <3>1. \A j \in (1 + 1)..Len(call) : FALSE
      BY <1>1
    <3> QED BY <1>1, <3>1 DEF IsLast
  <2> QED BY <1>1, <2>1, <2>2
<1> QED
  BY <1>3, <1>4, <1>5 DEF e

\* The sum that stays the same when one more write is issued.
LEMMA OneMoreIssued ==
  ASSUME NEW c \in Nat, NEW d \in Nat, NEW p \in Nat, NEW q \in Nat, NEW a \in Nat, NEW m \in Nat,
         NEW r \in Int, NEW b \in Nat, NEW w \in Nat,
         d <= c, q = p + 1, r = m - 1, c + p + a + m <= b + w
  PROVE  d + q + a + r <= b + w
OBVIOUS

\* One counted write less to issue, one more pending.
LEMMA WriteIssued ==
  ASSUME Sound, Sound', Restores, Trusted, SetParameters(<<ToWrite>>),
         pc = "write", todo # {}, pc' = "readback",
         UNCHANGED <<device, phase, before, todo, written, baseline, restored>>
  PROVE  Restores'
<1> DEFINE k == NextToDo
           w == Write(ToWrite[1], ToWrite[2].n)
<1>1. k \in todo /\ k \in DOMAIN RawSettings /\ todo \in SUBSET DOMAIN RawSettings
  BY TodoIsRaw DEF Sound, SettingsInv, BenchInv
<1>2. ToWrite = <<Raw(k), before[Raw(k)]>>
  BY <1>1 DEF ToWrite, Desired, Trusted, Raw
<1>3. <<ToWrite>> \in Seq(Settings \X ParameterValue)
  BY ToWriteIsCall DEF Sound, SettingsInv
<1>4. /\ queue' = Append(queue, w) /\ w \in Entry /\ queue \in Seq(Entry)
      /\ UNCHANGED <<active, acks, timeouts>>
  BY <1>3, OneIsSet DEF Sound, SettingsInv, HostInv, SetParameters
<1>5. w.name = Raw(k) /\ w.n = before[Raw(k)].n /\ IsWrite(w)
  BY <1>2 DEF Write, IsWrite
<1>6. ToIssue = todo /\ ToIssue' = todo \ {k}
  BY DEF ToIssue, NextToDo
<1>7. restored' # "true"
  BY DEF Sound, ReportInv
<1> HIDE DEF k, w
<1>8. /\ Len(Writes(queue')) = Len(Writes(queue)) + 1
      /\ \A f, n : /\ Has(queue', f) <=> (Has(queue, f) \/ IsWriteOf(w, f))
                   /\ AllCarry(queue', f, n) <=> (AllCarry(queue, f, n) /\ (IsWriteOf(w, f) => w.n = n))
  BY <1>4, <1>5, CountOf, Appended
<1>9. ASSUME timeouts = baseline.timeouts PROVE Restoring' /\ Account'
  <2>1. Restoring /\ Account
    BY <1>9 DEF Restores, Working
  <2>2. Restoring'
    BY <1>4, <1>5, <1>8, <2>1 DEF Restoring, IsWriteOf
  <2>3. Astray' \subseteq Astray
    <3>1. SUFFICES ASSUME NEW i \in DOMAIN RawSettings, i \in Astray' PROVE i \in Astray
      BY DEF Astray
    <3>2. i \notin ToIssue' /\ ~Under(Raw(i))'
      BY <3>1 DEF Astray
    <3>3. ~Under(Raw(i)) /\ ~IsWriteOf(w, Raw(i))
      <4>1. \A f : (Under(f) \/ IsWriteOf(w, f)) => Under(f)'
        BY <1>4, <1>8 DEF Under
      <4> QED BY <3>2, <4>1
    <3>4. i # k
      BY <1>5, <3>3 DEF IsWriteOf
    <3> QED BY <1>6, <3>1, <3>2, <3>3, <3>4 DEF Astray
  <2>4. Cardinality(Astray') <= Cardinality(Astray) /\ Cardinality(Astray) \in Nat /\ Cardinality(Astray') \in Nat
    <3>1. Astray \in SUBSET DOMAIN RawSettings /\ Astray' \in SUBSET DOMAIN RawSettings
      BY DEF Astray
    <3> QED BY <2>3, <3>1, RawSubset
  <2>5. Cardinality(todo) \in Nat /\ Cardinality(todo \ {k}) = Cardinality(todo) - 1
    <3>1. IsFiniteSet(todo) /\ Cardinality(todo) \in Nat
      BY <1>1, RawSubset
    <3> QED BY <1>1, <3>1, FS_RemoveElement
  <2>6. Pending' = Pending + 1 /\ Pending \in Nat
    <3>1. Pending \in Nat /\ Len(Writes(queue)) \in Nat
      BY PendingIs DEF Sound
    <3> QED BY <1>4, <1>8, <3>1 DEF Pending
  <2>7. acks \in Nat /\ baseline.acks \in Nat /\ written \in Nat
    BY DEF Sound, SettingsInv, HostInv, ReportInv, Trusted, Counts
  <2>8. Cardinality(Astray) + Pending + acks + Cardinality(todo) <= baseline.acks + written
    BY <1>6, <2>1 DEF Account, Tally
  <2>9. Cardinality(Astray') + Pending' + acks + Cardinality(todo \ {k}) <= baseline.acks + written
    BY <2>4, <2>5, <2>6, <2>7, <2>8, OneMoreIssued
  <2>10. Account'
    BY <1>4, <1>6, <2>9 DEF Account, Tally
  <2> QED BY <2>2, <2>10
<1> QED
  BY <1>4, <1>7, <1>9 DEF Restores, Working

LEMMA SettingWritten ==
  ASSUME Sound, Sound', Trusted => Restores, Trusted', BenchSets
  PROVE  Restores'
<1>1. pc = "write" /\ todo # {} /\ UNCHANGED <<device, before, written, baseline, misled, meddled>>
  BY DEF BenchSets, wireVars, callVars
<1>2. CASE Raise
  BY <1>1, <1>2, RaiseEnds
<1>3. CASE SetParameters(<<ToWrite>>) /\ pc' = "readback" /\ UNCHANGED <<phase, restored, todo>>
  BY <1>1, <1>3, WriteIssued DEF Trusted
<1> QED
  BY <1>2, <1>3 DEF BenchSets

\* The bench node goes on, and nothing else changes.
LEMMA BenchGoesOn ==
  ASSUME Sound, Sound', Restores, Trusted,
         UNCHANGED <<queue, active, acks, timeouts, device, before, written, baseline, restored>>,
         ToIssue' = ToIssue,
         \/ pc \in {"write", "readback"} /\ pc' = "write"
         \/ pc = "write" /\ pc' = "ack" /\ fresh' = FALSE
  PROVE  Restores'
<1>1. UNCHANGED Pending /\ \A f : Under(f)' <=> Under(f)
  BY DEF Pending, Under
<1>2. UNCHANGED Astray
  BY <1>1 DEF Astray
<1>3. (Restoring' <=> Restoring) /\ (Account' <=> Account)
  BY <1>1, <1>2 DEF Restoring, Account, Tally
<1>4. restored' # "true"
  BY DEF Sound, ReportInv
<1> QED
  BY <1>3, <1>4 DEF Restores, Working

\* What is acknowledged in full has arrived in full.
LEMMA AllAcknowledged ==
  ASSUME Sound, Restores, Trusted, pc = "ack", fresh, AckState = "acked"
  PROVE  Pending = 0 /\ RawAsBefore
<1>1. /\ diag.timeouts = baseline.timeouts /\ diag.pending = 0
      /\ diag.acks - baseline.acks >= written
  BY DEF AckState
<1>2. Pending = 0 /\ diag.acks = acks /\ timeouts = baseline.timeouts
  BY <1>1 DEF Restores
<1>3. Account /\ ToIssue = {}
  BY <1>2 DEF Restores, Working, ToIssue
<1>4. Astray \in SUBSET DOMAIN RawSettings
  BY DEF Astray
<1>5. IsFiniteSet(Astray) /\ Cardinality(Astray) \in Nat
  BY <1>4, RawSubset
<1>6. acks \in Nat /\ baseline.acks \in Nat /\ written \in Nat
  BY DEF Sound, SettingsInv, HostInv, ReportInv, Trusted, Counts
<1>7. Cardinality(ToIssue) = 0
  BY <1>3, FS_EmptySet
<1>8. Cardinality(Astray) + 0 + acks + 0 <= baseline.acks + written
  BY <1>2, <1>3, <1>7 DEF Account, Tally
<1>9. Cardinality(Astray) = 0
  BY <1>1, <1>2, <1>5, <1>6, <1>8
<1>10. Astray = {}
  BY <1>5, <1>9, FS_EmptySet
<1>11. active = NoWrite /\ \A i \in DOMAIN queue : ~IsWrite(queue[i])
  BY <1>2, PendingIs DEF Sound
<1>12. \A f : ~Under(f)
  BY <1>11 DEF Under, Has, IsWriteOf
<1>13. RawAsBefore
  BY <1>3, <1>10, <1>12 DEF Astray, RawAsBefore, Raw
<1> QED
  BY <1>2, <1>13

LEMMA BenchRestores ==
  ASSUME Sound, Sound', Trusted => Restores, Trusted', BenchSteps
  PROVE  Restores'
<1>1. CASE BenchSets
  BY <1>1, SettingWritten
<1>2. CASE ~BenchSets
  <2>1. UNCHANGED <<queue, active, acks, timeouts, device, diag, meddled>>
    BY <1>2 DEF BenchSteps, wireVars
  <2>2. UNCHANGED Pending
    BY <2>1 DEF Pending
  <2>3. CASE SaveSettings
    BY <2>3 DEF SaveSettings, Trusted, Sound, ReportInv
  <2>4. CASE TakeBaseline
    <3>1. /\ pc = "baseline" /\ pc' = "current" /\ UNCHANGED restored
          /\ baseline' = diag /\ Pending = 0 /\ diag.acks = acks
      BY <2>4 DEF TakeBaseline, Trusted
    <3>2. restored' # "true"
      BY <3>1 DEF Sound, ReportInv
    <3> QED BY <2>1, <2>2, <3>1, <3>2 DEF Restores, Working
  <2>5. CASE CompareSettings
    <3>1. Trusted
      BY <2>1, <2>5 DEF CompareSettings, Trusted
    <3> QED BY <2>1, <2>5, <3>1, ComparedRight
  <2>6. CASE SaveSettings \/ ReadBack \/ Issued \/ WaitAcked \/ SweepDrives \/ SweepEnds \/ CheckRestored
    <3>0. UNCHANGED misled
      BY <1>2, <2>6 DEF BenchSteps, TakeBaseline, CompareSettings, SaveSettings, ReadBack, Issued,
                        WaitAcked, SweepDrives, SweepEnds, CheckRestored
    <3>1. CASE ReadBack
      <4>1. pc = "readback" /\ UNCHANGED <<before, written, baseline>>
        BY <3>1 DEF ReadBack
      <4>2. CASE Raise
        BY <4>1, <4>2, RaiseEnds
      <4>3. CASE todo' = todo \ {NextToDo} /\ pc' = "write" /\ UNCHANGED <<phase, restored>>
        <5>1. ToIssue' = ToIssue
          BY <4>1, <4>3 DEF ToIssue
        <5>2. Trusted
          BY <2>1, <3>0, <4>1, <4>3 DEF Trusted
        <5> QED BY <2>1, <4>1, <4>3, <5>1, <5>2, BenchGoesOn
      <4> QED BY <3>1, <4>2, <4>3 DEF ReadBack
    <3>2. CASE Issued
      <4>1. /\ pc = "write" /\ pc' = "ack" /\ fresh' = FALSE /\ todo = {}
            /\ UNCHANGED <<phase, before, written, baseline, restored>>
        BY <3>2 DEF Issued
      <4>2. ToIssue' = ToIssue /\ Trusted
        BY <2>1, <3>0, <4>1 DEF ToIssue, Trusted
      <4> QED BY <2>1, <4>1, <4>2, BenchGoesOn
    <3>3. CASE WaitAcked
      <4>1. pc = "ack" /\ UNCHANGED <<before, baseline, restored>> /\ restored # "true"
        BY <3>3 DEF WaitAcked, Sound, ReportInv
      <4>2. CASE pc' = "settle"
        <5>1. phase = "restore" /\ UNCHANGED phase /\ fresh /\ AckState = "acked"
          BY <3>3, <4>1, <4>2 DEF WaitAcked, Acked, Trusted
        <5>2. Trusted
          BY <2>1, <3>0, <4>1, <5>1 DEF Trusted
        <5>3. Pending = 0 /\ RawAsBefore
          BY <4>1, <5>1, <5>2, AllAcknowledged
        <5>4. RawAsBefore'
          BY <2>1, <4>1, <5>3 DEF RawAsBefore
        <5> QED BY <2>2, <4>1, <4>2, <5>3, <5>4 DEF Restores, Working
      <4>3. CASE pc' # "settle"
        <5>1. pc' \in {"sweep", "baseline", "settleUnconfirmed"}
          BY <3>3, <4>3 DEF WaitAcked, Acked
        <5> QED BY <4>1, <5>1 DEF Restores, Working
      <4> QED BY <4>2, <4>3
    <3>4. CASE SweepDrives
      BY <3>4 DEF SweepDrives, Trusted, Sound, ReportInv
    <3>5. CASE SweepEnds
      <4>1. pc' = "baseline" /\ restored' # "true"
        BY <3>5 DEF SweepEnds, Sound, ReportInv
      <4> QED BY <4>1 DEF Restores, Working
    <3>6. CASE CheckRestored
      <4>1. pc' = "done" /\ UNCHANGED <<phase, before, baseline>>
        BY <3>6 DEF CheckRestored
      <4>2. CASE restored' = "true"
        <5>1. pc = "settle"
          BY <3>6, <4>2 DEF CheckRestored
        <5>2. Trusted
          BY <2>1, <3>0, <4>1 DEF Trusted
        <5>3. Pending = 0 /\ RawAsBefore
          BY <5>1, <5>2 DEF Restores
        <5>4. RawAsBefore'
          BY <2>1, <4>1, <5>3 DEF RawAsBefore
        <5> QED BY <2>2, <4>1, <5>3, <5>4 DEF Restores, Working
      <4>3. CASE restored' # "true"
        BY <4>1, <4>3 DEF Restores, Working
      <4> QED BY <4>2, <4>3
    <3> QED BY <2>3, <2>6, <3>1, <3>2, <3>3, <3>4, <3>5, <3>6
  <2> QED BY <1>2, <2>3, <2>4, <2>5, <2>6 DEF BenchSteps
<1> QED
  BY <1>1, <1>2

\* What the bench node may rely on in the restore, at every step of everybody.
RestoreInv == Trusted => Restores

LEMMA RestoreStep ==
  ASSUME "slow" \notin Faults, Sound, Sound', RestoreInv, [Next]_vars
  PROVE  RestoreInv'
<1> SUFFICES ASSUME Trusted' PROVE Restores'
  BY DEF RestoreInv
<1>1. CASE BenchSteps
  BY <1>1, BenchRestores DEF RestoreInv
<1>2. CASE ~BenchSteps
  <2>1. meddled => meddled'
    BY <1>2 DEF Next, Executor, OperatorSets, SetHomeHere, OperatorCalls, LateSet, PeriodicRefresh,
                StopCall, PublishDiagnostics, WriteCycle, ReadLine, Wire, FwExecutes, CommandIsLost,
                LineIsLost, callVars, vars
  <2>2. UNCHANGED <<phase, baseline, misled>>
    <3>1. CASE PublishDiagnostics
      BY <3>1 DEF PublishDiagnostics, benchVars, callVars
    <3>2. CASE ~PublishDiagnostics
      BY <1>2, <3>2, OthersKeepBench DEF BenchKept
    <3> QED BY <3>1, <3>2
  <2>3. Trusted
    BY <2>1, <2>2 DEF Trusted
  <2> QED BY <1>2, <2>3, OthersRestore DEF RestoreInv
<1> QED
  BY <1>1, <1>2

\* settings_restored of the bench node (node.py 1128) is true: when it reports
\* that the raw settings are restored, and had counters to go by, the device holds
\* what it held before the sweep, for every set of settings and every value of them,
\* however many sends, commands, answers and dumps were lost or incomplete, however
\* many acknowledgements timed out, and however often the parameters were refreshed.
\* Nobody else may have set anything since the sweep began (meddled), an answer may not
\* come after its write was given up (slow), and the restore must have begun from the
\* right picture (misled): up-to-date counters with nothing pending, and no parameter
\* that shows the old value of a setting of which the device holds another.  Without
\* the last it is false (README, section 6).
THEOREM RestoredSettingsHold ==
  ASSUME "slow" \notin Faults
  PROVE  Spec => []RestoredIsTrue
<1>1. Init => RestoreInv
  BY DEF Init, RestoreInv, Trusted
<1>2. SettingsInv /\ OneAtATime /\ StoredHolds /\ ReportInv /\ RestoreInv /\ [Next]_vars
        => (SettingsInv /\ OneAtATime /\ StoredHolds /\ ReportInv /\ RestoreInv)'
  <2> SUFFICES ASSUME SettingsInv, OneAtATime, StoredHolds, ReportInv, RestoreInv, [Next]_vars
               PROVE  (SettingsInv /\ OneAtATime /\ StoredHolds /\ ReportInv /\ RestoreInv)'
    OBVIOUS
  <2>1. SettingsInv' /\ OneAtATime' /\ StoredHolds'
    BY SettingsStep, OneStep, StoredStep
  <2>2. ReportInv'
    BY <2>1, ReportStep
  <2>3. RestoreInv'
    BY <2>1, <2>2, RestoreStep DEF Sound
  <2> QED BY <2>1, <2>2, <2>3
<1>3. ReportInv /\ RestoreInv => RestoredIsTrue
  BY DEF ReportInv, RestoreInv, Trusted, Restores, RestoredIsTrue, Confirmed
<1> QED
  BY <1>1, <1>2, <1>3, SettingsInit, OneInit, StoredInit, ReportInit, PTL DEF Spec
================================================================================
