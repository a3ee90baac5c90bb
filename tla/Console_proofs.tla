---------------------------- MODULE Console_proofs -----------------------------
(***************************************************************************)
(* Proofs that the reader hands on what the firmware prints: every report  *)
(* and every status answer once, a dump whole and of one moment, and the   *)
(* end of a move.  For every dump, every chunk size, every timeout of the  *)
(* reader and every number of events, as long as no answer was cut.        *)
(*                                                                         *)
(* The argument: everything that is printed and not processed yet is one   *)
(* stream, and the line that read() goes on from, followed by that stream, *)
(* is a chain of whole answers (ChainInv).                                 *)
(***************************************************************************)
EXTENDS Console, SequenceTheorems, FiniteSetTheorems, TLAPS

-----------------------------------------------------------------------------
(* Types.                                                                   *)

Commands   == {"config", "status", "probe", "move"}
PlainKinds == {"invalid", "position", "reached", "timeout", "ready", "junk"}
Settings   == [Keys -> Values]

EchoLine   == [kind : {"echo"}, of : Commands]
PlainLine  == [kind : PlainKinds]
KeyLine    == [kind : {"kv"}, key : Keys \cup {NoKey}, val : Values \cup {BadValue},
               dump : Settings]
SensorLine == [kind : {"sensor"}, n : Nat, packets : Nat]
PacketLine == [kind : {"packet"}, n : Nat]

Line == EchoLine \cup PlainLine \cup KeyLine \cup SensorLine \cup PacketLine

DeviceTypes ==
  /\ settings \in Settings /\ errors \in [sensor : Nat, packet : Nat]
  /\ moving \in BOOLEAN /\ reporting \in BOOLEAN

StreamTypes ==
  /\ printing \in Seq(Line) /\ toHost \in Seq(Line) /\ lines \in Seq(Line)
  /\ Len(toHost) <= MaxWire /\ Len(lines) <= MaxWire

SectionTypes ==
  /\ parseState \in {"none", "config", "status"} /\ section \in Seq(Line)
  /\ parseState = "none" => section = <<>>
  /\ parseState = "config" => \A i \in 1..Len(section) : section[i].kind = "kv"
  /\ sectionAge \in 0..FlushAfter

QueueTypes == sendQueue \in Seq(Commands) /\ toDevice \in Seq(Commands)

ControlTypes ==
  /\ configRefreshPending \in BOOLEAN /\ deferredAge \in 0..Settle
  /\ moveOutstanding \in BOOLEAN /\ left \in 0..MaxEvents

BeliefTypes ==
  /\ params \in Settings /\ synced \in Settings
  /\ diag \in DomeDiagnosticsState /\ polled \in Nat \cup {Unknown}

HistoryTypes ==
  /\ unread \in Int /\ unanswered \in Int
  /\ lastEnd \in {"none", "reached", "timeout"}
  /\ endLost \in BOOLEAN /\ disturbed \in BOOLEAN

\* Every counted error and every reboot is one of the MaxEvents events.
ErrorsInv == errors.sensor + errors.packet <= MaxEvents - left

TypeInv ==
  /\ DeviceTypes /\ StreamTypes /\ SectionTypes /\ QueueTypes
  /\ ControlTypes /\ BeliefTypes /\ HistoryTypes /\ ErrorsInv

-----------------------------------------------------------------------------
(* Sequences and counting.                                                  *)

\* The places in s at which there is a member of X.
Places(s, X) == {i \in 1..Len(s) : s[i] \in X}

LEMMA PlacesFinite ==
  ASSUME NEW S, NEW s \in Seq(S), NEW X
  PROVE  IsFiniteSet(Places(s, X)) /\ Cardinality(Places(s, X)) \in Nat
<1>1. IsFiniteSet(1..Len(s)) /\ Places(s, X) \in SUBSET (1..Len(s))
  BY FS_Interval, LenProperties DEF Places
<1> QED BY <1>1, FS_Subset, FS_CardinalityType

\* What is counted in a concatenation is what is counted in its parts.
LEMMA CountConcat ==
  ASSUME NEW S, NEW s \in Seq(S), NEW t \in Seq(S), NEW X
  PROVE  Cardinality(Places(s \o t, X)) = Cardinality(Places(s, X)) + Cardinality(Places(t, X))
<1> DEFINE n == Len(s)
           A == Places(s, X)
           B == Places(t, X)
           C == {i \in n + 1..n + Len(t) : t[i - n] \in X}
           shift == [i \in B |-> i + n]
<1>1. n \in Nat /\ Len(t) \in Nat
  BY LenProperties
<1>2. Places(s \o t, X) = A \cup C
  <2>1. /\ Len(s \o t) = n + Len(t)
        /\ \A i \in 1..n + Len(t) : (s \o t)[i] = IF i <= n THEN s[i] ELSE t[i - n]
    BY ConcatProperties
  <2> QED BY <1>1, <2>1 DEF Places
<1>3. A \cap C = {}
  BY <1>1 DEF Places
<1>4. shift \in Bijection(B, C)
  <2>1. shift \in [B -> C]
    BY <1>1 DEF Places
  <2>2. \A i, j \in B : shift[i] = shift[j] => i = j
    BY <1>1 DEF Places
  <2>3. \A k \in C : \E i \in B : shift[i] = k
    <3> SUFFICES ASSUME NEW k \in C PROVE \E i \in B : shift[i] = k
      OBVIOUS
    <3>1. k - n \in B /\ (k - n) + n = k
      BY <1>1 DEF Places
    <3> QED BY <3>1
  <2> QED BY <2>1, <2>2, <2>3 DEF Bijection, Injection, Surjection, IsInjective
<1>5. IsFiniteSet(C) /\ Cardinality(C) = Cardinality(B)
  <2>1. IsFiniteSet(B)
    BY PlacesFinite
  <2>2. ExistsBijection(B, C)
    BY <1>4 DEF ExistsBijection
  <2> HIDE DEF B, C
  <2> QED BY <2>1, <2>2, FS_Bijection
<1>6. IsFiniteSet(A) /\ Cardinality(A) \in Nat /\ Cardinality(B) \in Nat
  BY PlacesFinite
<1> HIDE DEF A, B, C
<1>7. Cardinality(A \cup C) = Cardinality(A) + Cardinality(C) - Cardinality(A \cap C)
  BY <1>5, <1>6, FS_Union
<1>8. Cardinality(A \cap C) = 0
  BY <1>3, FS_EmptySet
<1> QED BY <1>2, <1>5, <1>6, <1>7, <1>8 DEF A, B

LEMMA CountSingle ==
  ASSUME NEW x, NEW X
  PROVE  Cardinality(Places(<<x>>, X)) = IF x \in X THEN 1 ELSE 0
<1>1. CASE x \in X
  <2>1. Places(<<x>>, X) = {1}
    BY <1>1 DEF Places
  <2> QED BY <1>1, <2>1, FS_Singleton
<1>2. CASE x \notin X
  <2>1. Places(<<x>>, X) = {}
    BY <1>2 DEF Places
  <2> QED BY <1>2, <2>1, FS_EmptySet
<1> QED BY <1>1, <1>2

LEMMA CountEmpty ==
  ASSUME NEW X
  PROVE  Cardinality(Places(<<>>, X)) = 0
<1>1. Places(<<>>, X) = {}
  BY DEF Places
<1> QED BY <1>1, FS_EmptySet

\* A sequence whose first element is taken.
LEMMA HeadFirst ==
  ASSUME NEW S, NEW s \in Seq(S), s # <<>>
  PROVE  s = <<Head(s)>> \o Tail(s) /\ Head(s) \in S /\ Tail(s) \in Seq(S) /\ <<Head(s)>> \in Seq(S)
<1>1. Len(s) \in Nat \ {0} /\ Head(s) = s[1] /\ s[1] \in S
  OBVIOUS
<1>2. SubSeq(s, 1, Len(s)) = s
  BY SubSeqFull
<1>3. SubSeq(s, 1, Len(s)) = <<s[1]>> \o SubSeq(s, 2, Len(s))
  BY <1>1, SubSeqRecursiveFirst
<1>4. Tail(s) = SubSeq(s, 2, Len(s))
  BY <1>1, TailIsSubSeq
<1> QED BY <1>1, <1>2, <1>3, <1>4, HeadTailProperties

\* A set of places that is not empty has a last one.
LEMMA LastPlace ==
  ASSUME NEW n \in Nat, NEW T \in SUBSET (1..n), T # {}
  PROVE  \E i \in T : \A j \in T : j <= i
<1> DEFINE R == OpToRel(<, Nat)
           D == {n - i : i \in T}
<1>0. \A i \in T : i \in Int /\ n - i \in Nat
  <2> SUFFICES ASSUME NEW i \in T PROVE i \in Int /\ n - i \in Nat
    OBVIOUS
  <2>1. i \in 1..n
    OBVIOUS
  <2> QED BY <2>1
<1>1. D \subseteq Nat /\ D # {}
  BY <1>0
<1>2. IsWellFoundedOn(R, Nat)
  BY NatLessThanWellFounded
<1>3. PICK x \in D : \A y \in D : <<y, x>> \notin R
  <2> HIDE DEF D, R
  <2> QED BY <1>1, <1>2, WFMin
<1>4. \A y \in D : ~(y < x)
  BY <1>1, <1>3 DEF OpToRel
<1>5. PICK i \in T : x = n - i
  OBVIOUS
<1>6. \A j \in T : j <= i
  <2> SUFFICES ASSUME NEW j \in T PROVE j <= i
    OBVIOUS
  <2>1. ~(n - j < n - i)
    BY <1>4, <1>5
  <2> QED BY <1>0, <2>1
<1> QED BY <1>6

\* The last line of a kind is one of the lines, ...
LEMMA LastSensor ==
  ASSUME NEW q \in Seq(Line), Has(q, IsSensor)
  PROVE  \E i \in 1..Len(q) : LastOf(q, IsSensor) = q[i] /\ q[i] \in SensorLine
<1> DEFINE Good(i) == IsSensor(q[i]) /\ \A j \in DOMAIN q : IsSensor(q[j]) => j <= i
           T == {i \in 1..Len(q) : IsSensor(q[i])}
<1>1. DOMAIN q = 1..Len(q) /\ Len(q) \in Nat /\ T # {}
  BY DEF Has
<1>2. \E i \in T : \A j \in T : j <= i
  <2> HIDE DEF T
  <2>1. T \in SUBSET (1..Len(q))
    BY DEF T
  <2> QED BY <1>1, <2>1, LastPlace
<1>3. \E i \in DOMAIN q : Good(i)
  BY <1>1, <1>2
<1> DEFINE c == CHOOSE i \in DOMAIN q : Good(i)
<1>4. c \in DOMAIN q /\ Good(c)
  <2> HIDE DEF Good
  <2> QED BY <1>3
<1>5. LastOf(q, IsSensor) = q[c] /\ IsSensor(q[c])
  BY <1>4 DEF LastOf
<1>6. q[c] \in Line /\ q[c].kind = "sensor"
  BY <1>1, <1>4, <1>5, ElementOfSeq DEF IsSensor
<1>7. q[c] \in SensorLine
  BY <1>6 DEF Line, EchoLine, PlainLine, PlainKinds, KeyLine, SensorLine, PacketLine
<1> HIDE DEF c
<1> QED BY <1>1, <1>4, <1>5, <1>7

LEMMA LastPacket ==
  ASSUME NEW q \in Seq(Line), Has(q, IsPacket)
  PROVE  \E i \in 1..Len(q) : LastOf(q, IsPacket) = q[i] /\ q[i] \in PacketLine
<1> DEFINE Good(i) == IsPacket(q[i]) /\ \A j \in DOMAIN q : IsPacket(q[j]) => j <= i
           T == {i \in 1..Len(q) : IsPacket(q[i])}
<1>1. DOMAIN q = 1..Len(q) /\ Len(q) \in Nat /\ T # {}
  BY DEF Has
<1>2. \E i \in T : \A j \in T : j <= i
  <2> HIDE DEF T
  <2>1. T \in SUBSET (1..Len(q))
    BY DEF T
  <2> QED BY <1>1, <2>1, LastPlace
<1>3. \E i \in DOMAIN q : Good(i)
  BY <1>1, <1>2
<1> DEFINE c == CHOOSE i \in DOMAIN q : Good(i)
<1>4. c \in DOMAIN q /\ Good(c)
  <2> HIDE DEF Good
  <2> QED BY <1>3
<1>5. LastOf(q, IsPacket) = q[c] /\ IsPacket(q[c])
  BY <1>4 DEF LastOf
<1>6. q[c] \in Line /\ q[c].kind = "packet"
  BY <1>1, <1>4, <1>5, ElementOfSeq DEF IsPacket
<1>7. q[c] \in PacketLine
  BY <1>6 DEF Line, EchoLine, PlainLine, PlainKinds, KeyLine, SensorLine, PacketLine
<1> HIDE DEF c
<1> QED BY <1>1, <1>4, <1>5, <1>7

\* ... and so is the last one of a key, which is what the registry takes.
LEMMA ParsedValue ==
  ASSUME NEW q \in Seq(Line), NEW k \in Keys, \E i \in 1..Len(q) : q[i].key = k
  PROVE  \E i \in 1..Len(q) : q[i].key = k /\ ParseConfigMap(q)[k] = q[i].val
<1> DEFINE Good(i) == q[i].key = k /\ \A j \in DOMAIN q : q[j].key = k => j <= i
           T == {i \in 1..Len(q) : q[i].key = k}
<1>1. DOMAIN q = 1..Len(q) /\ Len(q) \in Nat /\ T # {}
  OBVIOUS
<1>2. \E i \in T : \A j \in T : j <= i
  <2> HIDE DEF T
  <2>1. T \in SUBSET (1..Len(q))
    BY DEF T
  <2> QED BY <1>1, <2>1, LastPlace
<1>3. \E i \in DOMAIN q : Good(i)
  BY <1>1, <1>2
<1> DEFINE c == CHOOSE i \in DOMAIN q : Good(i)
<1>4. c \in DOMAIN q /\ Good(c)
  <2> HIDE DEF Good
  <2> QED BY <1>3
<1>5. ParseConfigMap(q)[k] = q[c].val
  <2>1. \E i \in DOMAIN q : q[i].key = k
    BY <1>1
  <2> QED BY <2>1 DEF ParseConfigMap, LastOf, Has
<1> HIDE DEF c
<1> QED BY <1>1, <1>4, <1>5

\* A section that was parsed cleanly gives every key a value.
LEMMA ParsedSettings ==
  ASSUME NEW q \in Seq(Line), ParsedCleanly(q), \A i \in 1..Len(q) : q[i].kind = "kv"
  PROVE  ParseConfigMap(q) \in Settings
<1>1. ASSUME NEW k \in Keys
      PROVE  ParseConfigMap(q)[k] \in Values
  <2>1. CASE \E i \in 1..Len(q) : q[i].key = k
    <3>1. PICK i \in 1..Len(q) : q[i].key = k /\ ParseConfigMap(q)[k] = q[i].val
      BY <2>1, ParsedValue
    <3>2. q[i] \in KeyLine
      <4>1. q[i] \in Line /\ q[i].kind = "kv"
        BY ElementOfSeq
      <4> QED BY <4>1 DEF Line, EchoLine, PlainLine, PlainKinds, KeyLine, SensorLine, PacketLine
    <3>3. q[i].val # BadValue
      BY <3>1, LenProperties DEF ParsedCleanly
    <3> QED BY <3>1, <3>2, <3>3 DEF KeyLine
  <2>2. CASE ~\E i \in 1..Len(q) : q[i].key = k
    <3>1. ~\E i \in DOMAIN q : q[i].key = k
      BY <2>2, LenProperties
    <3> QED BY <3>1, ValuesAssumption DEF ParseConfigMap, Has
  <2> QED BY <2>1, <2>2
<1>2. ParseConfigMap(q) = [k \in Keys |-> ParseConfigMap(q)[k]]
  BY DEF ParseConfigMap
<1> QED BY <1>1, <1>2 DEF Settings

-----------------------------------------------------------------------------
(* Every step keeps the types.                                              *)

\* The lines of a dump.
LEMMA DumpLines ==
  ASSUME NEW s \in Settings
  PROVE  /\ Dump(s) \in Seq(Line) /\ Len(Dump(s)) = Len(DumpOrder) /\ Len(DumpOrder) \in Nat
         /\ \A i \in 1..Len(DumpOrder) :
              Dump(s)[i] = KeyValue(DumpOrder[i], s) /\ Dump(s)[i] \in KeyLine
<1>1. Len(DumpOrder) \in Nat /\ DOMAIN DumpOrder = 1..Len(DumpOrder)
  BY KeysAssumption
<1>2. \A i \in 1..Len(DumpOrder) : DumpOrder[i] \in Keys
  BY <1>1 DEF Keys
<1>3. \A i \in 1..Len(DumpOrder) : KeyValue(DumpOrder[i], s) \in KeyLine
  BY <1>2 DEF KeyValue, KeyLine, Settings
<1>4. Dump(s) = [i \in 1..Len(DumpOrder) |-> KeyValue(DumpOrder[i], s)]
  BY <1>1 DEF Dump
<1>5. \A i \in 1..Len(DumpOrder) : KeyValue(DumpOrder[i], s) \in Line
  BY <1>3 DEF Line
<1>6. Dump(s) \in Seq(Line)
  BY <1>1, <1>4, <1>5, IsASeq
<1>7. Len(Dump(s)) = Len(DumpOrder)
  BY <1>1, <1>4, <1>6, LenProperties
<1> QED BY <1>1, <1>3, <1>4, <1>6, <1>7

\* The lines of any answer.
LEMMA AnswerLines ==
  ASSUME DeviceTypes, NEW c \in Commands
  PROVE  Answer(c) \in Seq(Line)
<1>1. <<Echo(c)>> \in Seq(Line)
  BY DEF Echo, Line, EchoLine
<1>2. CASE c = "config"
  <2>1. Answer(c) = <<Echo(c)>> \o Dump(settings) /\ Dump(settings) \in Seq(Line)
    BY <1>2, DumpLines DEF Answer, DeviceTypes
  <2> QED BY <1>1, <2>1, ConcatProperties
<1>3. CASE c = "status"
  <2>1. Answer(c) = <<Echo(c)>> \o StatusReport(errors)
    BY <1>3 DEF Answer
  <2>2. Sensor(errors) \in Line /\ Packet(errors.packet) \in Line
    BY DEF Sensor, Packet, Line, SensorLine, PacketLine, DeviceTypes
  <2>3. StatusReport(errors) \in Seq(Line)
    BY <2>2 DEF StatusReport
  <2> QED BY <1>1, <2>1, <2>3, ConcatProperties
<1>4. CASE c = "probe"
  <2>1. Answer(c) = <<Echo(c)>> \o <<Plain("invalid")>>
    BY <1>4 DEF Answer
  <2>2. <<Plain("invalid")>> \in Seq(Line)
    BY DEF Plain, Line, PlainLine, PlainKinds
  <2> QED BY <1>1, <2>1, <2>2, ConcatProperties
<1>5. CASE c = "move"
  <2>1. Answer(c) = <<Echo(c)>> \o <<>>
    BY <1>5 DEF Answer
  <2>2. Answer(c) = <<Echo(c)>>
    BY <1>1, <2>1, ConcatEmptySeq
  <2> QED BY <1>1, <2>2
<1> QED BY <1>2, <1>3, <1>4, <1>5 DEF Commands

LEMMA PlainIsLine ==
  ASSUME NEW k \in PlainKinds
  PROVE  Plain(k) \in Line
BY DEF Plain, Line, PlainLine

\* The firmware keeps its state, and counts only so many errors.
LEMMA DeviceStep ==
  ASSUME TypeInv, [Next]_vars
  PROVE  DeviceTypes' /\ ErrorsInv'
<1> USE DEF deviceVars, readerVars, controlVars, beliefVars, historyVars
<1> USE EventsAssumption
        DEF TypeInv, DeviceTypes, ErrorsInv, ControlTypes, Settings
<1>1. CASE Execute
  BY <1>1 DEF Execute
<1>2. CASE PrintNext
  BY <1>2 DEF PrintNext, PrintLine
<1>3. CASE PrintGarbled
  BY <1>3 DEF PrintGarbled, PrintLine, Spend
<1>4. CASE Report
  BY <1>4 DEF Report
<1>5. CASE MoveEnds
  BY <1>5 DEF MoveEnds
<1>6. CASE ChangeSetting
  BY <1>6 DEF ChangeSetting, Spend
<1>7. CASE CountError
  <2>1. PICK e \in {"sensor", "packet"} : errors' = [errors EXCEPT ![e] = @ + 1]
    BY <1>7 DEF CountError
  <2>2. /\ errors' \in [sensor : Nat, packet : Nat]
        /\ errors'.sensor + errors'.packet = errors.sensor + errors.packet + 1
    BY <2>1
  <2>3. left' = left - 1 /\ UNCHANGED <<settings, moving, reporting>>
    BY <1>7 DEF CountError, Spend
  <2> QED BY <2>2, <2>3
<1>8. CASE Reboot
  <2>1. /\ errors' = [sensor |-> 0, packet |-> 0] /\ left' = left - 1 /\ left > 0
        /\ settings' = settings /\ moving' = FALSE /\ reporting' \in {reporting, FALSE}
    BY <1>8 DEF Reboot, Spend
  <2>2. reporting' \in BOOLEAN /\ moving' \in BOOLEAN
    BY <2>1
  <2>3. errors' \in [sensor : Nat, packet : Nat] /\ errors'.sensor + errors'.packet = 0
    BY <2>1
  <2>4. settings' \in [Keys -> Values] /\ 0 <= MaxEvents - left'
    BY <2>1
  <2> QED BY <2>2, <2>3, <2>4
<1>9. CASE ReadChunk
  BY <1>9 DEF ReadChunk, Spend
<1>10. CASE FlushIdle
  BY <1>10 DEF FlushIdle
<1>11. CASE ProcessLine
  BY <1>11 DEF ProcessLine
<1>12. CASE StatusPollTimer
  BY <1>12 DEF StatusPollTimer, TimerUnchanged
<1>13. CASE RequestConfigRefresh
  BY <1>13 DEF RequestConfigRefresh, TimerUnchanged
<1>14. CASE Write
  BY <1>14 DEF Write, ServiceDeferredRefresh, Spend
<1>15. CASE Tick
  BY <1>15 DEF Tick, Spend
<1>16. CASE UNCHANGED vars
  BY <1>16 DEF vars
<1> QED
  BY <1>1, <1>2, <1>3, <1>4, <1>5, <1>6, <1>7, <1>8, <1>9, <1>10,
     <1>11, <1>12, <1>13, <1>14, <1>15, <1>16
     DEF Next, Firmware, Reader, Control

\* The queues hold commands.
LEMMA QueueStep ==
  ASSUME TypeInv, [Next]_vars
  PROVE  QueueTypes'
<1> USE DEF deviceVars, readerVars, controlVars, beliefVars, historyVars
<1> USE DEF TypeInv, QueueTypes, Commands
<1>1. CASE Execute
  BY <1>1 DEF Execute
<1>2. CASE PrintNext
  BY <1>2 DEF PrintNext, PrintLine
<1>3. CASE PrintGarbled
  BY <1>3 DEF PrintGarbled, PrintLine, Spend
<1>4. CASE Report
  BY <1>4 DEF Report
<1>5. CASE MoveEnds
  BY <1>5 DEF MoveEnds
<1>6. CASE ChangeSetting
  BY <1>6 DEF ChangeSetting, Spend
<1>7. CASE CountError
  BY <1>7 DEF CountError, Spend
<1>8. CASE Reboot
  BY <1>8 DEF Reboot, Spend
<1>9. CASE ReadChunk
  BY <1>9 DEF ReadChunk, Spend
<1>10. CASE FlushIdle
  BY <1>10 DEF FlushIdle
<1>11. CASE ProcessLine
  BY <1>11 DEF ProcessLine
<1>12. CASE StatusPollTimer
  <2>1. StatusPoll \in Seq(Commands)
    BY DEF StatusPoll
  <2> HIDE DEF Commands
  <2> QED BY <1>12, <2>1, ConcatProperties DEF StatusPollTimer, TimerUnchanged
<1>13. CASE RequestConfigRefresh
  <2>1. ConfigDump \in Seq(Commands)
    BY DEF ConfigDump
  <2> HIDE DEF Commands
  <2> QED BY <1>13, <2>1, ConcatProperties DEF RequestConfigRefresh, TimerUnchanged
<1>14. CASE Write
  <2> DEFINE queue == IF configRefreshPending /\ ~configRefreshPending'
                      THEN sendQueue \o ConfigDump ELSE sendQueue
             query == IF queue = <<>> THEN <<>> ELSE <<Head(queue)>>
  <2>1. queue \in Seq(Commands)
    <3>1. ConfigDump \in Seq(Commands)
      BY DEF ConfigDump
    <3> HIDE DEF Commands
    <3> QED BY <3>1, ConcatProperties
  <2>2. query \in Seq(Commands) /\ Append(query, "move") \in Seq(Commands)
    <3> HIDE DEF queue
    <3>1. query \in Seq(Commands)
      <4> HIDE DEF Commands
      <4> QED BY <2>1
    <3> QED BY <3>1, AppendProperties
  <2>3. /\ sendQueue' = SubSeq(queue, 2, Len(queue))
        /\ \/ toDevice' = toDevice \o query
           \/ toDevice' = toDevice
           \/ toDevice' = toDevice \o Append(query, "move")
    BY <1>14 DEF Write
  <2> HIDE DEF Commands, queue, query
  <2>4. SubSeq(queue, 2, Len(queue)) \in Seq(Commands)
    BY <2>1, SubSeqProperties, ElementOfSeq, LenProperties
  <2> QED BY <2>2, <2>3, <2>4, ConcatProperties
<1>15. CASE Tick
  BY <1>15 DEF Tick, Spend
<1>16. CASE UNCHANGED vars
  BY <1>16 DEF vars
<1> QED
  BY <1>1, <1>2, <1>3, <1>4, <1>5, <1>6, <1>7, <1>8, <1>9, <1>10,
     <1>11, <1>12, <1>13, <1>14, <1>15, <1>16
     DEF Next, Firmware, Reader, Control

\* So do the flags and the ages.
LEMMA ControlStep ==
  ASSUME TypeInv, [Next]_vars
  PROVE  ControlTypes'
<1> USE DEF deviceVars, readerVars, controlVars, beliefVars, historyVars
<1> USE ThresholdsAssumption, EventsAssumption
        DEF TypeInv, ControlTypes, SectionTypes
<1>1. CASE Execute
  BY <1>1 DEF Execute
<1>2. CASE PrintNext
  BY <1>2 DEF PrintNext, PrintLine
<1>3. CASE PrintGarbled
  BY <1>3 DEF PrintGarbled, PrintLine, Spend
<1>4. CASE Report
  BY <1>4 DEF Report
<1>5. CASE MoveEnds
  BY <1>5 DEF MoveEnds
<1>6. CASE ChangeSetting
  BY <1>6 DEF ChangeSetting, Spend
<1>7. CASE CountError
  BY <1>7 DEF CountError, Spend
<1>8. CASE Reboot
  BY <1>8 DEF Reboot, Spend
<1>9. CASE ReadChunk
  <2>1. UNCHANGED <<configRefreshPending, deferredAge, moveOutstanding>>
    BY <1>9 DEF ReadChunk
  <2>2. left' = left \/ (left > 0 /\ left' = left - 1)
    BY <1>9 DEF ReadChunk, Spend
  <2>3. left' \in 0..MaxEvents
    BY <2>2
  <2> QED BY <2>1, <2>3
<1>10. CASE FlushIdle
  BY <1>10 DEF FlushIdle
<1>11. CASE ProcessLine
  <2> DEFINE line == Head(lines)
  <2>0. /\ lines # <<>> /\ lines' = Tail(lines)
        /\ UNCHANGED <<deviceVars, printing, toDevice, toHost, sendQueue, controlVars, left,
                       lastEnd, disturbed>>
    BY <1>11 DEF ProcessLine
  <2>1. CASE line.kind = "echo" /\ ProcessEcho(line.of)
             /\ UNCHANGED <<moveOutstanding, unread, endLost>>
    BY <2>0, <2>1 DEF ProcessEcho
  <2>2. CASE line.kind = "position" /\ ProcessPosition
             /\ UNCHANGED <<moveOutstanding, endLost>>
    BY <2>0, <2>2 DEF ProcessPosition
  <2>3. CASE line.kind \notin {"echo", "position"} /\ parseState # "none"
             /\ CollectLine(line) /\ UNCHANGED <<moveOutstanding, unread>>
             /\ endLost' = (endLost \/ IsEnd(line))
    BY <2>0, <2>3 DEF CollectLine
  <2>4. CASE line.kind \notin {"echo", "position"} /\ parseState = "none"
             /\ ClassifyLine(line) /\ UNCHANGED <<unread, endLost>>
    BY <2>0, <2>4 DEF ClassifyLine
  <2> QED BY <1>11, <2>1, <2>2, <2>3, <2>4 DEF ProcessLine
<1>12. CASE StatusPollTimer
  BY <1>12 DEF StatusPollTimer, TimerUnchanged
<1>13. CASE RequestConfigRefresh
  <2>1. UNCHANGED <<left, moveOutstanding>>
    BY <1>13 DEF RequestConfigRefresh, TimerUnchanged
  <2>2. /\ configRefreshPending' = TRUE \/ configRefreshPending' = configRefreshPending
        /\ deferredAge' = 0 \/ deferredAge' = deferredAge
    BY <1>13 DEF RequestConfigRefresh
  <2>3. configRefreshPending' \in BOOLEAN
    BY <2>2
  <2>4. deferredAge' \in 0..Settle
    BY <2>2
  <2> QED BY <2>1, <2>3, <2>4
<1>14. CASE Write
  <2>1. /\ configRefreshPending' = FALSE \/ configRefreshPending' = configRefreshPending
        /\ deferredAge' = 0 \/ deferredAge' = deferredAge
    BY <1>14 DEF Write, ServiceDeferredRefresh
  <2>2. configRefreshPending' \in BOOLEAN
    BY <2>1
  <2>3. deferredAge' \in 0..Settle
    BY <2>1
  <2>4. moveOutstanding' = TRUE \/ moveOutstanding' = moveOutstanding
    BY <1>14 DEF Write
  <2>5. moveOutstanding' \in BOOLEAN
    BY <2>4
  <2>6. left' = left \/ (left > 0 /\ left' = left - 1)
    BY <1>14 DEF Write, Spend
  <2>7. left' \in 0..MaxEvents
    BY <2>6
  <2> QED BY <2>2, <2>3, <2>5, <2>7
<1>15. CASE Tick
  BY <1>15 DEF Tick, Spend, Older
<1>16. CASE UNCHANGED vars
  BY <1>16 DEF vars
<1> QED
  BY <1>1, <1>2, <1>3, <1>4, <1>5, <1>6, <1>7, <1>8, <1>9, <1>10,
     <1>11, <1>12, <1>13, <1>14, <1>15, <1>16
     DEF Next, Firmware, Reader, Control

\* So does what is remembered for the properties.
LEMMA HistoryStep ==
  ASSUME TypeInv, [Next]_vars
  PROVE  HistoryTypes'
<1> USE DEF deviceVars, readerVars, controlVars, beliefVars, historyVars
<1> USE DEF TypeInv, HistoryTypes
<1>1. CASE Execute
  BY <1>1 DEF Execute
<1>2. CASE PrintNext
  BY <1>2 DEF PrintNext, PrintLine
<1>3. CASE PrintGarbled
  BY <1>3 DEF PrintGarbled, PrintLine, Spend
<1>4. CASE Report
  BY <1>4 DEF Report
<1>5. CASE MoveEnds
  BY <1>5 DEF MoveEnds
<1>6. CASE ChangeSetting
  BY <1>6 DEF ChangeSetting, Spend
<1>7. CASE CountError
  BY <1>7 DEF CountError, Spend
<1>8. CASE Reboot
  BY <1>8 DEF Reboot, Spend
<1>9. CASE ReadChunk
  BY <1>9 DEF ReadChunk, Spend
<1>10. CASE FlushIdle
  BY <1>10 DEF FlushIdle, DeliverSection, DeliverConfig, DeliverStatus
<1>11. CASE ProcessLine
  <2> DEFINE line == Head(lines)
  <2>0. /\ lines # <<>> /\ lines' = Tail(lines)
        /\ UNCHANGED <<deviceVars, printing, toDevice, toHost, sendQueue, controlVars, left,
                       lastEnd, disturbed>>
    BY <1>11 DEF ProcessLine
  <2>1. CASE line.kind = "echo" /\ ProcessEcho(line.of)
             /\ UNCHANGED <<moveOutstanding, unread, endLost>>
    BY <2>0, <2>1 DEF ProcessEcho, DeliverSection, DeliverConfig, DeliverStatus
  <2>2. CASE line.kind = "position" /\ ProcessPosition
             /\ UNCHANGED <<moveOutstanding, endLost>>
    BY <2>0, <2>2 DEF ProcessPosition
  <2>3. CASE line.kind \notin {"echo", "position"} /\ parseState # "none"
             /\ CollectLine(line) /\ UNCHANGED <<moveOutstanding, unread>>
             /\ endLost' = (endLost \/ IsEnd(line))
    BY <2>0, <2>3 DEF CollectLine
  <2>4. CASE line.kind \notin {"echo", "position"} /\ parseState = "none"
             /\ ClassifyLine(line) /\ UNCHANGED <<unread, endLost>>
    BY <2>0, <2>4 DEF ClassifyLine
  <2> QED BY <1>11, <2>1, <2>2, <2>3, <2>4 DEF ProcessLine
<1>12. CASE StatusPollTimer
  BY <1>12 DEF StatusPollTimer, TimerUnchanged
<1>13. CASE RequestConfigRefresh
  BY <1>13 DEF RequestConfigRefresh, TimerUnchanged
<1>14. CASE Write
  BY <1>14 DEF Write, ServiceDeferredRefresh, Spend
<1>15. CASE Tick
  BY <1>15 DEF Tick, Spend
<1>16. CASE UNCHANGED vars
  BY <1>16 DEF vars
<1> QED
  BY <1>1, <1>2, <1>3, <1>4, <1>5, <1>6, <1>7, <1>8, <1>9, <1>10,
     <1>11, <1>12, <1>13, <1>14, <1>15, <1>16
     DEF Next, Firmware, Reader, Control

\* A line that was garbled or lost its first half is still a line.
LEMMA SpoiltLine ==
  ASSUME NEW line \in Line
  PROVE  Garbled(line) \in Line /\ Cut(line) \in Line
<1>1. Plain("junk") \in Line
  BY PlainIsLine DEF PlainKinds
<1>2. CASE line.kind = "kv"
  <2>1. line \in KeyLine
    BY <1>2 DEF Line, EchoLine, PlainLine, PlainKinds, KeyLine, SensorLine, PacketLine
  <2>2. [line EXCEPT !.val = BadValue] \in KeyLine /\ [line EXCEPT !.key = NoKey] \in KeyLine
    BY <2>1 DEF KeyLine
  <2> QED BY <1>2, <2>2 DEF Garbled, Cut, Line
<1>3. CASE line.kind # "kv"
  BY <1>1, <1>3 DEF Garbled, Cut
<1> QED BY <1>2, <1>3

\* What read() takes and what it leaves are lines, and no more than there were.
LEMMA ChunkLines ==
  ASSUME TypeInv, ReadChunk
  PROVE  /\ lines' \in Seq(Line) /\ toHost' \in Seq(Line)
         /\ Len(lines') <= Len(toHost) /\ Len(toHost') <= Len(toHost)
<1> USE DEF TypeInv, StreamTypes
<1> DEFINE Chunk(n) == SubSeq(toHost, 1, n)
           Kept(n)  == SubSeq(Chunk(n), n - KeepLines + 1, n)
<1>1. PICK n \in 1..Len(toHost) :
        /\ toHost' = SubSeq(toHost, n + 1, Len(toHost))
        /\ IF n <= MaxBuffer THEN lines' = Chunk(n)
           ELSE lines' = Kept(n) \/ lines' = <<Cut(Head(Kept(n)))>> \o Tail(Kept(n))
  BY DEF ReadChunk
<1> DEFINE chunk == Chunk(n)
           kept  == Kept(n)
<1>2. /\ Len(toHost) \in Nat /\ n \in Nat \ {0} /\ n <= Len(toHost)
      /\ \A i \in 1..Len(toHost) : toHost[i] \in Line
  OBVIOUS
<1>3. chunk \in Seq(Line) /\ Len(chunk) = n /\ \A i \in 1..n : chunk[i] \in Line
  <2>1. \A i \in 1..n : toHost[i] \in Line
    BY <1>2
  <2>2. chunk \in Seq(Line) /\ Len(chunk) = n - 1 + 1
    BY <1>2, <2>1, SubSeqProperties
  <2> HIDE DEF chunk
  <2> QED BY <1>2, <2>2
<1>4. toHost' \in Seq(Line) /\ Len(toHost') <= Len(toHost)
  <2>1. \A i \in n + 1..Len(toHost) : toHost[i] \in Line
    BY <1>2
  <2>2. /\ SubSeq(toHost, n + 1, Len(toHost)) \in Seq(Line)
        /\ Len(SubSeq(toHost, n + 1, Len(toHost)))
             = IF n + 1 <= Len(toHost) THEN Len(toHost) - (n + 1) + 1 ELSE 0
    BY <1>2, <2>1, SubSeqProperties
  <2> QED BY <1>1, <1>2, <2>2
<1>5. CASE lines' = chunk
  BY <1>2, <1>3, <1>4, <1>5
<1>6. CASE ~(n <= MaxBuffer)
           /\ (lines' = kept \/ lines' = <<Cut(Head(kept))>> \o Tail(kept))
  <2>1. n - KeepLines + 1 \in 1..n /\ KeepLines \in Nat \ {0} /\ KeepLines <= n
    <3>1. ~(n <= MaxBuffer) /\ MaxBuffer \in Nat /\ KeepLines <= MaxBuffer /\ KeepLines \in Nat \ {0}
      BY <1>6, BufferAssumption, ThresholdsAssumption
    <3> QED BY <1>2, <3>1
  <2>2. kept \in Seq(Line) /\ Len(kept) = KeepLines
    <3>1. \A i \in n - KeepLines + 1..n : chunk[i] \in Line
      BY <1>2, <1>3, <2>1
    <3> HIDE DEF chunk
    <3>2. kept \in Seq(Line) /\ Len(kept) = n - (n - KeepLines + 1) + 1
      BY <1>2, <2>1, <3>1, SubSeqProperties
    <3> QED BY <1>2, <2>1, <3>2
  <2> HIDE DEF kept
  <2>3. kept # <<>>
    BY <2>1, <2>2
  <2>4. Head(kept) \in Line /\ Tail(kept) \in Seq(Line) /\ Len(Tail(kept)) = KeepLines - 1
    BY <2>2, <2>3, HeadTailProperties
  <2>5. <<Cut(Head(kept))>> \in Seq(Line) /\ Len(<<Cut(Head(kept))>>) = 1
    BY <2>4, SpoiltLine
  <2>6. /\ <<Cut(Head(kept))>> \o Tail(kept) \in Seq(Line)
        /\ Len(<<Cut(Head(kept))>> \o Tail(kept)) = KeepLines
    BY <2>1, <2>4, <2>5, ConcatProperties
  <2>7. lines' \in Seq(Line) /\ Len(lines') = KeepLines
    BY <1>6, <2>2, <2>6
  <2> QED BY <1>2, <1>4, <2>1, <2>7
<1> QED BY <1>1, <1>5, <1>6

\* What is printed, read and left to process are lines.
LEMMA StreamTypesStep ==
  ASSUME TypeInv, [Next]_vars
  PROVE  StreamTypes'
<1> USE DEF deviceVars, readerVars, controlVars, beliefVars, historyVars
<1> USE WireAssumption DEF TypeInv, StreamTypes
<1>1. CASE Execute
  <2>1. Head(toDevice) \in Commands
    BY <1>1 DEF Execute, QueueTypes
  <2> QED BY <1>1, <2>1, AnswerLines DEF Execute
<1>2. CASE PrintNext
  BY <1>2 DEF PrintNext, PrintLine
<1>3. CASE PrintGarbled
  <2>1. Head(printing) \in Line /\ Tail(printing) \in Seq(Line)
    BY <1>3, HeadTailProperties DEF PrintGarbled
  <2> QED BY <1>3, <2>1, SpoiltLine DEF PrintGarbled, PrintLine
<1>4. CASE Report
  <2>1. Plain("position") \in Line
    BY PlainIsLine DEF PlainKinds
  <2> QED BY <1>4, <2>1 DEF Report
<1>5. CASE MoveEnds
  <2>1. Plain("reached") \in Line /\ Plain("timeout") \in Line
    BY PlainIsLine DEF PlainKinds
  <2> QED BY <1>5, <2>1 DEF MoveEnds
<1>6. CASE ChangeSetting
  BY <1>6 DEF ChangeSetting, Spend
<1>7. CASE CountError
  BY <1>7 DEF CountError, Spend
<1>8. CASE Reboot
  <2>1. Plain("ready") \in Line
    BY PlainIsLine DEF PlainKinds
  <2> QED BY <1>8, <2>1 DEF Reboot
<1>9. CASE ReadChunk
  <2>1. UNCHANGED printing
    BY <1>9 DEF ReadChunk
  <2>2. Len(lines') \in Nat /\ Len(toHost') \in Nat
    BY <1>9, ChunkLines
  <2> QED BY <1>9, <2>1, <2>2, ChunkLines
<1>10. CASE FlushIdle
  BY <1>10 DEF FlushIdle
<1>11. CASE ProcessLine
  BY <1>11 DEF ProcessLine
<1>12. CASE StatusPollTimer
  BY <1>12 DEF StatusPollTimer, TimerUnchanged
<1>13. CASE RequestConfigRefresh
  BY <1>13 DEF RequestConfigRefresh, TimerUnchanged
<1>14. CASE Write
  BY <1>14 DEF Write, ServiceDeferredRefresh, Spend
<1>15. CASE Tick
  BY <1>15 DEF Tick, Spend
<1>16. CASE UNCHANGED vars
  BY <1>16 DEF vars
<1> QED
  BY <1>1, <1>2, <1>3, <1>4, <1>5, <1>6, <1>7, <1>8, <1>9, <1>10,
     <1>11, <1>12, <1>13, <1>14, <1>15, <1>16
     DEF Next, Firmware, Reader, Control

\* The state of the reader.
LEMMA SectionStep ==
  ASSUME TypeInv, [Next]_vars
  PROVE  SectionTypes'
<1> USE DEF deviceVars, readerVars, controlVars, beliefVars, historyVars
<1> USE ThresholdsAssumption DEF TypeInv, SectionTypes
<1>1. CASE Execute
  BY <1>1 DEF Execute
<1>2. CASE PrintNext
  BY <1>2 DEF PrintNext, PrintLine
<1>3. CASE PrintGarbled
  BY <1>3 DEF PrintGarbled, PrintLine, Spend
<1>4. CASE Report
  BY <1>4 DEF Report
<1>5. CASE MoveEnds
  BY <1>5 DEF MoveEnds
<1>6. CASE ChangeSetting
  BY <1>6 DEF ChangeSetting, Spend
<1>7. CASE CountError
  BY <1>7 DEF CountError, Spend
<1>8. CASE Reboot
  BY <1>8 DEF Reboot, Spend
<1>9. CASE ReadChunk
  BY <1>9 DEF ReadChunk, Spend
<1>10. CASE FlushIdle
  BY <1>10 DEF FlushIdle
<1>11. CASE ProcessLine
  <2> DEFINE line == Head(lines)
  <2>0. /\ lines # <<>> /\ lines' = Tail(lines)
        /\ UNCHANGED <<deviceVars, printing, toDevice, toHost, sendQueue, controlVars, left,
                       lastEnd, disturbed>>
    BY <1>11 DEF ProcessLine
  <2>1. CASE line.kind = "echo" /\ ProcessEcho(line.of)
             /\ UNCHANGED <<moveOutstanding, unread, endLost>>
    BY <2>0, <2>1 DEF ProcessEcho, NextState
  <2>2. CASE line.kind = "position" /\ ProcessPosition
             /\ UNCHANGED <<moveOutstanding, endLost>>
    BY <2>0, <2>2 DEF ProcessPosition
  <2>3. CASE line.kind \notin {"echo", "position"} /\ parseState # "none"
             /\ CollectLine(line) /\ UNCHANGED <<moveOutstanding, unread>>
             /\ endLost' = (endLost \/ IsEnd(line))
    <3>1. line \in Line
      BY <2>0, HeadTailProperties DEF StreamTypes
    <3>2. \/ section' = section
          \/ section' = Append(section, line) /\ (parseState = "status" \/ line.kind = "kv")
      BY <2>3 DEF CollectLine
    <3>3. parseState' = parseState /\ parseState # "none"
          /\ (sectionAge' = 0 \/ sectionAge' = sectionAge)
      BY <2>3 DEF CollectLine
    <3> HIDE DEF line
    <3>4. CASE section' = section
      BY <3>3, <3>4
    <3>5. CASE section' = Append(section, line) /\ (parseState = "status" \/ line.kind = "kv")
      <4>1. /\ section' \in Seq(Line) /\ Len(section') = Len(section) + 1
            /\ \A i \in 1..Len(section) : section'[i] = section[i]
            /\ section'[Len(section) + 1] = line
        BY <3>1, <3>5, AppendProperties
      <4>2. Len(section) \in Nat
        OBVIOUS
      <4>3. parseState = "config" => \A i \in 1..Len(section') : section'[i].kind = "kv"
        BY <3>5, <4>1, <4>2
      <4> QED BY <3>3, <4>1, <4>3
    <3> QED BY <3>2, <3>4, <3>5
  <2>4. CASE line.kind \notin {"echo", "position"} /\ parseState = "none"
             /\ ClassifyLine(line) /\ UNCHANGED <<unread, endLost>>
    BY <2>0, <2>4 DEF ClassifyLine
  <2> QED BY <1>11, <2>1, <2>2, <2>3, <2>4 DEF ProcessLine
<1>12. CASE StatusPollTimer
  BY <1>12 DEF StatusPollTimer, TimerUnchanged
<1>13. CASE RequestConfigRefresh
  BY <1>13 DEF RequestConfigRefresh, TimerUnchanged
<1>14. CASE Write
  BY <1>14 DEF Write, ServiceDeferredRefresh, Spend
<1>15. CASE Tick
  BY <1>15 DEF Tick, Spend, Older
<1>16. CASE UNCHANGED vars
  BY <1>16 DEF vars
<1> QED
  BY <1>1, <1>2, <1>3, <1>4, <1>5, <1>6, <1>7, <1>8, <1>9, <1>10,
     <1>11, <1>12, <1>13, <1>14, <1>15, <1>16
     DEF Next, Firmware, Reader, Control

\* What is delivered of a section has the right types.
LEMMA Delivered ==
  ASSUME TypeInv, DeliverSection
  PROVE  BeliefTypes'
<1> USE DEF TypeInv, SectionTypes, BeliefTypes
<1>1. CASE UNCHANGED <<params, synced, diag, polled>>
  BY <1>1
<1>2. CASE section # <<>> /\ parseState = "config" /\ DeliverConfig
  <2>1. CASE ~ParsedCleanly(section)
    BY <1>2, <2>1 DEF DeliverConfig
  <2>2. CASE ParsedCleanly(section)
    <3>1. params' = ParseConfigMap(section) /\ synced' = section[1].dump
      BY <1>2, <2>2 DEF DeliverConfig
    <3>2. params' \in Settings
      BY <1>2, <2>2, <3>1, ParsedSettings
    <3>3. section[1] \in Line /\ section[1].kind = "kv"
      BY <1>2
    <3>4. section[1].dump \in Settings
      BY <3>3 DEF Line, EchoLine, PlainLine, PlainKinds, KeyLine, SensorLine, PacketLine
    <3> QED BY <1>2, <3>1, <3>2, <3>4 DEF DeliverConfig
  <2> QED BY <2>1, <2>2
<1>3. CASE DeliverStatus
  <2>1. CASE ~Has(section, IsSensor)
    BY <1>3, <2>1 DEF DeliverStatus, ApplyStatusSection
  <2>2. CASE Has(section, IsSensor)
    <3> DEFINE sensor == LastOf(section, IsSensor)
               packets == IF Has(section, IsPacket) THEN LastOf(section, IsPacket).n ELSE 0
    <3>1. sensor.n \in Nat /\ sensor.packets \in Nat
      BY <2>2, LastSensor DEF SensorLine
    <3>2. packets \in Nat
      BY LastPacket DEF PacketLine
    <3>3. /\ diag' = [CountSensor(diag, sensor.n) EXCEPT !.packetErrors = packets]
          /\ polled' = sensor.packets /\ UNCHANGED <<params, synced>>
      BY <1>3, <2>2 DEF DeliverStatus, ApplyStatusSection
    <3> HIDE DEF sensor, packets
    <3>4. diag' \in DomeDiagnosticsState
      BY <3>1, <3>2, <3>3 DEF CountSensor, DomeDiagnosticsState
    <3> QED BY <3>1, <3>3, <3>4
  <2> QED BY <2>1, <2>2
<1> QED BY <1>1, <1>2, <1>3 DEF DeliverSection

\* What the hardware interface believes.
LEMMA BeliefStep ==
  ASSUME TypeInv, [Next]_vars
  PROVE  BeliefTypes'
<1> USE DEF deviceVars, readerVars, controlVars, beliefVars, historyVars
<1> USE ThresholdsAssumption DEF TypeInv, BeliefTypes
<1>1. CASE Execute
  BY <1>1 DEF Execute
<1>2. CASE PrintNext
  BY <1>2 DEF PrintNext, PrintLine
<1>3. CASE PrintGarbled
  BY <1>3 DEF PrintGarbled, PrintLine, Spend
<1>4. CASE Report
  BY <1>4 DEF Report
<1>5. CASE MoveEnds
  BY <1>5 DEF MoveEnds
<1>6. CASE ChangeSetting
  BY <1>6 DEF ChangeSetting, Spend
<1>7. CASE CountError
  BY <1>7 DEF CountError, Spend
<1>8. CASE Reboot
  BY <1>8 DEF Reboot, Spend
<1>9. CASE ReadChunk
  BY <1>9 DEF ReadChunk, Spend
<1>10. CASE FlushIdle
  <2>1. DeliverSection
    BY <1>10 DEF FlushIdle
  <2> QED BY <2>1, Delivered
<1>11. CASE ProcessLine
  <2> DEFINE line == Head(lines)
  <2>0. /\ lines # <<>> /\ lines' = Tail(lines)
        /\ UNCHANGED <<deviceVars, printing, toDevice, toHost, sendQueue, controlVars, left,
                       lastEnd, disturbed>>
    BY <1>11 DEF ProcessLine
  <2>1. CASE line.kind = "echo" /\ ProcessEcho(line.of)
             /\ UNCHANGED <<moveOutstanding, unread, endLost>>
    <3>1. DeliverSection
      BY <2>1 DEF ProcessEcho
    <3> QED BY <3>1, Delivered
  <2>2. CASE line.kind = "position" /\ ProcessPosition
             /\ UNCHANGED <<moveOutstanding, endLost>>
    <3>1. RecordPositionReport(diag) \in DomeDiagnosticsState
      BY DEF RecordPositionReport, DomeDiagnosticsState
    <3> QED BY <2>2, <3>1 DEF ProcessPosition
  <2>3. CASE line.kind \notin {"echo", "position"} /\ parseState # "none"
             /\ CollectLine(line) /\ UNCHANGED <<moveOutstanding, unread>>
             /\ endLost' = (endLost \/ IsEnd(line))
    BY <2>0, <2>3 DEF CollectLine
  <2>4. CASE line.kind \notin {"echo", "position"} /\ parseState = "none"
             /\ ClassifyLine(line) /\ UNCHANGED <<unread, endLost>>
    <3>1. line \in Line
      BY <2>0, HeadTailProperties DEF StreamTypes
    <3>2. ApplyFirmwareLine(diag, line) \in DomeDiagnosticsState
      <4>1. line.kind = "sensor" => line.n \in Nat
        BY <3>1 DEF Line, EchoLine, PlainLine, PlainKinds, KeyLine, SensorLine, PacketLine
      <4>2. line.kind = "packet" => line.n \in Nat
        BY <3>1 DEF Line, EchoLine, PlainLine, PlainKinds, KeyLine, SensorLine, PacketLine
      <4> HIDE DEF line
      <4>3. CASE line.kind = "sensor"
        <5>1. ApplyFirmwareLine(diag, line) = CountSensor(diag, line.n)
          BY <4>3 DEF ApplyFirmwareLine
        <5> QED BY <4>1, <4>3, <5>1 DEF CountSensor, DomeDiagnosticsState
      <4>4. CASE line.kind = "packet"
        <5>1. ApplyFirmwareLine(diag, line) = [diag EXCEPT !.packetErrors = line.n]
          BY <4>4 DEF ApplyFirmwareLine
        <5> QED BY <4>2, <4>4, <5>1 DEF DomeDiagnosticsState
      <4>5. CASE line.kind = "timeout"
        <5>1. ApplyFirmwareLine(diag, line) = [diag EXCEPT !.timeoutAge = 0, !.recovered = FALSE]
          BY <4>5 DEF ApplyFirmwareLine
        <5>2. 0 \in 0..ErrorFor
          BY ThresholdsAssumption
        <5> HIDE ThresholdsAssumption
        <5> QED BY <5>1, <5>2 DEF DomeDiagnosticsState
      <4>6. CASE line.kind = "reached"
        <5>1. ApplyFirmwareLine(diag, line) = [diag EXCEPT !.recovered = TRUE]
          BY <4>6 DEF ApplyFirmwareLine
        <5> QED BY <5>1 DEF DomeDiagnosticsState
      <4>7. CASE line.kind = "ready"
        <5>1. ApplyFirmwareLine(diag, line) = [diag EXCEPT !.rebooted = TRUE]
          BY <4>7 DEF ApplyFirmwareLine
        <5> QED BY <5>1 DEF DomeDiagnosticsState
      <4>8. CASE line.kind \notin {"sensor", "packet", "timeout", "reached", "ready"}
        BY <4>8 DEF ApplyFirmwareLine
      <4> QED BY <4>3, <4>4, <4>5, <4>6, <4>7, <4>8
    <3> QED BY <2>4, <3>2 DEF ClassifyLine
  <2> QED BY <1>11, <2>1, <2>2, <2>3, <2>4 DEF ProcessLine
<1>12. CASE StatusPollTimer
  BY <1>12 DEF StatusPollTimer, TimerUnchanged
<1>13. CASE RequestConfigRefresh
  BY <1>13 DEF RequestConfigRefresh, TimerUnchanged
<1>14. CASE Write
  BY <1>14 DEF Write, ServiceDeferredRefresh, Spend
<1>15. CASE Tick
  <2>1. UNCHANGED <<params, synced, polled>> /\ diag' = Aged(diag)
    BY <1>15 DEF Tick
  <2>2. Aged(diag) \in DomeDiagnosticsState
    <3>1. /\ Older(diag.reportAge, StaleAfter) \in 0..StaleAfter
          /\ diag.timeoutAge # Unknown => Older(diag.timeoutAge, ErrorFor) \in 0..ErrorFor
      BY DEF Older, DomeDiagnosticsState
    <3> QED BY <3>1 DEF Aged, DomeDiagnosticsState
  <2> QED BY <2>1, <2>2
<1>16. CASE UNCHANGED vars
  BY <1>16 DEF vars
<1> QED
  BY <1>1, <1>2, <1>3, <1>4, <1>5, <1>6, <1>7, <1>8, <1>9, <1>10,
     <1>11, <1>12, <1>13, <1>14, <1>15, <1>16
     DEF Next, Firmware, Reader, Control

LEMMA TypesInit == Init => TypeInv
<1> SUFFICES ASSUME Init PROVE TypeInv
  OBVIOUS
<1> USE DEF Init
<1>1. settings \in Settings
  BY StartAssumption DEF Settings
<1>2. DeviceTypes /\ ErrorsInv
  <2>1. moving \in BOOLEAN /\ reporting \in BOOLEAN
    OBVIOUS
  <2>2. errors \in [sensor : Nat, packet : Nat] /\ errors.sensor + errors.packet = 0
    OBVIOUS
  <2>3. 0 <= MaxEvents - left
    BY EventsAssumption
  <2> QED BY <1>1, <2>1, <2>2, <2>3 DEF DeviceTypes, ErrorsInv
<1>3. StreamTypes /\ SectionTypes
  BY WireAssumption, ThresholdsAssumption DEF StreamTypes, SectionTypes
<1>4. QueueTypes
  BY DEF QueueTypes, StatusPoll, Commands
<1>5. ControlTypes
  <2>1. configRefreshPending \in BOOLEAN /\ moveOutstanding \in BOOLEAN
    OBVIOUS
  <2>2. deferredAge \in 0..Settle /\ left \in 0..MaxEvents
    BY EventsAssumption, ThresholdsAssumption
  <2> QED BY <2>1, <2>2 DEF ControlTypes
<1>6. BeliefTypes
  <2>1. FreshDiagnostics \in DomeDiagnosticsState
    BY ThresholdsAssumption DEF FreshDiagnostics, DomeDiagnosticsState
  <2> QED BY <1>1, <2>1 DEF BeliefTypes
<1>7. HistoryTypes
  <2>1. endLost \in BOOLEAN /\ disturbed \in BOOLEAN
    OBVIOUS
  <2>2. unread \in Int /\ unanswered \in Int /\ lastEnd = "none"
    OBVIOUS
  <2> QED BY <2>1, <2>2 DEF HistoryTypes
<1> QED BY <1>2, <1>3, <1>4, <1>5, <1>6, <1>7 DEF TypeInv

LEMMA TypesStep ==
  ASSUME TypeInv, [Next]_vars
  PROVE  TypeInv'
BY DeviceStep, QueueStep, ControlStep, HistoryStep, StreamTypesStep, SectionStep, BeliefStep
   DEF TypeInv

-----------------------------------------------------------------------------
(* The stream of the lines that were printed and are not processed yet.     *)

\* Concatenation is associative: stated so that it is only used where it is cited.
Associates(a, b, c) == (a \o b) \o c = a \o (b \o c)
LEMMA Associative ==
  ASSUME NEW S, NEW a \in Seq(S), NEW b \in Seq(S), NEW c \in Seq(S)
  PROVE  Associates(a, b, c)
BY ConcatAssociative DEF Associates

Regroups(a, b, c, d) ==
  /\ (a \o (b \o c)) \o d = (a \o b) \o (c \o d)
  /\ ((a \o b) \o c) \o d = a \o ((b \o c) \o d)

LEMMA Regrouped ==
  ASSUME NEW S, NEW a \in Seq(S), NEW b \in Seq(S), NEW c \in Seq(S), NEW d \in Seq(S)
  PROVE  Regroups(a, b, c, d)
<1>1. a \o b \in Seq(S) /\ b \o c \in Seq(S)
  BY ConcatProperties
<1>2. Associates(a, b, c) /\ Associates(a \o b, c, d) /\ Associates(a, b \o c, d)
  BY <1>1, Associative
<1> QED BY <1>2 DEF Associates, Regroups

LEMMA StreamIsLines ==
  ASSUME TypeInv
  PROVE  InFlight \in Seq(Line) /\ lines \o toHost \in Seq(Line)
BY ConcatProperties DEF TypeInv, StreamTypes, InFlight

\* A line that reaches the wire, and one that read() fetches, stays in it.
LEMMA PrintKeepsStream ==
  ASSUME TypeInv, PrintNext
  PROVE  InFlight' = InFlight
<1>0. lines \in Seq(Line) /\ toHost \in Seq(Line) /\ printing \in Seq(Line)
  BY DEF TypeInv, StreamTypes
<1>1. /\ printing # <<>> /\ toHost' = Append(toHost, Head(printing))
      /\ printing' = Tail(printing) /\ lines' = lines
  BY DEF PrintNext, PrintLine
<1> DEFINE one == <<Head(printing)>>
           rest == Tail(printing)
<1>2. printing = one \o rest /\ Head(printing) \in Line
  BY <1>0, <1>1, HeadFirst
<1>9. one \in Seq(Line) /\ rest \in Seq(Line)
  BY <1>0, <1>1, HeadFirst
<1>3. toHost' = toHost \o one
  BY <1>0, <1>1, <1>2, AppendIsConcat
<1> HIDE DEF one, rest
<1>4. (lines \o (toHost \o one)) \o rest = (lines \o toHost) \o (one \o rest)
  <2>1. Regroups(lines, toHost, one, rest)
    BY <1>0, <1>9, Regrouped
  <2> QED BY <2>1 DEF Regroups
<1> QED BY <1>1, <1>2, <1>3, <1>4 DEF InFlight, rest

LEMMA ReadKeepsStream ==
  ASSUME TypeInv, ReadChunk, ~disturbed'
  PROVE  lines' \o toHost' = lines \o toHost /\ InFlight' = InFlight
<1> USE DEF TypeInv, StreamTypes
<1>1. PICK n \in 1..Len(toHost) :
        /\ toHost' = SubSeq(toHost, n + 1, Len(toHost))
        /\ lines' = SubSeq(toHost, 1, n)
  BY DEF ReadChunk
<1>2. lines = <<>> /\ printing' = printing
  BY DEF ReadChunk
<1>3. SubSeq(toHost, 1, n) \o SubSeq(toHost, n + 1, Len(toHost)) = SubSeq(toHost, 1, Len(toHost))
  BY ConcatAdjacentSubSeq, LenProperties
<1>4. SubSeq(toHost, 1, Len(toHost)) = toHost
  BY SubSeqFull
<1>5. lines \o toHost = toHost
  BY <1>2, ConcatEmptySeq
<1> QED BY <1>1, <1>2, <1>3, <1>4, <1>5 DEF InFlight

\* What the firmware begins to print is added to it, ...
LEMMA AnswerGoesLast ==
  ASSUME TypeInv, printing = <<>>, UNCHANGED <<lines, toHost>>
  PROVE  InFlight' = InFlight \o printing'
<1>1. InFlight = lines \o toHost
  BY StreamIsLines, ConcatEmptySeq DEF InFlight
<1> QED BY <1>1 DEF InFlight

LEMMA ReportGoesLast ==
  ASSUME TypeInv, Report
  PROVE  InFlight' = InFlight \o <<Plain("position")>>
<1> USE DEF TypeInv, StreamTypes
<1> DEFINE one == <<Plain("position")>>
<1>1. /\ printing = <<>> /\ toHost' = Append(toHost, Plain("position"))
      /\ printing' = printing /\ lines' = lines
  BY DEF Report
<1>2. Plain("position") \in Line /\ one \in Seq(Line)
  BY PlainIsLine DEF PlainKinds
<1>3. toHost' = toHost \o one
  BY <1>1, <1>2, AppendIsConcat
<1> HIDE DEF one
<1>4. InFlight = lines \o toHost
  BY <1>1, StreamIsLines, ConcatEmptySeq DEF InFlight
<1>5. (lines \o toHost) \o one = lines \o (toHost \o one)
  BY <1>2, Associative DEF Associates
<1>6. lines \o (toHost \o one) \in Seq(Line)
  BY <1>2, ConcatProperties
<1>7. InFlight' = lines \o (toHost \o one)
  BY <1>1, <1>3, <1>6, ConcatEmptySeq DEF InFlight
<1> QED BY <1>4, <1>5, <1>7 DEF one

\* ... and what is processed is its first line.
LEMMA ProcessTakesFirst ==
  ASSUME TypeInv, TypeInv', ProcessLine
  PROVE  /\ Head(lines) \in Line /\ InFlight' \in Seq(Line)
         /\ InFlight = <<Head(lines)>> \o InFlight'
<1>0. lines \in Seq(Line) /\ toHost \in Seq(Line) /\ printing \in Seq(Line)
  BY DEF TypeInv, StreamTypes
<1>1. lines # <<>> /\ lines' = Tail(lines) /\ UNCHANGED <<toHost, printing>>
  BY DEF ProcessLine
<1> DEFINE one == <<Head(lines)>>
           rest == Tail(lines)
<1>2. lines = one \o rest /\ Head(lines) \in Line
  BY <1>0, <1>1, HeadFirst
<1>9. one \in Seq(Line) /\ rest \in Seq(Line)
  BY <1>0, <1>1, HeadFirst
<1> HIDE DEF one, rest
<1>3. ((one \o rest) \o toHost) \o printing = one \o ((rest \o toHost) \o printing)
  <2>1. Regroups(one, rest, toHost, printing)
    BY <1>0, <1>9, Regrouped
  <2> QED BY <2>1 DEF Regroups
<1>4. rest \o toHost \in Seq(Line)
  BY <1>0, <1>9, ConcatProperties
<1>6. InFlight' = (rest \o toHost) \o printing
  BY <1>1 DEF InFlight, rest
<1>7. InFlight' \in Seq(Line)
  BY <1>0, <1>4, <1>6, ConcatProperties
<1> QED BY <1>2, <1>3, <1>6, <1>7 DEF InFlight, one

\* No other undisturbed step changes it.
LEMMA QuietStep ==
  ASSUME TypeInv, [Next]_vars, ~disturbed', ~Execute, ~Report, ~MoveEnds, ~Reboot, ~ProcessLine
  PROVE  InFlight' = InFlight
<1> USE DEF deviceVars, readerVars, controlVars, beliefVars, historyVars
<1>1. CASE PrintNext \/ ReadChunk
  BY <1>1, PrintKeepsStream, ReadKeepsStream
<1>2. CASE PrintGarbled
  BY <1>2 DEF PrintGarbled
<1>3. CASE ChangeSetting \/ CountError \/ FlushIdle
  BY <1>3 DEF ChangeSetting, CountError, FlushIdle, InFlight
<1>4. CASE Control
  BY <1>4 DEF Control, StatusPollTimer, RequestConfigRefresh, Write, TimerUnchanged, InFlight
<1>5. CASE Tick
  BY <1>5 DEF Tick, InFlight
<1>6. CASE UNCHANGED vars
  BY <1>6 DEF vars, InFlight
<1> QED BY <1>1, <1>2, <1>3, <1>4, <1>5, <1>6 DEF Next, Firmware, Reader

\* An answer that was cut stays in the history.
LEMMA DisturbedStays ==
  ASSUME [Next]_vars, ~disturbed'
  PROVE  ~disturbed
<1> USE DEF deviceVars, readerVars, controlVars, beliefVars, historyVars
<1>1. CASE Firmware
  BY <1>1 DEF Firmware, Execute, PrintNext, PrintGarbled, PrintLine, Report, MoveEnds,
     ChangeSetting, CountError, Reboot
<1>2. CASE Reader
  BY <1>2 DEF Reader, ReadChunk, FlushIdle, ProcessLine
<1>3. CASE Control
  BY <1>3 DEF Control, StatusPollTimer, RequestConfigRefresh, Write, TimerUnchanged
<1>4. CASE Tick \/ UNCHANGED vars
  BY <1>4 DEF Tick, vars
<1> QED BY <1>1, <1>2, <1>3, <1>4 DEF Next

-----------------------------------------------------------------------------
(* Chains of answers.                                                       *)

\* The line that what is read next is a part of the same answer as.
Reading ==
  IF parseState = "none" THEN Plain("junk")
  ELSE IF section = <<>> THEN Echo(parseState) ELSE section[Len(section)]

\* After this line the answer goes on.
Unfinished(a) ==
  \/ a.kind = "echo" /\ a.of = "status"
  \/ a.kind = "echo" /\ a.of = "config" /\ DumpOrder # <<>>
  \/ a.kind = "kv" /\ \E i \in 1..Len(DumpOrder) - 1 : a.key = DumpOrder[i]
  \/ a.kind = "sensor" /\ a.packets # 0

\* It goes on with that line.
GoesOn(a, b) ==
  \/ a.kind = "echo" /\ a.of = "status" /\ b.kind = "sensor"
  \/ a.kind = "echo" /\ a.of = "config" /\ b.kind = "kv" /\ b = KeyValue(DumpOrder[1], b.dump)
  \/ a.kind = "kv" /\ \E i \in 1..Len(DumpOrder) - 1 :
       a.key = DumpOrder[i] /\ b = KeyValue(DumpOrder[i + 1], a.dump)
  \/ a.kind = "sensor" /\ b = Packet(a.packets)

Inner == {"kv", "sensor", "packet"}

Leads(a, b) == IF Unfinished(a) THEN GoesOn(a, b) ELSE b.kind \notin Inner

LastLine(first, seq) == IF seq = <<>> THEN first ELSE seq[Len(seq)]

Chained(first, seq) ==
  /\ \A j \in 1..Len(seq) : Leads(IF j = 1 THEN first ELSE seq[j - 1], seq[j])
  /\ ~Unfinished(LastLine(first, seq))

\* Only a line of the inside of an answer goes on with one.
LEMMA Interrupts ==
  ASSUME NEW a, NEW b, Leads(a, b), b.kind \notin Inner
  PROVE  ~Unfinished(a)
BY DEF Leads, GoesOn, Inner, KeyValue, Packet

LEMMA ChainCons ==
  ASSUME NEW a, NEW x \in Line, NEW rest \in Seq(Line), NEW seq, seq = <<x>> \o rest
  PROVE  Chained(a, seq) <=> Leads(a, x) /\ Chained(x, rest)
<1>0. <<x>> \in Seq(Line) /\ Len(<<x>>) = 1 /\ <<x>>[1] = x
  OBVIOUS
<1>1. /\ seq \in Seq(Line) /\ Len(seq) = Len(rest) + 1 /\ Len(rest) \in Nat
      /\ \A i \in 1..Len(rest) + 1 : seq[i] = IF i = 1 THEN x ELSE rest[i - 1]
  <2>1. /\ <<x>> \o rest \in Seq(Line) /\ Len(<<x>> \o rest) = 1 + Len(rest)
        /\ \A i \in 1..1 + Len(rest) :
             (<<x>> \o rest)[i] = IF i <= 1 THEN <<x>>[i] ELSE rest[i - 1]
    BY <1>0, ConcatProperties
  <2>2. Len(rest) \in Nat
    OBVIOUS
  <2> QED BY <1>0, <2>1, <2>2
<1>2. LastLine(a, seq) = LastLine(x, rest)
  <2>1. CASE rest = <<>>
    <3>1. Len(rest) = 0
      BY <2>1
    <3>2. seq[1] = x /\ seq # <<>> /\ Len(seq) = 1
      BY <1>1, <3>1
    <3> QED BY <2>1, <3>2 DEF LastLine
  <2>2. CASE rest # <<>>
    <3>1. Len(rest) \in Nat \ {0}
      BY <2>2
    <3>2. seq[Len(rest) + 1] = rest[Len(rest)] /\ seq # <<>>
      BY <1>1, <3>1
    <3> QED BY <1>1, <2>2, <3>2 DEF LastLine
  <2> QED BY <2>1, <2>2
<1> DEFINE All(b, s) == \A j \in 1..Len(s) : Leads(IF j = 1 THEN b ELSE s[j - 1], s[j])
<1>3. All(a, seq) <=> Leads(a, x) /\ All(x, rest)
  <2>1. ASSUME All(a, seq)
        PROVE  Leads(a, x) /\ All(x, rest)
    <3>1. Leads(a, x)
      <4>1. 1 \in 1..Len(seq) /\ seq[1] = x
        BY <1>1
      <4> QED BY <2>1, <4>1
    <3>2. ASSUME NEW j \in 1..Len(rest)
          PROVE  Leads(IF j = 1 THEN x ELSE rest[j - 1], rest[j])
      <4>1. j + 1 \in 1..Len(seq) /\ j + 1 # 1 /\ (j + 1) - 1 = j
        BY <1>1
      <4>2. Leads(seq[j], seq[j + 1])
        BY <2>1, <4>1
      <4>3. seq[j + 1] = rest[j] /\ seq[j] = IF j = 1 THEN x ELSE rest[j - 1]
        BY <1>1, <4>1
      <4> QED BY <4>2, <4>3
    <3> QED BY <3>1, <3>2
  <2>2. ASSUME Leads(a, x), All(x, rest)
        PROVE  All(a, seq)
    <3> SUFFICES ASSUME NEW j \in 1..Len(seq)
                 PROVE  Leads(IF j = 1 THEN a ELSE seq[j - 1], seq[j])
      OBVIOUS
    <3>1. CASE j = 1
      BY <1>1, <2>2, <3>1
    <3>2. CASE j # 1
      <4>1. j - 1 \in 1..Len(rest)
        BY <1>1, <3>2
      <4>2. Leads(IF j - 1 = 1 THEN x ELSE rest[j - 1 - 1], rest[j - 1])
        BY <2>2, <4>1
      <4>3. seq[j] = rest[j - 1] /\ seq[j - 1] = IF j - 1 = 1 THEN x ELSE rest[j - 1 - 1]
        BY <1>1, <3>2, <4>1
      <4> QED BY <3>2, <4>2, <4>3
    <3> QED BY <3>1, <3>2
  <2> QED BY <2>1, <2>2
<1> HIDE DEF All
<1>4. /\ Chained(a, seq) <=> All(a, seq) /\ ~Unfinished(LastLine(a, seq))
      /\ Chained(x, rest) <=> All(x, rest) /\ ~Unfinished(LastLine(x, rest))
  BY DEF Chained, All
<1> QED BY <1>2, <1>3, <1>4

\* Of lines that are both the end of their answer one may stand for the other.
LEMMA ChainSwap ==
  ASSUME NEW a, NEW b, ~Unfinished(a), ~Unfinished(b), NEW seq \in Seq(Line), Chained(a, seq)
  PROVE  Chained(b, seq)
<1>1. \A j \in 1..Len(seq) : Leads(IF j = 1 THEN b ELSE seq[j - 1], seq[j])
  <2> SUFFICES ASSUME NEW j \in 1..Len(seq)
               PROVE  Leads(IF j = 1 THEN b ELSE seq[j - 1], seq[j])
    OBVIOUS
  <2>1. Leads(IF j = 1 THEN a ELSE seq[j - 1], seq[j])
    BY DEF Chained
  <2> QED BY <2>1 DEF Leads
<1>2. ~Unfinished(LastLine(b, seq))
  BY DEF Chained, LastLine
<1> QED BY <1>1, <1>2 DEF Chained

\* A new answer may follow a chain of whole ones.
LEMMA ChainGrows ==
  ASSUME NEW a, NEW seq \in Seq(Line), NEW new \in Seq(Line),
         Chained(a, seq), Chained(Plain("junk"), new)
  PROVE  Chained(a, seq \o new)
<1> DEFINE n == Len(seq)
           m == Len(new)
           all == seq \o new
           junk == Plain("junk")
<1>0. ~Unfinished(junk)
  BY DEF Unfinished, Plain
<1>1. /\ all \in Seq(Line) /\ Len(all) = n + m /\ n \in Nat /\ m \in Nat
      /\ \A i \in 1..n + m : all[i] = IF i <= n THEN seq[i] ELSE new[i - n]
  BY ConcatProperties, LenProperties
<1>2. ~Unfinished(LastLine(a, seq))
  BY DEF Chained
<1>3. \A j \in 1..n : Leads(IF j = 1 THEN a ELSE seq[j - 1], seq[j])
  BY DEF Chained
<1>4. \A j \in 1..m : Leads(IF j = 1 THEN junk ELSE new[j - 1], new[j])
  BY DEF Chained
<1>5. ~Unfinished(LastLine(junk, new))
  BY DEF Chained
<1> HIDE DEF all, junk
<1>6. ASSUME NEW j \in 1..n + m
      PROVE  Leads(IF j = 1 THEN a ELSE all[j - 1], all[j])
  <2>1. CASE j <= n
    <3>1. all[j] = seq[j] /\ (j # 1 => all[j - 1] = seq[j - 1])
      BY <1>1, <2>1
    <3> QED BY <1>1, <1>3, <2>1, <3>1
  <2>2. CASE j > n
    <3>1. j - n \in 1..m /\ all[j] = new[j - n]
      BY <1>1, <2>2
    <3>2. Leads(IF j - n = 1 THEN junk ELSE new[j - n - 1], new[j - n])
      BY <1>4, <3>1
    <3>3. CASE j = n + 1
      <4>1. Leads(junk, new[j - n])
        BY <1>1, <3>2, <3>3
      <4>2. new[j - n].kind \notin Inner
        BY <1>0, <4>1 DEF Leads
      <4>3. (IF j = 1 THEN a ELSE all[j - 1]) = LastLine(a, seq)
        <5>1. CASE seq = <<>>
          BY <1>1, <3>3, <5>1 DEF LastLine
        <5>2. CASE seq # <<>>
          <6>1. n # 0 /\ j # 1 /\ j - 1 = n
            BY <1>1, <3>3, <5>2
          <6>2. all[n] = seq[n]
            BY <1>1, <6>1
          <6> QED BY <5>2, <6>1, <6>2 DEF LastLine
        <5> QED BY <5>1, <5>2
      <4> QED BY <1>2, <3>1, <4>2, <4>3 DEF Leads
    <3>4. CASE j # n + 1
      <4>1. j - 1 \in n + 1..n + m /\ j # 1 /\ j - n # 1
        BY <1>1, <2>2, <3>4
      <4>2. all[j - 1] = new[j - n - 1]
        BY <1>1, <4>1
      <4> QED BY <3>1, <3>2, <4>1, <4>2
    <3> QED BY <3>3, <3>4
  <2> QED BY <1>1, <2>1, <2>2
<1>7. ~Unfinished(LastLine(a, all))
  <2>1. CASE new = <<>>
    <3>1. all = seq
      BY <2>1, ConcatEmptySeq DEF all
    <3> QED BY <1>2, <3>1
  <2>2. CASE new # <<>>
    <3>1. m # 0
      BY <2>2
    <3>2. n + m \in 1..n + m /\ (n + m <= n <=> m = 0) /\ (n + m) - n = m
      BY <1>1, <3>1
    <3>3. all # <<>> /\ all[n + m] = new[m]
      BY <1>1, <3>1, <3>2
    <3>4. LastLine(a, all) = new[m] /\ LastLine(junk, new) = new[m]
      BY <1>1, <2>2, <3>3 DEF LastLine
    <3> QED BY <1>5, <3>4
  <2> QED BY <2>1, <2>2
<1> QED BY <1>1, <1>6, <1>7 DEF Chained, all

\* A chain that is not empty begins with what its first line leads to.
LEMMA ChainFirst ==
  ASSUME NEW a, NEW seq \in Seq(Line), Chained(a, seq), Unfinished(a)
  PROVE  seq # <<>>
BY DEF Chained, LastLine

\* Every answer, and every line that the firmware prints on its own, is one.
LEMMA EmptyChained ==
  ASSUME NEW a, ~Unfinished(a)
  PROVE  Chained(a, <<>>)
BY DEF Chained, LastLine

LEMMA SingleChained ==
  ASSUME NEW a, NEW x \in Line, Leads(a, x), ~Unfinished(x)
  PROVE  Chained(a, <<x>>) /\ <<x>> \in Seq(Line)
<1>1. Len(<<x>>) = 1 /\ <<x>>[1] = x /\ <<x>> \in Seq(Line) /\ <<x>> # <<>>
  OBVIOUS
<1>2. \A j \in 1..1 : Leads(IF j = 1 THEN a ELSE <<x>>[j - 1], <<x>>[j])
  BY <1>1
<1>3. LastLine(a, <<x>>) = x
  BY <1>1 DEF LastLine
<1> QED BY <1>1, <1>2, <1>3 DEF Chained

LEMMA PlainChained ==
  ASSUME NEW a, ~Unfinished(a), NEW k \in PlainKinds
  PROVE  Chained(a, <<Plain(k)>>) /\ <<Plain(k)>> \in Seq(Line) /\ ~Unfinished(Plain(k))
<1>1. Plain(k).kind = k
  BY DEF Plain
<1>2. Leads(a, Plain(k)) /\ ~Unfinished(Plain(k))
  BY <1>1 DEF Leads, Inner, Unfinished, PlainKinds
<1> QED BY <1>2, PlainIsLine, SingleChained

LEMMA DumpChained ==
  ASSUME NEW s \in Settings
  PROVE  Chained(Echo("config"), Dump(s))
<1> DEFINE n == Len(DumpOrder)
           d == Dump(s)
           e == Echo("config")
<1>1. /\ d \in Seq(Line) /\ Len(d) = n /\ n \in Nat
      /\ \A i \in 1..n : d[i] = KeyValue(DumpOrder[i], s)
  BY DumpLines
<1>2. e.kind = "echo" /\ e.of = "config"
  BY DEF Echo
<1>3. \A i, j \in 1..n : DumpOrder[i] = DumpOrder[j] => i = j
  BY KeysAssumption, LenProperties
<1> HIDE DEF d, e
<1>4. \A i \in 1..n : d[i].kind = "kv" /\ d[i].key = DumpOrder[i] /\ d[i].dump = s
  <2> SUFFICES ASSUME NEW i \in 1..n
               PROVE  d[i].kind = "kv" /\ d[i].key = DumpOrder[i] /\ d[i].dump = s
    OBVIOUS
  <2>1. d[i] = KeyValue(DumpOrder[i], s)
    BY <1>1
  <2> QED BY <2>1 DEF KeyValue
<1>5. ASSUME NEW j \in 1..n
      PROVE  Leads(IF j = 1 THEN e ELSE d[j - 1], d[j])
  <2>1. CASE j = 1
    <3>1. Unfinished(e)
      BY <1>2 DEF Unfinished
    <3>2. GoesOn(e, d[1])
      BY <1>1, <1>2, <1>4, <2>1 DEF GoesOn
    <3> QED BY <2>1, <3>1, <3>2 DEF Leads
  <2>2. CASE j # 1
    <3>1. j - 1 \in 1..n - 1 /\ j - 1 \in 1..n /\ (j - 1) + 1 = j
      BY <1>1, <2>2
    <3>2. Unfinished(d[j - 1])
      BY <1>4, <3>1 DEF Unfinished
    <3>3. d[j] = KeyValue(DumpOrder[(j - 1) + 1], d[j - 1].dump)
      BY <1>1, <1>4, <3>1
    <3>4. GoesOn(d[j - 1], d[j])
      BY <1>4, <3>1, <3>3 DEF GoesOn
    <3> QED BY <2>2, <3>2, <3>4 DEF Leads
  <2> QED BY <2>1, <2>2
<1>6. ~Unfinished(LastLine(e, d))
  <2>1. CASE n = 0
    <3>1. d = <<>> /\ DumpOrder = <<>>
      BY <1>1, <2>1, KeysAssumption
    <3> QED BY <1>2, <3>1 DEF LastLine, Unfinished
  <2>2. CASE n # 0
    <3>1. d # <<>> /\ n \in 1..n
      BY <1>1, <2>2
    <3>2. \A i \in 1..n - 1 : DumpOrder[n] # DumpOrder[i]
      BY <1>1, <1>3, <3>1
    <3>3. ~Unfinished(d[n])
      BY <1>4, <3>1, <3>2 DEF Unfinished
    <3> QED BY <1>1, <3>1, <3>3 DEF LastLine
  <2> QED BY <2>1, <2>2
<1> QED BY <1>1, <1>5, <1>6 DEF Chained, d, e

LEMMA AnswerChained ==
  ASSUME DeviceTypes, NEW c \in Commands
  PROVE  Chained(Plain("junk"), Answer(c))
<1> DEFINE junk == Plain("junk")
           e == Echo(c)
<1>0. ~Unfinished(junk)
  BY DEF Unfinished, Plain
<1>1. e \in Line /\ e.kind = "echo" /\ e.of = c
  BY DEF Echo, Line, EchoLine
<1>2. Leads(junk, e)
  BY <1>0, <1>1 DEF Leads, Inner
<1>3. ASSUME NEW rest \in Seq(Line), Chained(e, rest), Answer(c) = <<e>> \o rest
      PROVE  Chained(junk, Answer(c))
  <2> HIDE DEF e, junk
  <2> QED BY <1>1, <1>2, <1>3, ChainCons
<1>4. CASE c = "config"
  <2>1. Answer(c) = <<e>> \o Dump(settings) /\ Dump(settings) \in Seq(Line)
    BY <1>4, DumpLines DEF Answer, DeviceTypes
  <2>2. Chained(e, Dump(settings))
    BY <1>4, DumpChained DEF DeviceTypes
  <2> QED BY <1>3, <2>1, <2>2
<1>5. CASE c = "status"
  <2> DEFINE s == Sensor(errors)
             p == Packet(errors.packet)
  <2>1. Answer(c) = <<e>> \o StatusReport(errors)
    BY <1>5 DEF Answer
  <2>2. s \in Line /\ p \in Line /\ s.kind = "sensor" /\ s.packets = errors.packet
    BY DEF Sensor, Packet, Line, SensorLine, PacketLine, DeviceTypes
  <2>3. Leads(e, s)
    <3>1. Unfinished(e) /\ GoesOn(e, s)
      BY <1>1, <1>5, <2>2 DEF Unfinished, GoesOn
    <3> QED BY <3>1 DEF Leads
  <2>4. p.kind = "packet" /\ ~Unfinished(p)
    BY DEF Packet, Unfinished
  <2> HIDE DEF s
  <2>5. CASE errors.packet = 0
    <3>1. ~Unfinished(s)
      BY <2>2, <2>5 DEF Unfinished
    <3>2. StatusReport(errors) = <<s>>
      BY <2>5 DEF StatusReport, s
    <3>3. Chained(e, <<s>>) /\ <<s>> \in Seq(Line)
      BY <2>2, <2>3, <3>1, SingleChained
    <3> QED BY <1>3, <2>1, <3>2, <3>3
  <2>6. CASE errors.packet # 0
    <3>1. Leads(s, p)
      <4>1. Unfinished(s) /\ GoesOn(s, p)
        BY <2>2, <2>6 DEF Unfinished, GoesOn
      <4> QED BY <4>1 DEF Leads
    <3>2. StatusReport(errors) = <<s, p>>
      BY <2>6 DEF StatusReport, s
    <3> HIDE DEF p
    <3>3. <<s, p>> = <<s>> \o <<p>> /\ <<s, p>> \in Seq(Line)
      <4>1. <<s, p>> \in Seq(Line) /\ <<s>> \in Seq(Line)
        BY <2>2
      <4>2. Append(<<s>>, p) = <<s, p>>
        <5> DEFINE t == Append(<<s>>, p)
                   u == <<s, p>>
                   v == <<s>>
        <5>1. Len(u) = 2 /\ u[1] = s /\ u[2] = p /\ Len(v) = 1 /\ v[1] = s
          OBVIOUS
        <5>2. t \in Seq(Line) /\ Len(t) = Len(v) + 1 /\ t[Len(v) + 1] = p
              /\ \A i \in 1..Len(v) : t[i] = v[i]
          BY <2>2, <4>1, AppendProperties
        <5>3. Len(t) = 2 /\ t[1] = s /\ t[2] = p
          BY <5>1, <5>2
        <5> HIDE DEF t, u
        <5>4. \A i \in 1..Len(t) : t[i] = u[i]
          BY <5>1, <5>3
        <5>5. u \in Seq(Line)
          BY <4>1 DEF u
        <5>6. t = u
          BY <5>1, <5>2, <5>3, <5>4, <5>5, SeqEqual
        <5> QED BY <5>6 DEF t, u
      <4> QED BY <2>2, <4>1, <4>2, AppendIsConcat
    <3>4. Chained(s, <<p>>) /\ <<p>> \in Seq(Line)
      BY <2>2, <2>4, <3>1, SingleChained
    <3>5. Chained(e, <<s, p>>)
      BY <2>2, <2>3, <3>3, <3>4, ChainCons
    <3> QED BY <1>3, <2>1, <3>2, <3>3, <3>5
  <2> QED BY <2>5, <2>6
<1>6. CASE c = "probe"
  <2>1. Answer(c) = <<e>> \o <<Plain("invalid")>>
    BY <1>6 DEF Answer
  <2>2. ~Unfinished(e)
    BY <1>1, <1>6 DEF Unfinished
  <2>3. Chained(e, <<Plain("invalid")>>) /\ <<Plain("invalid")>> \in Seq(Line)
    BY <2>2, PlainChained DEF PlainKinds
  <2> QED BY <1>3, <2>1, <2>3
<1>7. CASE c = "move"
  <2>1. Answer(c) = <<e>> \o <<>>
    BY <1>7 DEF Answer
  <2>2. ~Unfinished(e)
    BY <1>1, <1>7 DEF Unfinished
  <2>3. Chained(e, <<>>) /\ <<>> \in Seq(Line)
    BY <2>2, EmptyChained
  <2> QED BY <1>3, <2>1, <2>3
<1> QED BY <1>4, <1>5, <1>6, <1>7 DEF Commands

-----------------------------------------------------------------------------
(* Without a cut answer, what is read is a chain of whole ones.             *)

ChainInv == Chained(Reading, InFlight)

\* The lines of a dump are collected in its order.
DumpPart ==
  parseState = "config" =>
    /\ Len(section) <= Len(DumpOrder)
    /\ \A i \in 1..Len(section) : section[i] = KeyValue(DumpOrder[i], section[1].dump)

\* A status section begins with its sensor line; its packet line follows at once.
StatusPart ==
  parseState = "status" =>
    \A i \in 1..Len(section) :
      /\ i = 1 => section[i].kind = "sensor"
      /\ i # 1 => section[i].kind \notin {"sensor", "kv", "echo"}
      /\ section[i].kind = "packet" =>
           i = 2 /\ section[1].packets # 0 /\ section[i] = Packet(section[1].packets)
      /\ i = 2 /\ section[1].packets # 0 => section[i].kind = "packet"

\* Time only passes in the middle of an answer when the rest of it can be read.
AgeInv == sectionAge > 0 /\ Unfinished(Reading) => lines \o toHost # <<>>

LEMMA ReadingLine ==
  ASSUME TypeInv
  PROVE  Reading \in Line
<1>1. Plain("junk") \in Line
  BY PlainIsLine DEF PlainKinds
<1>2. parseState # "none" => Echo(parseState) \in Line
  BY DEF TypeInv, SectionTypes, Echo, Line, EchoLine, Commands
<1>3. section # <<>> => section[Len(section)] \in Line
  BY DEF TypeInv, SectionTypes
<1> QED BY <1>1, <1>2, <1>3 DEF Reading

\* What an undisturbed step begins with.
LEMMA ReadingKept ==
  ASSUME [Next]_vars, ~FlushIdle, ~ProcessLine
  PROVE  UNCHANGED <<parseState, section>> /\ Reading' = Reading
<1> USE DEF deviceVars, readerVars, controlVars, beliefVars, historyVars
<1>1. UNCHANGED <<parseState, section>>
  <2>1. CASE Firmware
    BY <2>1 DEF Firmware, Execute, PrintNext, PrintGarbled, PrintLine, Report, MoveEnds,
       ChangeSetting, CountError, Reboot
  <2>2. CASE Reader
    BY <2>2 DEF Reader, ReadChunk
  <2>3. CASE Control
    BY <2>3 DEF Control, StatusPollTimer, RequestConfigRefresh, Write, TimerUnchanged
  <2>4. CASE Tick \/ UNCHANGED vars
    BY <2>4 DEF Tick, vars
  <2> QED BY <2>1, <2>2, <2>3, <2>4 DEF Next
<1> QED BY <1>1 DEF Reading

\* The idle timeout only closes a section of which everything was read.
LEMMA FlushOfWhole ==
  ASSUME TypeInv, FlushIdle, AgeInv
  PROVE  ~Unfinished(Reading)
<1>1. lines = <<>> /\ toHost = <<>> /\ sectionAge = FlushAfter
  BY DEF FlushIdle
<1>2. lines \o toHost = <<>>
  BY <1>1
<1>3. sectionAge > 0
  BY <1>1, ThresholdsAssumption
<1> QED BY <1>2, <1>3 DEF AgeInv

\* The line that is processed follows the one before it.
LEMMA ProcessLeads ==
  ASSUME TypeInv, TypeInv', ProcessLine, ChainInv
  PROVE  Leads(Reading, Head(lines)) /\ Chained(Head(lines), InFlight')
BY ProcessTakesFirst, ChainCons DEF ChainInv

LEMMA EchoOf ==
  ASSUME NEW line \in Line, line.kind = "echo"
  PROVE  line = Echo(line.of) /\ line.of \in Commands
BY DEF Line, EchoLine, PlainLine, PlainKinds, KeyLine, SensorLine, PacketLine, Echo

LEMMA ProcessChain ==
  ASSUME TypeInv, TypeInv', ProcessLine, ChainInv
  PROVE  ChainInv'
<1> DEFINE line == Head(lines)
<1>1. line \in Line /\ InFlight' \in Seq(Line)
  BY ProcessTakesFirst
<1>2. Leads(Reading, line) /\ Chained(line, InFlight')
  BY ProcessLeads
<1>3. SUFFICES Chained(Reading', InFlight')
  BY DEF ChainInv
<1>4. ASSUME Reading' = line
      PROVE  Chained(Reading', InFlight')
  BY <1>2, <1>4
<1>5. ASSUME ~Unfinished(line), ~Unfinished(Reading')
      PROVE  Chained(Reading', InFlight')
  <2> HIDE DEF line
  <2> QED BY <1>1, <1>2, <1>5, ChainSwap
<1>6. ~Unfinished(Plain("junk"))
  BY DEF Unfinished, Plain
<1>7. CASE line.kind = "echo" /\ ProcessEcho(line.of)
  <2>1. line = Echo(line.of) /\ line.of \in Commands
    BY <1>1, <1>7, EchoOf
  <2>2. parseState' = NextState(line.of) /\ section' = <<>>
    BY <1>7 DEF ProcessEcho
  <2>3. CASE line.of \in {"config", "status"}
    <3>1. parseState' = line.of /\ parseState' # "none"
      BY <2>2, <2>3 DEF NextState
    <3>2. Reading' = line
      BY <2>1, <2>2, <3>1 DEF Reading
    <3> QED BY <1>4, <3>2
  <2>4. CASE line.of \notin {"config", "status"}
    <3>1. parseState' = "none"
      BY <2>2, <2>4 DEF NextState
    <3>2. Reading' = Plain("junk")
      BY <3>1 DEF Reading
    <3>3. ~Unfinished(line)
      BY <1>7, <2>4 DEF Unfinished
    <3> QED BY <1>5, <1>6, <3>2, <3>3
  <2> QED BY <2>3, <2>4
<1>8. CASE line.kind = "position" /\ ProcessPosition
  <2>1. Reading' = Reading
    BY <1>8 DEF ProcessPosition, readerVars, Reading
  <2>2. ~Unfinished(Reading) /\ ~Unfinished(line)
    BY <1>2, <1>8, Interrupts DEF Unfinished, Inner
  <2> QED BY <1>5, <2>1, <2>2
<1>9. CASE line.kind \notin {"echo", "position"} /\ parseState # "none" /\ CollectLine(line)
  <2>1. parseState' = parseState
    BY <1>9 DEF CollectLine
  <2>2. CASE section' = Append(section, line)
    <3>1. section' # <<>> /\ section'[Len(section')] = line
      <4>1. section \in Seq(Line)
        BY DEF TypeInv, SectionTypes
      <4>2. /\ Append(section, line) # <<>> /\ Len(Append(section, line)) = Len(section) + 1
            /\ Append(section, line)[Len(section) + 1] = line
        BY <1>1, <4>1, AppendProperties
      <4> QED BY <2>2, <4>2
    <3>2. Reading' = line
      BY <1>9, <2>1, <3>1 DEF Reading
    <3> QED BY <1>4, <3>2
  <2>3. CASE section' # Append(section, line)
    <3>1. section' = section /\ parseState = "config" /\ line.kind # "kv"
      BY <1>9, <2>3 DEF CollectLine, TypeInv, SectionTypes
    <3>2. Reading' = Reading
      BY <2>1, <3>1 DEF Reading
    <3>3. Reading.kind = "kv" \/ (Reading.kind = "echo" /\ Reading.of = "config")
      <4>1. CASE section = <<>>
        BY <3>1, <4>1 DEF Reading, Echo
      <4>2. CASE section # <<>>
        <5>1. Reading = section[Len(section)] /\ Len(section) \in 1..Len(section)
          BY <3>1, <4>2 DEF Reading, TypeInv, SectionTypes
        <5> QED BY <3>1, <5>1 DEF TypeInv, SectionTypes
      <4> QED BY <4>1, <4>2
    <3>4. ~Unfinished(Reading)
      BY <1>2, <3>1, <3>3 DEF Leads, GoesOn, KeyValue
    <3>5. line.kind \notin Inner
      BY <1>2, <3>4 DEF Leads
    <3>6. ~Unfinished(line)
      BY <1>9, <3>5 DEF Unfinished, Inner
    <3> QED BY <1>5, <3>2, <3>4, <3>6
  <2> QED BY <2>2, <2>3
<1>10. CASE line.kind \notin {"echo", "position"} /\ parseState = "none" /\ ClassifyLine(line)
  <2>1. Reading' = Plain("junk") /\ Reading = Plain("junk")
    BY <1>10 DEF ClassifyLine, readerVars, Reading
  <2>2. line.kind \notin Inner
    BY <1>2, <1>6, <2>1 DEF Leads
  <2>3. ~Unfinished(line)
    BY <1>10, <2>2 DEF Unfinished, Inner
  <2> QED BY <1>5, <1>6, <2>1, <2>3
<1> QED BY <1>7, <1>8, <1>9, <1>10 DEF ProcessLine

LEMMA ChainStep ==
  ASSUME TypeInv, TypeInv', [Next]_vars, ~disturbed, ~disturbed', ChainInv, AgeInv
  PROVE  ChainInv'
<1> USE DEF deviceVars, readerVars, controlVars, beliefVars, historyVars
<1>0. InFlight \in Seq(Line) /\ ~Unfinished(Plain("junk"))
  BY StreamIsLines DEF Unfinished, Plain
<1>1. ASSUME NEW new \in Seq(Line), Chained(Plain("junk"), new), InFlight' = InFlight \o new,
             Reading' = Reading
      PROVE  ChainInv'
  BY <1>0, <1>1, ChainGrows DEF ChainInv
<1>2. CASE Execute
  <2>1. Head(toDevice) \in Commands
    BY <1>2 DEF Execute, TypeInv, QueueTypes
  <2>2. /\ printing = <<>> /\ printing' = Answer(Head(toDevice))
        /\ UNCHANGED <<lines, toHost, parseState, section>>
    BY <1>2 DEF Execute
  <2>3. DeviceTypes
    BY DEF TypeInv
  <2>4. Chained(Plain("junk"), Answer(Head(toDevice))) /\ Answer(Head(toDevice)) \in Seq(Line)
    BY <2>1, <2>3, AnswerChained, AnswerLines
  <2>5. InFlight' = InFlight \o Answer(Head(toDevice)) /\ Reading' = Reading
    BY <2>2, AnswerGoesLast DEF Reading
  <2> QED BY <1>1, <2>4, <2>5
<1>3. CASE Report
  <2>1. InFlight' = InFlight \o <<Plain("position")>> /\ Reading' = Reading
    BY <1>3, ReportGoesLast DEF Report, Reading
  <2>2. Chained(Plain("junk"), <<Plain("position")>>) /\ <<Plain("position")>> \in Seq(Line)
    BY <1>0, PlainChained DEF PlainKinds
  <2> QED BY <1>1, <2>1, <2>2
<1>4. CASE MoveEnds \/ Reboot
  <2>1. PICK k \in PlainKinds : printing' = <<Plain(k)>>
    BY <1>4 DEF MoveEnds, Reboot, PlainKinds
  <2>2. printing = <<>> /\ UNCHANGED <<lines, toHost, parseState, section>>
    BY <1>4 DEF MoveEnds, Reboot
  <2>3. InFlight' = InFlight \o <<Plain(k)>> /\ Reading' = Reading
    BY <2>1, <2>2, AnswerGoesLast DEF Reading
  <2>4. Chained(Plain("junk"), <<Plain(k)>>) /\ <<Plain(k)>> \in Seq(Line)
    BY <1>0, PlainChained
  <2> QED BY <1>1, <2>3, <2>4
<1>5. CASE ProcessLine
  BY <1>5, ProcessChain
<1>6. CASE FlushIdle
  <2>1. InFlight' = InFlight /\ parseState' = "none"
    BY <1>6 DEF FlushIdle, InFlight
  <2>2. Reading' = Plain("junk")
    BY <2>1 DEF Reading
  <2>3. ~Unfinished(Reading)
    BY <1>6, FlushOfWhole
  <2> QED BY <1>0, <2>1, <2>2, <2>3, ChainSwap DEF ChainInv
<1>7. CASE ~Execute /\ ~Report /\ ~MoveEnds /\ ~Reboot /\ ~ProcessLine /\ ~FlushIdle
  BY <1>7, QuietStep, ReadingKept DEF ChainInv
<1> QED BY <1>2, <1>3, <1>4, <1>5, <1>6, <1>7

LEMMA AgeStep ==
  ASSUME TypeInv, TypeInv', [Next]_vars, ~disturbed, ~disturbed', ChainInv, AgeInv
  PROVE  AgeInv'
<1> USE DEF deviceVars, readerVars, controlVars, beliefVars, historyVars
<1>0. SUFFICES ASSUME sectionAge' > 0, Unfinished(Reading') PROVE lines' \o toHost' # <<>>
  BY DEF AgeInv
<1>1. ASSUME sectionAge' = sectionAge, Reading' = Reading, lines' \o toHost' = lines \o toHost
      PROVE  lines' \o toHost' # <<>>
  BY <1>0, <1>1 DEF AgeInv
<1>2. CASE PrintNext \/ Report
  <2>1. /\ lines' = lines
        /\ (\E x \in Line : toHost' = Append(toHost, x)) /\ toHost \in Seq(Line)
    <3>1. Plain("position") \in Line /\ (printing # <<>> => Head(printing) \in Line)
      BY PlainIsLine, HeadTailProperties DEF PlainKinds, TypeInv, StreamTypes
    <3> QED BY <1>2, <3>1 DEF PrintNext, PrintLine, Report, TypeInv, StreamTypes
  <2>2. toHost' # <<>> /\ toHost' \in Seq(Line) /\ lines' \in Seq(Line)
    <3>1. toHost' # <<>>
      BY <2>1, AppendProperties
    <3> QED BY <3>1 DEF TypeInv, StreamTypes
  <2> QED BY <2>2, ConcatEqualIffEmpty
<1>3. CASE Execute \/ MoveEnds \/ Reboot \/ ChangeSetting \/ CountError
  <2>1. UNCHANGED <<lines, toHost, sectionAge, parseState, section>>
    BY <1>3 DEF Execute, MoveEnds, Reboot, ChangeSetting, CountError
  <2> QED BY <1>1, <2>1 DEF Reading
<1>4. CASE PrintGarbled
  BY <1>4 DEF PrintGarbled
<1>5. CASE ReadChunk
  <2>1. UNCHANGED <<sectionAge, parseState, section>>
    BY <1>5 DEF ReadChunk
  <2> QED BY <1>1, <1>5, <2>1, ReadKeepsStream DEF Reading
<1>6. CASE FlushIdle
  <2>1. sectionAge' = 0
    BY <1>6 DEF FlushIdle
  <2> QED BY <1>0, <2>1
<1>7. CASE ProcessLine
  <2> DEFINE line == Head(lines)
  <2>1. Leads(Reading, line)
    BY <1>7, ProcessLeads
  <2>2. CASE sectionAge' = 0
    BY <1>0, <2>2
  <2>3. CASE line.kind = "position" /\ ProcessPosition
    <3>1. Reading' = Reading
      BY <2>3 DEF ProcessPosition, Reading
    <3>2. ~Unfinished(Reading)
      BY <2>1, <2>3, Interrupts DEF Inner
    <3> QED BY <1>0, <3>1, <3>2
  <2>4. CASE parseState' = "none"
    <3>1. Reading' = Plain("junk")
      BY <2>4 DEF Reading
    <3> QED BY <1>0, <3>1 DEF Unfinished, Plain
  <2>5. CASE line.kind # "kv" /\ parseState = "config" /\ CollectLine(line)
             /\ UNCHANGED <<section, parseState>>
    <3>1. Reading' = Reading
      BY <2>5 DEF Reading
    <3>2. Reading.kind = "kv" \/ (Reading.kind = "echo" /\ Reading.of = "config")
      <4>1. CASE section = <<>>
        BY <2>5, <4>1 DEF Reading, Echo
      <4>2. CASE section # <<>>
        <5>1. Reading = section[Len(section)] /\ Len(section) \in 1..Len(section)
          BY <2>5, <4>2 DEF Reading, TypeInv, SectionTypes
        <5> QED BY <2>5, <5>1 DEF TypeInv, SectionTypes
      <4> QED BY <4>1, <4>2
    <3>3. ~Unfinished(Reading)
      BY <2>1, <2>5, <3>2 DEF Leads, GoesOn, KeyValue
    <3> QED BY <1>0, <3>1, <3>3
  <2>6. CASE line.kind = "echo" /\ ProcessEcho(line.of)
    BY <2>2, <2>6 DEF ProcessEcho
  <2>7. CASE line.kind \notin {"echo", "position"} /\ parseState # "none" /\ CollectLine(line)
    <3>1. parseState \in {"config", "status"}
      BY <2>7 DEF TypeInv, SectionTypes
    <3> QED BY <2>2, <2>5, <2>7, <3>1 DEF CollectLine
  <2>8. CASE line.kind \notin {"echo", "position"} /\ parseState = "none" /\ ClassifyLine(line)
    BY <2>4, <2>8 DEF ClassifyLine
  <2> QED BY <1>7, <2>3, <2>6, <2>7, <2>8 DEF ProcessLine
<1>8. CASE Control \/ UNCHANGED vars
  <2>1. UNCHANGED <<lines, toHost, sectionAge, parseState, section>>
    BY <1>8 DEF Control, StatusPollTimer, RequestConfigRefresh, Write, TimerUnchanged, vars
  <2> QED BY <1>1, <2>1 DEF Reading
<1>9. CASE Tick
  <2>1. printing = <<>> /\ UNCHANGED <<lines, toHost, parseState, section>>
    BY <1>9 DEF Tick
  <2>2. Unfinished(Reading)
    BY <1>0, <2>1 DEF Reading
  <2>3. InFlight # <<>>
    BY <2>2, ChainFirst, StreamIsLines DEF ChainInv
  <2>4. InFlight = lines \o toHost
    BY <2>1, StreamIsLines, ConcatEmptySeq DEF InFlight
  <2> QED BY <2>1, <2>3, <2>4
<1> QED BY <1>2, <1>3, <1>4, <1>5, <1>6, <1>7, <1>8, <1>9 DEF Next, Firmware, Reader

\* What is collected is a dump, or a status section, up to the line before.
LEMMA CollectPart ==
  ASSUME TypeInv, TypeInv', ProcessLine, ChainInv, DumpPart, StatusPart,
         parseState # "none", Head(lines).kind \notin {"echo", "position"},
         section' = Append(section, Head(lines)), parseState' = parseState,
         parseState = "status" \/ Head(lines).kind = "kv"
  PROVE  DumpPart' /\ StatusPart'
<1> DEFINE line == Head(lines)
           n    == Len(section)
<1>1. line \in Line /\ Leads(Reading, line)
  BY ProcessTakesFirst, ProcessLeads
<1>2. section \in Seq(Line) /\ n \in Nat
  BY DEF TypeInv, SectionTypes
<1>3. /\ section' \in Seq(Line) /\ Len(section') = n + 1 /\ section'[n + 1] = line
      /\ \A i \in 1..n : section'[i] = section[i]
  BY <1>1, <1>2, AppendProperties
<1>4. CASE section = <<>>
  <2>1. n = 0 /\ Reading = Echo(parseState)
    BY <1>4 DEF Reading
  <2>2. Len(section') = 1 /\ section'[1] = line
    BY <1>3, <2>1
  <2>3. CASE parseState = "config"
    <3>1. line.kind = "kv" /\ Reading.kind = "echo" /\ Reading.of = "config"
      BY <2>1, <2>3 DEF Echo
    <3>2. Unfinished(Reading)
      BY <1>1, <3>1 DEF Leads, Inner
    <3>3. DumpOrder # <<>> /\ line = KeyValue(DumpOrder[1], line.dump)
      BY <1>1, <3>1, <3>2 DEF Leads, GoesOn, Unfinished
    <3>4. 1 <= Len(DumpOrder)
      BY <3>3, KeysAssumption
    <3>5. Len(section') <= Len(DumpOrder)
          /\ \A i \in 1..Len(section') : section'[i] = KeyValue(DumpOrder[i], section'[1].dump)
      BY <2>2, <3>3, <3>4
    <3> QED BY <2>3, <3>5 DEF DumpPart, StatusPart
  <2>4. CASE parseState = "status"
    <3>1. Reading.kind = "echo" /\ Reading.of = "status"
      BY <2>1, <2>4 DEF Echo
    <3>2. line.kind = "sensor"
      BY <1>1, <3>1 DEF Leads, GoesOn, Unfinished
    <3> QED BY <2>2, <2>4, <3>2 DEF DumpPart, StatusPart
  <2> QED BY <2>3, <2>4 DEF TypeInv, SectionTypes
<1>5. CASE section # <<>>
  <2>1. n \in 1..n /\ n + 1 # 1 /\ Reading = section[n]
    BY <1>2, <1>5 DEF Reading
  <2>2. section'[1] = section[1]
    BY <1>2, <1>3, <2>1
  <2>3. CASE parseState = "config"
    <3>1. n <= Len(DumpOrder) /\ \A i \in 1..n : section[i] = KeyValue(DumpOrder[i], section[1].dump)
      BY <2>3 DEF DumpPart
    <3>2. Reading = KeyValue(DumpOrder[n], section[1].dump)
      BY <2>1, <3>1
    <3>3. Reading.kind = "kv" /\ Reading.key = DumpOrder[n] /\ Reading.dump = section[1].dump
      BY <3>2 DEF KeyValue
    <3>4. Unfinished(Reading)
      BY <1>1, <2>3 DEF Leads, Inner
    <3>5. PICK i \in 1..Len(DumpOrder) - 1 :
            Reading.key = DumpOrder[i] /\ line = KeyValue(DumpOrder[i + 1], Reading.dump)
      BY <1>1, <3>3, <3>4 DEF Leads, GoesOn
    <3>6. i = n
      <4>1. DOMAIN DumpOrder = 1..Len(DumpOrder) /\ Len(DumpOrder) \in Nat
        BY KeysAssumption
      <4>2. i \in DOMAIN DumpOrder /\ n \in DOMAIN DumpOrder
        BY <1>2, <2>1, <3>1, <4>1
      <4> QED BY <3>3, <3>5, <4>2, KeysAssumption
    <3>7. n + 1 <= Len(DumpOrder) /\ line = KeyValue(DumpOrder[n + 1], section'[1].dump)
      BY <2>2, <3>3, <3>5, <3>6, KeysAssumption
    <3>8. ASSUME NEW j \in 1..n + 1
          PROVE  section'[j] = KeyValue(DumpOrder[j], section'[1].dump)
      <4>1. CASE j = n + 1
        BY <1>3, <3>7, <4>1
      <4>2. CASE j # n + 1
        BY <1>2, <1>3, <2>2, <3>1, <4>2
      <4> QED BY <4>1, <4>2
    <3> QED BY <1>3, <2>3, <3>7, <3>8 DEF DumpPart, StatusPart
  <2>4. CASE parseState = "status"
    <3> DEFINE Good(s, i) ==
          /\ i = 1 => s[i].kind = "sensor"
          /\ i # 1 => s[i].kind \notin {"sensor", "kv", "echo"}
          /\ s[i].kind = "packet" => i = 2 /\ s[1].packets # 0 /\ s[i] = Packet(s[1].packets)
          /\ i = 2 /\ s[1].packets # 0 => s[i].kind = "packet"
    <3>1. \A i \in 1..n : Good(section, i)
      BY <2>4 DEF StatusPart
    <3>2. ASSUME NEW i \in 1..n
          PROVE  Good(section', i)
      BY <1>3, <2>2, <3>1
    <3>3. Good(section', n + 1)
      <4>1. CASE n = 1 /\ section[1].packets # 0
        <5>1. Reading.kind = "sensor" /\ Reading.packets # 0
          BY <2>1, <3>1, <4>1
        <5>2. line = Packet(section[1].packets)
          BY <1>1, <2>1, <4>1, <5>1 DEF Leads, GoesOn, Unfinished
        <5>3. line.kind = "packet"
          BY <5>2 DEF Packet
        <5> HIDE DEF line
        <5>4. section'[n + 1] = line /\ n + 1 = 2
          BY <1>3, <4>1
        <5> QED BY <2>2, <4>1, <5>2, <5>3, <5>4
      <4>2. CASE n = 1 /\ section[1].packets = 0
        <5>1. Reading.kind = "sensor" /\ Reading.packets = 0
          BY <2>1, <3>1, <4>2
        <5>2. line.kind \notin Inner
          BY <1>1, <5>1 DEF Leads, Unfinished
        <5>3. line.kind \notin {"sensor", "kv", "echo", "packet"}
          BY <5>2 DEF Inner
        <5> HIDE DEF line
        <5>4. section'[n + 1] = line
          BY <1>3
        <5> QED BY <2>2, <4>2, <5>3, <5>4
      <4>3. CASE n # 1
        <5>1. Reading.kind \notin {"sensor", "kv", "echo"}
          BY <2>1, <3>1, <4>3
        <5>2. line.kind \notin Inner
          BY <1>1, <5>1 DEF Leads, Unfinished
        <5>3. line.kind \notin {"sensor", "kv", "echo", "packet"}
          BY <5>2 DEF Inner
        <5> HIDE DEF line
        <5>4. section'[n + 1] = line
          BY <1>3
        <5>5. n + 1 # 2 /\ n + 1 # 1
          <6>1. n \in Nat /\ n # 0
            BY <1>2, <1>5
          <6> HIDE DEF n
          <6> QED BY <4>3, <6>1
        <5> QED BY <5>3, <5>4, <5>5
      <4> QED BY <4>1, <4>2, <4>3
    <3> HIDE DEF Good
    <3>4. \A i \in 1..n + 1 : Good(section', i)
      <4> SUFFICES ASSUME NEW i \in 1..n + 1 PROVE Good(section', i)
        OBVIOUS
      <4>1. CASE i = n + 1
        BY <3>3, <4>1
      <4>2. CASE i # n + 1
        <5>1. i \in 1..n
          BY <1>2, <4>2
        <5> QED BY <3>2, <5>1
      <4> QED BY <4>1, <4>2
    <3>5. \A i \in 1..Len(section') : Good(section', i)
      BY <1>3, <3>4
    <3> QED BY <2>4, <3>5 DEF DumpPart, StatusPart, Good
  <2> QED BY <2>3, <2>4 DEF TypeInv, SectionTypes
<1> QED BY <1>4, <1>5

LEMMA PartStep ==
  ASSUME TypeInv, TypeInv', [Next]_vars, ChainInv, DumpPart, StatusPart
  PROVE  DumpPart' /\ StatusPart'
<1> USE DEF deviceVars, readerVars, controlVars, beliefVars, historyVars
<1>1. CASE section' = <<>>
  <2>1. Len(section') = 0
    BY <1>1
  <2>2. 0 <= Len(DumpOrder)
    BY KeysAssumption
  <2> QED BY <2>1, <2>2 DEF DumpPart, StatusPart
<1>2. CASE UNCHANGED <<parseState, section>>
  BY <1>2 DEF DumpPart, StatusPart
<1>3. CASE ProcessLine
  <2> DEFINE line == Head(lines)
  <2>1. CASE line.kind = "echo" /\ ProcessEcho(line.of)
    BY <1>1, <2>1 DEF ProcessEcho
  <2>2. CASE line.kind = "position" /\ ProcessPosition
    BY <1>2, <2>2 DEF ProcessPosition
  <2>3. CASE line.kind \notin {"echo", "position"} /\ parseState # "none" /\ CollectLine(line)
    <3>1. CASE UNCHANGED section
      BY <1>2, <2>3, <3>1 DEF CollectLine
    <3>2. CASE section' # section
      <4>1. section' = Append(section, line) /\ (parseState = "status" \/ line.kind = "kv")
            /\ parseState' = parseState
        BY <2>3, <3>2 DEF CollectLine
      <4> QED BY <1>3, <2>3, <4>1, CollectPart
    <3> QED BY <3>1, <3>2
  <2>4. CASE ClassifyLine(line)
    BY <1>2, <2>4 DEF ClassifyLine
  <2> QED BY <1>3, <2>1, <2>2, <2>3, <2>4 DEF ProcessLine
<1>4. CASE FlushIdle
  BY <1>1, <1>4 DEF FlushIdle
<1>5. CASE ~ProcessLine /\ ~FlushIdle
  BY <1>2, <1>5, ReadingKept
<1> QED BY <1>3, <1>4, <1>5

-----------------------------------------------------------------------------
(* What is delivered of a whole section.                                    *)

\* A dump that was collected whole gives every key the value it was printed with.
LEMMA WholeDump ==
  ASSUME TypeInv, DumpPart, parseState = "config", section # <<>>, ~Unfinished(Reading)
  PROVE  ParsedCleanly(section) /\ ParseConfigMap(section) = section[1].dump
<1> DEFINE n == Len(section)
           d == section[1].dump
<1>1. section \in Seq(Line) /\ n \in Nat /\ n \in 1..n /\ DOMAIN section = 1..n
  BY DEF TypeInv, SectionTypes
<1>2. n <= Len(DumpOrder) /\ \A i \in 1..n : section[i] = KeyValue(DumpOrder[i], d)
  BY DEF DumpPart
<1>3. Len(DumpOrder) \in Nat /\ DOMAIN DumpOrder = 1..Len(DumpOrder)
  BY KeysAssumption
<1>4. d \in Settings
  <2>1. section[1] \in Line /\ section[1].kind = "kv"
    BY <1>1 DEF TypeInv, SectionTypes
  <2> QED BY <2>1 DEF Line, EchoLine, PlainLine, PlainKinds, KeyLine, SensorLine, PacketLine
<1> HIDE DEF d
<1>5. \A i \in 1..n : /\ section[i].kind = "kv" /\ section[i].key = DumpOrder[i]
                      /\ section[i].val = d[DumpOrder[i]]
  <2> SUFFICES ASSUME NEW i \in 1..n
               PROVE  /\ section[i].kind = "kv" /\ section[i].key = DumpOrder[i]
                      /\ section[i].val = d[DumpOrder[i]]
    OBVIOUS
  <2>1. section[i] = KeyValue(DumpOrder[i], d)
    BY <1>2
  <2> QED BY <2>1 DEF KeyValue
<1>6. n = Len(DumpOrder)
  <2>1. Reading = section[n]
    BY DEF Reading
  <2>2. Reading.kind = "kv" /\ Reading.key = DumpOrder[n]
    BY <1>1, <1>5, <2>1
  <2>3. n \notin 1..Len(DumpOrder) - 1
    <3> SUFFICES ASSUME n \in 1..Len(DumpOrder) - 1 PROVE FALSE
      OBVIOUS
    <3> HIDE DEF n
    <3>1. \E i \in 1..Len(DumpOrder) - 1 : Reading.key = DumpOrder[i]
      BY <2>2
    <3> QED BY <2>2, <3>1 DEF Unfinished
  <2> DEFINE m == Len(DumpOrder)
  <2>4. n \in Nat /\ m \in Nat /\ 1 <= n /\ n <= m /\ n \notin 1..m - 1
    BY <1>1, <1>2, <1>3, <2>3
  <2> HIDE DEF n, m
  <2>5. n = m
    BY <2>4
  <2> QED BY <2>5 DEF n, m
<1>7. \A i \in 1..n : DumpOrder[i] \in Keys /\ d[DumpOrder[i]] \in Values
  BY <1>3, <1>4, <1>6 DEF Keys, Settings
<1>8. ParsedCleanly(section)
  BY <1>1, <1>5, <1>7, ValuesAssumption DEF ParsedCleanly
<1>9. ASSUME NEW k \in Keys
      PROVE  ParseConfigMap(section)[k] = d[k]
  <2>1. PICK j \in 1..n : DumpOrder[j] = k
    BY <1>3, <1>6 DEF Keys
  <2>2. \E i \in 1..n : section[i].key = k
    BY <1>5, <2>1
  <2>3. PICK i \in 1..n : section[i].key = k /\ ParseConfigMap(section)[k] = section[i].val
    BY <1>1, <2>2, ParsedValue
  <2> QED BY <1>5, <2>3
<1>10. ParseConfigMap(section) = [k \in Keys |-> ParseConfigMap(section)[k]]
  BY DEF ParseConfigMap
<1>11. d = [k \in Keys |-> d[k]]
  BY <1>4 DEF Settings
<1> QED BY <1>8, <1>9, <1>10, <1>11 DEF d

\* Of a status section that was collected whole both counters are taken.
LEMMA WholeStatus ==
  ASSUME TypeInv, StatusPart, parseState = "status", ~Unfinished(Reading)
  PROVE  /\ section # <<>> /\ Has(section, IsSensor)
         /\ ApplyStatusSection(diag, section).packetErrors = LastOf(section, IsSensor).packets
<1> DEFINE n == Len(section)
<1>1. section \in Seq(Line) /\ n \in Nat /\ DOMAIN section = 1..n
  BY DEF TypeInv, SectionTypes
<1>2. section # <<>>
  <2>1. section = <<>> => Reading = Echo("status")
    BY DEF Reading
  <2> QED BY <2>1 DEF Echo, Unfinished
<1>3. 1 \in 1..n /\ section[1].kind = "sensor"
  BY <1>1, <1>2 DEF StatusPart
<1>4. Has(section, IsSensor)
  BY <1>1, <1>3 DEF Has, IsSensor
<1>5. PICK s \in 1..n : LastOf(section, IsSensor) = section[s] /\ section[s] \in SensorLine
  BY <1>1, <1>4, LastSensor
<1>6. s = 1
  BY <1>5 DEF SensorLine, StatusPart
<1> DEFINE p == section[1].packets
<1>7. (\E i \in 1..n : section[i].kind = "packet") <=> p # 0
  <2>1. ASSUME NEW i \in 1..n, section[i].kind = "packet"
        PROVE  p # 0
    BY <2>1 DEF StatusPart
  <2>2. ASSUME p # 0
        PROVE  \E i \in 1..n : section[i].kind = "packet"
    <3>1. n # 1
      <4>1. n = 1 => Reading = section[1]
        BY <1>2 DEF Reading
      <4> QED BY <1>3, <2>2, <4>1 DEF Unfinished
    <3>2. 2 \in 1..n
      BY <1>1, <1>3, <3>1
    <3> QED BY <2>2, <3>2 DEF StatusPart
  <2> QED BY <2>1, <2>2
<1>8. Has(section, IsPacket) <=> p # 0
  BY <1>1, <1>7 DEF Has, IsPacket
<1>9. p # 0 => LastOf(section, IsPacket).n = p
  <2> SUFFICES ASSUME p # 0 PROVE LastOf(section, IsPacket).n = p
    OBVIOUS
  <2>1. PICK i \in 1..n : LastOf(section, IsPacket) = section[i] /\ section[i] \in PacketLine
    BY <1>1, <1>8, LastPacket
  <2>2. section[i].kind = "packet"
    BY <2>1 DEF PacketLine
  <2>3. section[i] = Packet(p)
    BY <2>2 DEF StatusPart
  <2> QED BY <2>1, <2>3 DEF Packet
<1>10. LastOf(section, IsSensor).packets = p
  BY <1>5, <1>6
<1> DEFINE new == [CountSensor(diag, LastOf(section, IsSensor).n) EXCEPT
                     !.packetErrors = IF Has(section, IsPacket)
                                      THEN LastOf(section, IsPacket).n ELSE 0]
<1>11. ApplyStatusSection(diag, section) = new
  BY <1>4 DEF ApplyStatusSection
<1>12. new.packetErrors = IF Has(section, IsPacket) THEN LastOf(section, IsPacket).n ELSE 0
  BY DEF CountSensor, TypeInv, BeliefTypes, DomeDiagnosticsState
<1> HIDE DEF new, p
<1>13. new.packetErrors = p
  BY <1>8, <1>9, <1>12
<1> QED BY <1>2, <1>4, <1>10, <1>11, <1>13

ReportsInv == EveryReportDelivered
StatusInv  == EveryStatusDelivered
CountersInv == diag.packetErrors = polled
ParamsInv  == params = synced

LEMMA DeliverWhole ==
  ASSUME TypeInv, DumpPart, StatusPart, ~Unfinished(Reading), DeliverSection,
         CountersInv, ParamsInv
  PROVE  /\ CountersInv' /\ ParamsInv'
         /\ unanswered' = IF parseState = "status" THEN unanswered - 1 ELSE unanswered
<1>1. CASE parseState = "none"
  <2>1. UNCHANGED <<params, synced, diag, polled, unanswered>>
    BY <1>1 DEF DeliverSection, TypeInv, SectionTypes
  <2> QED BY <1>1, <2>1 DEF CountersInv, ParamsInv
<1>2. CASE parseState = "config"
  <2>1. CASE section = <<>>
    BY <1>2, <2>1 DEF DeliverSection, CountersInv, ParamsInv
  <2>2. CASE section # <<>>
    <3>1. DeliverConfig
      BY <1>2, <2>2 DEF DeliverSection
    <3>2. ParsedCleanly(section) /\ ParseConfigMap(section) = section[1].dump
      BY <1>2, <2>2, WholeDump
    <3>3. params' = synced' /\ UNCHANGED <<diag, polled, unanswered>>
      BY <3>1, <3>2 DEF DeliverConfig
    <3> QED BY <1>2, <3>3 DEF CountersInv, ParamsInv
  <2> QED BY <2>1, <2>2
<1>3. CASE parseState = "status"
  <2>1. /\ section # <<>> /\ Has(section, IsSensor)
        /\ ApplyStatusSection(diag, section).packetErrors = LastOf(section, IsSensor).packets
    BY <1>3, WholeStatus
  <2>2. DeliverStatus
    BY <1>3, <2>1 DEF DeliverSection
  <2>3. /\ diag' = ApplyStatusSection(diag, section) /\ polled' = LastOf(section, IsSensor).packets
        /\ unanswered' = unanswered - 1 /\ UNCHANGED <<params, synced>>
    BY <2>1, <2>2 DEF DeliverStatus
  <2> QED BY <1>3, <2>1, <2>3 DEF CountersInv, ParamsInv
<1> QED BY <1>1, <1>2, <1>3 DEF TypeInv, SectionTypes

\* The counters and the parameters are those of one answer.
LEMMA AnswerStep ==
  ASSUME TypeInv, TypeInv', [Next]_vars, ~disturbed, ~disturbed',
         ChainInv, AgeInv, DumpPart, StatusPart, CountersInv, ParamsInv
  PROVE  CountersInv' /\ ParamsInv'
<1> USE DEF deviceVars, readerVars, controlVars, beliefVars, historyVars
<1>1. CASE UNCHANGED <<params, synced, polled>> /\ diag'.packetErrors = diag.packetErrors
  BY <1>1 DEF CountersInv, ParamsInv
<1>2. CASE FlushIdle
  <2>1. DeliverSection /\ ~Unfinished(Reading)
    BY <1>2, FlushOfWhole DEF FlushIdle
  <2> QED BY <2>1, DeliverWhole
<1>3. CASE ProcessLine
  <2> DEFINE line == Head(lines)
  <2>1. Leads(Reading, line)
    BY <1>3, ProcessLeads
  <2>2. CASE line.kind = "echo" /\ ProcessEcho(line.of)
    <3>1. DeliverSection
      BY <2>2 DEF ProcessEcho
    <3>2. ~Unfinished(Reading)
      BY <2>1, <2>2, Interrupts DEF Inner
    <3> QED BY <3>1, <3>2, DeliverWhole
  <2>3. CASE ProcessPosition
    <3>1. RecordPositionReport(diag).packetErrors = diag.packetErrors
      BY DEF RecordPositionReport, TypeInv, BeliefTypes, DomeDiagnosticsState
    <3> QED BY <1>1, <2>3, <3>1 DEF ProcessPosition
  <2>4. CASE CollectLine(line)
    BY <1>1, <2>4 DEF CollectLine
  <2>5. CASE parseState = "none" /\ ClassifyLine(line)
    <3>1. Reading = Plain("junk")
      BY <2>5 DEF Reading
    <3>2. line.kind \notin Inner
      BY <2>1, <3>1 DEF Leads, Unfinished, Plain
    <3> HIDE DEF line
    <3>3. ApplyFirmwareLine(diag, line).packetErrors = diag.packetErrors
      BY <3>2 DEF ApplyFirmwareLine, Inner, TypeInv, BeliefTypes, DomeDiagnosticsState
    <3> QED BY <1>1, <2>5, <3>3 DEF ClassifyLine
  <2> QED BY <1>3, <2>2, <2>3, <2>4, <2>5 DEF ProcessLine
<1>4. CASE Tick
  <2>1. Aged(diag).packetErrors = diag.packetErrors
    BY DEF Aged, TypeInv, BeliefTypes, DomeDiagnosticsState
  <2> QED BY <1>1, <1>4, <2>1 DEF Tick
<1>5. CASE Firmware
  <2>1. UNCHANGED <<params, synced, polled, diag>>
    BY <1>5 DEF Firmware, Execute, PrintNext, PrintGarbled, PrintLine, Report, MoveEnds,
       ChangeSetting, CountError, Reboot
  <2> QED BY <1>1, <2>1
<1>6. CASE ReadChunk \/ Control \/ UNCHANGED vars
  <2>1. UNCHANGED <<params, synced, polled, diag>>
    BY <1>6 DEF ReadChunk, Control, StatusPollTimer, RequestConfigRefresh, Write,
       TimerUnchanged, vars
  <2> QED BY <1>1, <2>1
<1> QED BY <1>2, <1>3, <1>4, <1>5, <1>6 DEF Next, Reader

-----------------------------------------------------------------------------
(* Nothing is lost or delivered twice.                                      *)

Positions    == {line \in Line : IsPosition(line)}
StatusEchoes == {line \in Line : IsStatusEcho(line)}
Ends         == {line \in Line : IsEnd(line)}

Count(seq, X) == Cardinality(Places(seq, X))

LEMMA CountIsCount ==
  ASSUME TypeInv
  PROVE  /\ CountOf(InFlight, IsPosition) = Count(InFlight, Positions)
         /\ CountOf(InFlight, IsStatusEcho) = Count(InFlight, StatusEchoes)
<1>1. InFlight \in Seq(Line) /\ DOMAIN InFlight = 1..Len(InFlight)
      /\ \A i \in 1..Len(InFlight) : InFlight[i] \in Line
  BY StreamIsLines, LenProperties, ElementOfSeq
<1>2. {i \in DOMAIN InFlight : IsPosition(InFlight[i])} = Places(InFlight, Positions)
  BY <1>1 DEF Places, Positions
<1>3. {i \in DOMAIN InFlight : IsStatusEcho(InFlight[i])} = Places(InFlight, StatusEchoes)
  BY <1>1 DEF Places, StatusEchoes
<1> QED BY <1>2, <1>3 DEF CountOf, Count

LEMMA CountMore ==
  ASSUME NEW seq \in Seq(Line), NEW new \in Seq(Line), NEW X
  PROVE  /\ Count(seq \o new, X) = Count(seq, X) + Count(new, X)
         /\ Count(seq, X) \in Nat /\ Count(new, X) \in Nat
BY CountConcat, PlacesFinite DEF Count

LEMMA CountOne ==
  ASSUME NEW x, NEW X
  PROVE  Count(<<x>>, X) = IF x \in X THEN 1 ELSE 0
BY CountSingle DEF Count

LEMMA CountNone ==
  ASSUME NEW seq \in Seq(Line), NEW X, \A i \in 1..Len(seq) : seq[i] \notin X
  PROVE  Count(seq, X) = 0
<1>1. Places(seq, X) = {}
  BY DEF Places
<1> QED BY <1>1, FS_EmptySet DEF Count

\* The lines of an answer after its echo.
LEMMA AnswerBody ==
  ASSUME DeviceTypes, NEW c \in Commands
  PROVE  \E body \in Seq(Line) :
           /\ Answer(c) = <<Echo(c)>> \o body
           /\ \A i \in 1..Len(body) : body[i].kind \in Inner \cup {"invalid"}
<1>1. CASE c = "config"
  <2>1. Answer(c) = <<Echo(c)>> \o Dump(settings)
    BY <1>1 DEF Answer
  <2>2. /\ Dump(settings) \in Seq(Line)
        /\ \A i \in 1..Len(Dump(settings)) : Dump(settings)[i] \in KeyLine
    BY DumpLines DEF DeviceTypes
  <2>3. \A i \in 1..Len(Dump(settings)) : Dump(settings)[i].kind \in Inner \cup {"invalid"}
    BY <2>2 DEF KeyLine, Inner
  <2> QED BY <2>1, <2>2, <2>3
<1>2. CASE c = "status"
  <2>1. Answer(c) = <<Echo(c)>> \o StatusReport(errors)
    BY <1>2 DEF Answer
  <2> DEFINE s == Sensor(errors)
             p == Packet(errors.packet)
  <2>2. s \in Line /\ p \in Line /\ s.kind = "sensor" /\ p.kind = "packet"
    BY DEF Sensor, Packet, Line, SensorLine, PacketLine, DeviceTypes
  <2>3. StatusReport(errors) = IF errors.packet = 0 THEN <<s>> ELSE <<s, p>>
    BY DEF StatusReport
  <2> HIDE DEF s, p
  <2>4. StatusReport(errors) \in Seq(Line)
    BY <2>2, <2>3
  <2>5. ASSUME NEW i \in 1..Len(StatusReport(errors))
        PROVE  StatusReport(errors)[i] = s \/ StatusReport(errors)[i] = p
    BY <2>3
  <2>6. \A i \in 1..Len(StatusReport(errors)) :
          StatusReport(errors)[i].kind \in Inner \cup {"invalid"}
    BY <2>2, <2>5 DEF Inner
  <2> QED BY <2>1, <2>4, <2>6
<1>3. CASE c = "probe"
  <2> DEFINE body == <<Plain("invalid")>>
  <2>1. Answer(c) = <<Echo(c)>> \o body
    BY <1>3 DEF Answer
  <2>2. body \in Seq(Line)
    BY PlainIsLine DEF PlainKinds
  <2>3. \A i \in 1..Len(body) : body[i].kind \in Inner \cup {"invalid"}
    BY DEF Plain
  <2> QED BY <2>1, <2>2, <2>3
<1>4. CASE c = "move"
  <2>1. Answer(c) = <<Echo(c)>> \o <<>>
    BY <1>4 DEF Answer
  <2>2. <<>> \in Seq(Line) /\ \A i \in 1..Len(<<>>) : <<>>[i].kind \in Inner \cup {"invalid"}
    OBVIOUS
  <2> QED BY <2>1, <2>2
<1> QED BY <1>1, <1>2, <1>3, <1>4 DEF Commands

LEMMA AnswerCounts ==
  ASSUME DeviceTypes, NEW c \in Commands
  PROVE  /\ Count(Answer(c), Positions) = 0
         /\ Count(Answer(c), StatusEchoes) = IF c = "status" THEN 1 ELSE 0
         /\ \A i \in 1..Len(Answer(c)) : ~IsEnd(Answer(c)[i])
<1> DEFINE e == Echo(c)
<1>1. PICK body \in Seq(Line) :
        /\ Answer(c) = <<e>> \o body
        /\ \A i \in 1..Len(body) : body[i].kind \in Inner \cup {"invalid"}
  BY AnswerBody
<1>2. e \in Line /\ e.kind = "echo" /\ e.of = c
  BY DEF Echo, Line, EchoLine
<1> HIDE DEF e
<1>3. <<e>> \in Seq(Line) /\ Len(<<e>>) = 1 /\ <<e>>[1] = e
  BY <1>2
<1>4. \A i \in 1..Len(body) : /\ ~IsPosition(body[i]) /\ ~IsStatusEcho(body[i])
                              /\ ~IsEnd(body[i])
  BY <1>1 DEF IsPosition, IsStatusEcho, IsEnd, Inner
<1>5. Count(body, Positions) = 0 /\ Count(body, StatusEchoes) = 0
  BY <1>4, CountNone DEF Positions, StatusEchoes
<1>6. /\ Count(<<e>>, Positions) = 0
      /\ Count(<<e>>, StatusEchoes) = IF c = "status" THEN 1 ELSE 0
  <2>1. e \notin Positions /\ (e \in StatusEchoes <=> c = "status")
    BY <1>2 DEF Positions, StatusEchoes, IsPosition, IsStatusEcho
  <2> QED BY <2>1, CountOne
<1>7. /\ Count(Answer(c), Positions) = 0
      /\ Count(Answer(c), StatusEchoes) = IF c = "status" THEN 1 ELSE 0
  <2>1. /\ Count(<<e>> \o body, Positions) = Count(<<e>>, Positions) + Count(body, Positions)
        /\ Count(<<e>> \o body, StatusEchoes) = Count(<<e>>, StatusEchoes) + Count(body, StatusEchoes)
    BY <1>3, CountMore
  <2>2. Count(<<e>> \o body, Positions) = 0
    BY <1>5, <1>6, <2>1
  <2>3. Count(<<e>> \o body, StatusEchoes) = IF c = "status" THEN 1 ELSE 0
    BY <1>5, <1>6, <2>1
  <2> QED BY <1>1, <2>2, <2>3
<1>8. ASSUME NEW i \in 1..Len(Answer(c))
      PROVE  ~IsEnd(Answer(c)[i])
  <2>1. /\ Len(Answer(c)) = 1 + Len(body) /\ Len(body) \in Nat
        /\ Answer(c)[i] = IF i <= 1 THEN <<e>>[i] ELSE body[i - 1]
    BY <1>1, <1>3, ConcatProperties, LenProperties
  <2>2. CASE i = 1
    BY <1>2, <1>3, <2>1, <2>2 DEF IsEnd
  <2>3. CASE i # 1
    <3>1. i - 1 \in 1..Len(body)
      BY <2>1, <2>3
    <3> QED BY <1>4, <2>1, <2>3, <3>1
  <2> QED BY <2>2, <2>3
<1> QED BY <1>7, <1>8

\* What is not delivered of the reports, and of the status answers, is under way.
Owed(X) == Count(InFlight, X)

LEMMA OwedProcessed ==
  ASSUME TypeInv, TypeInv', ProcessLine, NEW X
  PROVE  /\ Owed(X) = (IF Head(lines) \in X THEN 1 ELSE 0) + Count(InFlight', X)
         /\ Count(InFlight', X) \in Nat
<1>1. /\ Head(lines) \in Line /\ InFlight' \in Seq(Line)
      /\ InFlight = <<Head(lines)>> \o InFlight'
  BY ProcessTakesFirst
<1> DEFINE x == Head(lines)
<1> HIDE DEF x
<1>2. x \in Line /\ InFlight = <<x>> \o InFlight'
  BY <1>1 DEF x
<1>3. <<x>> \in Seq(Line)
  BY <1>2
<1>4. /\ Count(InFlight, X) = Count(<<x>>, X) + Count(InFlight', X)
      /\ Count(InFlight', X) \in Nat
  BY <1>1, <1>2, <1>3, CountMore
<1>5. Count(<<x>>, X) = IF x \in X THEN 1 ELSE 0
  BY CountOne
<1> QED BY <1>4, <1>5 DEF Owed, x

LEMMA OwedGrown ==
  ASSUME TypeInv, NEW X, NEW new \in Seq(Line), InFlight' = InFlight \o new
  PROVE  Count(InFlight', X) = Owed(X) + Count(new, X) /\ Owed(X) \in Nat
BY StreamIsLines, CountMore DEF Owed

\* The lines that the firmware prints on its own.
LEMMA PlainCounts ==
  ASSUME NEW k \in PlainKinds
  PROVE  /\ <<Plain(k)>> \in Seq(Line)
         /\ Count(<<Plain(k)>>, Positions) = IF k = "position" THEN 1 ELSE 0
         /\ Count(<<Plain(k)>>, StatusEchoes) = 0
<1>1. Plain(k) \in Line /\ Plain(k).kind = k
  BY PlainIsLine DEF Plain
<1> DEFINE p == Plain(k)
<1> HIDE DEF p
<1>2. p \in Line /\ p.kind = k
  BY <1>1 DEF p
<1>3. (p \in Positions <=> k = "position") /\ p \notin StatusEchoes
  BY <1>2 DEF Positions, StatusEchoes, IsPosition, IsStatusEcho, PlainKinds
<1>4. <<p>> \in Seq(Line)
  BY <1>2
<1>5. /\ Count(<<p>>, Positions) = IF k = "position" THEN 1 ELSE 0
      /\ Count(<<p>>, StatusEchoes) = 0
  BY <1>3, CountOne
<1> QED BY <1>4, <1>5 DEF p

Asked == IF parseState = "status" THEN 1 ELSE 0

OwedInv ==
  /\ unread = Owed(Positions)
  /\ unanswered = Owed(StatusEchoes) + Asked

LEMMA OwedStep ==
  ASSUME TypeInv, TypeInv', [Next]_vars, ~disturbed, ~disturbed',
         ChainInv, AgeInv, DumpPart, StatusPart, CountersInv, ParamsInv, OwedInv
  PROVE  OwedInv'
<1> USE DEF deviceVars, readerVars, controlVars, beliefVars, historyVars
<1> DEFINE p  == Owed(Positions)
           s  == Owed(StatusEchoes)
           pp == Count(InFlight', Positions)
           ss == Count(InFlight', StatusEchoes)
           a  == Asked
           aa == IF parseState' = "status" THEN 1 ELSE 0
<1>0. unread = p /\ unanswered = s + a /\ a \in {0, 1}
      /\ (unread' = pp /\ unanswered' = ss + aa => OwedInv')
  BY DEF OwedInv, Owed, Asked
<1>1. ASSUME NEW new \in Seq(Line), InFlight' = InFlight \o new, parseState' = parseState,
             unread' = unread + Count(new, Positions),
             unanswered' = unanswered + Count(new, StatusEchoes)
      PROVE  OwedInv'
  <2>1. /\ pp = p + Count(new, Positions) /\ ss = s + Count(new, StatusEchoes) /\ aa = a
        /\ p \in Nat /\ s \in Nat
    BY <1>1, OwedGrown DEF Asked
  <2>2. Count(new, Positions) \in Nat /\ Count(new, StatusEchoes) \in Nat
    BY <1>1, PlacesFinite DEF Count
  <2> HIDE DEF p, s, pp, ss, a, aa
  <2> QED BY <1>0, <1>1, <2>1, <2>2
<1>2. CASE Execute
  <2> DEFINE c == Head(toDevice)
  <2>1. c \in Commands /\ DeviceTypes
    BY <1>2 DEF Execute, TypeInv, QueueTypes
  <2>2. /\ printing = <<>> /\ printing' = Answer(c) /\ UNCHANGED <<lines, toHost, parseState, unread>>
        /\ unanswered' = IF c = "status" THEN unanswered + 1 ELSE unanswered
    BY <1>2 DEF Execute
  <2>3. InFlight' = InFlight \o Answer(c) /\ Answer(c) \in Seq(Line)
    BY <2>1, <2>2, AnswerGoesLast, AnswerLines
  <2>4. /\ Count(Answer(c), Positions) = 0
        /\ Count(Answer(c), StatusEchoes) = IF c = "status" THEN 1 ELSE 0
    BY <2>1, AnswerCounts
  <2>5. unread \in Int /\ unanswered \in Int
    BY DEF TypeInv, HistoryTypes
  <2> HIDE DEF c
  <2>6. /\ unread' = unread + Count(Answer(c), Positions)
        /\ unanswered' = unanswered + Count(Answer(c), StatusEchoes)
    BY <2>2, <2>4, <2>5
  <2> QED BY <1>1, <2>2, <2>3, <2>6
<1>3. CASE Report \/ MoveEnds \/ Reboot
  <2>1. \E k \in PlainKinds :
          /\ InFlight' = InFlight \o <<Plain(k)>>
          /\ unread' = unread + (IF k = "position" THEN 1 ELSE 0)
    <3>1. CASE Report
      <4>1. unread' = unread + 1 /\ InFlight' = InFlight \o <<Plain("position")>>
        BY <3>1, ReportGoesLast DEF Report
      <4> QED BY <4>1 DEF PlainKinds
    <3>2. CASE MoveEnds \/ Reboot
      <4>1. PICK k \in {"reached", "timeout", "ready"} : printing' = <<Plain(k)>>
        BY <3>2 DEF MoveEnds, Reboot
      <4>2. printing = <<>> /\ UNCHANGED <<lines, toHost, unread>>
        BY <3>2 DEF MoveEnds, Reboot
      <4>3. InFlight' = InFlight \o <<Plain(k)>>
        BY <4>1, <4>2, AnswerGoesLast
      <4>4. k \in PlainKinds /\ k # "position"
        BY DEF PlainKinds
      <4>5. unread' = unread + 0
        BY <4>2 DEF TypeInv, HistoryTypes
      <4> QED BY <4>3, <4>4, <4>5
    <3> QED BY <1>3, <3>1, <3>2
  <2>2. UNCHANGED <<parseState, unanswered>> /\ unanswered \in Int
    BY <1>3 DEF Report, MoveEnds, Reboot, TypeInv, HistoryTypes
  <2>3. PICK k \in PlainKinds :
          /\ InFlight' = InFlight \o <<Plain(k)>>
          /\ unread' = unread + (IF k = "position" THEN 1 ELSE 0)
    BY <2>1
  <2>4. unanswered' = unanswered + 0
    BY <2>2
  <2> QED BY <1>1, <2>2, <2>3, <2>4, PlainCounts
<1>4. CASE UNCHANGED <<parseState, unread, unanswered>> /\ InFlight' = InFlight
  <2>1. pp = p /\ ss = s /\ aa = a
    BY <1>4 DEF Owed, Asked
  <2> HIDE DEF p, s, pp, ss, a, aa
  <2> QED BY <1>0, <1>4, <2>1
<1>5. CASE FlushIdle
  <2>1. DeliverSection /\ ~Unfinished(Reading)
    BY <1>5, FlushOfWhole DEF FlushIdle
  <2>2. unanswered' = IF parseState = "status" THEN unanswered - 1 ELSE unanswered
    BY <2>1, DeliverWhole
  <2>3. InFlight' = InFlight /\ parseState' = "none" /\ unread' = unread
    BY <1>5 DEF FlushIdle, InFlight
  <2>4. pp = p /\ ss = s /\ aa = 0 /\ s \in Nat
    BY <2>3, StreamIsLines, PlacesFinite DEF Owed, Count
  <2>5. unanswered' = s
    <3>1. unanswered = s + (IF parseState = "status" THEN 1 ELSE 0)
      BY <1>0 DEF Asked
    <3> HIDE DEF s
    <3> QED BY <2>2, <2>4, <3>1
  <2> HIDE DEF p, s, pp, ss, a, aa
  <2> QED BY <1>0, <2>3, <2>4, <2>5
<1>6. CASE ProcessLine
  <2> DEFINE line == Head(lines)
  <2>1. /\ p = (IF line \in Positions THEN 1 ELSE 0) + pp /\ pp \in Nat
        /\ s = (IF line \in StatusEchoes THEN 1 ELSE 0) + ss /\ ss \in Nat
    BY <1>6, OwedProcessed
  <2>2. /\ line \in Positions <=> line.kind = "position"
        /\ line \in StatusEchoes <=> line.kind = "echo" /\ line.of = "status"
    BY <1>6, ProcessTakesFirst DEF Positions, StatusEchoes, IsPosition, IsStatusEcho
  <2>3. unread' = unread - (IF line.kind = "position" THEN 1 ELSE 0)
    <3>1. line.kind # "position" => unread' = unread
      BY <1>6 DEF ProcessLine
    <3>2. line.kind = "position" => unread' = unread - 1
      BY <1>6 DEF ProcessLine, ProcessPosition
    <3> QED BY <3>1, <3>2 DEF TypeInv, HistoryTypes
  <2>4. unread' = pp
    <3> HIDE DEF p, s, pp, ss, a, aa, line
    <3> QED BY <1>0, <2>1, <2>2, <2>3
  <2>5. CASE line.kind = "echo"
    <3>1. ProcessEcho(line.of)
      BY <1>6, <2>5 DEF ProcessLine
    <3>2. DeliverSection /\ parseState' = NextState(line.of)
      BY <3>1 DEF ProcessEcho
    <3>3. ~Unfinished(Reading)
      BY <1>6, <2>5, ProcessLeads, Interrupts DEF Inner
    <3>4. unanswered' = IF parseState = "status" THEN unanswered - 1 ELSE unanswered
      BY <3>2, <3>3, DeliverWhole
    <3>5. aa = IF line.of = "status" THEN 1 ELSE 0
      BY <3>2 DEF NextState
    <3>6. a = IF parseState = "status" THEN 1 ELSE 0
      BY DEF Asked
    <3> HIDE DEF p, s, pp, ss, a, aa, line
    <3>7. unanswered' = s
      BY <1>0, <2>1, <3>4, <3>6
    <3>8. s = ss + aa
      BY <2>1, <2>2, <2>5, <3>5
    <3> QED BY <1>0, <2>4, <3>7, <3>8
  <2>6. CASE line.kind # "echo"
    <3>1. UNCHANGED <<parseState, unanswered>>
      BY <1>6, <2>6 DEF ProcessLine, ProcessPosition, CollectLine, ClassifyLine
    <3>2. aa = a
      BY <3>1 DEF Asked
    <3> HIDE DEF p, s, pp, ss, a, aa, line
    <3>3. s = ss
      BY <2>1, <2>2, <2>6
    <3> QED BY <1>0, <2>4, <3>1, <3>2, <3>3
  <2> QED BY <2>5, <2>6
<1>7. CASE ~Execute /\ ~Report /\ ~MoveEnds /\ ~Reboot /\ ~FlushIdle /\ ~ProcessLine
  <2>1. InFlight' = InFlight /\ parseState' = parseState
    BY <1>7, QuietStep, ReadingKept
  <2>2. UNCHANGED <<unread, unanswered>>
    <3>1. CASE PrintNext \/ PrintGarbled \/ ChangeSetting \/ CountError
      BY <3>1 DEF PrintNext, PrintGarbled, PrintLine, ChangeSetting, CountError
    <3>2. CASE ReadChunk \/ Control \/ Tick \/ UNCHANGED vars
      BY <3>2 DEF ReadChunk, Control, StatusPollTimer, RequestConfigRefresh, Write,
         TimerUnchanged, Tick, vars
    <3> QED BY <1>7, <3>1, <3>2 DEF Next, Firmware, Reader
  <2> QED BY <1>4, <2>1, <2>2
<1> QED BY <1>2, <1>3, <1>5, <1>6, <1>7

-----------------------------------------------------------------------------
(* The end of a move.                                                       *)

HasEnd(seq) == \E i \in 1..Len(seq) : IsEnd(seq[i])

LastEndIs(seq, end) ==
  \A i \in 1..Len(seq) :
    IsEnd(seq[i]) /\ (\A j \in i + 1..Len(seq) : ~IsEnd(seq[j])) => seq[i].kind = end

MoveSent == \E i \in DOMAIN toDevice : toDevice[i] = "move"

\* An outstanding move has not ended, or its end is lost or under way.
OutstandingInv == moveOutstanding => endLost \/ moving \/ HasEnd(InFlight) \/ MoveSent

\* The last end that is under way is that of the last move.
LastEndInv == ~endLost => LastEndIs(InFlight, lastEnd)

\* If none is, it was told.
Told ==
  /\ lastEnd = "timeout" => diag.timeoutAge # Unknown /\ ~diag.recovered
  /\ lastEnd = "reached" => diag.recovered

ToldInv == ~endLost /\ ~HasEnd(InFlight) => Told

LEMMA EndsCons ==
  ASSUME NEW x \in Line, NEW rest \in Seq(Line), NEW seq, seq = <<x>> \o rest, NEW end
  PROVE  /\ HasEnd(seq) <=> IsEnd(x) \/ HasEnd(rest)
         /\ LastEndIs(seq, end) => LastEndIs(rest, end)
         /\ LastEndIs(seq, end) /\ IsEnd(x) /\ ~HasEnd(rest) => x.kind = end
<1>0. <<x>> \in Seq(Line) /\ Len(<<x>>) = 1 /\ <<x>>[1] = x
  OBVIOUS
<1>1. /\ Len(seq) = Len(rest) + 1 /\ Len(rest) \in Nat
      /\ \A i \in 1..Len(rest) + 1 : seq[i] = IF i = 1 THEN x ELSE rest[i - 1]
  <2>1. /\ <<x>> \o rest \in Seq(Line) /\ Len(<<x>> \o rest) = 1 + Len(rest)
        /\ \A i \in 1..1 + Len(rest) :
             (<<x>> \o rest)[i] = IF i <= 1 THEN <<x>>[i] ELSE rest[i - 1]
    BY <1>0, ConcatProperties
  <2>2. Len(rest) \in Nat
    OBVIOUS
  <2> QED BY <1>0, <2>1, <2>2
<1>2. \A i \in 1..Len(rest) : i + 1 \in 1..Len(seq) /\ seq[i + 1] = rest[i]
  BY <1>1
<1>3. 1 \in 1..Len(seq) /\ seq[1] = x
  BY <1>1
<1>4. \A i \in 1..Len(seq) : i # 1 => i - 1 \in 1..Len(rest) /\ seq[i] = rest[i - 1]
  BY <1>1
<1>5. HasEnd(seq) <=> IsEnd(x) \/ HasEnd(rest)
  <2>1. ASSUME HasEnd(seq) PROVE IsEnd(x) \/ HasEnd(rest)
    BY <1>3, <1>4, <2>1 DEF HasEnd
  <2>2. ASSUME IsEnd(x) \/ HasEnd(rest) PROVE HasEnd(seq)
    BY <1>2, <1>3, <2>2 DEF HasEnd
  <2> QED BY <2>1, <2>2
<1>6. ASSUME LastEndIs(seq, end)
      PROVE  LastEndIs(rest, end)
  <2> SUFFICES ASSUME NEW i \in 1..Len(rest), IsEnd(rest[i]),
                      \A j \in i + 1..Len(rest) : ~IsEnd(rest[j])
               PROVE  rest[i].kind = end
    BY DEF LastEndIs
  <2>1. i + 1 \in 1..Len(seq) /\ seq[i + 1] = rest[i]
    BY <1>2
  <2>2. ASSUME NEW j \in (i + 1) + 1..Len(seq)
        PROVE  ~IsEnd(seq[j])
    <3>1. j - 1 \in i + 1..Len(rest) /\ seq[j] = rest[j - 1]
      BY <1>1, <2>2
    <3> QED BY <3>1
  <2> QED BY <1>6, <2>1, <2>2 DEF LastEndIs
<1>7. ASSUME LastEndIs(seq, end), IsEnd(x), ~HasEnd(rest)
      PROVE  x.kind = end
  <2>1. ASSUME NEW j \in 1 + 1..Len(seq)
        PROVE  ~IsEnd(seq[j])
    <3>1. j - 1 \in 1..Len(rest) /\ seq[j] = rest[j - 1]
      BY <1>1, <2>1
    <3> QED BY <1>7, <3>1 DEF HasEnd
  <2> QED BY <1>3, <1>7, <2>1 DEF LastEndIs
<1> QED BY <1>5, <1>6, <1>7

LEMMA EndsGrown ==
  ASSUME NEW seq \in Seq(Line), NEW new \in Seq(Line), ~HasEnd(new), NEW end
  PROVE  /\ HasEnd(seq \o new) <=> HasEnd(seq)
         /\ LastEndIs(seq, end) => LastEndIs(seq \o new, end)
<1> DEFINE all == seq \o new
           n   == Len(seq)
<1>1. /\ Len(all) = n + Len(new) /\ n \in Nat /\ Len(new) \in Nat
      /\ \A i \in 1..n + Len(new) : all[i] = IF i <= n THEN seq[i] ELSE new[i - n]
  BY ConcatProperties, LenProperties
<1> HIDE DEF all
<1>2. ASSUME NEW i \in 1..Len(all), IsEnd(all[i])
      PROVE  i \in 1..n /\ all[i] = seq[i]
  <2>1. CASE i <= n
    BY <1>1, <2>1
  <2>2. CASE i > n
    <3>1. i - n \in 1..Len(new) /\ all[i] = new[i - n]
      BY <1>1, <2>2
    <3> QED BY <1>2, <3>1 DEF HasEnd
  <2> QED BY <1>1, <2>1, <2>2
<1>3. \A i \in 1..n : i \in 1..Len(all) /\ all[i] = seq[i]
  BY <1>1
<1>4. HasEnd(all) <=> HasEnd(seq)
  BY <1>2, <1>3 DEF HasEnd
<1>5. ASSUME LastEndIs(seq, end)
      PROVE  LastEndIs(all, end)
  <2> SUFFICES ASSUME NEW i \in 1..Len(all), IsEnd(all[i]),
                      \A j \in i + 1..Len(all) : ~IsEnd(all[j])
               PROVE  all[i].kind = end
    BY DEF LastEndIs
  <2>1. i \in 1..n /\ all[i] = seq[i]
    BY <1>2
  <2>2. ASSUME NEW j \in i + 1..n
        PROVE  ~IsEnd(seq[j])
    <3>1. j \in i + 1..Len(all) /\ all[j] = seq[j]
      BY <1>1, <1>3, <2>1
    <3> QED BY <3>1
  <2> QED BY <1>5, <2>1, <2>2 DEF LastEndIs
<1> QED BY <1>4, <1>5 DEF all

LEMMA EndsAdded ==
  ASSUME NEW seq \in Seq(Line), NEW x \in Line, IsEnd(x)
  PROVE  HasEnd(seq \o <<x>>) /\ LastEndIs(seq \o <<x>>, x.kind)
<1> DEFINE all == seq \o <<x>>
           n   == Len(seq)
<1>0. <<x>> \in Seq(Line) /\ Len(<<x>>) = 1 /\ <<x>>[1] = x
  OBVIOUS
<1>1. /\ Len(all) = n + 1 /\ n \in Nat /\ all[n + 1] = x
  <2>1. /\ Len(all) = n + Len(<<x>>) /\ n \in Nat
        /\ \A i \in 1..n + Len(<<x>>) : all[i] = IF i <= n THEN seq[i] ELSE <<x>>[i - n]
    BY <1>0, ConcatProperties, LenProperties
  <2>2. n + 1 \in 1..n + Len(<<x>>) /\ ~(n + 1 <= n) /\ (n + 1) - n = 1
    BY <1>0, <2>1
  <2>3. all[n + 1] = <<x>>[(n + 1) - n]
    BY <2>1, <2>2
  <2> QED BY <1>0, <2>1, <2>2, <2>3
<1> HIDE DEF all
<1>2. HasEnd(all)
  BY <1>1 DEF HasEnd
<1>3. LastEndIs(all, x.kind)
  <2> SUFFICES ASSUME NEW i \in 1..Len(all), IsEnd(all[i]),
                      \A j \in i + 1..Len(all) : ~IsEnd(all[j])
               PROVE  all[i].kind = x.kind
    BY DEF LastEndIs
  <2>1. i = n + 1
    <3> SUFFICES ASSUME i # n + 1 PROVE FALSE
      OBVIOUS
    <3>1. n + 1 \in i + 1..Len(all)
      BY <1>1
    <3> QED BY <1>1, <3>1
  <2> QED BY <1>1, <2>1
<1> QED BY <1>2, <1>3 DEF all

\* A section is delivered without a word of moves.
LEMMA DeliverKeepsTold ==
  ASSUME TypeInv, DeliverSection
  PROVE  diag'.timeoutAge = diag.timeoutAge /\ diag'.recovered = diag.recovered
<1>1. CASE diag' = diag
  BY <1>1
<1>2. CASE DeliverStatus
  <2>1. /\ ApplyStatusSection(diag, section).timeoutAge = diag.timeoutAge
        /\ ApplyStatusSection(diag, section).recovered = diag.recovered
    <3>1. CASE Has(section, IsSensor)
      <4> DEFINE packets == IF Has(section, IsPacket) THEN LastOf(section, IsPacket).n ELSE 0
                 counted == CountSensor(diag, LastOf(section, IsSensor).n)
      <4>1. ApplyStatusSection(diag, section) = [counted EXCEPT !.packetErrors = packets]
        BY <3>1 DEF ApplyStatusSection
      <4>2. counted.timeoutAge = diag.timeoutAge /\ counted.recovered = diag.recovered
        BY DEF CountSensor, TypeInv, BeliefTypes, DomeDiagnosticsState
      <4> HIDE DEF packets, counted
      <4> QED BY <4>1, <4>2
    <3>2. CASE ~Has(section, IsSensor)
      BY <3>2 DEF ApplyStatusSection
    <3> QED BY <3>1, <3>2
  <2> QED BY <1>2, <2>1 DEF DeliverStatus
<1> QED BY <1>1, <1>2 DEF DeliverSection, DeliverConfig

LEMMA EndProcessed ==
  ASSUME TypeInv, TypeInv', ProcessLine, OutstandingInv, LastEndInv, ToldInv
  PROVE  OutstandingInv' /\ LastEndInv' /\ ToldInv'
<1> USE DEF deviceVars, readerVars, controlVars, beliefVars, historyVars
<1> DEFINE line == Head(lines)
<1>1. /\ line \in Line /\ InFlight' \in Seq(Line)
      /\ InFlight = <<line>> \o InFlight'
  BY ProcessTakesFirst
<1>2. /\ HasEnd(InFlight) <=> IsEnd(line) \/ HasEnd(InFlight')
      /\ LastEndIs(InFlight, lastEnd) => LastEndIs(InFlight', lastEnd)
      /\ LastEndIs(InFlight, lastEnd) /\ IsEnd(line) /\ ~HasEnd(InFlight') => line.kind = lastEnd
  <2> HIDE DEF line
  <2> QED BY <1>1, EndsCons
<1>3. UNCHANGED <<moving, toDevice, lastEnd>>
  BY DEF ProcessLine
<1>4. CASE ~IsEnd(line)
  <2>1. line.kind \notin {"reached", "timeout"}
    BY <1>4 DEF IsEnd
  <2>2. endLost' = endLost
    BY <1>4 DEF ProcessLine, TypeInv, HistoryTypes
  <2>3. moveOutstanding' => moveOutstanding
    BY DEF ProcessLine, ClassifyLine
  <2>4. diag'.timeoutAge = diag.timeoutAge /\ diag'.recovered = diag.recovered
    <3>1. CASE line.kind = "echo" /\ ProcessEcho(line.of)
      BY <3>1, DeliverKeepsTold DEF ProcessEcho
    <3>2. CASE ProcessPosition
      <4>1. /\ RecordPositionReport(diag).timeoutAge = diag.timeoutAge
            /\ RecordPositionReport(diag).recovered = diag.recovered
        BY DEF RecordPositionReport, TypeInv, BeliefTypes, DomeDiagnosticsState
      <4> QED BY <3>2, <4>1 DEF ProcessPosition
    <3>3. CASE CollectLine(line)
      BY <3>3 DEF CollectLine
    <3>4. CASE ClassifyLine(line)
      <4>0. diag' = ApplyFirmwareLine(diag, line)
        BY <3>4 DEF ClassifyLine
      <4> HIDE DEF line
      <4>1. /\ ApplyFirmwareLine(diag, line).timeoutAge = diag.timeoutAge
            /\ ApplyFirmwareLine(diag, line).recovered = diag.recovered
        BY <2>1 DEF ApplyFirmwareLine, CountSensor, TypeInv, BeliefTypes, DomeDiagnosticsState
      <4> QED BY <4>0, <4>1
    <3> QED BY <3>1, <3>2, <3>3, <3>4 DEF ProcessLine
  <2>5. OutstandingInv'
    BY <1>2, <1>3, <1>4, <2>2, <2>3 DEF OutstandingInv, MoveSent
  <2>6. LastEndInv'
    BY <1>2, <1>3, <2>2 DEF LastEndInv
  <2>7. ToldInv'
    BY <1>2, <1>3, <1>4, <2>2, <2>4 DEF ToldInv, Told
  <2> QED BY <2>5, <2>6, <2>7
<1>5. CASE IsEnd(line) /\ parseState # "none"
  <2>1. line.kind \notin {"echo", "position"}
    BY <1>5 DEF IsEnd
  <2>2. endLost' = TRUE
    BY <1>5, <2>1 DEF ProcessLine
  <2> QED BY <2>2 DEF OutstandingInv, LastEndInv, ToldInv
<1>6. CASE IsEnd(line) /\ parseState = "none"
  <2>1. line.kind \in {"reached", "timeout"}
    BY <1>6 DEF IsEnd
  <2>2. ClassifyLine(line) /\ UNCHANGED endLost
    BY <1>6, <2>1 DEF ProcessLine
  <2>3. moveOutstanding' = FALSE /\ diag' = ApplyFirmwareLine(diag, line)
    BY <2>1, <2>2 DEF ClassifyLine
  <2>4. OutstandingInv'
    BY <2>3 DEF OutstandingInv
  <2>5. LastEndInv'
    BY <1>2, <1>3, <2>2 DEF LastEndInv
  <2>6. ASSUME ~endLost', ~HasEnd(InFlight')
        PROVE  Told'
    <3>1. line.kind = lastEnd
      BY <1>2, <1>6, <2>2, <2>6 DEF LastEndInv
    <3> HIDE DEF line
    <3>2. CASE line.kind = "timeout"
      <4>1. diag' = [diag EXCEPT !.timeoutAge = 0, !.recovered = FALSE]
        BY <2>3, <3>2 DEF ApplyFirmwareLine
      <4>2. diag'.timeoutAge = 0 /\ diag'.recovered = FALSE
        BY <4>1 DEF TypeInv, BeliefTypes, DomeDiagnosticsState
      <4>3. Unknown # 0
        BY UnknownAssumption
      <4> QED BY <1>3, <3>1, <3>2, <4>2, <4>3 DEF Told
    <3>3. CASE line.kind = "reached"
      <4>1. diag' = [diag EXCEPT !.recovered = TRUE]
        BY <2>3, <3>3 DEF ApplyFirmwareLine
      <4>2. diag'.recovered = TRUE
        BY <4>1 DEF TypeInv, BeliefTypes, DomeDiagnosticsState
      <4> QED BY <1>3, <3>1, <3>3, <4>2 DEF Told
    <3> QED BY <2>1, <3>2, <3>3
  <2>7. ToldInv'
    BY <2>6 DEF ToldInv
  <2> QED BY <2>4, <2>5, <2>7
<1> QED BY <1>4, <1>5, <1>6

LEMMA EndStep ==
  ASSUME TypeInv, TypeInv', [Next]_vars, ~disturbed, ~disturbed',
         OutstandingInv, LastEndInv, ToldInv
  PROVE  OutstandingInv' /\ LastEndInv' /\ ToldInv'
<1> USE DEF deviceVars, readerVars, controlVars, beliefVars, historyVars
<1>0. InFlight \in Seq(Line)
  BY StreamIsLines
<1>1. CASE Execute
  <2> DEFINE c == Head(toDevice)
  <2>1. c \in Commands /\ DeviceTypes
    BY <1>1 DEF Execute, TypeInv, QueueTypes
  <2>2. /\ printing = <<>> /\ printing' = Answer(c) /\ toDevice # <<>> /\ toDevice' = Tail(toDevice)
        /\ moving' = (moving \/ c = "move")
        /\ UNCHANGED <<lines, toHost, lastEnd, endLost, moveOutstanding, diag>>
    BY <1>1 DEF Execute
  <2>3. InFlight' = InFlight \o Answer(c) /\ Answer(c) \in Seq(Line)
    BY <2>1, <2>2, AnswerGoesLast, AnswerLines
  <2>4. ~HasEnd(Answer(c))
    BY <2>1, AnswerCounts DEF HasEnd
  <2>5. MoveSent => c = "move" \/ MoveSent'
    <3> SUFFICES ASSUME NEW i \in DOMAIN toDevice, toDevice[i] = "move"
                 PROVE  c = "move" \/ MoveSent'
      BY DEF MoveSent
    <3>1. toDevice \in Seq(Commands) /\ toDevice' \in Seq(Commands)
      BY DEF TypeInv, QueueTypes
    <3>2. CASE i = 1
      BY <2>2, <3>1, <3>2
    <3>3. CASE i # 1
      <4>1. i - 1 \in 1..Len(toDevice') /\ toDevice'[i - 1] = toDevice[i]
        <5>1. /\ Len(toDevice') = Len(toDevice) - 1 /\ Len(toDevice) \in Nat
              /\ DOMAIN toDevice = 1..Len(toDevice)
              /\ \A j \in 1..Len(toDevice') : toDevice'[j] = toDevice[j + 1]
          BY <2>2, <3>1, HeadTailProperties, LenProperties
        <5>2. i - 1 \in 1..Len(toDevice') /\ (i - 1) + 1 = i
          BY <3>3, <5>1
        <5> QED BY <5>1, <5>2
      <4>2. i - 1 \in DOMAIN toDevice'
        BY <3>1, <4>1, LenProperties
      <4> QED BY <4>1, <4>2 DEF MoveSent
    <3> QED BY <3>2, <3>3
  <2> HIDE DEF c
  <2>6. /\ HasEnd(InFlight') <=> HasEnd(InFlight)
        /\ LastEndIs(InFlight, lastEnd) => LastEndIs(InFlight', lastEnd)
    BY <1>0, <2>3, <2>4, EndsGrown
  <2>7. OutstandingInv'
    BY <2>2, <2>5, <2>6 DEF OutstandingInv
  <2>8. LastEndInv' /\ ToldInv'
    BY <2>2, <2>6 DEF LastEndInv, ToldInv, Told
  <2> QED BY <2>7, <2>8
<1>2. CASE Report \/ Reboot
  <2>1. \E k \in {"position", "ready"} : InFlight' = InFlight \o <<Plain(k)>>
    <3>1. CASE Report
      BY <3>1, ReportGoesLast
    <3>2. CASE Reboot
      BY <3>2, AnswerGoesLast DEF Reboot
    <3> QED BY <1>2, <3>1, <3>2
  <2>2. PICK k \in {"position", "ready"} : InFlight' = InFlight \o <<Plain(k)>>
    BY <2>1
  <2>3. <<Plain(k)>> \in Seq(Line)
    BY PlainIsLine DEF PlainKinds
  <2>4. ~HasEnd(<<Plain(k)>>)
    BY DEF HasEnd, IsEnd, Plain
  <2>5. /\ HasEnd(InFlight') <=> HasEnd(InFlight)
        /\ LastEndIs(InFlight, lastEnd) => LastEndIs(InFlight', lastEnd)
    BY <1>0, <2>2, <2>3, <2>4, EndsGrown
  <2>6. /\ UNCHANGED <<lastEnd, moveOutstanding, diag>> /\ (~endLost' => ~endLost)
        /\ endLost \/ moving \/ MoveSent => endLost' \/ moving' \/ MoveSent'
    <3>1. CASE Report
      BY <3>1 DEF Report, MoveSent
    <3>2. CASE Reboot
      <4>1. endLost \/ moving \/ MoveSent => endLost'
        BY <3>2 DEF Reboot, MoveSent, TypeInv, HistoryTypes
      <4> QED BY <3>2, <4>1 DEF Reboot
    <3> QED BY <1>2, <3>1, <3>2
  <2>7. OutstandingInv'
    BY <2>5, <2>6 DEF OutstandingInv
  <2>8. LastEndInv' /\ ToldInv'
    BY <2>5, <2>6 DEF LastEndInv, ToldInv, Told
  <2> QED BY <2>7, <2>8
<1>3. CASE MoveEnds
  <2>1. PICK end \in {"reached", "timeout"} : printing' = <<Plain(end)>> /\ lastEnd' = end
    BY <1>3 DEF MoveEnds
  <2>2. printing = <<>> /\ UNCHANGED <<lines, toHost>>
    BY <1>3 DEF MoveEnds
  <2>3. InFlight' = InFlight \o <<Plain(end)>>
    BY <2>1, <2>2, AnswerGoesLast
  <2>4. Plain(end) \in Line /\ IsEnd(Plain(end)) /\ Plain(end).kind = end
    <3>1. end \in PlainKinds
      BY DEF PlainKinds
    <3> QED BY <3>1, PlainIsLine DEF Plain, IsEnd
  <2>5. HasEnd(InFlight') /\ LastEndIs(InFlight', end)
    <3> DEFINE x == Plain(end)
    <3>1. x \in Line /\ IsEnd(x) /\ x.kind = end /\ InFlight' = InFlight \o <<x>>
      BY <2>3, <2>4
    <3> HIDE DEF x
    <3> QED BY <1>0, <3>1, EndsAdded
  <2> QED BY <2>1, <2>5 DEF OutstandingInv, LastEndInv, ToldInv
<1>4. CASE ProcessLine
  BY <1>4, EndProcessed
<1>5. ASSUME InFlight' = InFlight, UNCHANGED <<moving, lastEnd, endLost>>,
             moveOutstanding' => moveOutstanding \/ MoveSent', MoveSent => MoveSent',
             Told => Told'
      PROVE  OutstandingInv' /\ LastEndInv' /\ ToldInv'
  BY <1>5 DEF OutstandingInv, LastEndInv, ToldInv
<1>6. CASE FlushIdle
  <2>1. UNCHANGED <<moving, lastEnd, endLost, moveOutstanding, toDevice, lines, toHost, printing>>
        /\ DeliverSection
    BY <1>6 DEF FlushIdle
  <2>2. InFlight' = InFlight /\ (MoveSent => MoveSent') /\ (Told => Told')
    BY <2>1, DeliverKeepsTold DEF InFlight, MoveSent, Told
  <2> QED BY <1>5, <2>1, <2>2
<1>7. CASE Write
  <2>1. InFlight' = InFlight
    BY <1>7 DEF Write, InFlight
  <2>2. UNCHANGED <<moving, lastEnd, endLost, diag>>
    BY <1>7 DEF Write
  <2> DEFINE queue == IF configRefreshPending /\ ~configRefreshPending'
                      THEN sendQueue \o ConfigDump ELSE sendQueue
             query == IF queue = <<>> THEN <<>> ELSE <<Head(queue)>>
  <2>3. query \in Seq(Commands) /\ toDevice \in Seq(Commands)
    <3>1. queue \in Seq(Commands)
      <4>1. ConfigDump \in Seq(Commands)
        BY DEF ConfigDump, Commands
      <4> QED BY <4>1, ConcatProperties DEF TypeInv, QueueTypes
    <3> HIDE DEF queue
    <3>2. query \in Seq(Commands)
      BY <3>1
    <3> QED BY <3>2 DEF TypeInv, QueueTypes
  <2>4. \/ toDevice' = toDevice \o query /\ moveOutstanding' = moveOutstanding
        \/ toDevice' = toDevice /\ moveOutstanding' = moveOutstanding
        \/ toDevice' = toDevice \o Append(query, "move")
    BY <1>7 DEF Write
  <2> HIDE DEF query
  <2>5. ASSUME NEW q \in Seq(Commands), toDevice' = toDevice \o q
        PROVE  (MoveSent => MoveSent') /\ ((\E j \in 1..Len(q) : q[j] = "move") => MoveSent')
    <3>1. /\ DOMAIN toDevice = 1..Len(toDevice) /\ DOMAIN toDevice' = 1..Len(toDevice) + Len(q)
          /\ Len(toDevice) \in Nat /\ Len(q) \in Nat
          /\ \A i \in 1..Len(toDevice) + Len(q) :
               toDevice'[i] = IF i <= Len(toDevice) THEN toDevice[i] ELSE q[i - Len(toDevice)]
      BY <2>3, <2>5, ConcatProperties, LenProperties
    <3>2. MoveSent => MoveSent'
      <4> SUFFICES ASSUME NEW i \in DOMAIN toDevice, toDevice[i] = "move"
                   PROVE  MoveSent'
        BY DEF MoveSent
      <4>1. i \in DOMAIN toDevice' /\ toDevice'[i] = "move"
        BY <3>1
      <4> QED BY <4>1 DEF MoveSent
    <3>3. (\E j \in 1..Len(q) : q[j] = "move") => MoveSent'
      <4> SUFFICES ASSUME NEW j \in 1..Len(q), q[j] = "move" PROVE MoveSent'
        OBVIOUS
      <4>1. Len(toDevice) + j \in DOMAIN toDevice' /\ toDevice'[Len(toDevice) + j] = "move"
        BY <3>1
      <4> QED BY <4>1 DEF MoveSent
    <3> QED BY <3>2, <3>3
  <2>6. Told => Told'
    BY <2>2 DEF Told
  <2>7. CASE toDevice' = toDevice \o query /\ moveOutstanding' = moveOutstanding
    BY <1>5, <2>1, <2>2, <2>3, <2>5, <2>6, <2>7
  <2>8. CASE toDevice' = toDevice /\ moveOutstanding' = moveOutstanding
    BY <1>5, <2>1, <2>2, <2>6, <2>8 DEF MoveSent
  <2>9. CASE toDevice' = toDevice \o Append(query, "move")
    <3>1. /\ Append(query, "move") \in Seq(Commands)
          /\ Len(query) + 1 \in 1..Len(Append(query, "move"))
          /\ Append(query, "move")[Len(query) + 1] = "move"
      <4>1. "move" \in Commands
        BY DEF Commands
      <4>2. Len(query) \in Nat
        BY <2>3, LenProperties
      <4> QED BY <2>3, <4>1, <4>2, AppendProperties
    <3>2. MoveSent'
      BY <2>5, <2>9, <3>1
    <3> QED BY <1>5, <2>1, <2>2, <2>6, <3>2
  <2> QED BY <2>4, <2>7, <2>8, <2>9
<1>8. CASE Tick
  <2>1. UNCHANGED <<moving, lastEnd, endLost, moveOutstanding, toDevice, lines, toHost, printing>>
        /\ diag' = Aged(diag)
    BY <1>8 DEF Tick
  <2>2. Aged(diag).recovered = diag.recovered
    BY DEF Aged, TypeInv, BeliefTypes, DomeDiagnosticsState
  <2>3. diag.timeoutAge # Unknown => Aged(diag).timeoutAge # Unknown
    <3> SUFFICES ASSUME diag.timeoutAge # Unknown PROVE Aged(diag).timeoutAge # Unknown
      OBVIOUS
    <3>1. diag.timeoutAge \in Nat
      BY ThresholdsAssumption DEF TypeInv, BeliefTypes, DomeDiagnosticsState
    <3>2. Older(diag.timeoutAge, ErrorFor) \in Nat
      BY <3>1 DEF Older
    <3>3. Aged(diag).timeoutAge = Older(diag.timeoutAge, ErrorFor)
      BY DEF Aged, TypeInv, BeliefTypes, DomeDiagnosticsState
    <3> QED BY <3>2, <3>3, UnknownAssumption
  <2>4. InFlight' = InFlight /\ (MoveSent => MoveSent') /\ (Told => Told')
    BY <2>1, <2>2, <2>3 DEF InFlight, MoveSent, Told
  <2> QED BY <1>5, <2>1, <2>4
<1>9. CASE PrintNext \/ PrintGarbled \/ ReadChunk \/ ChangeSetting \/ CountError
           \/ StatusPollTimer \/ RequestConfigRefresh \/ UNCHANGED vars
  <2>1. UNCHANGED <<moving, lastEnd, endLost, moveOutstanding, toDevice, diag>>
    BY <1>9 DEF PrintNext, PrintGarbled, PrintLine, ReadChunk, ChangeSetting, CountError,
       StatusPollTimer, RequestConfigRefresh, TimerUnchanged, vars
  <2>2. InFlight' = InFlight
    <3>1. CASE PrintNext \/ ReadChunk
      BY <3>1, PrintKeepsStream, ReadKeepsStream
    <3>2. CASE PrintGarbled
      BY <3>2 DEF PrintGarbled
    <3>3. CASE ChangeSetting \/ CountError \/ StatusPollTimer \/ RequestConfigRefresh
               \/ UNCHANGED vars
      BY <3>3 DEF ChangeSetting, CountError, StatusPollTimer, RequestConfigRefresh,
         TimerUnchanged, vars, InFlight
    <3> QED BY <1>9, <3>1, <3>2, <3>3
  <2>3. (MoveSent => MoveSent') /\ (Told => Told')
    BY <2>1 DEF MoveSent, Told
  <2> QED BY <1>5, <2>1, <2>2, <2>3
<1> QED BY <1>1, <1>2, <1>3, <1>4, <1>6, <1>7, <1>8, <1>9 DEF Next, Firmware, Reader, Control

-----------------------------------------------------------------------------
(* The theorems.                                                            *)

\* What holds as long as no answer was cut, garbled or interrupted.
WholeAnswers ==
  /\ ChainInv /\ AgeInv /\ DumpPart /\ StatusPart
  /\ CountersInv /\ ParamsInv /\ OwedInv
  /\ OutstandingInv /\ LastEndInv /\ ToldInv

IInv == TypeInv /\ (~disturbed => WholeAnswers)

LEMMA WholeInit == Init => WholeAnswers
<1> SUFFICES ASSUME Init PROVE WholeAnswers
  OBVIOUS
<1> USE DEF Init
<1>0. InFlight = <<>> /\ Len(InFlight) = 0
  BY DEF InFlight
<1>1. Reading = Plain("junk") /\ ~Unfinished(Reading)
  BY DEF Reading, Unfinished, Plain
<1>2. ChainInv
  BY <1>0, <1>1, EmptyChained DEF ChainInv
<1>3. AgeInv /\ DumpPart /\ StatusPart
  BY <1>1 DEF AgeInv, DumpPart, StatusPart
<1>4. CountersInv /\ ParamsInv
  BY DEF CountersInv, ParamsInv, FreshDiagnostics
<1>5. Count(InFlight, Positions) = 0 /\ Count(InFlight, StatusEchoes) = 0
  BY <1>0, CountEmpty DEF Count
<1>6. OwedInv
  BY <1>5 DEF OwedInv, Owed, Asked
<1>7. ~HasEnd(InFlight) /\ OutstandingInv /\ LastEndInv
  BY <1>0 DEF HasEnd, LastEndIs, OutstandingInv, LastEndInv
<1>8. ToldInv
  BY DEF ToldInv, Told
<1> QED BY <1>2, <1>3, <1>4, <1>6, <1>7, <1>8 DEF WholeAnswers

LEMMA Inductive ==
  ASSUME IInv, [Next]_vars
  PROVE  IInv'
<1>1. TypeInv /\ TypeInv'
  BY TypesStep DEF IInv
<1>2. ASSUME ~disturbed'
      PROVE  WholeAnswers'
  <2>1. ~disturbed
    BY <1>2, DisturbedStays
  <2>2. /\ ChainInv /\ AgeInv /\ DumpPart /\ StatusPart /\ CountersInv /\ ParamsInv /\ OwedInv
        /\ OutstandingInv /\ LastEndInv /\ ToldInv
    BY <2>1 DEF IInv, WholeAnswers
  <2>3. ChainInv' /\ AgeInv'
    BY <1>1, <1>2, <2>1, <2>2, ChainStep, AgeStep
  <2>4. DumpPart' /\ StatusPart'
    BY <1>1, <2>2, PartStep
  <2>5. CountersInv' /\ ParamsInv' /\ OwedInv'
    BY <1>1, <1>2, <2>1, <2>2, AnswerStep, OwedStep
  <2>6. OutstandingInv' /\ LastEndInv' /\ ToldInv'
    BY <1>1, <1>2, <2>1, <2>2, EndStep
  <2> QED BY <2>3, <2>4, <2>5, <2>6 DEF WholeAnswers
<1> QED BY <1>1, <1>2 DEF IInv

\* In every reachable state the line that is read next is known to belong where
\* it is put (IInv).
THEOREM Invariance == Spec => []IInv
<1>1. Init => IInv
  BY TypesInit, WholeInit DEF IInv
<1>2. IInv /\ [Next]_vars => IInv'
  BY Inductive
<1> QED BY <1>1, <1>2, PTL DEF Spec

\* Every variable has its type: read() collects no line that is not a key of a
\* dump into a dump, and no queue of the wire holds anything but printed lines.
THEOREM TypeCorrect == Spec => []TypeOK
<1>1. TypeInv => TypeOK
  <2> SUFFICES ASSUME TypeInv PROVE TypeOK
    OBVIOUS
  <2>1. \A a \in Line : a.kind \in KindsOfLines
    BY DEF Line, EchoLine, PlainLine, PlainKinds, KeyLine, SensorLine, PacketLine, KindsOfLines
  <2>2. \A queue \in {printing, toHost, lines, section} :
          \A i \in DOMAIN queue : queue[i].kind \in KindsOfLines
    <3> SUFFICES ASSUME NEW queue \in {printing, toHost, lines, section},
                        NEW i \in DOMAIN queue
                 PROVE  queue[i] \in Line
      BY <2>1
    <3>1. queue \in Seq(Line)
      BY DEF TypeInv, StreamTypes, SectionTypes
    <3> QED BY <3>1, LenProperties, ElementOfSeq
  <2>3. \A queue \in {sendQueue, toDevice} :
          \A i \in DOMAIN queue : queue[i] \in {"config", "status", "probe", "move"}
    <3> SUFFICES ASSUME NEW queue \in {sendQueue, toDevice}, NEW i \in DOMAIN queue
                 PROVE  queue[i] \in Commands
      BY DEF Commands
    <3>1. queue \in Seq(Commands)
      BY DEF TypeInv, QueueTypes
    <3> QED BY <3>1, LenProperties, ElementOfSeq
  <2>4. errors \in [sensor : 0..MaxEvents, packet : 0..MaxEvents]
    <3>1. errors.sensor \in Nat /\ errors.packet \in Nat /\ left \in Nat /\ MaxEvents \in Nat
          /\ errors.sensor + errors.packet <= MaxEvents - left
      BY EventsAssumption DEF TypeInv, DeviceTypes, ControlTypes, ErrorsInv
    <3>2. errors.sensor \in 0..MaxEvents /\ errors.packet \in 0..MaxEvents
      BY <3>1
    <3>3. errors = [sensor |-> errors.sensor, packet |-> errors.packet]
      BY DEF TypeInv, DeviceTypes
    <3> QED BY <3>2, <3>3
  <2>5. settings \in [Keys -> Values] /\ synced \in [Keys -> Values] /\ params \in [Keys -> Values]
    BY DEF TypeInv, DeviceTypes, BeliefTypes, Settings
  <2>6. {moving, reporting, configRefreshPending, moveOutstanding, endLost, disturbed}
          \subseteq BOOLEAN
    BY DEF TypeInv, DeviceTypes, ControlTypes, HistoryTypes
  <2>7. /\ parseState \in {"none", "config", "status"} /\ sectionAge \in 0..FlushAfter
        /\ parseState = "none" => section = <<>>
        /\ parseState = "config" => \A i \in DOMAIN section : section[i].kind = "kv"
    BY LenProperties DEF TypeInv, SectionTypes
  <2>8. /\ Len(toHost) <= MaxWire /\ Len(lines) <= MaxWire /\ deferredAge \in 0..Settle
        /\ diag \in DomeDiagnosticsState /\ lastEnd \in {"none", "reached", "timeout"}
    BY DEF TypeInv, StreamTypes, ControlTypes, BeliefTypes, HistoryTypes
  <2> QED BY <2>2, <2>3, <2>4, <2>5, <2>6, <2>7, <2>8 DEF TypeOK
<1> QED BY <1>1, Invariance, PTL DEF IInv

\* Every position report and every answer to #DPSTATUS that was printed is
\* delivered once or under way, whatever section it falls into, however read()
\* chops the stream and whether an echo or the idle timeout closes a section.
THEOREM NothingSwallowed == Spec => []NothingIsSwallowed
<1>1. IInv => NothingIsSwallowed
  BY CountIsCount DEF IInv, WholeAnswers, OwedInv, Owed, Asked, NothingIsSwallowed,
     EveryReportDelivered, EveryStatusDelivered
<1> QED BY <1>1, Invariance, PTL

\* The two error counters of /diagnostics always belong to one answer.
THEOREM CountersBelongTogether == Spec => []CountersOfOnePoll
<1>1. IInv => CountersOfOnePoll
  BY DEF IInv, WholeAnswers, CountersInv, CountersOfOnePoll
<1> QED BY <1>1, Invariance, PTL

\* The device.* parameters are the settings of one moment: a dump is delivered
\* whole or not at all.
THEOREM ParamsAreOneDump == Spec => []ParamsOfOneDump
<1>1. IInv => ParamsOfOneDump
  BY DEF IInv, WholeAnswers, ParamsInv, ParamsOfOneDump
<1> QED BY <1>1, Invariance, PTL

\* A move that has ended, and whose end no section has swallowed, is no longer
\* taken for outstanding, and the motion level says how it ended.
THEOREM EndOfMoveIsTold == Spec => []EndIsTold
<1>1. IInv => EndIsTold
  <2> SUFFICES ASSUME IInv, ~disturbed, ~endLost, ~moving, CountOf(InFlight, IsEnd) = 0,
                      \A i \in DOMAIN toDevice : toDevice[i] # "move"
               PROVE  /\ ~moveOutstanding
                      /\ lastEnd = "timeout" => MotionLevel(diag) # OK
                      /\ lastEnd = "reached" => MotionLevel(diag) # WARN
    BY DEF EndIsTold
  <2>1. TypeInv /\ OutstandingInv /\ ToldInv
    BY DEF IInv, WholeAnswers
  <2>2. ~HasEnd(InFlight)
    <3>1. InFlight \in Seq(Line) /\ DOMAIN InFlight = 1..Len(InFlight) /\ Len(InFlight) \in Nat
      BY <2>1, StreamIsLines, LenProperties
    <3> DEFINE E == {i \in DOMAIN InFlight : IsEnd(InFlight[i])}
    <3>2. IsFiniteSet(1..Len(InFlight)) /\ E \in SUBSET (1..Len(InFlight))
      BY <3>1, FS_Interval
    <3>3. Cardinality(E) = 0
      BY DEF CountOf
    <3>4. E = {}
      <4> HIDE DEF E
      <4> QED BY <3>2, <3>3, FS_Subset, FS_EmptySet
    <3> QED BY <3>1, <3>4 DEF HasEnd
  <2>3. ~moveOutstanding
    BY <2>1, <2>2 DEF OutstandingInv, MoveSent
  <2>4. Told
    BY <2>1, <2>2 DEF ToldInv
  <2>5. /\ lastEnd = "timeout" => MotionLevel(diag) # OK
        /\ lastEnd = "reached" => MotionLevel(diag) # WARN
    BY <2>4 DEF Told, MotionLevel, OK, WARN, ERROR
  <2> QED BY <2>3, <2>5
<1> QED BY <1>1, Invariance, PTL

================================================================================
