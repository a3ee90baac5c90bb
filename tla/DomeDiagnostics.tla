--------------------------- MODULE DomeDiagnostics ----------------------------
(***************************************************************************)
(* The diagnostics state of the hardware interface (DomeDiagnosticsState): *)
(* how the lines of the firmware are folded into it and the levels that    *)
(* /diagnostics publishes of it once a second.  Pure operators on a        *)
(* record, as in the code; module Console owns the record.                 *)
(*                                                                         *)
(* A time stamp is kept as its age, which stops at the threshold it is     *)
(* compared with.  Counters that only grow, values that are only printed   *)
(* and the gate's counters (module ReportGate) are left out.               *)
(***************************************************************************)
EXTENDS Integers, Sequences

CONSTANTS
  StaleAfter,       \* report_stale_s
  ErrorFor,         \* timeout_error_s
  Unknown           \* an optional value that is not there

ASSUME UnknownAssumption == Unknown \notin Nat

OK    == 0
WARN  == 1
ERROR == 2

\* reportAge is at StaleAfter too as long as there was no report at all: the
\* levels do not tell the two apart.
DomeDiagnosticsState ==
  [reportAge : 0..StaleAfter, sensorErrors : Nat \cup {Unknown},
   increased : BOOLEAN, packetErrors : Nat \cup {Unknown}, rebooted : BOOLEAN,
   timeoutAge : 0..ErrorFor \cup {Unknown}, recovered : BOOLEAN]

FreshDiagnostics ==
  [reportAge |-> StaleAfter, sensorErrors |-> Unknown, increased |-> FALSE,
   packetErrors |-> Unknown, rebooted |-> FALSE, timeoutAge |-> Unknown,
   recovered |-> TRUE]

CountSensor(d, n) ==
  [d EXCEPT !.increased = d.sensorErrors # Unknown /\ n > d.sensorErrors,
            !.sensorErrors = n]

\* A line outside of every section.
ApplyFirmwareLine(d, line) ==
  CASE line.kind = "reached" -> [d EXCEPT !.recovered = TRUE]
    [] line.kind = "timeout" -> [d EXCEPT !.timeoutAge = 0, !.recovered = FALSE]
    [] line.kind = "sensor"  -> CountSensor(d, line.n)
    [] line.kind = "packet"  -> [d EXCEPT !.packetErrors = line.n]
    [] line.kind = "ready"   -> [d EXCEPT !.rebooted = TRUE]
    [] OTHER -> d

IsSensor(line) == line.kind = "sensor"
IsPacket(line) == line.kind = "packet"

\* The last of the lines that pass the test.
Has(lines, Test(_)) == \E i \in DOMAIN lines : Test(lines[i])
LastOf(lines, Test(_)) ==
  lines[CHOOSE i \in DOMAIN lines :
          Test(lines[i]) /\ \A j \in DOMAIN lines : Test(lines[j]) => j <= i]

\* A #DPSTATUS section: ignored without a sensor line; the packet line is only
\* printed when its count is not zero.
ApplyStatusSection_KeepsPackets(d, lines) ==
  IF ~Has(lines, IsSensor) THEN d
  ELSE [CountSensor(d, LastOf(lines, IsSensor).n) EXCEPT
          !.packetErrors = IF Has(lines, IsPacket) THEN LastOf(lines, IsPacket).n ELSE @]
ApplyStatusSection(d, lines) ==
  IF ~Has(lines, IsSensor) THEN d
  ELSE [CountSensor(d, LastOf(lines, IsSensor).n) EXCEPT
          !.packetErrors = IF Has(lines, IsPacket) THEN LastOf(lines, IsPacket).n ELSE 0]

RecordPositionReport(d) == [d EXCEPT !.reportAge = 0]

Older(age, limit) == IF age < limit THEN age + 1 ELSE age

Aged(d) ==
  [d EXCEPT !.reportAge = Older(@, StaleAfter),
            !.timeoutAge = IF @ = Unknown THEN @ ELSE Older(@, ErrorFor)]

LinkLevel_NeverStale(d, serialOpen) ==
  IF ~serialOpen \/ d.rebooted THEN ERROR ELSE OK
LinkLevel(d, serialOpen) ==
  IF ~serialOpen \/ d.rebooted THEN ERROR
  ELSE IF d.reportAge = StaleAfter THEN WARN ELSE OK

MotionLevel(d) ==
  IF d.timeoutAge = Unknown THEN OK
  ELSE IF d.timeoutAge < ErrorFor THEN ERROR
  ELSE IF ~d.recovered THEN WARN ELSE OK
===============================================================================
