--------------------------- MODULE DeviceParameters ----------------------------
(***************************************************************************)
(* The device.* parameters: which there are, which may be written, what a  *)
(* write may hold, and what is read out of a #DPCONFIG dump.               *)
(*                                                                         *)
(* A parameter has a type and a number: a bool is 0 or 1, which is also    *)
(* what a command and a dump make of it.  A field of a dump is a number    *)
(* and what follows it on the line, or no number at all.  The keys of a    *)
(* dump are named by the fields they fill.                                 *)
(***************************************************************************)
EXTENDS Integers

CONSTANTS
  NoValue       \* no parameter value: the text could not be parsed

ParameterValue == [type : {"int"}, n : Int] \cup [type : {"bool"}, n : 0..1]

ASSUME NoValueAssumption == NoValue \notin ParameterValue

-----------------------------------------------------------------------------
(* The table of buildParameterSpecs.                                        *)

PercentFields  == {"max_speed", "min_speed", "speed_home", "speed_target", "speed_auto"}
ByteFields     == {"acceleration_scale", "deceleration_scale",
                   "auto_min_delay", "auto_max_delay"}
WritableBools  == {"scaling", "auto_mode", "home_mode"}
WritableFields == PercentFields \cup ByteFields \cup WritableBools
                  \cup {"auto_left", "auto_right", "timeout", "fudge"}

ReadOnlyBools  == {"inverted", "auto_safety", "auto_restart", "serial_in", "serial_out",
                   "pwm_in", "pwm_out", "pwm_arc_mode"}
ReadOnlyBytes  == {"home_min_delay", "home_max_delay", "target_min_delay",
                   "target_max_delay", "syren_address_in", "syren_address_out",
                   "pwm_deadband", "digital_out"}
ReadOnlyShorts == {"setup_angular_velocity", "pwm_min_pulse", "pwm_max_pulse",
                   "pwm_neutral_pulse"}
ReadOnlyWords  == {"sensor_baud", "syren_baud", "serial_baud"}
ReadOnlyFields == ReadOnlyBools \cup ReadOnlyBytes \cup ReadOnlyShorts
                  \cup ReadOnlyWords \cup {"home_pos", "input_speed"}

Field == WritableFields \cup ReadOnlyFields

BoolFields == WritableBools \cup ReadOnlyBools
TypeOf(f)  == IF f \in BoolFields THEN "bool" ELSE "int"

\* The largest value the parser takes.  (A uint32 has no other limit than its
\* width; the model stops at 2^31 - 1.)
MaxValue(f) ==
  CASE f \in PercentFields \cup {"input_speed"} -> 100
    [] f \in ByteFields \cup ReadOnlyBytes      -> 255
    [] f \in {"auto_left", "auto_right"}        -> 180
    [] f = "timeout"                            -> 30
    [] f = "fudge"                              -> 20
    [] f \in BoolFields                         -> 1
    [] f = "home_pos"                           -> 359
    [] f \in ReadOnlyShorts                     -> 65535
    [] f \in ReadOnlyWords                      -> 2147483647

\* The smallest value a write may hold; the parser takes 0 everywhere.
WriteMin(f) == IF f = "timeout" THEN 1 ELSE 0

DefaultNumber(f) ==
  CASE f = "max_speed" -> 50            [] f = "min_speed" -> 15
    [] f = "speed_home" -> 40           [] f = "speed_target" -> 100
    [] f = "speed_auto" -> 30           [] f = "acceleration_scale" -> 20
    [] f = "deceleration_scale" -> 50   [] f = "auto_left" -> 80
    [] f = "auto_right" -> 80           [] f = "auto_min_delay" -> 6
    [] f = "auto_max_delay" -> 8        [] f = "timeout" -> 5
    [] f = "fudge" -> 5                 [] f = "home_pos" -> 0
    [] f = "input_speed" -> 100         [] f = "home_min_delay" -> 6
    [] f = "home_max_delay" -> 8        [] f = "target_min_delay" -> 0
    [] f = "target_max_delay" -> 1      [] f = "setup_angular_velocity" -> 100
    [] f = "syren_address_in" -> 129    [] f = "syren_address_out" -> 129
    [] f = "sensor_baud" -> 115200      [] f = "syren_baud" -> 9600
    [] f = "serial_baud" -> 9600        [] f = "pwm_min_pulse" -> 1000
    [] f = "pwm_max_pulse" -> 2000      [] f = "pwm_neutral_pulse" -> 1500
    [] f = "pwm_deadband" -> 5          [] f = "digital_out" -> 0
    [] f \in {"scaling", "auto_mode", "home_mode", "auto_safety",
              "pwm_in", "pwm_out", "pwm_arc_mode"} -> 0
    [] f \in {"inverted", "auto_restart", "serial_in", "serial_out"} -> 1

Parameter(f, n)  == [type |-> TypeOf(f), n |-> n]
DefaultOf(f) == Parameter(f, DefaultNumber(f))

-----------------------------------------------------------------------------
(* Writing: validateAndBuildCommand.  An accepted parameter is sent as its  *)
(* number.                                                                  *)

IsWritable(f) == f \in WritableFields

Accepts_AnyByte(f, p) ==
  /\ IsWritable(f)
  /\ p.type = TypeOf(f)
  /\ p.type = "int" => p.n \in WriteMin(f)..255
Accepts(f, p) ==
  /\ IsWritable(f)
  /\ p.type = TypeOf(f)
  /\ p.type = "int" => p.n \in WriteMin(f)..MaxValue(f)

-----------------------------------------------------------------------------
(* Reading: parseConfigScalar and parseConfigMap.                           *)

\* A dump's text for a field.
Text(n)   == [digits |-> TRUE, n |-> n, suffix |-> "none"]
Words     == [digits |-> FALSE, n |-> 0, suffix |-> "other"]

\* Only the setup velocity may carry its unit.
SuffixAllowed(f, text) ==
  text.suffix = "none" \/ (text.suffix = "cm/s" /\ f = "setup_angular_velocity")

\* Every integral field is unsigned: a negative number wraps and is too large.
ParseConfigScalar(f, text) ==
  IF /\ text.digits
     /\ text.n \in 0..MaxValue(f)
     /\ IF f \in BoolFields THEN text.suffix = "none" ELSE SuffixAllowed(f, text)
  THEN Parameter(f, text.n) ELSE NoValue

\* A dump of some of the fields.  What it does not bring, and what does not
\* parse, becomes the default; the result counts only if every field parsed.
ParsesCleanly(dump) == \A f \in DOMAIN dump : ParseConfigScalar(f, dump[f]) # NoValue

FieldOf(dump, f) ==
  IF f \in DOMAIN dump /\ ParseConfigScalar(f, dump[f]) # NoValue
  THEN ParseConfigScalar(f, dump[f]) ELSE DefaultOf(f)

ParseConfigMap(dump) == [f \in Field |-> FieldOf(dump, f)]
===============================================================================
