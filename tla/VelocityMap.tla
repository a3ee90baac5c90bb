------------------------------ MODULE VelocityMap ------------------------------
(***************************************************************************)
(* The calibration that turns a joint velocity into the percent of a :DPR  *)
(* command (velocityToPercent), and the hardware parameters it is read     *)
(* from when the component is initialised (parseVelocityMapParameters).    *)
(*                                                                         *)
(* The code computes with doubles.  Here a number of the calibration is a  *)
(* whole number of tenths (of a percent, or of a percent per unit of       *)
(* velocity) and a velocity a whole number of units, so that rounding to a *)
(* percent is still something that happens.  A parameter that is not a     *)
(* finite number is NotANumber; so is a velocity that is NaN.              *)
(*                                                                         *)
(* A definition Name_Variant, placed before Name, is Name with a plausible *)
(* mistake in it; no other definition uses it.                             *)
(***************************************************************************)
EXTENDS Integers

CONSTANTS
  LinearSlope,   \* 100 / max_speed_rad_per_sec, in tenths
  NotANumber,
  NoMap,         \* the parameters are refused: on_init fails
  Parameters,    \* sets of hardware parameters that may be given
  Velocities     \* joint velocities that may be commanded

Direction == {"positive", "negative"}
Key       == {"k_percent_per_rad_s", "p0_percent", "min_percent", "percent_sign"}

\* VelocityMapDirection.
Calibration ==
  [k_percent_per_rad_s : Nat \ {0}, p0_percent : Int, min_percent : 0..100,
   percent_sign : {-1, 1}]

\* What parseVelocityMapParameters may accept.
Maps == {m \in [positive : Calibration, negative : Calibration,
                below_minimum : {"zero", "minimum"}] :
           m.positive.percent_sign # m.negative.percent_sign}

-----------------------------------------------------------------------------
(* Parameters: the numbers given for some of the keys of each direction,    *)
(* what is given for below_minimum, and whether there is a key under        *)
(* "velocity_map." that is none of these.                                   *)

IsParameterSet(parameters) ==
  /\ DOMAIN parameters.numbers \subseteq Direction \X Key
  /\ \A x \in DOMAIN parameters.numbers : parameters.numbers[x] \in Int \cup {NotANumber}
  /\ parameters.below_minimum \in {"absent", "zero", "minimum", "other"}
  /\ parameters.unknown \in BOOLEAN

ASSUME SlopeAssumption      == LinearSlope \in Nat \ {0}
ASSUME NotANumberAssumption == NotANumber \notin Int
ASSUME ParametersAssumption ==
  \A parameters \in Parameters : IsParameterSet(parameters)
ASSUME VelocitiesAssumption == Velocities \subseteq Int

Valid(key, n) ==
  /\ n # NotANumber
  /\ CASE key = "k_percent_per_rad_s" -> n > 0
       [] key = "p0_percent"          -> TRUE
       [] key = "min_percent"         -> n \in 0..1000 /\ n % 10 = 0
       [] key = "percent_sign"        -> n \in {-10, 10}

\* linearVelocityMap.
Default(d) ==
  [k_percent_per_rad_s |-> LinearSlope, p0_percent |-> 0, min_percent |-> 0,
   percent_sign |-> IF d = "positive" THEN 10 ELSE -10]

Given(numbers, d, key) ==
  IF <<d, key>> \in DOMAIN numbers THEN numbers[<<d, key>>] ELSE Default(d)[key]

DirectionOf(numbers, d) ==
  [k_percent_per_rad_s |-> Given(numbers, d, "k_percent_per_rad_s"),
   p0_percent          |-> Given(numbers, d, "p0_percent"),
   min_percent         |-> Given(numbers, d, "min_percent") \div 10,
   percent_sign        |-> Given(numbers, d, "percent_sign") \div 10]

SignsDiffer(numbers) ==
  Given(numbers, "positive", "percent_sign") # Given(numbers, "negative", "percent_sign")

Readable(parameters) ==
  /\ ~parameters.unknown
  /\ \A d \in Direction, key \in Key : Valid(key, Given(parameters.numbers, d, key))
  /\ parameters.below_minimum \in {"absent", "zero", "minimum"}

ParseVelocityMapParameters_AnySigns(parameters) ==
  IF Readable(parameters)
  THEN [positive |-> DirectionOf(parameters.numbers, "positive"),
        negative |-> DirectionOf(parameters.numbers, "negative"),
        below_minimum |-> IF parameters.below_minimum = "minimum" THEN "minimum" ELSE "zero"]
  ELSE NoMap
ParseVelocityMapParameters(parameters) ==
  IF Readable(parameters) /\ SignsDiffer(parameters.numbers)
  THEN [positive |-> DirectionOf(parameters.numbers, "positive"),
        negative |-> DirectionOf(parameters.numbers, "negative"),
        below_minimum |-> IF parameters.below_minimum = "minimum" THEN "minimum" ELSE "zero"]
  ELSE NoMap

-----------------------------------------------------------------------------
(* velocityToPercent.                                                       *)

Magnitude(x) == IF x < 0 THEN -x ELSE x

\* Tenths to the nearest whole number, half away from zero.
Round(tenths) == IF tenths < 0 THEN -((5 - tenths) \div 10) ELSE (tenths + 5) \div 10

\* Below the smallest percent that moves the dome there is none or that one.
Raised(percent, dir, below_minimum) ==
  IF percent >= dir.min_percent THEN percent
  ELSE IF below_minimum = "minimum" THEN dir.min_percent ELSE 0

Capped(percent) == IF percent < 100 THEN percent ELSE 100

SideOf(v, map) == IF v > 0 THEN map.positive ELSE map.negative

VelocityToPercent(v, map) ==
  IF v = NotANumber \/ v = 0 THEN 0
  ELSE LET dir     == SideOf(v, map)
           percent == Round(dir.p0_percent + Magnitude(v) * dir.k_percent_per_rad_s)
       IN  dir.percent_sign * Capped(Raised(percent, dir, map.below_minimum))

-----------------------------------------------------------------------------
(* Properties of a map, and of the map that is read from any parameters.    *)

\* What is sent is a percent, and never one too small to move the dome.
SendsPercent(v, map) ==
  LET p == VelocityToPercent(v, map)
  IN  /\ p \in -100..100
      /\ p # 0 => v # 0 /\ Magnitude(p) >= SideOf(v, map).min_percent

\* Opposite velocities never drive the motor the same way.
Opposes(u, v, map) ==
  u > 0 /\ v < 0 =>
    \/ VelocityToPercent(u, map) >= 0 /\ VelocityToPercent(v, map) <= 0
    \/ VelocityToPercent(u, map) <= 0 /\ VelocityToPercent(v, map) >= 0

\* A greater speed the same way never drives the motor less.
KeepsOrder(u, v, map) ==
  (u > 0 /\ v >= u) \/ (u < 0 /\ v <= u) =>
    Magnitude(VelocityToPercent(u, map)) <= Magnitude(VelocityToPercent(v, map))

\* Whatever the parameters, on_init either refuses them or has a map that sends
\* percents in range, opposite ways for opposite velocities and in the order of
\* the speeds.
EveryMapSteersTrue ==
  \A parameters \in Parameters :
    LET map == ParseVelocityMapParameters(parameters)
    IN  map # NoMap =>
          /\ \A v \in Velocities : SendsPercent(v, map)
          /\ \A u, v \in Velocities : Opposes(u, v, map) /\ KeepsOrder(u, v, map)
===============================================================================
