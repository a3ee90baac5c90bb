--------------------------- MODULE VelocityMap_proofs ---------------------------
(* The calibration is sound for every velocity and every set of parameters.  *)
EXTENDS CalibratedDrive, TLAPS

\* Rounding keeps the order of its arguments.
LEMMA RoundMonotone ==
  ASSUME NEW s \in Int, NEW t \in Int, s <= t
  PROVE  Round(s) \in Int /\ Round(t) \in Int /\ Round(s) <= Round(t)
BY DEF Round

\* The percent of a direction, before its sign, is one of 0..100; it is 0 or at
\* least the direction's minimum; and it grows with the rounded one.
LEMMA LimitedPercent ==
  ASSUME NEW p \in Int, NEW q \in Int, p <= q,
         NEW dir \in Calibration, NEW b \in {"zero", "minimum"}
  PROVE  /\ Capped(Raised(p, dir, b)) \in 0..100
         /\ Capped(Raised(p, dir, b)) # 0 => Capped(Raised(p, dir, b)) >= dir.min_percent
         /\ Capped(Raised(p, dir, b)) <= Capped(Raised(q, dir, b))
<1>1. dir.min_percent \in 0..100
  BY DEF Calibration
<1> QED
  BY <1>1 DEF Capped, Raised

\* What a velocity becomes, for a velocity that is not 0.
LEMMA PercentOfVelocity ==
  ASSUME NEW map \in Maps, NEW v \in Int, v # 0
  PROVE  \E p \in 0..100 :
           /\ p # 0 => p >= SideOf(v, map).min_percent
           /\ VelocityToPercent(v, map) = SideOf(v, map).percent_sign * p
           /\ p = Capped(Raised(Round(SideOf(v, map).p0_percent
                     + Magnitude(v) * SideOf(v, map).k_percent_per_rad_s),
                     SideOf(v, map), map.below_minimum))
<1> DEFINE dir == SideOf(v, map)
           r   == Round(dir.p0_percent + Magnitude(v) * dir.k_percent_per_rad_s)
           p   == Capped(Raised(r, dir, map.below_minimum))
<1>1. dir \in Calibration /\ map.below_minimum \in {"zero", "minimum"}
  BY DEF Maps, SideOf
<1>2. dir.p0_percent + Magnitude(v) * dir.k_percent_per_rad_s \in Int
  BY <1>1 DEF Calibration, Magnitude
<1>3. r \in Int
  BY <1>2, RoundMonotone
<1>4. p \in 0..100 /\ (p # 0 => p >= dir.min_percent)
  <2>1. r <= r
    BY <1>3
  <2> HIDE DEF dir, r
  <2> QED BY <1>1, <1>3, <2>1, LimitedPercent
<1>5. VelocityToPercent(v, map) = dir.percent_sign * p
  BY NotANumberAssumption DEF VelocityToPercent
<1> QED
  BY <1>4, <1>5

\* A parameter set that is not refused gives a map of the type.
LEMMA ParsedMap ==
  ASSUME NEW parameters, IsParameterSet(parameters),
         ParseVelocityMapParameters(parameters) # NoMap
  PROVE  ParseVelocityMapParameters(parameters) \in Maps
<1> DEFINE numbers == parameters.numbers
<1>1. Readable(parameters) /\ SignsDiffer(numbers)
  BY DEF ParseVelocityMapParameters
<1>2. ASSUME NEW d \in Direction
      PROVE  /\ DirectionOf(numbers, d) \in Calibration
             /\ Given(numbers, d, "percent_sign") \in {-10, 10}
  <2>1. \A key \in Key : Given(numbers, d, key) \in Int
    <3> SUFFICES ASSUME NEW key \in Key PROVE Given(numbers, d, key) \in Int
      OBVIOUS
    <3>1. CASE <<d, key>> \in DOMAIN numbers
      <4>1. Given(numbers, d, key) \in Int \cup {NotANumber}
        BY <3>1 DEF IsParameterSet, Given
      <4> QED
        BY <1>1, <4>1 DEF Readable, Valid
    <3>2. CASE <<d, key>> \notin DOMAIN numbers
      BY <3>2, SlopeAssumption DEF Given, Default, Key
    <3> QED
      BY <3>1, <3>2
  <2>2. \A key \in Key : Valid(key, Given(numbers, d, key))
    BY <1>1 DEF Readable
  <2> QED
    BY <2>1, <2>2 DEF DirectionOf, Calibration, Valid, Key
<1>3. ParseVelocityMapParameters(parameters) =
        [positive |-> DirectionOf(numbers, "positive"),
         negative |-> DirectionOf(numbers, "negative"),
         below_minimum |->
           IF parameters.below_minimum = "minimum" THEN "minimum" ELSE "zero"]
  BY <1>1 DEF ParseVelocityMapParameters
<1>4. DirectionOf(numbers, "positive").percent_sign
        # DirectionOf(numbers, "negative").percent_sign
  BY <1>1, <1>2 DEF SignsDiffer, DirectionOf, Direction
<1> QED
  BY <1>2, <1>3, <1>4 DEF Maps, Direction

\* velocityToPercent sends only percents, and none too small to move the dome.
THEOREM EveryPercentIsSendable ==
  ASSUME NEW map \in Maps, NEW v \in Int
  PROVE  SendsPercent(v, map)
<1>1. CASE v = 0
  BY <1>1 DEF SendsPercent, VelocityToPercent
<1>2. CASE v # 0
  <2>1. PICK p \in 0..100 :
          /\ p # 0 => p >= SideOf(v, map).min_percent
          /\ VelocityToPercent(v, map) = SideOf(v, map).percent_sign * p
    BY <1>2, PercentOfVelocity
  <2>2. SideOf(v, map).percent_sign \in {-1, 1} /\ SideOf(v, map).min_percent \in 0..100
    BY DEF SideOf, Maps, Calibration
  <2> DEFINE sign == SideOf(v, map).percent_sign
             min  == SideOf(v, map).min_percent
             sent == VelocityToPercent(v, map)
  <2>3. sent \in -100..100 /\ Magnitude(sent) = p
    BY <2>1, <2>2 DEF Magnitude
  <2> QED
    BY <1>2, <2>1, <2>3 DEF SendsPercent, Magnitude
<1> QED
  BY <1>1, <1>2

\* Opposite velocities are sent as opposite percents: the signs of the two
\* directions differ in every map that is accepted.
THEOREM OppositeVelocitiesOppose ==
  ASSUME NEW map \in Maps, NEW u \in Int, NEW v \in Int
  PROVE  Opposes(u, v, map)
<1> SUFFICES ASSUME u > 0, v < 0
             PROVE  \/ VelocityToPercent(u, map) >= 0 /\ VelocityToPercent(v, map) <= 0
                    \/ VelocityToPercent(u, map) <= 0 /\ VelocityToPercent(v, map) >= 0
  BY DEF Opposes
<1>1. SideOf(u, map) = map.positive /\ SideOf(v, map) = map.negative
  BY DEF SideOf
<1>2. PICK p \in 0..100 : VelocityToPercent(u, map) = map.positive.percent_sign * p
  BY <1>1, PercentOfVelocity
<1>3. PICK q \in 0..100 : VelocityToPercent(v, map) = map.negative.percent_sign * q
  BY <1>1, PercentOfVelocity
<1>4. /\ map.positive.percent_sign \in {-1, 1} /\ map.negative.percent_sign \in {-1, 1}
      /\ map.positive.percent_sign # map.negative.percent_sign
  BY DEF Maps, Calibration
<1> QED
  BY <1>2, <1>3, <1>4

\* A greater speed the same way never drives the motor less.
THEOREM GreaterSpeedIsNotLess ==
  ASSUME NEW map \in Maps, NEW u \in Int, NEW v \in Int
  PROVE  KeepsOrder(u, v, map)
<1> SUFFICES ASSUME (u > 0 /\ v >= u) \/ (u < 0 /\ v <= u)
             PROVE  Magnitude(VelocityToPercent(u, map))
                      <= Magnitude(VelocityToPercent(v, map))
  BY DEF KeepsOrder
<1> DEFINE dir   == SideOf(u, map)
           T(w)  == dir.p0_percent + Magnitude(w) * dir.k_percent_per_rad_s
           P(w)  == Capped(Raised(Round(T(w)), dir, map.below_minimum))
<1>1. SideOf(v, map) = dir /\ u # 0 /\ v # 0
  BY DEF SideOf
<1>2. Magnitude(u) \in Nat /\ Magnitude(v) \in Nat /\ Magnitude(u) <= Magnitude(v)
  BY DEF Magnitude
<1>3. /\ dir \in Calibration /\ dir.k_percent_per_rad_s \in Nat /\ dir.p0_percent \in Int
      /\ dir.percent_sign \in {-1, 1} /\ map.below_minimum \in {"zero", "minimum"}
  BY DEF SideOf, Maps, Calibration
<1>4. T(u) \in Int /\ T(v) \in Int /\ T(u) <= T(v)
  <2>1. \A a, b, k \in Nat : a <= b => a * k \in Nat /\ b * k \in Nat /\ a * k <= b * k
    OBVIOUS
  <2> QED
    BY <1>2, <1>3, <2>1
<1>5. Round(T(u)) \in Int /\ Round(T(v)) \in Int /\ Round(T(u)) <= Round(T(v))
  <2> HIDE DEF T
  <2> QED
    BY <1>4, RoundMonotone
<1>6. P(u) <= P(v)
  <2> HIDE DEF T
  <2> QED
    BY <1>3, <1>5, LimitedPercent
<1>7. P(u) \in 0..100 /\ VelocityToPercent(u, map) = dir.percent_sign * P(u)
  BY <1>1, PercentOfVelocity
<1>8. P(v) \in 0..100 /\ VelocityToPercent(v, map) = dir.percent_sign * P(v)
  BY <1>1, PercentOfVelocity
<1>9. Magnitude(VelocityToPercent(u, map)) = P(u) /\ Magnitude(VelocityToPercent(v, map)) = P(v)
  <2> HIDE DEF P
  <2> QED
    BY <1>3, <1>7, <1>8 DEF Magnitude
<1> QED
  BY <1>6, <1>9

\* The map on_init reads from any hardware parameters at all steers true at any
\* velocities at all.
THEOREM MapSteersTrue == EveryMapSteersTrue
<1> SUFFICES ASSUME NEW parameters \in Parameters,
                    ParseVelocityMapParameters(parameters) # NoMap
             PROVE  LET map == ParseVelocityMapParameters(parameters)
                    IN  /\ \A v \in Velocities : SendsPercent(v, map)
                        /\ \A u, v \in Velocities : Opposes(u, v, map) /\ KeepsOrder(u, v, map)
  BY DEF EveryMapSteersTrue
<1>1. ParseVelocityMapParameters(parameters) \in Maps
  BY ParametersAssumption, ParsedMap
<1> QED
  BY <1>1, VelocitiesAssumption, EveryPercentIsSendable, OppositeVelocitiesOppose,
     GreaterSpeedIsNotLess

\* on_init refuses parameters it can make no map of, so an interface that has
\* become active sends percents of a map that steers true, for any parameters.
THEOREM ActiveMapIsTrue == Spec => []ActiveMapSteersTrue
<1>1. ActiveMapSteersTrue
  BY MapSteersTrue DEF ActiveMapSteersTrue
<1> QED
  BY <1>1, PTL
===============================================================================
