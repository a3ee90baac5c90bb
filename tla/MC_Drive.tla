------------------------------- MODULE MC_Drive -------------------------------
(* MotionControl with the percents of a calibrated velocity map: the         *)
(* calibration of README.md:473 as its parameters, a dome that turns the     *)
(* other way and starts at 20 %.                                             *)
EXTENDS MC_Motion, CalibratedDrive

\* The parameters of a map: each key of a direction is absent or one of a few
\* values, the unusual ones included.
KeyValues ==
  [k_percent_per_rad_s |-> {70}, p0_percent |-> {-100, 45},
   min_percent |-> {200, 205}, percent_sign |-> {10, -10, NotANumber}]

Row(d) ==
  UNION {{f \in [{<<d, key>> : key \in given} ->
                    UNION {KeyValues[key] : key \in given}] :
            \A key \in given : f[<<d, key>>] \in KeyValues[key]} :
         given \in SUBSET Key}

Both(f, g) == [x \in DOMAIN f \cup DOMAIN g |-> IF x \in DOMAIN f THEN f[x] ELSE g[x]]

Calibration473 ==
  [numbers |-> [x \in Direction \X {"k_percent_per_rad_s", "min_percent", "percent_sign"} |->
                  CASE x[2] = "k_percent_per_rad_s" -> 100
                    [] x[2] = "min_percent"         -> 200
                    [] x[2] = "percent_sign"        -> IF x[1] = "positive" THEN -10 ELSE 10],
   below_minimum |-> "minimum", unknown |-> FALSE]

SomeParameters ==
  {[numbers |-> Both(f, g), below_minimum |-> b, unknown |-> FALSE] :
     f \in Row("positive"), g \in Row("negative"), b \in {"absent", "minimum", "other"}}
  \cup {[numbers |-> f, below_minimum |-> "zero", unknown |-> u] :
          f \in Row("positive"), u \in BOOLEAN}
  \cup {Calibration473}

SomeVelocities == {-20, -4, -1, 0, 1, 4, 20}

\* What a controller's velocities become; the bench asks for the same percents.
Calibrated  == ParseVelocityMapParameters(Calibration473)
MapPercents == {VelocityToPercent(v, Calibrated) : v \in {0, 4}}
===============================================================================
