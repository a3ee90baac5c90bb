---------------------------- MODULE CalibratedDrive ----------------------------
(***************************************************************************)
(* The motion path behind the calibration it was initialised with.         *)
(* on_init refuses parameters it cannot make a map of, so an interface     *)
(* that is active has the map of some parameters; write() sends what that  *)
(* map makes of the controller's velocities.                               *)
(***************************************************************************)
EXTENDS MotionControl, VelocityMap

ASSUME PercentsAreOfMaps ==
  \A percent \in Percents : \E parameters \in Parameters, v \in Velocities :
    LET map == ParseVelocityMapParameters(parameters)
    IN  map # NoMap /\ percent = VelocityToPercent(v, map)

\* on_init refuses hardware parameters it cannot make a map of.  Whatever they
\* are, an interface that has become active sends percents in range, opposite ways
\* for opposite velocities and in the order of the speeds.
ActiveMapSteersTrue == lifecycleActive => EveryMapSteersTrue
===============================================================================
