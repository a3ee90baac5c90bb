------------------------------ MODULE MC_Settings ------------------------------
(* Values for the constants of Settings.                                     *)
EXTENDS Settings

MotorSettings == {"max_speed", "scaling", "home_pos"}
SavedSettings == {"max_speed", "scaling"}
RawMotor == <<<<"max_speed", Parameter("max_speed", 100)>>,
              <<"scaling", Parameter("scaling", 0)>>>>

SetAll == {[max_speed |-> 60, scaling |-> 1, home_pos |-> 0]}

\* A legal call, and one whose second parameter is out of range.
OperatorWants ==
  {<<<<"max_speed", Parameter("max_speed", 70)>>>>,
   <<<<"scaling", Parameter("scaling", 0)>>, <<"max_speed", Parameter("max_speed", 101)>>>>}
===============================================================================
