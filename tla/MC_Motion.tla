------------------------------ MODULE MC_Motion ------------------------------
(* Values for the constants of MotionControl: percents, and which callers    *)
(* take part in a run.                                                       *)
EXTENDS MotionControl

OneSpeed    == {0, 40}
BothWays    == {-40, 0, 40}

DriveCalls  == {"drive", "settings", "switch", "deactivate"}
MoveCalls   == {"drive", "move", "settings", "switch", "deactivate"}
TimerCalls  == {"drive", "settings", "refresh", "poll", "setup", "switch"}
WatchdogCalls == {"drive", "switch", "deactivate"}
=============================================================================
