------------------------------- MODULE MC_Gate --------------------------------
(* Values for the constants of ReportGate: a small circle, any report.       *)
EXTENDS ReportGate
AnyGap == {0, 1, 2}
===============================================================================
