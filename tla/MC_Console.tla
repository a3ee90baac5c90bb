------------------------------ MODULE MC_Console ------------------------------
(* Values for the constants of Console: a dump of two keys, two values.      *)
EXTENDS Console
TwoKeys == <<"HomePos", "MaxSpeed">>
AllOnes == {[k \in Keys |-> 1]}
===============================================================================
