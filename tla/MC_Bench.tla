------------------------------- MODULE MC_Bench -------------------------------
(* Values for the constants of BenchNode.                                    *)
EXTENDS BenchNode
OnePercent == {40}
NoPercents == {}
===============================================================================
