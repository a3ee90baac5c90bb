----------------------------- MODULE ReportFilter -----------------------------
(***************************************************************************)
(* What the position tracker may rely on from whatever filters the         *)
(* position reports of the dome, as the comment of ReportPlausibilityGate  *)
(* promises it: reports come out in the order in which they arrived, each  *)
(* at most once and at most one report late, and some report comes out of  *)
(* every Limit that arrive, so that the position never freezes.            *)
(*                                                                         *)
(* A report is the number of its arrival.                                  *)
(***************************************************************************)
EXTENDS Naturals, Sequences

CONSTANT Limit      \* so many arrivals in a row bring at least one delivery

VARIABLES
  arrived,          \* reports that have arrived since activation
  newest,           \* the newest report delivered, 0 before the first
  waiting,          \* the report kept back, 0 if there is none
  delivered         \* what the last arrival delivered

vars == <<arrived, newest, waiting, delivered>>

Init == arrived = 0 /\ newest = 0 /\ waiting = 0 /\ delivered = <<>>

Arrive == arrived' = arrived + 1

\* The new report is delivered, and the one kept back is lost.
Pass ==
  /\ Arrive
  /\ delivered' = <<arrived'>> /\ newest' = arrived' /\ waiting' = 0

\* The one kept back and the new one are delivered, in this order.
Both ==
  /\ waiting # 0
  /\ Arrive
  /\ delivered' = <<waiting, arrived'>> /\ newest' = arrived' /\ waiting' = 0

\* The new report is kept back, and the one kept back before is lost.
Keep ==
  /\ newest # 0 /\ arrived + 1 - newest < Limit
  /\ Arrive
  /\ delivered' = <<>> /\ waiting' = arrived' /\ UNCHANGED newest

Restart == arrived' = 0 /\ newest' = 0 /\ waiting' = 0 /\ delivered' = <<>>

Next == Pass \/ Both \/ Keep \/ Restart

Spec == Init /\ [][Next]_vars
===============================================================================
