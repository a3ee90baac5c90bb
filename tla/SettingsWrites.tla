----------------------------- MODULE SettingsWrites -----------------------------
(***************************************************************************)
(* What set_parameters promises of the writes it accepts: they wait in     *)
(* line, one is at the device at a time, an acknowledgement is counted     *)
(* only for a write that the device has stored, and a write that is given  *)
(* up is not acknowledged.  Nothing else changes the device.  Only while   *)
(* the bench holds the dome may writes change places.                      *)
(***************************************************************************)
EXTENDS Integers, Sequences

CONSTANTS
  Initial      \* the device's settings at the start: a set of functions

VARIABLES
  device,      \* its settings
  waiting,     \* the accepted writes that are not settled, as <<setting, number>>
  stored,      \* the device has stored the first of them
  acks,        \* acknowledgements counted
  held         \* the bench holds the dome; it comes and goes

vars == <<device, waiting, stored, acks, held>>

Init ==
  /\ device \in Initial /\ waiting = <<>> /\ stored = FALSE /\ acks = 0
  /\ held \in BOOLEAN

Accept ==
  /\ Len(waiting') > Len(waiting) /\ SubSeq(waiting', 1, Len(waiting)) = waiting
  /\ UNCHANGED <<device, stored, acks>>

Store ==
  /\ waiting # <<>> /\ ~stored
  /\ LET setting == Head(waiting)[1]
     IN  device' = [device EXCEPT ![setting] = Head(waiting)[2]]
  /\ stored' = TRUE
  /\ UNCHANGED <<waiting, acks>>

Acknowledge ==
  /\ stored
  /\ waiting' = Tail(waiting) /\ stored' = FALSE /\ acks' = acks + 1
  /\ UNCHANGED device

\* The first n are put behind the others.
Behind(writes, n) == SubSeq(writes, n + 1, Len(writes)) \o SubSeq(writes, 1, n)

\* No answer in time, or never sent.  One step may give up a write and fail to
\* send the next, or give up a write and put the next ones behind the others.
Abandon ==
  /\ \E n \in 1..Len(waiting) :
       LET rest == SubSeq(waiting, n + 1, Len(waiting))
       IN  \/ waiting' = rest
           \/ held /\ \E m \in 1..Len(rest) : waiting' = Behind(rest, m)
  /\ stored' = FALSE
  /\ UNCHANGED <<device, acks>>

Defer ==
  /\ held /\ ~stored
  /\ \E n \in 1..Len(waiting) : waiting' = Behind(waiting, n)
  /\ UNCHANGED <<device, stored, acks>>

Next ==
  /\ Accept \/ Store \/ Acknowledge \/ Abandon \/ Defer
       \/ UNCHANGED <<device, waiting, stored, acks>>
  /\ held' \in BOOLEAN

Spec == Init /\ [][Next]_vars
===============================================================================
