------------------------------- MODULE HandOff -------------------------------
(***************************************************************************)
(* What a mailer session promises about the files queued for a node: a     *)
(* file leaves the outbound only when the other side has the whole of it,  *)
(* and what has arrived stays.                                             *)
(***************************************************************************)
CONSTANT Files

VARIABLES
  queued,    \* files still in somebody's outbound
  arrived    \* files the other side has stored, whole and unchanged

vars == <<queued, arrived>>

Init ==
  /\ queued = Files
  /\ arrived = {}

Arrive(f) ==
  /\ arrived' = arrived \cup {f}
  /\ UNCHANGED queued

Dispose(f) ==
  /\ f \in arrived
  /\ queued' = queued \ {f}
  /\ UNCHANGED arrived

Next == \E f \in Files : Arrive(f) \/ Dispose(f)

Spec == Init /\ [][Next]_vars
==============================================================================
