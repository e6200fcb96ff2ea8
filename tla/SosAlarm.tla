------------------------------ MODULE SosAlarm ------------------------------
(***************************************************************************)
(* What a user may rely on: an alarm, raised by an SOS that was never used *)
(* before, is on until it is called off, and is over for good then.  How   *)
(* many may be on at a time is left open, because races decide it.         *)
(***************************************************************************)
CONSTANTS Users, SosIds

VARIABLES
  current,  \* the SOS that are on for a user
  past      \* the SOS that were called off

vars == <<current, past>>

Init == current = [u \in Users |-> {}] /\ past = {}

Raise(u, s) ==
  /\ s \notin past /\ \A other \in Users : s \notin current[other]
  /\ current' = [current EXCEPT ![u] = @ \cup {s}]
  /\ UNCHANGED past

CallOff(u, s) ==
  /\ s \in current[u]
  /\ past' = past \cup {s}
  /\ current' = [current EXCEPT ![u] = @ \ {s}]

Next == \E u \in Users, s \in SosIds : Raise(u, s) \/ CallOff(u, s)

Spec == Init /\ [][Next]_vars
=============================================================================
