--------------------------- MODULE RideLifecycle ---------------------------
(***************************************************************************)
(* What the rides subsystem promises, without requests, share rows, the    *)
(* cron job or failures: a ride begins once and ends for good, the point   *)
(* it shows comes from its own track, and it is watched by contacts of its *)
(* rider only.  What the handlers do not promise is not here either: that  *)
(* a ride stops being recorded or shared the moment it ends.               *)
(***************************************************************************)
CONSTANTS Users, Contacts, OwnerOf, RideIds, Positions, None

VARIABLES
  phase,     \* "absent", "active" or "completed"
  rider,     \* whose ride it is
  track,     \* the points recorded
  last,      \* the point shown
  watchers,  \* the contacts that may watch
  contacts   \* the contacts that exist

vars == <<phase, rider, track, last, watchers, contacts>>

Init ==
  /\ phase = [r \in RideIds |-> "absent"]
  /\ rider = [r \in RideIds |-> None]
  /\ track = [r \in RideIds |-> {}]
  /\ last = [r \in RideIds |-> None]
  /\ watchers = [r \in RideIds |-> {}]
  /\ contacts = Contacts

Begin(r, u) ==
  /\ phase[r] = "absent"
  /\ phase' = [phase EXCEPT ![r] = "active"]
  /\ rider' = [rider EXCEPT ![r] = u]
  /\ UNCHANGED <<track, last, watchers, contacts>>

Record(r, p) ==
  /\ phase[r] # "absent"
  /\ track' = [track EXCEPT ![r] = @ \cup {p}]
  /\ UNCHANGED <<phase, rider, last, watchers, contacts>>

Show(r, p) ==
  /\ p \in track[r]
  /\ last' = [last EXCEPT ![r] = p]
  /\ UNCHANGED <<phase, rider, track, watchers, contacts>>

Finish(r) ==
  /\ phase[r] = "active"
  /\ phase' = [phase EXCEPT ![r] = "completed"]
  /\ UNCHANGED <<rider, track, last, watchers, contacts>>

Watch(r, c) ==
  /\ phase[r] # "absent"
  /\ c \in contacts /\ OwnerOf[c] = rider[r]
  /\ watchers' = [watchers EXCEPT ![r] = @ \cup {c}]
  /\ UNCHANGED <<phase, rider, track, last, contacts>>

StopWatching(r, cs) ==
  /\ watchers' = [watchers EXCEPT ![r] = @ \ cs]
  /\ UNCHANGED <<phase, rider, track, last, contacts>>

Forget(c) ==
  /\ contacts' = contacts \ {c}
  /\ watchers' = [r \in RideIds |-> watchers[r] \ {c}]
  /\ UNCHANGED <<phase, rider, track, last>>

Next ==
  \/ \E r \in RideIds :
       \/ \E u \in Users : Begin(r, u)
       \/ \E p \in Positions : Record(r, p) \/ Show(r, p)
       \/ Finish(r)
       \/ \E c \in Contacts : Watch(r, c)
       \/ \E cs \in SUBSET Contacts : StopWatching(r, cs)
  \/ \E c \in Contacts : Forget(c)

Spec == Init /\ [][Next]_vars
=============================================================================
