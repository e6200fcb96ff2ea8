------------------------------ MODULE Sessions ------------------------------
(***************************************************************************)
(* What a session is: a tree of refresh tokens of one user, grown from a   *)
(* login.  A token is either live or over for good, and only a token that  *)
(* is over brings forth further ones: the live tokens are leaves.  How     *)
(* many a token brings forth is left open, because races decide it.        *)
(***************************************************************************)
CONSTANTS Users, TokenIds, None

VARIABLES
  owner,   \* whose session a token belongs to; None before it is issued
  parent,  \* the token it was exchanged for; None after a login
  live     \* tokens that may still be exchanged

vars == <<owner, parent, live>>

Init ==
  /\ owner = [t \in TokenIds |-> None]
  /\ parent = [t \in TokenIds |-> None]
  /\ live = {}

\* A login, or a change of role, opens a session.
Begin(u, c) ==
  /\ owner[c] = None
  /\ owner' = [owner EXCEPT ![c] = u]
  /\ live' = live \cup {c}
  /\ UNCHANGED parent

\* A token that was given up brings forth one of the same user.
Rotate(t, c) ==
  /\ owner[t] # None /\ t \notin live
  /\ owner[c] = None
  /\ owner' = [owner EXCEPT ![c] = owner[t]]
  /\ parent' = [parent EXCEPT ![c] = t]
  /\ live' = live \cup {c}

\* Exchanged, logged out, or thirty days old.
Retire(t) ==
  /\ t \in live
  /\ live' = live \ {t}
  /\ UNCHANGED <<owner, parent>>

Next ==
  \E t \in TokenIds :
    \/ \E u \in Users : Begin(u, t)
    \/ \E c \in TokenIds : Rotate(t, c)
    \/ Retire(t)

Spec == Init /\ [][Next]_vars
=============================================================================
