------------------------------ MODULE Contacts ------------------------------
(***************************************************************************)
(* RidersService.addContact and removeContact: at most MAX_CONTACTS        *)
(* emergency contacts, counted before the insert.                          *)
(***************************************************************************)
EXTENDS Integers, FiniteSets

CONSTANTS
  Users,
  ContactIds,    \* pool of fresh ids: newId() of emergency_contacts
  Workers,       \* requests that may be in flight together
  MAX_CONTACTS,  \* 5 in the code
  MaxFaults,     \* bound on failed statements and crashes
  None

ASSUME LimitsAssumption == MAX_CONTACTS \in Nat \ {0} /\ MaxFaults \in Nat
ASSUME NoneAssumption == None \notin Users \cup ContactIds

VARIABLES
  owner,     \* emergency_contacts.user_id; None: no such row
  priority,  \* emergency_contacts.priority
  used,      \* ids that were given out
  req, faults

vars == <<owner, priority, used, req, faults>>

Idle == [pc |-> "idle", user |-> None, n |-> 0, id |-> None]
Request == [pc : {"idle", "insert", "delete"}, user : Users \cup {None},
            n : 0..(MAX_CONTACTS - 1), id : ContactIds \cup {None}]

Init ==
  /\ owner = [c \in ContactIds |-> None]
  /\ priority = [c \in ContactIds |-> 0]
  /\ used = {}
  /\ req = [w \in Workers |-> Idle]
  /\ faults = 0

Of(u) == {c \in ContactIds : owner[c] = u}
Done(w) == req' = [req EXCEPT ![w] = Idle]

\* Mutant: <= for <.
AddCountOffByOne(w, u) ==
  /\ req[w].pc = "idle"
  /\ Cardinality(Of(u)) <= MAX_CONTACTS
  /\ req' = [req EXCEPT ![w] = [pc |-> "insert", user |-> u, id |-> None,
                                n |-> Cardinality(Of(u))]]
  /\ UNCHANGED <<owner, priority, used, faults>>

AddCount(w, u) ==
  /\ req[w].pc = "idle"
  /\ Cardinality(Of(u)) < MAX_CONTACTS
  /\ req' = [req EXCEPT ![w] = [pc |-> "insert", user |-> u, id |-> None,
                                n |-> Cardinality(Of(u))]]
  /\ UNCHANGED <<owner, priority, used, faults>>

AddInsert(w, c) ==
  /\ req[w].pc = "insert"
  /\ c \notin used
  /\ used' = used \cup {c}
  /\ owner' = [owner EXCEPT ![c] = req[w].user]
  /\ priority' = [priority EXCEPT ![c] = req[w].n + 1]
  /\ Done(w)
  /\ UNCHANGED faults

\* Mutant: the user is left out of the WHERE clause.
RemoveSelectAnyone(w, u, c) ==
  /\ req[w].pc = "idle"
  /\ owner[c] # None
  /\ req' = [req EXCEPT ![w] =
               [pc |-> "delete", user |-> u, id |-> c, n |-> 0]]
  /\ UNCHANGED <<owner, priority, used, faults>>

RemoveSelect(w, u, c) ==
  /\ req[w].pc = "idle"
  /\ owner[c] = u
  /\ req' = [req EXCEPT ![w] =
               [pc |-> "delete", user |-> u, id |-> c, n |-> 0]]
  /\ UNCHANGED <<owner, priority, used, faults>>

RemoveDelete(w) ==
  /\ req[w].pc = "delete"
  /\ owner' = [owner EXCEPT ![req[w].id] = None]
  /\ priority' = [priority EXCEPT ![req[w].id] = 0]
  /\ Done(w)
  /\ UNCHANGED <<used, faults>>

Fail(w) ==
  /\ faults < MaxFaults
  /\ req[w].pc # "idle"
  /\ Done(w)
  /\ faults' = faults + 1
  /\ UNCHANGED <<owner, priority, used>>

Next ==
  \E w \in Workers :
    \/ \E u \in Users : \/ AddCount(w, u)
                        \/ \E c \in ContactIds : RemoveSelect(w, u, c)
    \/ \E c \in ContactIds : AddInsert(w, c)
    \/ RemoveDelete(w)
    \/ Fail(w)

Spec == Init /\ [][Next]_vars

-----------------------------------------------------------------------------
(* Properties.                                                             *)

\* The rows and the locals stay in their types: no insert is under way that
\* counted MAX_CONTACTS rows.
TypeOK ==
  /\ owner \in [ContactIds -> Users \cup {None}]
  /\ priority \in [ContactIds -> 0..MAX_CONTACTS]
  /\ used \subseteq ContactIds
  /\ req \in [Workers -> Request]
  /\ faults \in 0..MaxFaults

\* "max 5" (README.md:162): racing requests stretch the limit of addContact,
\* but only by the requests that were past the count, one contact each; for one
\* request at a time the limit is exact.
OverflowBounded ==
  \A u \in Users :
    Cardinality(Of(u)) <= MAX_CONTACTS + (Cardinality(Workers) - 1)

\* Only the user a contact belongs to ever removes it, and it belongs to one
\* user for as long as it exists.
RemovedByOwner ==
  [][\A c \in ContactIds : (owner[c] # None /\ owner'[c] # owner[c]) =>
       /\ owner'[c] = None
       /\ \E w \in Workers : req[w].user = owner[c] /\ req[w].id = c]_vars
=============================================================================
