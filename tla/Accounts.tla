------------------------------ MODULE Accounts ------------------------------
(***************************************************************************)
(* AuthService.setRole and verifyNin: the columns of users that several    *)
(* handlers read before they write, and the row of drivers that belongs to *)
(* the role.  The identity provider is external: it answers yes or no.     *)
(***************************************************************************)
EXTENDS Integers, FiniteSets

CONSTANTS
  Users,      \* rows of users; they exist when the instance begins
  Names,      \* what users enter as full name
  NinOwners,  \* persons with a NIN; a person stands for the NIN and its hash
  Workers,    \* requests that may be in flight together
  Ops,        \* operations that happen in this instance
  MaxFaults,  \* bound on failed statements and crashes
  None

ASSUME FaultsAssumption == MaxFaults \in Nat
ASSUME NoneAssumption == None \notin Users \cup Names \cup NinOwners

VARIABLES
  user,     \* table users
  driver,   \* users with a row in drivers (user_id is unique)
  entered,  \* the name a user entered last, None if none (observed)
  req, faults

vars == <<user, driver, entered, req, faults>>

\* The provider's name for a person is the person.
Row == [role : {"rider", "driver"}, name : Names \cup NinOwners \cup {None},
        nin : NinOwners \cup {None}]
Request == [pc : {"idle", "role", "driverSelect", "driverInsert", "ninTaken",
                  "identity", "ninUpdate"},
            user : Users \cup {None}, role : {"rider", "driver"},
            name : Names \cup NinOwners \cup {None},
            nin : NinOwners \cup {None}]
Idle == [pc |-> "idle", user |-> None, role |-> "rider", name |-> None,
         nin |-> None]

Init ==
  /\ user = [u \in Users |-> [role |-> "rider", name |-> None, nin |-> None]]
  /\ driver = {}
  /\ entered = [u \in Users |-> None]
  /\ req = [w \in Workers |-> Idle]
  /\ faults = 0

At(w, pc) == req[w].pc = pc
Goto(w, pc) == req' = [req EXCEPT ![w].pc = pc]
Done(w) == req' = [req EXCEPT ![w] = Idle]
Accept(w, op, request) == op \in Ops /\ req[w].pc = "idle"
                          /\ req' = [req EXCEPT ![w] = request]

-----------------------------------------------------------------------------
(* setRole                                                                 *)

RoleArrive(w, u, role, name) ==
  /\ Accept(w, "role", [pc |-> "role", user |-> u, role |-> role,
                        name |-> name, nin |-> None])
  /\ UNCHANGED <<user, driver, entered, faults>>

\* Mutant: the row of drivers is looked for when the role is rider.
RoleUpdateSkipsDriver(w) ==
  LET u == req[w].user IN
  /\ At(w, "role")
  /\ user' = [user EXCEPT ![u].role = req[w].role, ![u].name = req[w].name]
  /\ entered' = [entered EXCEPT ![u] = req[w].name]
  /\ IF req[w].role = "rider" THEN Goto(w, "driverSelect") ELSE Done(w)
  /\ UNCHANGED <<driver, faults>>

\* After a rider's update only the audit row and the new tokens follow.
RoleUpdate(w) ==
  LET u == req[w].user IN
  /\ At(w, "role")
  /\ user' = [user EXCEPT ![u].role = req[w].role, ![u].name = req[w].name]
  /\ entered' = [entered EXCEPT ![u] = req[w].name]
  /\ IF req[w].role = "driver" THEN Goto(w, "driverSelect") ELSE Done(w)
  /\ UNCHANGED <<driver, faults>>

DriverSelect(w) ==
  /\ At(w, "driverSelect")
  /\ IF req[w].user \in driver THEN Done(w) ELSE Goto(w, "driverInsert")
  /\ UNCHANGED <<user, driver, entered, faults>>

\* The slower of two inserts violates the unique user_id: INTERNAL_ERROR.
DriverInsert(w) ==
  /\ At(w, "driverInsert")
  /\ driver' = driver \cup {req[w].user}
  /\ Done(w)
  /\ UNCHANGED <<user, entered, faults>>

-----------------------------------------------------------------------------
(* verifyNin                                                               *)

NinArrive(w, u, nin) ==
  /\ Accept(w, "nin", [pc |-> "ninTaken", user |-> u, role |-> "rider",
                       name |-> user[u].name, nin |-> nin])
  /\ UNCHANGED <<user, driver, entered, faults>>

\* Mutant: the collision is not looked for.
NinTakenUnchecked(w) ==
  /\ At(w, "ninTaken")
  /\ Goto(w, "identity")
  /\ UNCHANGED <<user, driver, entered, faults>>

\* nin_hash has no unique index; the select takes any one row with the hash.
NinTaken(w) ==
  LET holders == {u \in Users : user[u].nin = req[w].nin} IN
  /\ At(w, "ninTaken")
  /\ \/ holders \ {req[w].user} # {} /\ Done(w)
     \/ (holders = {} \/ req[w].user \in holders) /\ Goto(w, "identity")
  /\ UNCHANGED <<user, driver, entered, faults>>

\* A provider that says no, or does not answer, leaves everything as it is.
Identity(w, ok) ==
  /\ At(w, "identity")
  /\ IF ok THEN Goto(w, "ninUpdate") ELSE Done(w)
  /\ UNCHANGED <<user, driver, entered, faults>>

\* Mutant: the verified name wins over the name that was entered.
NinUpdateName(w) ==
  LET u == req[w].user IN
  /\ At(w, "ninUpdate")
  /\ user' = [user EXCEPT ![u].nin = req[w].nin, ![u].name = req[w].nin]
  /\ Done(w)
  /\ UNCHANGED <<driver, entered, faults>>

\* fullName: user.fullName ?? result.fullName, with the user of the select.
NinUpdate(w) ==
  LET u == req[w].user IN
  /\ At(w, "ninUpdate")
  /\ user' = [user EXCEPT ![u].nin = req[w].nin,
                          ![u].name = IF req[w].name # None THEN req[w].name
                                      ELSE req[w].nin]
  /\ Done(w)
  /\ UNCHANGED <<driver, entered, faults>>

Fail(w) ==
  /\ faults < MaxFaults
  /\ req[w].pc # "idle"
  /\ Done(w)
  /\ faults' = faults + 1
  /\ UNCHANGED <<user, driver, entered>>

Next ==
  \E w \in Workers :
    \/ \E u \in Users :
         \/ \E role \in {"rider", "driver"}, name \in Names :
              RoleArrive(w, u, role, name)
         \/ \E nin \in NinOwners : NinArrive(w, u, nin)
    \/ RoleUpdate(w) \/ DriverSelect(w) \/ DriverInsert(w)
    \/ NinTaken(w) \/ \E ok \in BOOLEAN : Identity(w, ok)
    \/ NinUpdate(w)
    \/ Fail(w)

Spec == Init /\ [][Next]_vars

-----------------------------------------------------------------------------
(* Properties.                                                             *)

\* The rows of users and the locals of the handlers stay in their types.
TypeOK ==
  /\ user \in [Users -> Row]
  /\ driver \subseteq Users
  /\ entered \in [Users -> Names \cup {None}]
  /\ req \in [Workers -> Request]
  /\ faults \in 0..MaxFaults

\* "drivers (1:1 with users where role=driver)" (schema/users.ts:65): a user
\* whose role is driver has a row in drivers once its requests are through,
\* unless a statement failed.
DriverHasRow ==
  faults = 0 =>
    \A u \in Users :
      (user[u].role = "driver" /\ \A w \in Workers : req[w].user # u)
        => u \in driver

\* "Prevent NIN collision - one NIN per account" (auth.service.ts:249): a NIN
\* is shared by no more accounts than verifications overlapped, whatever fails;
\* for one request at a time it belongs to one.
NinHoldersBounded ==
  \A n \in NinOwners :
    Cardinality({u \in Users : user[u].nin = n}) <= Cardinality(Workers)

\* A verification of u under way that selected another name than u's now.
Outdated(u) ==
  \E w \in Workers :
    /\ req[w].user = u
    /\ req[w].pc \in {"ninTaken", "identity", "ninUpdate"}
    /\ req[w].name # user[u].name

\* "Overwrite full name with the verified name if one wasn't set"
\* (auth.service.ts:289): a name the user entered stays the name of the account
\* unless a verification that had begun before is still under way.
EnteredNameKept ==
  [][\A u \in Users :
       (entered[u] # None /\ user[u].name = entered[u] /\ ~Outdated(u))
         => user'[u].name = entered'[u]]_vars
=============================================================================
