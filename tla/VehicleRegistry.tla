-------------------------- MODULE VehicleRegistry --------------------------
(***************************************************************************)
(* DriversService (verifyLicense, registerVehicle, revokeVehicle,          *)
(* setOnline) with VerifyService's lookups.  A plate is the sequence of    *)
(* the characters that were typed: what matters is how the two DTOs        *)
(* rewrite them.                                                           *)
(***************************************************************************)
EXTENDS Integers, FiniteSets, Sequences

CONSTANTS
  Drivers,
  VehicleIds,  \* pool of fresh ids: newId() of vehicles
  Inputs,      \* plates as typed: sequences of characters, already upper case
  Licences,    \* driving licences that exist: their numbers
  Dated,       \* licences for which the provider reports an expiry date
  Workers,     \* requests that may be in flight together
  None

Blank == " "
Dash == "-"
Characters == {"A", "1", Blank, Dash}

ASSUME InputsAssumption == Inputs \subseteq Seq(Characters)
ASSUME DatedAssumption == Dated \subseteq Licences
ASSUME NoneAssumption == None \notin Drivers \cup VehicleIds \cup Licences

VARIABLES
  row,        \* table vehicles
  held,       \* drivers.license_number and license_expires_at
  online,     \* drivers with is_online
  suspended,  \* drivers with suspended_at
  expired,    \* licences whose expiry date has passed
  req         \* the requests in flight

vars == <<row, held, online, suspended, expired, req>>
drivers == <<held, online, suspended>>

-----------------------------------------------------------------------------
(* The two normal forms.                                                   *)

\* .replace(/[...]/g, ""): the characters in drop disappear.
Stripped(plate, drop) ==
  LET kept[n \in 0..Len(plate)] ==
        IF n = 0 THEN <<>>
        ELSE IF plate[n] \in drop THEN kept[n - 1]
        ELSE Append(kept[n - 1], plate[n])
  IN  kept[Len(plate)]

\* registerVehicleDto, .replace(/\s+/g, "-"): a run of blanks becomes a dash.
RegisteredForm(plate) ==
  LET form[n \in 0..Len(plate)] ==
        IF n = 0 THEN <<>>
        ELSE IF plate[n] # Blank THEN Append(form[n - 1], plate[n])
        ELSE IF n > 1 /\ plate[n - 1] = Blank THEN form[n - 1]
        ELSE Append(form[n - 1], Dash)
  IN  form[Len(plate)]

\* Mutant: blanks only.
LookupFormBlanks(plate) == Stripped(plate, {Blank})

\* verifyByPlateDto: .replace(/[\s-]/g, ""): blanks and dashes disappear.
LookupForm(plate) == Stripped(plate, {Blank, Dash})

-----------------------------------------------------------------------------
NoRow == [state |-> "absent", driver |-> None, plate |-> <<>>, typed |-> <<>>]
NoLicence == [number |-> None, expires |-> None]
Idle == [pc |-> "idle", driver |-> None, typed |-> <<>>, vehicle |-> None,
         licence |-> None, online |-> FALSE]

\* typed is what the driver entered; the table only has plate.
Row == [state : {"absent", "active", "revoked"}, driver : Drivers \cup {None},
        plate : {<<>>} \cup {RegisteredForm(i) : i \in Inputs},
        typed : {<<>>} \cup Inputs]
\* An expiry date is named after the licence it is the date of.
Held == [number : Licences \cup {None}, expires : Dated \cup {None}]
Request == [pc : {"idle", "identity", "license", "dup", "insert", "vehicle",
                  "revoke", "online"},
            driver : Drivers \cup {None}, typed : {<<>>} \cup Inputs,
            vehicle : VehicleIds \cup {None}, licence : Licences \cup {None},
            online : BOOLEAN]

Init ==
  /\ row = [v \in VehicleIds |-> NoRow]
  /\ held = [d \in Drivers |-> NoLicence]
  /\ online = {}
  /\ suspended = {}
  /\ expired = {}
  /\ req = [w \in Workers |-> Idle]

At(w, pc) == req[w].pc = pc
Goto(w, pc) == req' = [req EXCEPT ![w].pc = pc]
Done(w) == req' = [req EXCEPT ![w] = Idle]
Stored == {v \in VehicleIds : row[v].state # "absent"}
WithPlate(plate) == {v \in Stored : row[v].plate = plate}

\* Mutant: suspension forgotten.
RequireDriverAny(d) == d \in Drivers

RequireDriver(d) == d \notin suspended

\* Every handler begins with requireDriver.
Accept(w, d, request) ==
  /\ At(w, "idle")
  /\ RequireDriver(d)
  /\ req' = [req EXCEPT ![w] = request]
  /\ UNCHANGED <<row, drivers, expired>>

-----------------------------------------------------------------------------
(* verifyLicense                                                           *)

LicenseArrive(w, d, l) ==
  Accept(w, d, [Idle EXCEPT !.pc = "identity", !.driver = d, !.licence = l])

\* lookupLicense: no entity, or no answer, is a rejection.
LicenseIdentity(w, ok) ==
  /\ At(w, "identity")
  /\ IF ok THEN Goto(w, "license") ELSE Done(w)
  /\ UNCHANGED <<row, drivers, expired>>

\* Mutant: undefined instead of null, which leaves the column alone.
ExpiryOrStored(d, l) == IF l \in Dated THEN l ELSE held[d].expires

\* result.expiryDate ? new Date(result.expiryDate) : null
Expiry(d, l) == IF l \in Dated THEN l ELSE None

LicenseUpdate(w) ==
  LET d == req[w].driver
      l == req[w].licence
  IN  /\ At(w, "license")
      /\ held' = [held EXCEPT ![d] = [number |-> l, expires |-> Expiry(d, l)]]
      /\ Done(w)
      /\ UNCHANGED <<row, online, suspended, expired>>

-----------------------------------------------------------------------------
(* setOnline                                                               *)

OnlineArrive(w, d, on) ==
  Accept(w, d, [Idle EXCEPT !.pc = "online", !.driver = d, !.online = on])

OnlineUpdate(w) ==
  /\ At(w, "online")
  /\ online' = IF req[w].online THEN online \cup {req[w].driver}
                                ELSE online \ {req[w].driver}
  /\ Done(w)
  /\ UNCHANGED <<row, held, suspended, expired>>

-----------------------------------------------------------------------------
(* registerVehicle, revokeVehicle                                          *)

RegisterArrive(w, d, typed) ==
  Accept(w, d, [Idle EXCEPT !.pc = "dup", !.driver = d, !.typed = typed])

RegisterDup(w) ==
  /\ At(w, "dup")
  /\ IF WithPlate(RegisteredForm(req[w].typed)) = {}
     THEN Goto(w, "insert") ELSE Done(w)
  /\ UNCHANGED <<row, drivers, expired>>

\* Mutant: no unique index on plate_number.
RegisterInsertNoIndex(w, v) ==
  LET plate == RegisteredForm(req[w].typed) IN
  /\ At(w, "insert")
  /\ row[v].state = "absent"
  /\ row' = [row EXCEPT ![v] =
               [state |-> "active", driver |-> req[w].driver,
                plate |-> plate, typed |-> req[w].typed]]
  /\ Done(w)
  /\ UNCHANGED <<drivers, expired>>

\* The unique index rejects a plate that came in since (INTERNAL_ERROR).
RegisterInsert(w, v) ==
  LET plate == RegisteredForm(req[w].typed) IN
  /\ At(w, "insert")
  /\ row[v].state = "absent"
  /\ row' = IF WithPlate(plate) # {} THEN row
            ELSE [row EXCEPT ![v] =
                    [state |-> "active", driver |-> req[w].driver,
                     plate |-> plate, typed |-> req[w].typed]]
  /\ Done(w)
  /\ UNCHANGED <<drivers, expired>>

RevokeArrive(w, d, v) ==
  /\ v \in Stored
  /\ Accept(w, d, [Idle EXCEPT !.pc = "vehicle", !.driver = d, !.vehicle = v])

RevokeSelect(w) ==
  /\ At(w, "vehicle")
  /\ IF row[req[w].vehicle].driver = req[w].driver
     THEN Goto(w, "revoke") ELSE Done(w)
  /\ UNCHANGED <<row, drivers, expired>>

\* Mutant: the toggle that sets is_active to what it was not.
RevokeUpdateToggles(w) ==
  /\ At(w, "revoke")
  /\ row' = [row EXCEPT ![req[w].vehicle].state =
               IF @ = "active" THEN "revoked" ELSE "active"]
  /\ Done(w)
  /\ UNCHANGED <<drivers, expired>>

RevokeUpdate(w) ==
  /\ At(w, "revoke")
  /\ row' = [row EXCEPT ![req[w].vehicle].state = "revoked"]
  /\ Done(w)
  /\ UNCHANGED <<drivers, expired>>

\* suspended_at is set by hand: nothing in the repository writes it.
Suspend(d) ==
  /\ suspended' = suspended \cup {d}
  /\ UNCHANGED <<row, held, online, expired, req>>

\* Time passes.
Expire(l) ==
  /\ l \in Dated \ expired
  /\ expired' = expired \cup {l}
  /\ UNCHANGED <<row, drivers, req>>

\* A statement fails, or the request dies with the process: nothing the other
\* requests or the tables know of.
Fail(w) ==
  /\ req[w].pc # "idle"
  /\ Done(w)
  /\ UNCHANGED <<row, drivers, expired>>

Next ==
  \/ \E w \in Workers :
       \/ \E d \in Drivers : \/ \E i \in Inputs : RegisterArrive(w, d, i)
                             \/ \E v \in VehicleIds : RevokeArrive(w, d, v)
                             \/ \E l \in Licences : LicenseArrive(w, d, l)
                             \/ \E on \in BOOLEAN : OnlineArrive(w, d, on)
       \/ \E ok \in BOOLEAN : LicenseIdentity(w, ok)
       \/ LicenseUpdate(w) \/ OnlineUpdate(w)
       \/ RegisterDup(w)
       \/ \E v \in VehicleIds : RegisterInsert(w, v)
       \/ RevokeSelect(w) \/ RevokeUpdate(w)
       \/ Fail(w)
  \/ \E d \in Drivers : Suspend(d)
  \/ \E l \in Licences : Expire(l)

Spec == Init /\ [][Next]_vars

-----------------------------------------------------------------------------
(* POST /verify/qr and /verify/plate: one select, and what the rider is    *)
(* shown of its row.                                                       *)

Lookup(where) == {v \in where : row[v].state = "active"}

\* The vehicles shown as verified.
Rendered(where) == {v \in Lookup(where) : row[v].driver \notin suspended}

\* The QR token is made from the id.
ByQr(id) == Rendered({id} \cap Stored)
ByPlate(plate) == Rendered(WithPlate(LookupForm(plate)))

\* "Driver's license has expired."
WarnsOfLicence(v) == held[row[v].driver].expires \in expired

-----------------------------------------------------------------------------
(* Properties.                                                             *)

\* Rows hold plates in registered form.
TypeOK ==
  /\ row \in [VehicleIds -> Row]
  /\ held \in [Drivers -> Held]
  /\ online \subseteq Drivers
  /\ suspended \subseteq Drivers
  /\ expired \subseteq Dated
  /\ req \in [Workers -> Request]

\* "No duplicate plates" (drivers.service.ts:119): two drivers who register a
\* plate at the same moment do not both get it.
PlatesUnique ==
  \A v, x \in Stored : row[v].plate = row[x].plate => v = x

\* A vehicle that was revoked stays revoked, and its plate with it: nobody can
\* register that plate again, although two revocations may race.
RevokedForGood ==
  [][\A v \in Stored : row[v].state = "revoked" =>
       row'[v] = row[v] /\ WithPlate(row[v].plate)' = {v}]_vars

Busy(d) == \E w \in Workers : req[w].driver = d
VehiclesOf(d) == {v \in Stored : row[v].driver = d}

\* DRIVER_SUSPENDED (drivers.service.ts:32) is checked first and never again:
\* once the requests of a suspended driver that had passed the check are through,
\* no licence, no vehicle, no revocation and no shift of theirs is recorded.
SuspendedDoesNothing ==
  [][\A d \in suspended : ~Busy(d) =>
       /\ ~Busy(d)'
       /\ held'[d] = held[d] /\ (d \in online' <=> d \in online)
       /\ VehiclesOf(d)' = VehiclesOf(d)
       /\ \A v \in VehiclesOf(d) : row'[v] = row[v]]_vars

\* A rider is warned of a licence that has expired, and of no other, whatever
\* licences the driver had verified before or is having verified.
ExpiredLicenceWarned ==
  \A v \in Stored : \A x \in ByQr(v) :
    WarnsOfLicence(x) <=> held[row[x].driver].number \in expired

\* A plate is looked up whatever blanks and dashes the rider types: found are
\* the active vehicles of drivers in good standing for which the rest was typed
\* when they were registered.  One registered with a blank or a dash is never
\* found.
PlainPlateIsFound ==
  \A i \in Inputs :
    ByPlate(i) = {v \in Stored : /\ row[v].state = "active"
                                 /\ row[v].driver \notin suspended
                                 /\ row[v].typed = Stripped(i, {Blank, Dash})}

\* POST /verify/plate is "same, by plate number" (README.md:179): an active
\* vehicle of a driver in good standing is found under the plate that was
\* registered.
RegisteredPlateIsFound ==
  \A v \in Stored :
    (row[v].state = "active" /\ row[v].driver \notin suspended) =>
      v \in ByPlate(row[v].typed)
=============================================================================
