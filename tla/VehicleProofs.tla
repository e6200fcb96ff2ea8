---------------------------- MODULE VehicleProofs ----------------------------
(***************************************************************************)
(* What VehicleRegistry keeps for any number of drivers, vehicles, plates, *)
(* licences and requests in flight.  Two conjuncts make PlatesUnique and   *)
(* ExpiredLicenceWarned inductive: a handler past requireDriver knows its  *)
(* driver, and every update of a licence writes number and expiry together.*)
(* PlainPlateIsFound is about the recursion over the characters of plates: *)
(* the induction it takes is over a set of numbers, whose least missing    *)
(* number, which well-foundedness gives, has a number before it inside.    *)
(***************************************************************************)
EXTENDS VehicleRegistry, SequenceTheorems, WellFoundedInduction, TLAPS

\* What a handler holds on to, and the driver of every vehicle that is there.
RequestsHold ==
  /\ \A w \in Workers :
       /\ req[w].pc # "idle" => req[w].driver \in Drivers
       /\ req[w].pc \in {"identity", "license"} => req[w].licence \in Licences
       /\ req[w].pc \in {"dup", "insert"} => req[w].typed \in Inputs
       /\ req[w].pc \in {"vehicle", "revoke"} => req[w].vehicle \in Stored
       /\ req[w].pc = "revoke" => row[req[w].vehicle].driver = req[w].driver
  /\ \A v \in Stored : row[v].driver \in Drivers

\* The expiry date on file is the one of the licence on file.
LicencesHold ==
  \A d \in Drivers : held[d].expires = IF held[d].number \in Dated
                                       THEN held[d].number ELSE None

VInv == TypeOK /\ RequestsHold /\ LicencesHold /\ PlatesUnique

\* The vehicle is the caller's.
MayRevoke(w) ==
  At(w, "vehicle") /\ row[req[w].vehicle].driver = req[w].driver

\* The tables as they are.
TablesStay == UNCHANGED <<row, drivers>>

-----------------------------------------------------------------------------
(* Requests.                                                               *)

\* A request changes by arriving, by going on, or by being over; each keeps
\* what handlers hold on to as long as no vehicle disappears.
LEMMA GoesOn ==
  ASSUME VInv, NEW w \in Workers,
         \/ Done(w)
         \/ At(w, "identity") /\ Goto(w, "license")
         \/ At(w, "dup") /\ Goto(w, "insert")
         \/ MayRevoke(w) /\ Goto(w, "revoke")
  PROVE  /\ req' \in [Workers -> Request]
         /\ \A x \in Workers :
              \/ req'[x] = req[x]
              \/ req'[x] = Idle
              \/ /\ x = w /\ req'[w].driver = req[w].driver
                 /\ req'[w].licence = req[w].licence
                 /\ req'[w].typed = req[w].typed
                 /\ req'[w].vehicle = req[w].vehicle
                 /\ \/ req[w].pc = "identity" /\ req'[w].pc = "license"
                    \/ req[w].pc = "dup" /\ req'[w].pc = "insert"
                    \/ MayRevoke(w) /\ req'[w].pc = "revoke"
<1>1. req \in [Workers -> Request] /\ Idle \in Request
      BY DEF VInv, TypeOK, Idle, Request
<1>2. CASE Done(w)
      BY <1>1, <1>2 DEF Done
<1>3. ASSUME NEW pc \in {"license", "insert", "revoke"}, Goto(w, pc)
      PROVE  /\ req' \in [Workers -> Request]
             /\ \A x \in Workers \ {w} : req'[x] = req[x]
             /\ req'[w].driver = req[w].driver /\ req'[w].pc = pc
             /\ req'[w].licence = req[w].licence
             /\ req'[w].typed = req[w].typed
             /\ req'[w].vehicle = req[w].vehicle
      BY <1>1, <1>3 DEF Goto, Request
<1>. QED BY <1>2, <1>3 DEF At, MayRevoke

\* No vehicle disappears or changes hands, and one that comes has a driver.
RowsKept ==
  /\ \A v \in Stored : v \in Stored' /\ row'[v].driver = row[v].driver
  /\ \A v \in Stored' \ Stored : row'[v].driver \in Drivers

LEMMA RequestsKept ==
  ASSUME VInv, RowsKept,
         \/ UNCHANGED req
         \/ \E w \in Workers :
              \/ Done(w)
              \/ At(w, "identity") /\ Goto(w, "license")
              \/ At(w, "dup") /\ Goto(w, "insert")
              \/ MayRevoke(w) /\ Goto(w, "revoke")
  PROVE  req' \in [Workers -> Request] /\ RequestsHold'
<1>1. CASE UNCHANGED req
      BY <1>1 DEF VInv, TypeOK, RequestsHold, RowsKept
<1>2. ASSUME NEW w \in Workers,
             \/ Done(w)
             \/ At(w, "identity") /\ Goto(w, "license")
             \/ At(w, "dup") /\ Goto(w, "insert")
             \/ MayRevoke(w) /\ Goto(w, "revoke")
      PROVE  req' \in [Workers -> Request] /\ RequestsHold'
  <2>1. req' \in [Workers -> Request]
        BY <1>2, GoesOn
  <2>2. ASSUME NEW x \in Workers
        PROVE  /\ req'[x].pc # "idle" => req'[x].driver \in Drivers
               /\ req'[x].pc \in {"identity", "license"}
                    => req'[x].licence \in Licences
               /\ req'[x].pc \in {"dup", "insert"} => req'[x].typed \in Inputs
               /\ req'[x].pc \in {"vehicle", "revoke"}
                    => req'[x].vehicle \in Stored'
               /\ req'[x].pc = "revoke"
                    => row'[req'[x].vehicle].driver = req'[x].driver
    <3>1. CASE req'[x] = Idle
          BY <3>1 DEF Idle
    <3>2. CASE req'[x] # Idle
          BY <1>2, <3>2, GoesOn DEF VInv, RequestsHold, RowsKept, MayRevoke, At
    <3>. QED BY <3>1, <3>2
  <2>3. \A v \in Stored' : row'[v].driver \in Drivers
        BY DEF VInv, RequestsHold, RowsKept
  <2>. QED BY <2>1, <2>2, <2>3 DEF RequestsHold
<1>. QED BY <1>1, <1>2

\* A request that comes in knows its driver and what it was sent.
LEMMA ArriveKept ==
  ASSUME VInv, NEW w \in Workers, NEW q \in Request, NEW d \in Drivers,
         Accept(w, d, q), q.driver = d,
         q.pc \in {"identity", "license"} => q.licence \in Licences,
         q.pc \in {"dup", "insert"} => q.typed \in Inputs,
         q.pc = "vehicle" => q.vehicle \in Stored, q.pc # "revoke"
  PROVE  req' \in [Workers -> Request] /\ RequestsHold' /\ TablesStay
         /\ expired' = expired
BY DEF VInv, TypeOK, RequestsHold, Accept, TablesStay, drivers, Stored

LEMMA Arrives ==
  ASSUME VInv, NEW w \in Workers, NEW d \in Drivers,
         \/ \E i \in Inputs : RegisterArrive(w, d, i)
         \/ \E v \in VehicleIds : RevokeArrive(w, d, v)
         \/ \E l \in Licences : LicenseArrive(w, d, l)
         \/ \E on \in BOOLEAN : OnlineArrive(w, d, on)
  PROVE
       \E q \in Request :
         /\ Accept(w, d, q) /\ q.driver = d
         /\ q.pc \in {"identity", "license"} => q.licence \in Licences
         /\ q.pc \in {"dup", "insert"} => q.typed \in Inputs
         /\ q.pc = "vehicle" => q.vehicle \in Stored
         /\ q.pc # "revoke"
<1>. DEFINE Known ==
       \E q \in Request :
         /\ Accept(w, d, q) /\ q.driver = d
         /\ q.pc \in {"identity", "license"} => q.licence \in Licences
         /\ q.pc \in {"dup", "insert"} => q.typed \in Inputs
         /\ q.pc = "vehicle" => q.vehicle \in Stored
         /\ q.pc # "revoke"
<1>1. ASSUME NEW i \in Inputs, RegisterArrive(w, d, i)
      PROVE  Known
  <2>. DEFINE q == [Idle EXCEPT !.pc = "dup", !.driver = d, !.typed = i]
  <2>1. q \in Request
        BY DEF Idle, Request
  <2>2. Accept(w, d, q)
        BY <1>1 DEF RegisterArrive
  <2>3. q.pc = "dup" /\ q.driver = d /\ q.typed = i
        BY DEF Idle
  <2>. QED BY <2>1, <2>2, <2>3
<1>2. ASSUME NEW v \in VehicleIds, RevokeArrive(w, d, v)
      PROVE  Known
  <2>. DEFINE q == [Idle EXCEPT !.pc = "vehicle", !.driver = d, !.vehicle = v]
  <2>1. q \in Request
        BY DEF Idle, Request
  <2>2. Accept(w, d, q) /\ v \in Stored
        BY <1>2 DEF RevokeArrive
  <2>3. q.pc = "vehicle" /\ q.driver = d /\ q.vehicle = v
        BY DEF Idle
  <2>. QED BY <2>1, <2>2, <2>3
<1>3. ASSUME NEW l \in Licences, LicenseArrive(w, d, l)
      PROVE  Known
  <2>. DEFINE q == [Idle EXCEPT !.pc = "identity", !.driver = d, !.licence = l]
  <2>1. q \in Request
        BY DEF Idle, Request
  <2>2. Accept(w, d, q)
        BY <1>3 DEF LicenseArrive
  <2>3. q.pc = "identity" /\ q.driver = d /\ q.licence = l
        BY DEF Idle
  <2>. QED BY <2>1, <2>2, <2>3
<1>4. ASSUME NEW on \in BOOLEAN, OnlineArrive(w, d, on)
      PROVE  Known
  <2>. DEFINE q == [Idle EXCEPT !.pc = "online", !.driver = d, !.online = on]
  <2>1. q \in Request
        BY DEF Idle, Request
  <2>2. Accept(w, d, q)
        BY <1>4 DEF OnlineArrive
  <2>3. q.pc = "online" /\ q.driver = d /\ q.online = on
        BY DEF Idle
  <2>. QED BY <2>1, <2>2, <2>3
<1>. QED BY <1>1, <1>2, <1>3, <1>4

-----------------------------------------------------------------------------
(* The invariant.                                                          *)

\* What only the tables say is as before.
LEMMA TablesSame ==
  ASSUME VInv, UNCHANGED <<row, held>>, online' \subseteq Drivers,
         suspended' \subseteq Drivers, expired' \subseteq Dated,
         req' \in [Workers -> Request], RequestsHold'
  PROVE  VInv'
BY DEF VInv, TypeOK, LicencesHold, PlatesUnique, Stored

LEMMA ReadOnly ==
  ASSUME VInv, NEW w \in Workers,
         \/ \E ok \in BOOLEAN : LicenseIdentity(w, ok)
         \/ RegisterDup(w) \/ RevokeSelect(w) \/ Fail(w)
  PROVE  /\ TablesStay /\ expired' = expired
         /\ \/ Done(w)
            \/ At(w, "identity") /\ Goto(w, "license")
            \/ At(w, "dup") /\ Goto(w, "insert")
            \/ MayRevoke(w) /\ Goto(w, "revoke")
BY DEF LicenseIdentity, RegisterDup, RevokeSelect, Fail, TablesStay, drivers,
       MayRevoke

LEMMA LicenceStep ==
  ASSUME VInv, NEW w \in Workers, LicenseUpdate(w)
  PROVE  VInv'
<1>1. /\ req[w].driver \in Drivers /\ req[w].licence \in Licences
      /\ UNCHANGED <<row, online, suspended, expired>> /\ Done(w)
      BY DEF LicenseUpdate, At, VInv, RequestsHold
<1>. DEFINE d == req[w].driver
            l == req[w].licence
<1>2. /\ held' = [held EXCEPT ![d] = [number |-> l, expires |-> Expiry(d, l)]]
      /\ held' \in [Drivers -> Held]
      BY <1>1 DEF LicenseUpdate, VInv, TypeOK, Held, Expiry
<1>3. LicencesHold'
      BY <1>1, <1>2 DEF VInv, TypeOK, LicencesHold, Expiry
<1>4. req' \in [Workers -> Request] /\ RequestsHold'
      BY <1>1, RequestsKept DEF RowsKept, Stored
<1>. QED BY <1>1, <1>2, <1>3, <1>4 DEF VInv, TypeOK, PlatesUnique, Stored

\* A plate that is taken is rejected by the index.
LEMMA InsertStep ==
  ASSUME VInv, NEW w \in Workers, NEW v \in VehicleIds, RegisterInsert(w, v)
  PROVE  VInv'
<1>1. /\ req[w].driver \in Drivers /\ req[w].typed \in Inputs
      /\ UNCHANGED <<drivers, expired>> /\ Done(w) /\ row[v].state = "absent"
      BY DEF RegisterInsert, At, VInv, RequestsHold
<1>. DEFINE plate == RegisteredForm(req[w].typed)
            new == [state |-> "active", driver |-> req[w].driver,
                    plate |-> plate, typed |-> req[w].typed]
<1>2. CASE row' = row
  <2>1. req' \in [Workers -> Request] /\ RequestsHold'
        BY <1>1, <1>2, RequestsKept DEF RowsKept, Stored
  <2>. QED BY <1>1, <1>2, <2>1, TablesSame DEF drivers, VInv, TypeOK
<1>3. CASE WithPlate(plate) = {} /\ row' = [row EXCEPT ![v] = new]
  <2>1. new \in Row
        BY <1>1 DEF Row
  <2>2. /\ row' \in [VehicleIds -> Row]
        /\ row'[v] = new /\ \A x \in VehicleIds : x # v => row'[x] = row[x]
        BY <1>3, <2>1 DEF VInv, TypeOK
  <2>3. Stored' = Stored \cup {v} /\ v \notin Stored
        BY <1>1, <2>2 DEF Stored
  <2>4. req' \in [Workers -> Request] /\ RequestsHold'
    <3>1. \A x \in Stored : row'[x] = row[x]
          BY <2>2, <2>3 DEF Stored
    <3>2. row'[v].driver \in Drivers
          BY <1>1, <2>2
    <3>3. RowsKept
          BY <2>3, <3>1, <3>2 DEF RowsKept
    <3>. QED BY <1>1, <3>3, RequestsKept
  <2>5. PlatesUnique'
    <3>1. \A x \in Stored : row[x].plate # plate
          BY <1>3 DEF WithPlate
    <3>2. \A x \in Stored : x \in VehicleIds /\ x # v
          BY <2>3 DEF Stored
    <3>. QED BY <2>2, <2>3, <3>1, <3>2 DEF VInv, PlatesUnique
  <2>. QED BY <1>1, <2>2, <2>4, <2>5 DEF VInv, TypeOK, LicencesHold, drivers
<1>. QED BY <1>2, <1>3 DEF RegisterInsert

LEMMA RevokeStep ==
  ASSUME VInv, NEW w \in Workers, RevokeUpdate(w)
  PROVE  /\ VInv'
         /\ row' = [row EXCEPT ![req[w].vehicle].state = "revoked"]
         /\ req[w].vehicle \in Stored
         /\ Stored' = Stored
         /\ \A v \in Stored : /\ row'[v].plate = row[v].plate
                              /\ row'[v].driver = row[v].driver
                              /\ row[v].state = "revoked" => row'[v] = row[v]
<1>1. /\ req[w].vehicle \in Stored /\ UNCHANGED <<drivers, expired>> /\ Done(w)
      /\ row' = [row EXCEPT ![req[w].vehicle].state = "revoked"]
      BY DEF RevokeUpdate, At, VInv, RequestsHold
<1>2. PICK v \in VehicleIds : v = req[w].vehicle /\ row[v].state # "absent"
      BY <1>1 DEF Stored
<1>3. row \in [VehicleIds -> Row]
      BY DEF VInv, TypeOK
<1>4. /\ row' \in [VehicleIds -> Row]
      /\ row'[v] = [row[v] EXCEPT !.state = "revoked"]
      /\ \A x \in VehicleIds : x # v => row'[x] = row[x]
      BY <1>1, <1>2, <1>3 DEF Row
<1>5. /\ row'[v].plate = row[v].plate /\ row'[v].driver = row[v].driver
      /\ row'[v].state = "revoked"
      /\ row[v].state = "revoked" => row'[v] = row[v]
      BY <1>3, <1>4 DEF Row
<1>6. Stored' = Stored
      BY <1>2, <1>4, <1>5 DEF Stored
<1>7. \A x \in Stored : /\ row'[x].plate = row[x].plate
                        /\ row'[x].driver = row[x].driver
                        /\ row[x].state = "revoked" => row'[x] = row[x]
      BY <1>4, <1>5 DEF Stored
<1>8. req' \in [Workers -> Request] /\ RequestsHold'
  <2>1. RowsKept
        BY <1>6, <1>7 DEF RowsKept
  <2>. QED BY <1>1, <2>1, RequestsKept
<1>9. VInv'
      BY <1>1, <1>4, <1>6, <1>7, <1>8 DEF VInv, TypeOK, LicencesHold,
                                          PlatesUnique, drivers
<1>. QED BY <1>1, <1>6, <1>7, <1>9

LEMMA InitVInv == Init => VInv
BY NoneAssumption, DatedAssumption
   DEF Init, VInv, TypeOK, RequestsHold, LicencesHold, PlatesUnique, Stored,
       NoRow, NoLicence, Idle, Row, Held, Request

LEMMA NextVInv == VInv /\ [Next]_vars => VInv'
<1>. SUFFICES ASSUME VInv, [Next]_vars PROVE VInv'
     OBVIOUS
<1>0. /\ online \subseteq Drivers /\ suspended \subseteq Drivers
      /\ expired \subseteq Dated
      BY DEF VInv, TypeOK
<1>1. ASSUME NEW w \in Workers, NEW d \in Drivers,
             \/ \E i \in Inputs : RegisterArrive(w, d, i)
             \/ \E v \in VehicleIds : RevokeArrive(w, d, v)
             \/ \E l \in Licences : LicenseArrive(w, d, l)
             \/ \E on \in BOOLEAN : OnlineArrive(w, d, on)
      PROVE  VInv'
  <2>1. req' \in [Workers -> Request] /\ RequestsHold' /\ TablesStay
        /\ expired' = expired
        BY <1>1, Arrives, ArriveKept
  <2>. QED BY <1>0, <2>1, TablesSame DEF TablesStay, drivers
<1>2. ASSUME NEW w \in Workers,
             \/ \E ok \in BOOLEAN : LicenseIdentity(w, ok)
             \/ RegisterDup(w) \/ RevokeSelect(w) \/ Fail(w)
      PROVE  VInv'
  <2>1. TablesStay /\ expired' = expired
        BY <1>2, ReadOnly
  <2>2. req' \in [Workers -> Request] /\ RequestsHold'
        BY <1>2, <2>1, ReadOnly, RequestsKept DEF RowsKept, TablesStay, Stored
  <2>. QED BY <1>0, <2>1, <2>2, TablesSame DEF TablesStay, drivers
<1>3. ASSUME NEW w \in Workers, LicenseUpdate(w) PROVE VInv'
      BY <1>3, LicenceStep
<1>4. ASSUME NEW w \in Workers, OnlineUpdate(w) PROVE VInv'
  <2>1. /\ req[w].driver \in Drivers /\ Done(w)
        /\ UNCHANGED <<row, held, suspended, expired>>
        /\ online' \in {online \cup {req[w].driver}, online \ {req[w].driver}}
        BY <1>4 DEF OnlineUpdate, At, VInv, RequestsHold
  <2>2. req' \in [Workers -> Request] /\ RequestsHold'
        BY <2>1, RequestsKept DEF RowsKept, Stored
  <2>. QED BY <1>0, <2>1, <2>2, TablesSame
<1>5. ASSUME NEW w \in Workers, NEW v \in VehicleIds, RegisterInsert(w, v)
      PROVE  VInv'
      BY <1>5, InsertStep
<1>6. ASSUME NEW w \in Workers, RevokeUpdate(w) PROVE VInv'
      BY <1>6, RevokeStep
<1>7. CASE \/ \E d \in Drivers : Suspend(d)
           \/ \E l \in Licences : Expire(l)
           \/ UNCHANGED vars
  <2>1. /\ UNCHANGED <<row, held, req>> /\ online' \subseteq Drivers
        /\ suspended' \subseteq Drivers /\ expired' \subseteq Dated
        BY <1>0, <1>7 DEF Suspend, Expire, drivers, vars
  <2>2. req' \in [Workers -> Request] /\ RequestsHold'
        BY <2>1, RequestsKept DEF RowsKept, Stored
  <2>. QED BY <2>1, <2>2, TablesSame
<1>. QED BY <1>1, <1>2, <1>3, <1>4, <1>5, <1>6, <1>7 DEF Next

\* The invariant holds of every reachable state.
THEOREM RegistryInvariance == Spec => []VInv
BY InitVInv, NextVInv, PTL DEF Spec

\* No two vehicles, active or revoked, ever have the same plate.
THEOREM NoTwoOfAPlate == Spec => []PlatesUnique
BY RegistryInvariance, PTL DEF VInv

\* The warning about the licence is about the licence that is on file.
THEOREM WarnedOfTheRightLicence == Spec => []ExpiredLicenceWarned
<1>1. ASSUME VInv PROVE ExpiredLicenceWarned
  <2>1. ASSUME NEW v \in Stored, NEW x \in ByQr(v)
        PROVE  row[x].driver \in Drivers
        BY <1>1, <2>1 DEF ByQr, Rendered, Lookup, VInv, RequestsHold
  <2>2. ASSUME NEW d \in Drivers
        PROVE  held[d].expires \in expired <=> held[d].number \in expired
        BY <1>1, NoneAssumption, DatedAssumption
           DEF VInv, LicencesHold, TypeOK, Held
  <2>. QED BY <2>1, <2>2 DEF ExpiredLicenceWarned, WarnsOfLicence
<1>. QED BY <1>1, RegistryInvariance, PTL

-----------------------------------------------------------------------------
(* The action properties.                                                  *)

LEMMA RevokedStep ==
  ASSUME VInv, VInv', [Next]_vars, NEW v \in Stored, row[v].state = "revoked"
  PROVE  row'[v] = row[v] /\ WithPlate(row[v].plate)' = {v}
<1>1. row'[v] = row[v]
  <2>1. CASE row' = row
        BY <2>1
  <2>2. ASSUME NEW w \in Workers, NEW x \in VehicleIds, RegisterInsert(w, x)
        PROVE  row'[v] = row[v]
        BY <2>2 DEF RegisterInsert, Stored
  <2>3. ASSUME NEW w \in Workers, RevokeUpdate(w) PROVE row'[v] = row[v]
        BY <2>3, RevokeStep
  <2>4. ASSUME NEW w \in Workers, NEW d \in Drivers,
               \/ \E i \in Inputs : RegisterArrive(w, d, i)
               \/ \E x \in VehicleIds : RevokeArrive(w, d, x)
               \/ \E l \in Licences : LicenseArrive(w, d, l)
               \/ \E on \in BOOLEAN : OnlineArrive(w, d, on)
        PROVE  row' = row
        BY <2>4 DEF RegisterArrive, RevokeArrive, LicenseArrive, OnlineArrive,
                    Accept
  <2>5. ASSUME NEW w \in Workers,
               \/ \E ok \in BOOLEAN : LicenseIdentity(w, ok)
               \/ LicenseUpdate(w) \/ OnlineUpdate(w) \/ RegisterDup(w)
               \/ RevokeSelect(w) \/ Fail(w)
        PROVE  row' = row
        BY <2>5 DEF LicenseIdentity, LicenseUpdate, OnlineUpdate, RegisterDup,
                    RevokeSelect, Fail
  <2>6. CASE \/ \E d \in Drivers : Suspend(d)
             \/ \E l \in Licences : Expire(l)
             \/ UNCHANGED vars
        BY <2>1, <2>6 DEF Suspend, Expire, vars
  <2>. QED BY <2>1, <2>2, <2>3, <2>4, <2>5, <2>6 DEF Next
<1>2. v \in Stored'
      BY <1>1 DEF Stored
<1>. QED BY <1>1, <1>2 DEF VInv, PlatesUnique, WithPlate

\* A revoked vehicle stays revoked and its plate stays taken.
THEOREM RevokedStays == Spec => RevokedForGood
<1>1. VInv /\ VInv' /\ [Next]_vars =>
        \A v \in Stored : row[v].state = "revoked" =>
          row'[v] = row[v] /\ WithPlate(row[v].plate)' = {v}
      BY RevokedStep
<1>2. VInv /\ VInv' /\ [Next]_vars =>
        [\A v \in Stored : row[v].state = "revoked" =>
           row'[v] = row[v] /\ WithPlate(row[v].plate)' = {v}]_vars
      BY <1>1
<1>. QED BY <1>2, RegistryInvariance, PTL DEF Spec, RevokedForGood

\* What a driver has: their licence, their shift and their vehicles.
Untouched(d) ==
  /\ held'[d] = held[d] /\ (d \in online' <=> d \in online)
  /\ VehiclesOf(d)' = VehiclesOf(d)
  /\ \A v \in VehiclesOf(d) : row'[v] = row[v]

LEMMA SuspendedStep ==
  ASSUME VInv, [Next]_vars, NEW d \in suspended, ~Busy(d)
  PROVE  ~Busy(d)' /\ Untouched(d)
<1>. USE DEF Busy
<1>0. d \in Drivers /\ d # None
      BY NoneAssumption DEF VInv, TypeOK
<1>1. ASSUME NEW w \in Workers, NEW x \in Drivers,
             \/ \E i \in Inputs : RegisterArrive(w, x, i)
             \/ \E v \in VehicleIds : RevokeArrive(w, x, v)
             \/ \E l \in Licences : LicenseArrive(w, x, l)
             \/ \E on \in BOOLEAN : OnlineArrive(w, x, on)
      PROVE  ~Busy(d)' /\ Untouched(d)
  <2>1. PICK q \in Request : Accept(w, x, q) /\ q.driver = x
        BY <1>1, Arrives
  <2>2. /\ x # d /\ req' = [req EXCEPT ![w] = q]
        /\ UNCHANGED <<row, held, online>>
        BY <2>1 DEF Accept, RequireDriver, drivers
  <2>3. \A y \in Workers : req'[y] = IF y = w THEN q ELSE req[y]
        BY <2>2 DEF VInv, TypeOK
  <2>. QED BY <2>1, <2>2, <2>3 DEF Untouched, VehiclesOf, Stored
<1>2. ASSUME NEW w \in Workers, Done(w)
      PROVE  ~Busy(d)'
      BY <1>0, <1>2 DEF Done, Idle, VInv, TypeOK
<1>3. ASSUME NEW w \in Workers,
             \/ \E ok \in BOOLEAN : LicenseIdentity(w, ok)
             \/ RegisterDup(w) \/ RevokeSelect(w) \/ Fail(w)
      PROVE  ~Busy(d)' /\ Untouched(d)
  <2>1. UNCHANGED <<row, held, online>>
        BY <1>3, ReadOnly DEF TablesStay, drivers
  <2>2. ~Busy(d)'
        BY <1>0, <1>3, ReadOnly, GoesOn DEF Idle
  <2>. QED BY <2>1, <2>2 DEF Untouched, VehiclesOf, Stored
<1>4. ASSUME NEW w \in Workers, LicenseUpdate(w)
      PROVE  ~Busy(d)' /\ Untouched(d)
  <2>1. req[w].driver # d
        OBVIOUS
  <2>. QED BY <1>2, <1>4, <2>1 DEF LicenseUpdate, VInv, TypeOK, Untouched,
                                   VehiclesOf, Stored
<1>5. ASSUME NEW w \in Workers, OnlineUpdate(w)
      PROVE  ~Busy(d)' /\ Untouched(d)
  <2>1. req[w].driver # d
        OBVIOUS
  <2>. QED BY <1>2, <1>5, <2>1 DEF OnlineUpdate, Untouched, VehiclesOf, Stored
<1>6. ASSUME NEW w \in Workers, NEW v \in VehicleIds, RegisterInsert(w, v)
      PROVE  ~Busy(d)' /\ Untouched(d)
  <2>1. /\ req[w].driver # d /\ Done(w) /\ UNCHANGED <<held, online>>
        /\ v \notin Stored
        BY <1>6 DEF RegisterInsert, drivers, Stored
  <2>2. \/ row' = row
        \/ /\ row'[v].driver = req[w].driver
           /\ \A x \in VehicleIds : x # v => row'[x] = row[x]
        BY <1>6 DEF RegisterInsert, VInv, TypeOK
  <2>3. VehiclesOf(d)' = VehiclesOf(d)
        BY <2>1, <2>2 DEF VehiclesOf, Stored
  <2>4. \A x \in VehiclesOf(d) : row'[x] = row[x]
        BY <2>1, <2>2 DEF VehiclesOf, Stored
  <2>. QED BY <1>2, <2>1, <2>3, <2>4 DEF Untouched
<1>7. ASSUME NEW w \in Workers, RevokeUpdate(w)
      PROVE  ~Busy(d)' /\ Untouched(d)
  <2>1. req[w].vehicle \notin VehiclesOf(d)
        BY <1>7 DEF RevokeUpdate, At, VInv, RequestsHold, VehiclesOf
  <2>2. \A v \in VehiclesOf(d) : row'[v] = row[v]
        BY <1>7, <2>1 DEF RevokeUpdate, VehiclesOf, Stored, VInv, TypeOK
  <2>3. VehiclesOf(d)' = VehiclesOf(d)
        BY <1>7, RevokeStep DEF VehiclesOf
  <2>4. Done(w) /\ UNCHANGED <<held, online>>
        BY <1>7 DEF RevokeUpdate, drivers
  <2>. QED BY <1>2, <2>2, <2>3, <2>4 DEF Untouched
<1>8. CASE \/ \E x \in Drivers : Suspend(x)
           \/ \E l \in Licences : Expire(l)
           \/ UNCHANGED vars
  <2>1. UNCHANGED <<row, held, online, req>>
        BY <1>8 DEF Suspend, Expire, drivers, vars
  <2>. QED BY <2>1 DEF Untouched, VehiclesOf, Stored
<1>. QED BY <1>1, <1>3, <1>4, <1>5, <1>6, <1>7, <1>8 DEF Next

\* A suspended driver registers, revokes, verifies and reports nothing.
THEOREM SuspendedIsOut == Spec => SuspendedDoesNothing
<1>1. VInv /\ [Next]_vars =>
        \A d \in suspended : ~Busy(d) => ~Busy(d)' /\ Untouched(d)
      BY SuspendedStep
<1>2. VInv /\ [Next]_vars =>
        [\A d \in suspended : ~Busy(d) =>
           /\ ~Busy(d)'
           /\ held'[d] = held[d] /\ (d \in online' <=> d \in online)
           /\ VehiclesOf(d)' = VehiclesOf(d)
           /\ \A v \in VehiclesOf(d) : row'[v] = row[v]]_vars
      BY <1>1 DEF Untouched
<1>. QED BY <1>2, RegistryInvariance, PTL DEF Spec, SuspendedDoesNothing

-----------------------------------------------------------------------------
(* Induction and recursion over the positions of a sequence.               *)

\* The order of the natural numbers, as a set of pairs.
Less == {ss \in Nat \X Nat : ss[1] < ss[2]}

\* A set with 0 and with the successor of each of its numbers has them all.
LEMMA Induction ==
  ASSUME NEW T, 0 \in T, \A n \in Nat : n \in T => n + 1 \in T
  PROVE  Nat \subseteq T
<1>1. SUFFICES ASSUME Nat \ T # {} PROVE FALSE
      OBVIOUS
<1>2. IsWellFoundedOn(Less, Nat)
  <2>1. Less = OpToRel(<, Nat)
        BY Zenon DEF OpToRel, Less
  <2>. QED BY <2>1, NatLessThanWellFounded, Zenon
<1>3. PICK m \in Nat \ T : \A k \in Nat \ T : <<k, m>> \notin Less
      BY <1>1, <1>2, WFMin
<1>4. m \in Nat /\ m # 0 /\ m - 1 \in Nat
      OBVIOUS
<1>5. <<m - 1, m>> \in Less
  <2>. DEFINE pair == <<m - 1, m>>
  <2>1. pair \in Nat \X Nat /\ pair[1] = m - 1 /\ pair[2] = m
        BY <1>4
  <2>2. pair[1] < pair[2]
        BY <1>4, <2>1
  <2>. HIDE DEF pair
  <2>3. pair \in Less
        BY <2>1, <2>2, Zenon DEF Less
  <2>. QED BY <2>3 DEF pair
<1>6. m - 1 \in T
      BY <1>3, <1>4, <1>5
<1>. QED BY <1>4, <1>6

\* f goes from c by one step of F to each number up to N.
Iterates(f, c, F, N, S) ==
  /\ f \in [0..N -> S] /\ f[0] = c
  /\ \A n \in 1..N : f[n] = F[<<f[n - 1], n>>]

\* Recursion: what is built by taking one step from each number to the next.
LEMMA Recursion ==
  ASSUME NEW S, NEW c \in S, NEW N \in Nat, NEW F \in [S \X (1..N) -> S]
  PROVE  \E f : Iterates(f, c, F, N, S)
<1>. DEFINE Built(m) == \E f \in [0..m -> S] :
              f[0] = c /\ \A n \in 1..m : f[n] = F[<<f[n - 1], n>>]
            T == {m \in Nat : m <= N => Built(m)}
<1>1. Built(0)
  <2>. DEFINE f == [n \in 0..0 |-> c]
  <2>1. f \in [0..0 -> S] /\ f[0] = c
        OBVIOUS
  <2>2. 1..0 = {}
        OBVIOUS
  <2>. HIDE DEF f
  <2>. QED BY <2>1, <2>2
<1>2. ASSUME NEW m \in Nat, m + 1 <= N, Built(m) PROVE Built(m + 1)
  <2>1. PICK f \in [0..m -> S] :
          f[0] = c /\ \A n \in 1..m : f[n] = F[<<f[n - 1], n>>]
        BY <1>2
  <2>2. m \in 0..m /\ m + 1 \in 1..N
        BY <1>2
  <2>3. f[m] \in S
        BY <2>1, <2>2
  <2>4. PICK e \in S : e = F[<<f[m], m + 1>>]
        BY <2>2, <2>3
  <2>. DEFINE g == [n \in 0..(m + 1) |-> IF n <= m THEN f[n] ELSE e]
  <2>5. g \in [0..(m + 1) -> S]
        OBVIOUS
  <2>6. /\ \A n \in 0..m : g[n] = f[n]
        /\ g[m + 1] = e
        OBVIOUS
  <2>. HIDE DEF g
  <2>7. ASSUME NEW n \in 1..(m + 1) PROVE g[n] = F[<<g[n - 1], n>>]
    <3>1. CASE n = m + 1
          BY <2>2, <2>4, <2>6, <3>1
    <3>2. CASE n # m + 1
      <4>1. n \in 1..m /\ n \in 0..m /\ n - 1 \in 0..m
            BY <3>2
      <4>. QED BY <2>1, <2>6, <4>1
    <3>. QED BY <3>1, <3>2
  <2>8. g[0] = c
        BY <2>1, <2>6
  <2>. QED BY <2>5, <2>7, <2>8
<1>. HIDE DEF Built
<1>3. 0 \in T
      BY <1>1
<1>4. ASSUME NEW n \in Nat, n \in T PROVE n + 1 \in T
      BY <1>2, <1>4
<1>5. N \in T
  <2>. HIDE DEF T
  <2>. QED BY <1>3, <1>4, Induction
<1>6. Built(N)
      BY <1>5
<1>. QED BY <1>6 DEF Built, Iterates

-----------------------------------------------------------------------------
(* The two normal forms of a plate.                                        *)

\* Stripped goes through a plate character by character.
LEMMA StrippedSteps ==
  ASSUME NEW p \in Seq(Characters), NEW drop
  PROVE  \E f : /\ Stripped(p, drop) = f[Len(p)]
                /\ f[0] = <<>>
                /\ \A n \in 1..Len(p) :
                     f[n] = IF p[n] \in drop THEN f[n - 1]
                            ELSE Append(f[n - 1], p[n])
<1>. DEFINE N == Len(p)
            S == Seq(Characters)
            Step(s, n) == IF p[n] \in drop THEN s ELSE Append(s, p[n])
            Made(f) == f = [n \in 0..N |-> IF n = 0 THEN <<>>
                                           ELSE Step(f[n - 1], n)]
<1>1. N \in Nat /\ <<>> \in S /\ \A n \in 1..N : p[n] \in Characters
      BY LenProperties, EmptySeq, ElementOfSeq
<1>2. PICK F \in [S \X (1..N) -> S] :
        \A s \in S, n \in 1..N : F[<<s, n>>] = Step(s, n)
  <2>. DEFINE F == [x \in S \X (1..N) |-> Step(x[1], x[2])]
  <2>1. F \in [S \X (1..N) -> S]
        BY <1>1
  <2>2. \A s \in S, n \in 1..N : F[<<s, n>>] = Step(s, n)
        OBVIOUS
  <2>. HIDE DEF F
  <2>. QED BY <2>1, <2>2
<1>3. \E f : Made(f)
  <2>1. PICK f : Iterates(f, <<>>, F, N, S)
    <3>1. <<>> \in S /\ N \in Nat
          BY <1>1
    <3>. HIDE DEF N, S, Step
    <3>. QED BY <3>1, Recursion
  <2>2. \A n \in 1..N : f[n] = Step(f[n - 1], n)
    <3>1. \A n \in 1..N : f[n - 1] \in S
          BY <1>1, <2>1 DEF Iterates
    <3>. QED BY <1>2, <2>1, <3>1 DEF Iterates
  <2>3. \A n \in 0..N : n # 0 => n \in 1..N
        BY <1>1
  <2>4. Made(f)
        BY <2>1, <2>2, <2>3 DEF Iterates
  <2>. QED BY <2>4
<1>4. PICK f : Made(f) /\ Stripped(p, drop) = f[N]
  <2>. DEFINE f == CHOOSE x : Made(x)
  <2>1. Made(f)
        BY <1>3
  <2>2. Stripped(p, drop) = f[N]
        BY DEF Stripped
  <2>. QED BY <2>1, <2>2
<1>5. f[0] = <<>>
      BY <1>1, <1>4
<1>6. \A n \in 1..N : f[n] = Step(f[n - 1], n)
  <2>1. ASSUME NEW n \in 1..N PROVE f[n] = Step(f[n - 1], n)
    <3>1. n \in 0..N /\ n # 0
          BY <1>1
    <3>. HIDE DEF Step, N
    <3>. QED BY <1>4, <3>1
  <2>. QED BY <2>1
<1>. QED BY <1>4, <1>5, <1>6

\* RegisteredForm too: a blank is dropped after a blank, a dash otherwise.
LEMMA RegisteredSteps ==
  ASSUME NEW p \in Seq(Characters)
  PROVE  \E f : /\ RegisteredForm(p) = f[Len(p)]
                /\ f[0] = <<>>
                /\ \A n \in 1..Len(p) :
                     f[n] = IF p[n] # Blank THEN Append(f[n - 1], p[n])
                            ELSE IF n > 1 /\ p[n - 1] = Blank THEN f[n - 1]
                            ELSE Append(f[n - 1], Dash)
<1>. DEFINE N == Len(p)
            S == Seq(Characters)
            Step(s, n) == IF p[n] # Blank THEN Append(s, p[n])
                          ELSE IF n > 1 /\ p[n - 1] = Blank THEN s
                          ELSE Append(s, Dash)
            Made(f) == f = [n \in 0..N |-> IF n = 0 THEN <<>>
                                           ELSE Step(f[n - 1], n)]
<1>1. N \in Nat /\ <<>> \in S /\ \A n \in 1..N : p[n] \in Characters
      BY LenProperties, EmptySeq, ElementOfSeq
<1>2. PICK F \in [S \X (1..N) -> S] :
        \A s \in S, n \in 1..N : F[<<s, n>>] = Step(s, n)
  <2>. DEFINE F == [x \in S \X (1..N) |-> Step(x[1], x[2])]
  <2>1. ASSUME NEW s \in S, NEW n \in 1..N PROVE Step(s, n) \in S
    <3>1. \A c \in Characters : Append(s, c) \in S
          OBVIOUS
    <3>2. p[n] \in Characters /\ Dash \in Characters
          BY <1>1 DEF Characters
    <3>. HIDE DEF S
    <3>. QED BY <3>1, <3>2
  <2>2. F \in [S \X (1..N) -> S]
    <3>. HIDE DEF Step
    <3>. QED BY <2>1
  <2>3. \A s \in S, n \in 1..N : F[<<s, n>>] = Step(s, n)
        OBVIOUS
  <2>. HIDE DEF F
  <2>. QED BY <2>2, <2>3
<1>3. \E f : Made(f)
  <2>1. PICK f : Iterates(f, <<>>, F, N, S)
    <3>1. <<>> \in S /\ N \in Nat
          BY <1>1
    <3>. HIDE DEF N, S, Step
    <3>. QED BY <3>1, Recursion
  <2>2. \A n \in 1..N : f[n] = Step(f[n - 1], n)
    <3>1. \A n \in 1..N : f[n - 1] \in S
          BY <1>1, <2>1 DEF Iterates
    <3>. QED BY <1>2, <2>1, <3>1 DEF Iterates
  <2>3. \A n \in 0..N : n # 0 => n \in 1..N
        BY <1>1
  <2>4. Made(f)
    <3>. HIDE DEF Step
    <3>. QED BY <2>1, <2>2, <2>3 DEF Iterates
  <2>. QED BY <2>4
<1>4. PICK f : Made(f) /\ RegisteredForm(p) = f[N]
  <2>. DEFINE f == CHOOSE x : Made(x)
  <2>1. Made(f)
        BY <1>3
  <2>2. RegisteredForm(p) = f[N]
        BY DEF RegisteredForm
  <2>. QED BY <2>1, <2>2
<1>5. f[0] = <<>>
  <2>1. 0 \in 0..N
        BY <1>1
  <2>. HIDE DEF Step, N
  <2>. QED BY <1>4, <2>1
<1>6. \A n \in 1..N : f[n] = Step(f[n - 1], n)
  <2>1. ASSUME NEW n \in 1..N PROVE f[n] = Step(f[n - 1], n)
    <3>1. n \in 0..N /\ n # 0
          BY <1>1
    <3>. HIDE DEF Step, N
    <3>. QED BY <1>4, <3>1
  <2>. QED BY <2>1
<1>. QED BY <1>4, <1>5, <1>6

\* What holds of nothing and of each prefix after the one before it holds of
\* the whole.
LEMMA Prefixes ==
  ASSUME NEW N \in Nat, NEW T, 0 \in T, \A n \in 1..N : n - 1 \in T => n \in T
  PROVE  N \in T
<1>. DEFINE U == {n \in Nat : n <= N => n \in T}
<1>1. 0 \in U
      OBVIOUS
<1>2. ASSUME NEW n \in Nat, n \in U PROVE n + 1 \in U
  <2>1. CASE n + 1 <= N
    <3>1. n + 1 \in 1..N /\ (n + 1) - 1 = n /\ n \in T
          BY <1>2, <2>1
    <3>. QED BY <3>1
  <2>2. CASE ~(n + 1 <= N)
        BY <2>2
  <2>. QED BY <2>1, <2>2
<1>3. N \in U
  <2>. HIDE DEF U
  <2>. QED BY <1>1, <1>2, Induction
<1>. QED BY <1>3

\* What is dropped is gone.
LEMMA StrippedOf ==
  ASSUME NEW p \in Seq(Characters), NEW drop
  PROVE  /\ Stripped(p, drop) \in Seq(Characters)
         /\ \A i \in 1..Len(Stripped(p, drop)) : Stripped(p, drop)[i] \notin drop
<1>. DEFINE Clean(s) == /\ s \in Seq(Characters)
                        /\ \A i \in 1..Len(s) : s[i] \notin drop
<1>1. PICK f : /\ Stripped(p, drop) = f[Len(p)]
               /\ f[0] = <<>>
               /\ \A n \in 1..Len(p) :
                    f[n] = IF p[n] \in drop THEN f[n - 1]
                           ELSE Append(f[n - 1], p[n])
      BY StrippedSteps
<1>2. ASSUME NEW s, NEW c \in Characters \ drop, Clean(s)
      PROVE  Clean(Append(s, c))
      BY <1>2
<1>3. Clean(<<>>)
      OBVIOUS
<1>4. Len(p) \in Nat /\ \A n \in 1..Len(p) : p[n] \in Characters
      BY LenProperties, ElementOfSeq
<1>. HIDE DEF Clean
<1>5. ASSUME NEW n \in 1..Len(p), Clean(f[n - 1]) PROVE Clean(f[n])
      BY <1>1, <1>2, <1>4, <1>5
<1>. DEFINE T == {n \in Nat : Clean(f[n])}
<1>6. 0 \in T /\ \A n \in 1..Len(p) : n - 1 \in T => n \in T
      BY <1>1, <1>3, <1>4, <1>5
<1>7. Len(p) \in T
  <2>. HIDE DEF T
  <2>. QED BY <1>4, <1>6, Prefixes
<1>. QED BY <1>1, <1>7 DEF Clean

\* A plate without blanks is registered as it was typed.
LEMMA RegisteredPlain ==
  ASSUME NEW p \in Seq(Characters), \A i \in 1..Len(p) : p[i] # Blank
  PROVE  RegisteredForm(p) = p
<1>. DEFINE Same(s, n) == /\ s \in Seq(Characters) /\ Len(s) = n
                          /\ \A i \in 1..n : s[i] = p[i]
<1>1. PICK f : /\ RegisteredForm(p) = f[Len(p)]
               /\ f[0] = <<>>
               /\ \A n \in 1..Len(p) :
                    f[n] = IF p[n] # Blank THEN Append(f[n - 1], p[n])
                           ELSE IF n > 1 /\ p[n - 1] = Blank THEN f[n - 1]
                           ELSE Append(f[n - 1], Dash)
      BY RegisteredSteps
<1>2. ASSUME NEW s, NEW n \in Nat \ {0}, Same(s, n - 1), p[n] \in Characters
      PROVE  Same(Append(s, p[n]), n)
  <2>1. /\ s \in Seq(Characters) /\ Len(s) = n - 1
        /\ \A i \in 1..(n - 1) : s[i] = p[i]
        BY <1>2
  <2>2. /\ Append(s, p[n]) \in Seq(Characters)
        /\ Len(Append(s, p[n])) = n
        /\ \A i \in 1..(n - 1) : Append(s, p[n])[i] = s[i]
        /\ Append(s, p[n])[n] = p[n]
        BY <1>2, <2>1, AppendProperties
  <2>3. \A i \in 1..n : i = n \/ i \in 1..(n - 1)
        OBVIOUS
  <2>. QED BY <2>1, <2>2, <2>3
<1>3. Same(<<>>, 0)
  <2>1. 1..0 = {} /\ <<>> \in Seq(Characters) /\ Len(<<>>) = 0
        BY EmptySeq
  <2>. QED BY <2>1
<1>4. Len(p) \in Nat /\ \A n \in 1..Len(p) : p[n] \in Characters
      BY LenProperties, ElementOfSeq
<1>. HIDE DEF Same
<1>5. ASSUME NEW n \in 1..Len(p), Same(f[n - 1], n - 1) PROVE Same(f[n], n)
  <2>1. f[n] = Append(f[n - 1], p[n])
        BY <1>1
  <2>2. n \in Nat \ {0} /\ p[n] \in Characters
        BY <1>4
  <2>. QED BY <1>2, <1>5, <2>1, <2>2
<1>. DEFINE T == {n \in Nat : Same(f[n], n)}
<1>6. 0 \in T /\ \A n \in 1..Len(p) : n - 1 \in T => n \in T
      BY <1>1, <1>3, <1>4, <1>5
<1>7. Len(p) \in T
  <2>. HIDE DEF T
  <2>. QED BY <1>4, <1>6, Prefixes
<1>8. Same(RegisteredForm(p), Len(p))
      BY <1>1, <1>7
<1>. QED BY <1>8, SeqEqual DEF Same

\* A plate typed with a blank or a dash is registered with a dash.
LEMMA RegisteredDash ==
  ASSUME NEW p \in Seq(Characters), NEW j \in 1..Len(p), p[j] \in {Blank, Dash}
  PROVE  \E i \in 1..Len(RegisteredForm(p)) : RegisteredForm(p)[i] = Dash
<1>. DEFINE Marked(s) == \E i \in 1..Len(s) : s[i] = Dash
            Owed(n) == \E i \in 1..n : p[i] \in {Blank, Dash}
            Good(s, n) == s \in Seq(Characters) /\ (Owed(n) => Marked(s))
<1>1. PICK f : /\ RegisteredForm(p) = f[Len(p)]
               /\ f[0] = <<>>
               /\ \A n \in 1..Len(p) :
                    f[n] = IF p[n] # Blank THEN Append(f[n - 1], p[n])
                           ELSE IF n > 1 /\ p[n - 1] = Blank THEN f[n - 1]
                           ELSE Append(f[n - 1], Dash)
      BY RegisteredSteps
<1>2. ASSUME NEW s \in Seq(Characters), NEW c \in Characters
      PROVE  /\ Append(s, c) \in Seq(Characters)
             /\ Marked(s) => Marked(Append(s, c))
             /\ c = Dash => Marked(Append(s, c))
  <2>1. /\ Append(s, c) \in Seq(Characters) /\ Len(s) \in Nat
        /\ Len(Append(s, c)) = Len(s) + 1
        /\ \A i \in 1..Len(s) : Append(s, c)[i] = s[i]
        /\ Append(s, c)[Len(s) + 1] = c
        BY AppendProperties, LenProperties
  <2>2. /\ Len(s) + 1 \in 1..(Len(s) + 1)
        /\ \A i \in 1..Len(s) : i \in 1..(Len(s) + 1)
        BY <2>1
  <2>. QED BY <2>1, <2>2
<1>3. Good(<<>>, 0)
  <2>1. 1..0 = {} /\ <<>> \in Seq(Characters)
        BY EmptySeq
  <2>. QED BY <2>1
<1>4. Len(p) \in Nat /\ \A n \in 1..Len(p) : p[n] \in Characters
      BY LenProperties, ElementOfSeq
<1>5. ASSUME NEW n \in 1..Len(p)
      PROVE  Owed(n) <=> Owed(n - 1) \/ p[n] \in {Blank, Dash}
  <2>1. \A i : i \in 1..n <=> i = n \/ i \in 1..(n - 1)
        BY <1>4
  <2>. QED BY <2>1
<1>6. ASSUME NEW n \in 1..Len(p), n > 1, p[n - 1] = Blank PROVE Owed(n - 1)
  <2>1. n - 1 \in 1..(n - 1)
        BY <1>4, <1>6
  <2>. QED BY <1>6, <2>1
<1>. HIDE DEF Marked, Owed
<1>7. ASSUME NEW n \in 1..Len(p), Good(f[n - 1], n - 1) PROVE Good(f[n], n)
  <2>1. CASE p[n] # Blank
        BY <1>1, <1>2, <1>4, <1>5, <1>7, <2>1
  <2>2. CASE p[n] = Blank /\ n > 1 /\ p[n - 1] = Blank
        BY <1>1, <1>5, <1>6, <1>7, <2>2
  <2>3. CASE p[n] = Blank /\ ~(n > 1 /\ p[n - 1] = Blank)
    <3>1. f[n] = Append(f[n - 1], Dash) /\ Dash \in Characters
          BY <1>1, <2>3 DEF Characters
    <3>. QED BY <1>2, <1>7, <3>1
  <2>. QED BY <2>1, <2>2, <2>3
<1>8. Good(RegisteredForm(p), Len(p))
  <2>. HIDE DEF Good
  <2>. DEFINE T == {n \in Nat : Good(f[n], n)}
  <2>1. 0 \in T /\ \A n \in 1..Len(p) : n - 1 \in T => n \in T
        BY <1>1, <1>3, <1>4, <1>7
  <2>2. Len(p) \in T
    <3>. HIDE DEF T
    <3>. QED BY <1>4, <2>1, Prefixes
  <2>. QED BY <1>1, <2>2
<1>. QED BY <1>8 DEF Marked, Owed

\* The two forms meet where a plate was typed, when it was registered, without
\* what the look-up leaves out.
LEMMA FormsMeet ==
  ASSUME NEW p \in Seq(Characters), NEW i \in Seq(Characters)
  PROVE  RegisteredForm(p) = LookupForm(i) <=> p = Stripped(i, {Blank, Dash})
<1>1. /\ LookupForm(i) = Stripped(i, {Blank, Dash})
      /\ LookupForm(i) \in Seq(Characters)
      /\ \A k \in 1..Len(LookupForm(i)) : LookupForm(i)[k] \notin {Blank, Dash}
      BY StrippedOf DEF LookupForm
<1>2. ASSUME p = LookupForm(i) PROVE RegisteredForm(p) = p
      BY <1>1, <1>2, RegisteredPlain
<1>3. ASSUME RegisteredForm(p) = LookupForm(i) PROVE RegisteredForm(p) = p
  <2>1. \A k \in 1..Len(p) : p[k] # Blank
        BY <1>1, <1>3, RegisteredDash
  <2>. QED BY <2>1, RegisteredPlain
<1>. QED BY <1>1, <1>2, <1>3

-----------------------------------------------------------------------------
(* The vehicles found by their plate.                                      *)

\* What the table has is the registered form of what was typed.
PlatesHold == \A v \in Stored : /\ row[v].typed \in Inputs
                                /\ row[v].plate = RegisteredForm(row[v].typed)

LEMMA NextPlatesHold == VInv /\ PlatesHold /\ [Next]_vars => PlatesHold'
<1>. SUFFICES ASSUME VInv, PlatesHold, [Next]_vars PROVE PlatesHold'
     OBVIOUS
<1>1. CASE row' = row
      BY <1>1 DEF PlatesHold, Stored
<1>2. ASSUME NEW w \in Workers, NEW x \in VehicleIds, RegisterInsert(w, x)
      PROVE  PlatesHold'
  <2>. DEFINE new == [state |-> "active", driver |-> req[w].driver,
                      plate |-> RegisteredForm(req[w].typed),
                      typed |-> req[w].typed]
  <2>1. req[w].typed \in Inputs
        BY <1>2 DEF RegisterInsert, At, VInv, RequestsHold
  <2>2. CASE row' = [row EXCEPT ![x] = new]
    <3>1. /\ row'[x] = new
          /\ \A v \in VehicleIds \ {x} : row'[v] = row[v]
          BY <2>2 DEF VInv, TypeOK
    <3>2. new.typed = req[w].typed /\ new.plate = RegisteredForm(req[w].typed)
          OBVIOUS
    <3>3. \A v \in Stored' : v = x \/ v \in Stored \ {x}
          BY <3>1 DEF Stored
    <3>4. \A v \in Stored \ {x} : row'[v] = row[v]
          BY <3>1 DEF Stored
    <3>. QED BY <2>1, <3>1, <3>2, <3>3, <3>4 DEF PlatesHold
  <2>. QED BY <1>1, <1>2, <2>2 DEF RegisterInsert
<1>3. ASSUME NEW w \in Workers, RevokeUpdate(w) PROVE PlatesHold'
  <2>1. Stored' = Stored /\ \A v \in Stored : row'[v].plate = row[v].plate
        BY <1>3, RevokeStep
  <2>2. row' = [row EXCEPT ![req[w].vehicle].state = "revoked"]
        BY <1>3, RevokeStep
  <2>3. \A v \in Stored : row'[v].typed = row[v].typed
        BY <2>2 DEF Stored, VInv, TypeOK, Row
  <2>. QED BY <2>1, <2>3 DEF PlatesHold
<1>4. ASSUME NEW w \in Workers, NEW d \in Drivers,
             \/ \E i \in Inputs : RegisterArrive(w, d, i)
             \/ \E x \in VehicleIds : RevokeArrive(w, d, x)
             \/ \E l \in Licences : LicenseArrive(w, d, l)
             \/ \E on \in BOOLEAN : OnlineArrive(w, d, on)
      PROVE  row' = row
      BY <1>4 DEF RegisterArrive, RevokeArrive, LicenseArrive, OnlineArrive,
                  Accept
<1>5. ASSUME NEW w \in Workers,
             \/ \E ok \in BOOLEAN : LicenseIdentity(w, ok)
             \/ LicenseUpdate(w) \/ OnlineUpdate(w) \/ RegisterDup(w)
             \/ RevokeSelect(w) \/ Fail(w)
      PROVE  row' = row
      BY <1>5 DEF LicenseIdentity, LicenseUpdate, OnlineUpdate, RegisterDup,
                  RevokeSelect, Fail
<1>6. CASE \/ \E d \in Drivers : Suspend(d)
           \/ \E l \in Licences : Expire(l)
           \/ UNCHANGED vars
      BY <1>1, <1>6 DEF Suspend, Expire, vars
<1>. QED BY <1>1, <1>2, <1>3, <1>4, <1>5, <1>6 DEF Next

\* By plate a rider finds exactly the active vehicles of drivers in good
\* standing for which the characters looked up were typed without a blank or a
\* dash at registration, whatever plates, drivers and requests there are.
THEOREM PlainPlatesFound == Spec => []PlainPlateIsFound
<1>1. Init => PlatesHold
      BY DEF Init, PlatesHold, Stored, NoRow
<1>2. ASSUME PlatesHold PROVE PlainPlateIsFound
  <2>1. ASSUME NEW i \in Inputs, NEW v \in Stored
        PROVE  row[v].plate = LookupForm(i)
                 <=> row[v].typed = Stripped(i, {Blank, Dash})
    <3>1. /\ row[v].typed \in Seq(Characters) /\ i \in Seq(Characters)
          /\ row[v].plate = RegisteredForm(row[v].typed)
          BY <1>2, InputsAssumption DEF PlatesHold
    <3>2. RegisteredForm(row[v].typed) = LookupForm(i)
            <=> row[v].typed = Stripped(i, {Blank, Dash})
          BY <3>1, FormsMeet
    <3>. QED BY <3>1, <3>2
  <2>. QED BY <2>1 DEF PlainPlateIsFound, ByPlate, Rendered, Lookup, WithPlate
<1>3. Spec => []PlatesHold
      BY <1>1, RegistryInvariance, NextPlatesHold, PTL DEF Spec
<1>. QED BY <1>2, <1>3, PTL
=============================================================================
