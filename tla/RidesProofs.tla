---------------------------- MODULE RidesProofs ----------------------------
(***************************************************************************)
(* What holds of RidesService for any number of riders, requests, rides    *)
(* and shares, and any number of failures and crashes.                     *)
(*                                                                         *)
(* None of the properties is inductive alone: that setShares writes rows   *)
(* of the rider's own contacts depends on what the request remembers of    *)
(* its earlier statements, and that ping shows a recorded point depends on *)
(* its insert having run.  LocalsHold says what the requests remember.     *)
(*                                                                         *)
(* On that invariant, and on the fact that an id nobody has used has left  *)
(* no trace, rest the results of the second half: the handlers implement   *)
(* RideLifecycle, a barred vehicle and an ended ride stay what they are,   *)
(* the audit trail claims no end the driver was not credited for and is    *)
(* complete without failures, and trips are counted, and rides of a rider  *)
(* overlap, at most once for each racing request.                          *)
(***************************************************************************)
EXTENDS Rides, FiniteSetTheorems, TLAPS

\* The inductive invariant.
IInv == TypeOK /\ LocalsHold /\ LastIsRecorded /\ SharesOwned

\* What every step leaves true of the tables, and all that a request relies
\* on: a ride keeps its rider, recorded points stay, a share row stays a row of
\* its ride.
Keeps ==
  /\ \A r \in RideIds : rides[r].rider # None
                          => rides'[r].rider = rides[r].rider
  /\ \A r \in RideIds : recorded[r] \subseteq recorded'[r]
  /\ \A s \in ShareIds : shares[s].state # "absent"
                           => /\ shares'[s].state # "absent"
                              /\ shares'[s].ride = shares[s].ride

OnlyRequests == UNCHANGED <<tables, log, contacts, active, suspended, sweep>>

-----------------------------------------------------------------------------
(* Lemmas on requests.                                                     *)

\* None is no user, no vehicle, no point and no id.
LEMMA NoneIsNothing ==
  /\ None \notin Users /\ None \notin Drivers /\ None \notin Vehicles
  /\ None \notin Contacts /\ None \notin RideIds /\ None \notin ShareIds
  /\ None \notin Positions
BY NoneAssumption

\* A worker without a request remembers nothing.
LEMMA IdleHolds ==
  Idle \in Request /\ RequestHolds(Idle) /\ RequestHolds(Idle)'
BY DEF Idle, Request, Steps, RequestHolds

\* What a request relies on is not disturbed by the steps of others.
LEMMA RequestKept ==
  ASSUME TypeOK, Keeps, NEW q \in Request, RequestHolds(q)
  PROVE  RequestHolds(q)'
BY NoneIsNothing DEF TypeOK, Keeps, RequestHolds, Request

\* Steps that leave the requests alone.
LEMMA OthersKept ==
  ASSUME TypeOK, Keeps, \A x \in Workers : RequestHolds(req[x]), req' = req
  PROVE  \A x \in Workers : RequestHolds(req[x])'
<1>. TAKE x \in Workers
<1>1. PICK q \in Request : q = req[x]
      BY DEF TypeOK
<1>2. RequestHolds(q)
      BY <1>1
<1>3. RequestHolds(q)'
      BY <1>2, RequestKept
<1>. QED BY <1>1, <1>3 DEF RequestHolds

\* Steps of worker w.
LEMMA WorkerKept ==
  ASSUME TypeOK, Keeps, \A x \in Workers : RequestHolds(req[x]),
         NEW w \in Workers, NEW p \in Request, RequestHolds(p)',
         req' = [req EXCEPT ![w] = p]
  PROVE  \A x \in Workers : RequestHolds(req[x])'
<1>. TAKE x \in Workers
<1>1. CASE x = w
  <2>1. req'[x] = p
        BY <1>1 DEF TypeOK
  <2>. QED BY <2>1 DEF RequestHolds
<1>2. CASE x # w
  <2>1. PICK q \in Request : q = req[x]
        BY DEF TypeOK
  <2>2. RequestHolds(q)
        BY <2>1
  <2>3. RequestHolds(q)'
        BY <2>2, RequestKept
  <2>4. req'[x] = q
        BY <1>2, <2>1 DEF TypeOK
  <2>. QED BY <2>3, <2>4 DEF RequestHolds
<1>. QED BY <1>1, <1>2

\* A step that does no more than move a request on, write an audit row and
\* count a failure.
LEMMA MoveOn ==
  ASSUME IInv, OnlyRequests, NEW w \in Workers, NEW q \in Request,
         RequestHolds(q), req' = [req EXCEPT ![w] = q],
         pending' \subseteq AuditActions \X RideIds, cut' \subseteq RideIds,
         faults' \in 0..MaxFaults
  PROVE  IInv'
<1>. USE DEF IInv, OnlyRequests, tables
<1>1. TypeOK'
  <2>1. req' \in [Workers -> Request]
        BY DEF TypeOK
  <2>. QED BY <2>1 DEF TypeOK
<1>2. Keeps
      BY DEF Keeps, TypeOK
<1>3. RequestHolds(q)'
      BY <1>2, RequestKept
<1>4. \A x \in Workers : RequestHolds(req[x])'
      BY <1>2, <1>3, WorkerKept DEF LocalsHold
<1>5. LocalsHold'
      BY <1>4 DEF LocalsHold
<1>6. LastIsRecorded'
      BY DEF LastIsRecorded
<1>7. SharesOwned'
      BY DEF SharesOwned
<1>. QED BY <1>1, <1>5, <1>6, <1>7

-----------------------------------------------------------------------------
(* Each statement of each handler preserves the invariant.                 *)

\* The first statement of start, ping, end and setShares.
LEMMA ArriveStep ==
  ASSUME IInv, NEW w \in Workers, Arrive(w)
  PROVE  IInv'
<1>. USE NoneIsNothing DEF OnlyRequests, tables, world, audits, Accept
<1>t. /\ pending \subseteq AuditActions \X RideIds /\ cut \subseteq RideIds
      /\ faults \in 0..MaxFaults
      BY DEF IInv, TypeOK
<1>1. ASSUME NEW u \in Users, NEW v \in Vehicles, StartSelect(w, u, v)
      PROVE  IInv'
  <2>. DEFINE q == [Idle EXCEPT !.pc = "overlap", !.user = u, !.vehicle = v]
  <2>1. q \in Request /\ RequestHolds(q)
        BY DEF Idle, Request, Steps, RequestHolds
  <2>2. req' = [req EXCEPT ![w] = q] /\ OnlyRequests
        /\ UNCHANGED <<pending, cut, faults>>
        BY <1>1 DEF StartSelect
  <2>. QED BY <1>t, <2>1, <2>2, MoveOn
<1>2. ASSUME NEW u \in Users, NEW r \in RideIds, NEW p \in Positions,
             PingSelect(w, u, r, p)
      PROVE  IInv'
  <2>. DEFINE q == [Idle EXCEPT !.pc = "pingInsert", !.user = u,
                                !.ride = r, !.pos = p]
  <2>1. q \in Request /\ RequestHolds(q)
        BY <1>2 DEF PingSelect, MayTouch, Idle, Request, Steps, RequestHolds
  <2>2. req' = [req EXCEPT ![w] = q] /\ OnlyRequests
        /\ UNCHANGED <<pending, cut, faults>>
        BY <1>2 DEF PingSelect
  <2>. QED BY <1>t, <2>1, <2>2, MoveOn
<1>3. ASSUME NEW u \in Users, NEW r \in RideIds, EndSelect(w, u, r)
      PROVE  IInv'
  <2>. DEFINE q == [Idle EXCEPT !.pc = "endUpdate", !.user = u, !.ride = r]
  <2>1. q \in Request /\ RequestHolds(q)
        BY <1>3 DEF EndSelect, MayTouch, Idle, Request, Steps, RequestHolds
  <2>2. req' = [req EXCEPT ![w] = q] /\ OnlyRequests
        /\ UNCHANGED <<pending, cut, faults>>
        BY <1>3 DEF EndSelect
  <2>. QED BY <1>t, <2>1, <2>2, MoveOn
<1>4. ASSUME NEW u \in Users, NEW r \in RideIds, NEW ids \in SUBSET Contacts,
             ShareSelect(w, u, r, ids)
      PROVE  IInv'
  <2>. DEFINE q == [Idle EXCEPT !.pc = IF ids = {} THEN "shareExisting"
                                                   ELSE "shareContacts",
                                !.user = u, !.ride = r, !.valid = ids]
  <2>1. q \in Request /\ RequestHolds(q)
        BY <1>4 DEF ShareSelect, MayTouch, Idle, Request, Steps, RequestHolds
  <2>2. req' = [req EXCEPT ![w] = q] /\ OnlyRequests
        /\ UNCHANGED <<pending, cut, faults>>
        BY <1>4 DEF ShareSelect
  <2>. QED BY <1>t, <2>1, <2>2, MoveOn
<1>. QED BY <1>1, <1>2, <1>3, <1>4 DEF Arrive

\* The statements that only read: the overlap check of start, the contacts of
\* setShares, an insert the foreign key rejects; and a statement that fails.
LEMMA ReadStep ==
  ASSUME IInv, NEW w \in Workers,
         StartOverlap(w) \/ ShareContacts(w) \/ ShareAddRejected(w) \/ Fail(w)
  PROVE  IInv'
<1>. USE DEF OnlyRequests, tables, world, audits, Done, Goto, At
<1>t. /\ pending \subseteq AuditActions \X RideIds
      /\ cut \subseteq RideIds /\ faults \in 0..MaxFaults
      /\ req[w] \in Request
      /\ RequestHolds(req[w])
      BY DEF IInv, TypeOK, LocalsHold
<1>1. CASE StartOverlap(w)
  <2>. DEFINE q == [req[w] EXCEPT !.pc = "insert"]
  <2>1. q \in Request /\ RequestHolds(q)
        BY <1>1, <1>t DEF StartOverlap, Request, Steps, RequestHolds
  <2>2. \/ req' = [req EXCEPT ![w] = q]
        \/ req' = [req EXCEPT ![w] = Idle]
        BY <1>1 DEF StartOverlap
  <2>3. OnlyRequests /\ UNCHANGED <<pending, cut, faults>>
        BY <1>1 DEF StartOverlap
  <2>. QED BY <1>t, <2>1, <2>2, <2>3, IdleHolds, MoveOn
<1>2. CASE ShareContacts(w)
  <2>. DEFINE q == [req[w] EXCEPT !.pc = "shareExisting",
                                  !.valid = ValidContacts(req[w].user, @)]
  <2>1. q \in Request /\ RequestHolds(q)
        BY <1>2, <1>t DEF ShareContacts, ValidContacts, Request, Steps,
                          RequestHolds
  <2>2. req' = [req EXCEPT ![w] = q]
        BY <1>2, <1>t DEF ShareContacts, IInv, TypeOK
  <2>3. OnlyRequests /\ UNCHANGED <<pending, cut, faults>>
        BY <1>2 DEF ShareContacts
  <2>. QED BY <1>t, <2>1, <2>2, <2>3, MoveOn
<1>3. CASE ShareAddRejected(w)
  <2>1. /\ req' = [req EXCEPT ![w] = Idle]
        /\ OnlyRequests /\ UNCHANGED <<pending, cut, faults>>
        BY <1>3 DEF ShareAddRejected
  <2>. QED BY <1>t, <2>1, IdleHolds, MoveOn
<1>4. CASE Fail(w)
  <2>1. /\ req' = [req EXCEPT ![w] = Idle]
        /\ OnlyRequests /\ UNCHANGED pending
        BY <1>4 DEF Fail
  <2>2. faults' \in 0..MaxFaults
        BY <1>4, <1>t, FaultsAssumption DEF Fail
  <2>3. cut' \subseteq RideIds
        BY <1>4, <1>t DEF Fail, HalfEnded, RequestHolds
  <2>. QED BY <1>t, <2>1, <2>2, <2>3, IdleHolds, MoveOn
<1>. QED BY <1>1, <1>2, <1>3, <1>4

\* start: the new row is nobody's until now, so it disturbs no request and no
\* share.
LEMMA StartInsertStep ==
  ASSUME IInv, NEW w \in Workers, NEW r \in RideIds, StartInsert(w, r)
  PROVE  IInv'
<1>. USE NoneIsNothing DEF IInv
<1>1. /\ req[w] \in Request
      /\ req[w].user \in Users /\ req[w].vehicle \in Vehicles
      BY DEF TypeOK, LocalsHold, RequestHolds, StartInsert, At
<1>. DEFINE row == [NoRide EXCEPT !.status = "active", !.rider = req[w].user,
                                 !.driver = DriverOf[req[w].vehicle],
                                 !.vehicle = req[w].vehicle]
<1>2. row \in RideRow /\ row.status = "active" /\ row.rider \in Users
      /\ row.last = None
      BY <1>1, DriverOfAssumption DEF NoRide, RideRow, Statuses
<1>3. /\ rides' = [rides EXCEPT ![r] = row]
      /\ rides[r].status = "absent" /\ rides[r].rider = None
      /\ UNCHANGED <<recorded, shares, contacts, sweep, trips, log, active,
                     suspended, cut, faults>>
      /\ fresh' = fresh \cup {r}
      /\ pending' = pending \cup {<<"ride.started", r>>}
      /\ req' = [req EXCEPT ![w] = Idle]
      BY DEF StartInsert, Audit, Done, world, LocalsHold
<1>. HIDE DEF row
<1>4. TypeOK'
  <2>1. rides' \in [RideIds -> RideRow]
        BY <1>2, <1>3 DEF TypeOK
  <2>2. req' \in [Workers -> Request]
        BY <1>3, IdleHolds DEF TypeOK
  <2>3. pending' \subseteq AuditActions \X RideIds
        BY <1>3 DEF TypeOK, AuditActions
  <2>. QED BY <1>3, <2>1, <2>2, <2>3 DEF TypeOK
<1>5. Keeps
      BY <1>3 DEF Keeps, TypeOK
<1>6. \A x \in Workers : RequestHolds(req[x])'
      BY <1>3, <1>5, IdleHolds, WorkerKept DEF LocalsHold
<1>7. LocalsHold'
      BY <1>2, <1>3, <1>6 DEF LocalsHold, TypeOK, Sweep
<1>8. LastIsRecorded'
      BY <1>2, <1>3 DEF LastIsRecorded, TypeOK
<1>9. SharesOwned'
  <2>1. ASSUME NEW s \in ShareIds, shares[s].state \in {"live", "ended"}
        PROVE  shares[s].ride # r
        BY <1>3, <2>1, OwnerOfAssumption DEF SharesOwned, TypeOK
  <2>. QED BY <1>3, <2>1 DEF SharesOwned, TypeOK
<1>. QED BY <1>4, <1>7, <1>8, <1>9

\* ping: the point is recorded before the ride shows it.
LEMMA PingStep ==
  ASSUME IInv, NEW w \in Workers, PingInsert(w) \/ PingUpdate(w)
  PROVE  IInv'
<1>. USE NoneIsNothing DEF IInv
<1>1. /\ req[w] \in Request
      /\ req[w].ride \in RideIds /\ req[w].pos \in Positions
      /\ RequestHolds(req[w])
      BY DEF TypeOK, LocalsHold, RequestHolds, PingInsert, PingUpdate, At
<1>2. CASE PingInsert(w)
  <2>0. PICK q \in Request : q = [req[w] EXCEPT !.pc = "pingUpdate"]
        BY <1>1 DEF Request, Steps
  <2>1. /\ recorded' = [recorded EXCEPT
                          ![req[w].ride] = @ \cup {req[w].pos}]
        /\ req' = [req EXCEPT ![w] = q]
        /\ UNCHANGED <<rides, fresh, shares, trips, log, pending, sweep,
                       contacts, active, suspended, cut, faults>>
        BY <1>2, <2>0 DEF PingInsert, Goto, audits, world
  <2>3. TypeOK'
    <3>1. req' \in [Workers -> Request]
          BY <2>1 DEF TypeOK
    <3>2. recorded' \in [RideIds -> SUBSET Positions]
          BY <1>1, <2>1 DEF TypeOK
    <3>. QED BY <2>1, <3>1, <3>2 DEF TypeOK
  <2>4. Keeps
        BY <1>1, <2>1 DEF Keeps, TypeOK
  <2>5. RequestHolds(q)'
    <3>1. /\ q.pc = "pingUpdate" /\ q.user = req[w].user
          /\ q.ride = req[w].ride /\ q.pos = req[w].pos
          /\ q.valid = req[w].valid /\ q.add = req[w].add
          /\ q.drop = req[w].drop
          BY <1>1, <2>0 DEF Request
    <3>2. req[w].pos \in recorded'[req[w].ride]
          BY <1>1, <2>1 DEF TypeOK
    <3>. QED BY <1>1, <1>2, <2>1, <3>1, <3>2 DEF RequestHolds, PingInsert, At
  <2>6. \A x \in Workers : RequestHolds(req[x])'
        BY <2>1, <2>4, <2>5, WorkerKept DEF LocalsHold
  <2>7. LocalsHold'
        BY <2>1, <2>6 DEF LocalsHold
  <2>8. LastIsRecorded'
        BY <1>1, <2>1 DEF LastIsRecorded, TypeOK
  <2>9. SharesOwned'
        BY <2>1 DEF SharesOwned
  <2>. QED BY <2>3, <2>7, <2>8, <2>9
<1>3. CASE PingUpdate(w)
  <2>1. /\ rides' = [rides EXCEPT ![req[w].ride].last = req[w].pos]
        /\ fresh' = fresh \cup {req[w].ride}
        /\ req' = [req EXCEPT ![w] = Idle]
        /\ UNCHANGED <<recorded, shares, trips, log, pending,
                       contacts, active, suspended, cut, faults>>
        /\ req[w].pos \in recorded[req[w].ride]
        BY <1>1, <1>3 DEF PingUpdate, Done, audits, world, RequestHolds, At
  <2>s. /\ sweep' \in Sweep /\ sweep'.pc = sweep.pc
        /\ sweep'.todo = sweep.todo /\ sweep'.cur = sweep.cur
        BY <1>3 DEF PingUpdate, PingedBehind, TypeOK, Sweep
  <2>2. TypeOK'
    <3>1. req' \in [Workers -> Request]
          BY <2>1, IdleHolds DEF TypeOK
    <3>2. rides' \in [RideIds -> RideRow]
          BY <1>1, <2>1 DEF TypeOK, RideRow
    <3>. QED BY <1>1, <2>1, <2>s, <3>1, <3>2 DEF TypeOK
  <2>3. \A r \in RideIds : /\ rides'[r].status = rides[r].status
                           /\ rides'[r].rider = rides[r].rider
        BY <1>1, <2>1 DEF TypeOK, RideRow
  <2>4. Keeps
        BY <2>1, <2>3 DEF Keeps
  <2>5. \A x \in Workers : RequestHolds(req[x])'
        BY <2>1, <2>4, IdleHolds, WorkerKept DEF LocalsHold
  <2>6. LocalsHold'
        BY <2>1, <2>s, <2>3, <2>5 DEF LocalsHold, TypeOK, Sweep
  <2>7. LastIsRecorded'
        BY <1>1, <2>1 DEF LastIsRecorded, TypeOK, RideRow
  <2>8. SharesOwned'
        BY <2>1, <2>3 DEF SharesOwned
  <2>. QED BY <2>2, <2>6, <2>7, <2>8
<1>. QED BY <1>2, <1>3

\* A failure leaves a request alone or ends it.
LEMMA FailureIdles ==
  ASSUME TypeOK, (\E w \in Workers : Fail(w)) \/ Crash, NEW x \in Workers
  PROVE  req'[x] = req[x] \/ req'[x] = Idle
<1>1. ASSUME NEW w \in Workers, Fail(w) PROVE req'[x] = req[x] \/ req'[x] = Idle
      BY <1>1 DEF Fail, Done, TypeOK
<1>2. CASE Crash
      BY <1>2 DEF Crash
<1>. QED BY <1>1, <1>2

\* A ride that ends keeps its rider and its last point.
LEMMA CompletedKeeps ==
  ASSUME IInv, NEW r \in RideIds, NEW reason \in {"rider", "auto_timeout"},
         rides[r].status # "absent", rides' = Completed(r, reason),
         UNCHANGED <<recorded, shares, contacts>>
  PROVE  /\ rides' \in [RideIds -> RideRow]
         /\ \A x \in RideIds :
              rides'[x].status = "absent" <=> rides'[x].rider = None
         /\ \A x \in RideIds :
              rides[x].status # "absent" => rides'[x].status # "absent"
         /\ Keeps /\ LastIsRecorded' /\ SharesOwned'
<1>. USE DEF IInv
<1>1. rides' \in [RideIds -> RideRow]
  <2>1. PICK why : why = rides[r].reasons \cup {reason}
        OBVIOUS
  <2>2. why \in SUBSET {"rider", "auto_timeout"}
        BY <2>1 DEF TypeOK, RideRow
  <2>3. PICK row \in RideRow : row = rides[r]
        BY DEF TypeOK
  <2>4. PICK new : new = [row EXCEPT !.status = "completed",
                                     !.reason = reason, !.reasons = why]
        OBVIOUS
  <2>5. new \in RideRow
        BY <2>2, <2>3, <2>4 DEF RideRow, Statuses
  <2>6. rides' = [rides EXCEPT ![r] = new]
        BY <2>1, <2>3, <2>4 DEF Completed, TypeOK, RideRow
  <2>. QED BY <2>5, <2>6 DEF TypeOK
<1>2. /\ \A x \in RideIds :
           /\ rides'[x].rider = rides[x].rider
           /\ rides'[x].last = rides[x].last
           /\ (x # r => rides'[x].status = rides[x].status)
      /\ rides'[r].status = "completed"
      BY DEF Completed, TypeOK, RideRow
<1>3. \A x \in RideIds :
        rides'[x].status = "absent" <=> rides'[x].rider = None
      BY <1>2 DEF LocalsHold
<1>4. \A x \in RideIds :
        rides[x].status # "absent" => rides'[x].status # "absent"
      BY <1>2
<1>5. Keeps
      BY <1>2 DEF Keeps
<1>6. LastIsRecorded'
      BY <1>2 DEF LastIsRecorded
<1>7. SharesOwned'
      BY <1>2 DEF SharesOwned
<1>. QED BY <1>1, <1>3, <1>4, <1>5, <1>6, <1>7

\* The rows that are unshared stay rows of their ride and contact.
LEMMA UnsharedKeeps ==
  ASSUME IInv, NEW r \in RideIds, shares' = Unshared(r),
         UNCHANGED <<rides, recorded, contacts>>
  PROVE  shares' \in [ShareIds -> ShareRow] /\ Keeps /\ SharesOwned'
<1>. USE DEF IInv
<1>1. \A s \in ShareIds :
        /\ shares'[s] \in ShareRow
        /\ shares'[s].ride = shares[s].ride
        /\ shares'[s].contact = shares[s].contact
        /\ \/ shares'[s].state = shares[s].state
           \/ shares[s].state = "live" /\ shares'[s].state = "ended"
      BY DEF Unshared, LiveShares, TypeOK, ShareRow
<1>2. shares' \in [ShareIds -> ShareRow]
      BY <1>1 DEF Unshared
<1>3. Keeps
      BY <1>1 DEF Keeps
<1>4. SharesOwned'
      BY <1>1 DEF SharesOwned
<1>. QED BY <1>2, <1>3, <1>4

\* end: the three statements and the audit row.
LEMMA EndStep ==
  ASSUME IInv, NEW w \in Workers,
         EndUpdate(w) \/ EndUnshare(w) \/ EndTrips(w)
  PROVE  IInv'
<1>. USE NoneIsNothing DEF IInv
<1>1. /\ req[w] \in Request
      /\ req[w].ride \in RideIds
      /\ rides[req[w].ride].status # "absent"
      /\ RequestHolds(req[w])
      BY DEF TypeOK, LocalsHold, RequestHolds, EndUpdate, EndUnshare, EndTrips,
             At
<1>2. CASE EndUpdate(w)
  <2>1. PICK q \in Request : q = [req[w] EXCEPT !.pc = "endUnshare"]
        BY <1>1 DEF Request, Steps
  <2>2. /\ rides' = Completed(req[w].ride, "rider")
        /\ req' = [req EXCEPT ![w] = q]
        /\ UNCHANGED <<recorded, fresh, shares, trips, log, pending, sweep,
                       contacts, active, suspended, cut, faults>>
        BY <1>2, <2>1 DEF EndUpdate, Goto, audits, world
  <2>3. /\ rides' \in [RideIds -> RideRow]
        /\ \A x \in RideIds :
             rides'[x].status = "absent" <=> rides'[x].rider = None
        /\ \A x \in RideIds :
             rides[x].status # "absent" => rides'[x].status # "absent"
        /\ Keeps /\ LastIsRecorded' /\ SharesOwned'
        BY <1>1, <2>2, CompletedKeeps
  <2>4. TypeOK'
    <3>1. req' \in [Workers -> Request]
          BY <2>2 DEF TypeOK
    <3>. QED BY <2>2, <2>3, <3>1 DEF TypeOK
  <2>5. RequestHolds(q)
        BY <1>1, <1>2, <2>1 DEF RequestHolds, EndUpdate, At, Request
  <2>6. \A x \in Workers : RequestHolds(req[x])'
        BY <2>2, <2>3, <2>5, RequestKept, WorkerKept DEF LocalsHold
  <2>7. LocalsHold'
        BY <2>2, <2>3, <2>6 DEF LocalsHold, TypeOK, Sweep
  <2>. QED BY <2>3, <2>4, <2>7
<1>3. CASE EndUnshare(w)
  <2>1. PICK q \in Request : q = [req[w] EXCEPT !.pc = "endTrips"]
        BY <1>1 DEF Request, Steps
  <2>2. /\ shares' = Unshared(req[w].ride)
        /\ req' = [req EXCEPT ![w] = q]
        /\ UNCHANGED <<rides, recorded, fresh, trips, log, pending, sweep,
                       contacts, active, suspended, cut, faults>>
        BY <1>3, <2>1 DEF EndUnshare, Goto, audits, world
  <2>3. shares' \in [ShareIds -> ShareRow] /\ Keeps /\ SharesOwned'
        BY <1>1, <2>2, UnsharedKeeps
  <2>4. TypeOK'
    <3>1. req' \in [Workers -> Request]
          BY <2>2 DEF TypeOK
    <3>. QED BY <2>2, <2>3, <3>1 DEF TypeOK
  <2>5. RequestHolds(q)
        BY <1>1, <1>3, <2>1 DEF RequestHolds, EndUnshare, At, Request
  <2>6. \A x \in Workers : RequestHolds(req[x])'
        BY <2>2, <2>3, <2>5, RequestKept, WorkerKept DEF LocalsHold
  <2>7. LocalsHold' /\ LastIsRecorded'
        BY <2>2, <2>6 DEF LocalsHold, LastIsRecorded
  <2>. QED BY <2>3, <2>4, <2>7
<1>4. CASE EndTrips(w)
  <2>1. /\ trips' = [trips EXCEPT ![rides[req[w].ride].driver] = @ + 1]
        /\ pending' = pending \cup {<<"ride.ended", req[w].ride>>}
        /\ req' = [req EXCEPT ![w] = Idle]
        /\ UNCHANGED <<rides, recorded, fresh, shares, log, sweep, contacts,
                       active, suspended, cut, faults>>
        BY <1>4 DEF EndTrips, Audit, Done, world
  <2>2. TypeOK'
    <3>1. req' \in [Workers -> Request]
          BY <2>1, IdleHolds DEF TypeOK
    <3>2. trips' \in [Drivers -> Nat]
      <4>. DEFINE d == rides[req[w].ride].driver
      <4>1. CASE d \in Drivers
            BY <2>1, <4>1 DEF TypeOK
      <4>2. CASE d \notin Drivers
            BY <2>1, <4>2 DEF TypeOK
      <4>. QED BY <4>1, <4>2
    <3>3. pending' \subseteq AuditActions \X RideIds
          BY <1>1, <2>1 DEF TypeOK, AuditActions
    <3>. QED BY <2>1, <3>1, <3>2, <3>3 DEF TypeOK
  <2>3. Keeps
        BY <2>1 DEF Keeps
  <2>4. \A x \in Workers : RequestHolds(req[x])'
        BY <2>1, <2>3, IdleHolds, WorkerKept DEF LocalsHold
  <2>5. LocalsHold' /\ LastIsRecorded' /\ SharesOwned'
        BY <2>1, <2>4 DEF LocalsHold, LastIsRecorded, SharesOwned
  <2>. QED BY <2>2, <2>5
<1>. QED BY <1>2, <1>3, <1>4

\* The rest of the loops of setShares is a request that remembers contacts of
\* its user and rows of its ride; once both are empty comes the audit row.
LEMMA LoopStep ==
  ASSUME IInv, NEW w \in Workers, req[w].ride \in RideIds,
         req[w].pc \in {"shareExisting", "shareLoop"},
         NEW add \in SUBSET Contacts, NEW drop \in SUBSET ShareIds,
         \A c \in add : OwnerOf[c] = req[w].user,
         \A s \in drop : shares[s].state # "absent"
                          /\ shares[s].ride = req[w].ride,
         Loop(w, add, drop)
  PROVE  /\ pending' \subseteq AuditActions \X RideIds
         /\ \E q \in Request : RequestHolds(q)
                               /\ req' = [req EXCEPT ![w] = q]
<1>. USE DEF IInv
<1>1. req[w] \in Request /\ RequestHolds(req[w])
      BY DEF TypeOK, LocalsHold
<1>2. CASE add = {} /\ drop = {}
  <2>1. /\ pending' = pending \cup {<<"ride.shares.updated", req[w].ride>>}
        /\ req' = [req EXCEPT ![w] = Idle]
        BY <1>2 DEF Loop, Audit, Done
  <2>2. pending' \subseteq AuditActions \X RideIds
        BY <2>1 DEF TypeOK, AuditActions
  <2>. QED BY <2>1, <2>2, IdleHolds
<1>3. CASE ~(add = {} /\ drop = {})
  <2>1. PICK q \in Request :
          q = [req[w] EXCEPT !.pc = "shareLoop", !.add = add, !.drop = drop]
        BY <1>1 DEF Request, Steps
  <2>2. req' = [req EXCEPT ![w] = q] /\ pending' = pending
        BY <1>1, <1>3, <2>1 DEF Loop, TypeOK
  <2>3. /\ q.pc = "shareLoop" /\ q.user = req[w].user
        /\ q.ride = req[w].ride /\ q.add = add /\ q.drop = drop
        BY <1>1, <2>1 DEF Request
  <2>4. RequestHolds(q)
        BY <1>1, <2>3 DEF RequestHolds
  <2>. QED BY <2>2, <2>4 DEF TypeOK
<1>. QED BY <1>2, <1>3

\* setShares: the select of the existing rows, the inserts and the updates.
LEMMA ShareStep ==
  ASSUME IInv, NEW w \in Workers,
         \/ ShareExisting(w)
         \/ \E c \in Contacts, s \in ShareIds : ShareAdd(w, c, s)
         \/ \E s \in ShareIds : ShareDrop(w, s)
  PROVE  IInv'
<1>. USE NoneIsNothing DEF IInv
<1>1. /\ req[w] \in Request
      /\ req[w].user \in Users /\ req[w].ride \in RideIds
      /\ req[w].pc \in {"shareExisting", "shareLoop"}
      /\ rides[req[w].ride].rider = req[w].user
      /\ req[w].pc = "shareExisting" =>
           \A c \in req[w].valid : OwnerOf[c] = req[w].user
      /\ \A c \in req[w].add : OwnerOf[c] = req[w].user
      /\ \A s \in req[w].drop : shares[s].state # "absent"
                                /\ shares[s].ride = req[w].ride
      BY DEF TypeOK, LocalsHold, RequestHolds, ShareExisting, ShareAdd,
             ShareDrop, At
<1>2. /\ req[w].valid \in SUBSET Contacts /\ req[w].add \in SUBSET Contacts
      /\ req[w].drop \in SUBSET ShareIds
      BY <1>1 DEF Request
<1>3. CASE ShareExisting(w)
  <2>. DEFINE existing == LiveShares(req[w].ride)
              valid == req[w].valid
  <2>1. PICK add \in SUBSET Contacts, drop \in SUBSET ShareIds :
          /\ add = valid \ {shares[s].contact : s \in existing}
          /\ drop = {s \in existing : shares[s].contact \notin valid}
        BY <1>2 DEF LiveShares
  <2>2. Loop(w, add, drop) /\ OnlyRequests /\ UNCHANGED <<cut, faults>>
        /\ At(w, "shareExisting")
        BY <1>3, <2>1 DEF ShareExisting, OnlyRequests, tables, world
  <2>3. \A c \in add : OwnerOf[c] = req[w].user
        BY <1>1, <2>1, <2>2 DEF At
  <2>4. \A s \in drop : shares[s].state # "absent"
                         /\ shares[s].ride = req[w].ride
        BY <2>1 DEF LiveShares
  <2>5. /\ pending' \subseteq AuditActions \X RideIds
        /\ \E q \in Request : RequestHolds(q)
                              /\ req' = [req EXCEPT ![w] = q]
        BY <1>1, <2>2, <2>3, <2>4, LoopStep
  <2>6. cut' \subseteq RideIds /\ faults' \in 0..MaxFaults
        BY <2>2 DEF TypeOK
  <2>. QED BY <2>2, <2>5, <2>6, MoveOn
<1>4. ASSUME NEW c \in Contacts, NEW t \in ShareIds, ShareAdd(w, c, t)
      PROVE  IInv'
  <2>1. PICK add \in SUBSET Contacts, drop \in SUBSET ShareIds :
          add = req[w].add \ {c} /\ drop = req[w].drop
        BY <1>2
  <2>2. /\ Loop(w, add, drop)
        /\ c \in req[w].add \cap contacts
        /\ shares[t].state = "absent"
        /\ shares' = [shares EXCEPT ![t] =
                        [state |-> "live", ride |-> req[w].ride,
                         contact |-> c]]
        /\ UNCHANGED <<rides, recorded, fresh, trips, log, sweep, contacts,
                       active, suspended, cut, faults>>
        BY <1>4, <2>1 DEF ShareAdd, world
  <2>3. /\ pending' \subseteq AuditActions \X RideIds
        /\ \E q \in Request : RequestHolds(q)
                              /\ req' = [req EXCEPT ![w] = q]
    <3>1. \A x \in add : OwnerOf[x] = req[w].user
          BY <1>1, <2>1
    <3>2. \A s \in drop : shares[s].state # "absent"
                           /\ shares[s].ride = req[w].ride
          BY <1>1, <2>1
    <3>. QED BY <1>1, <2>2, <3>1, <3>2, LoopStep
  <2>4. PICK q \in Request : RequestHolds(q) /\ req' = [req EXCEPT ![w] = q]
        BY <2>3
  <2>5. TypeOK'
    <3>1. shares' \in [ShareIds -> ShareRow]
          BY <1>1, <2>2 DEF TypeOK, ShareRow
    <3>2. req' \in [Workers -> Request]
          BY <2>4 DEF TypeOK
    <3>. QED BY <2>2, <2>3, <3>1, <3>2 DEF TypeOK
  <2>6. Keeps
        BY <2>2 DEF Keeps, TypeOK
  <2>7. \A x \in Workers : RequestHolds(req[x])'
        BY <2>4, <2>6, RequestKept, WorkerKept DEF LocalsHold
  <2>8. LocalsHold' /\ LastIsRecorded'
        BY <2>2, <2>7 DEF LocalsHold, LastIsRecorded
  <2>9. SharesOwned'
        BY <1>1, <2>2 DEF SharesOwned, TypeOK
  <2>. QED BY <2>5, <2>8, <2>9
<1>5. ASSUME NEW t \in ShareIds, ShareDrop(w, t)
      PROVE  IInv'
  <2>1. PICK add \in SUBSET Contacts, drop \in SUBSET ShareIds :
          add = {} /\ drop = req[w].drop \ {t}
        BY <1>2
  <2>2. /\ Loop(w, add, drop)
        /\ t \in req[w].drop
        /\ shares' = [shares EXCEPT ![t].state =
                        IF @ = "deleted" THEN @ ELSE "ended"]
        /\ UNCHANGED <<rides, recorded, fresh, trips, log, sweep, contacts,
                       active, suspended, cut, faults>>
        BY <1>5, <2>1 DEF ShareDrop, world
  <2>3. /\ pending' \subseteq AuditActions \X RideIds
        /\ \E q \in Request : RequestHolds(q)
                              /\ req' = [req EXCEPT ![w] = q]
        BY <1>1, <2>1, <2>2, LoopStep
  <2>4. PICK q \in Request : RequestHolds(q) /\ req' = [req EXCEPT ![w] = q]
        BY <2>3
  <2>5. /\ shares' \in [ShareIds -> ShareRow]
        /\ \A s \in ShareIds : /\ shares'[s].ride = shares[s].ride
                               /\ shares'[s].contact = shares[s].contact
        /\ \A s \in ShareIds : s # t => shares'[s].state = shares[s].state
        /\ shares[t].state = "deleted" => shares'[t].state = "deleted"
        /\ shares'[t].state \in {"deleted", "ended"}
    <3>1. CASE shares[t].state = "deleted"
          BY <2>2, <3>1 DEF TypeOK, ShareRow
    <3>2. CASE shares[t].state # "deleted"
          BY <2>2, <3>2 DEF TypeOK, ShareRow
    <3>. QED BY <3>1, <3>2
  <2>6. TypeOK'
    <3>1. req' \in [Workers -> Request]
          BY <2>4 DEF TypeOK
    <3>. QED BY <2>2, <2>3, <2>5, <3>1 DEF TypeOK
  <2>7. Keeps
        BY <2>2, <2>5 DEF Keeps
  <2>8. \A x \in Workers : RequestHolds(req[x])'
        BY <2>4, <2>7, RequestKept, WorkerKept DEF LocalsHold
  <2>9. LocalsHold' /\ LastIsRecorded'
        BY <2>2, <2>8 DEF LocalsHold, LastIsRecorded
  <2>10. SharesOwned'
    <3>1. shares[t].state \in {"live", "ended", "deleted"}
          BY <1>1, <2>2 DEF TypeOK, ShareRow
    <3>. QED BY <2>2, <2>5, <3>1 DEF SharesOwned
  <2>. QED BY <2>6, <2>9, <2>10
<1>. QED BY <1>3, <1>4, <1>5

\* endStaleRides: only rides that were started are ended.
LEMMA SweepStepKeeps ==
  ASSUME IInv, SweepStep \/ FailSweep
  PROVE  IInv'
<1>. USE NoneIsNothing DEF IInv
<1>1. CASE SweepSelect
  <2>1. PICK todo \in SUBSET RideIds :
          /\ todo = {r \in RideIds : IsActive(r) /\ r \notin fresh}
          /\ sweep' = [SweepIdle EXCEPT !.pc = "update", !.todo = todo]
        BY <1>1 DEF SweepSelect
  <2>2. UNCHANGED <<tables, log, pending, req, contacts, active, suspended,
                    cut, faults>>
        BY <1>1 DEF SweepSelect, audits, world
  <2>3. TypeOK'
        BY <2>1, <2>2 DEF TypeOK, tables, Sweep, SweepIdle
  <2>4. Keeps
        BY <2>2 DEF Keeps, tables
  <2>5. \A x \in Workers : RequestHolds(req[x])'
        BY <2>2, <2>4, OthersKept DEF LocalsHold
  <2>6. LocalsHold' /\ LastIsRecorded' /\ SharesOwned'
        BY <2>1, <2>2, <2>5 DEF LocalsHold, LastIsRecorded, SharesOwned,
                                tables, IsActive, SweepIdle
  <2>. QED BY <2>3, <2>6
<1>2. ASSUME NEW r \in RideIds, SweepUpdate(r)
      PROVE  IInv'
  <2>1. /\ rides' = Completed(r, "auto_timeout")
        /\ sweep' = [sweep EXCEPT !.pc = "unshare", !.todo = @ \ {r}, !.cur = r]
        /\ UNCHANGED <<recorded, fresh, shares, trips, log, pending, req,
                       contacts, active, suspended, cut, faults>>
        /\ rides[r].status # "absent"
        BY <1>2 DEF SweepUpdate, audits, world, LocalsHold
  <2>2. /\ rides' \in [RideIds -> RideRow]
        /\ \A x \in RideIds :
             rides'[x].status = "absent" <=> rides'[x].rider = None
        /\ \A x \in RideIds :
             rides[x].status # "absent" => rides'[x].status # "absent"
        /\ Keeps /\ LastIsRecorded' /\ SharesOwned'
        BY <2>1, CompletedKeeps
  <2>3. TypeOK'
        BY <2>1, <2>2 DEF TypeOK, Sweep
  <2>4. \A x \in Workers : RequestHolds(req[x])'
        BY <2>1, <2>2, OthersKept DEF LocalsHold
  <2>5. LocalsHold'
        BY <2>1, <2>2, <2>4 DEF LocalsHold, TypeOK, Sweep
  <2>. QED BY <2>2, <2>3, <2>5
<1>3. CASE SweepUnshare
  <2>1. /\ sweep.cur \in RideIds
        /\ shares' = Unshared(sweep.cur)
        /\ pending' = pending \cup {<<"ride.auto_ended", sweep.cur>>}
        /\ sweep' = IF sweep.todo = {} THEN SweepIdle
                    ELSE [sweep EXCEPT !.pc = "update", !.cur = None]
        /\ UNCHANGED <<rides, recorded, fresh, trips, log, req, contacts,
                       active, suspended, cut, faults>>
        BY <1>3 DEF SweepUnshare, Audit, world, LocalsHold
  <2>2. shares' \in [ShareIds -> ShareRow] /\ Keeps /\ SharesOwned'
        BY <2>1, UnsharedKeeps
  <2>3. /\ sweep' \in Sweep /\ sweep'.pc # "unshare"
        /\ sweep'.todo \subseteq sweep.todo
        BY <2>1 DEF TypeOK, Sweep, SweepIdle
  <2>4. TypeOK'
    <3>1. pending' \subseteq AuditActions \X RideIds
          BY <2>1 DEF TypeOK, AuditActions
    <3>. QED BY <2>1, <2>2, <2>3, <3>1 DEF TypeOK
  <2>5. \A x \in Workers : RequestHolds(req[x])'
        BY <2>1, <2>2, OthersKept DEF LocalsHold
  <2>6. LocalsHold' /\ LastIsRecorded'
        BY <2>1, <2>3, <2>5 DEF LocalsHold, LastIsRecorded
  <2>. QED BY <2>2, <2>4, <2>6
<1>4. CASE FailSweep
  <2>1. /\ sweep' = SweepIdle
        /\ UNCHANGED <<tables, log, pending, req, contacts, active, suspended,
                       cut>>
        BY <1>4 DEF FailSweep, audits, world
  <2>2. faults' \in 0..MaxFaults
        BY <1>4, FaultsAssumption DEF FailSweep, TypeOK
  <2>3. TypeOK'
        BY <2>1, <2>2 DEF TypeOK, tables, Sweep, SweepIdle
  <2>4. Keeps
        BY <2>1 DEF Keeps, tables
  <2>5. \A x \in Workers : RequestHolds(req[x])'
        BY <2>1, <2>4, OthersKept DEF LocalsHold
  <2>6. LocalsHold' /\ LastIsRecorded' /\ SharesOwned'
        BY <2>1, <2>5 DEF LocalsHold, LastIsRecorded, SharesOwned, tables,
                          SweepIdle
  <2>. QED BY <2>3, <2>6
<1>. QED BY <1>1, <1>2, <1>3, <1>4 DEF SweepStep

\* The audit writes and the changes other components make.
LEMMA OtherStep ==
  ASSUME IInv,
         \/ \E row \in pending : AuditWrite(row) \/ LoseAudit(row)
         \/ \E r \in RideIds : GoStale(r)
         \/ \E v \in Vehicles : RevokeVehicle(v)
         \/ \E d \in Drivers : Suspend(d)
  PROVE  IInv'
<1>. USE DEF IInv, tables, world, audits
<1>1. UNCHANGED <<rides, recorded, shares, trips, contacts, req, sweep>>
      BY DEF AuditWrite, LoseAudit, GoStale, RevokeVehicle, Suspend
<1>2. TypeOK'
  <2>1. CASE \E row \in pending : AuditWrite(row) \/ LoseAudit(row)
        BY <2>1, FaultsAssumption DEF TypeOK, AuditWrite, LoseAudit
  <2>2. CASE \E r \in RideIds : GoStale(r)
        BY <2>2 DEF TypeOK, GoStale
  <2>3. CASE \E v \in Vehicles : RevokeVehicle(v)
        BY <2>3 DEF TypeOK, RevokeVehicle
  <2>4. CASE \E d \in Drivers : Suspend(d)
        BY <2>4 DEF TypeOK, Suspend
  <2>. QED BY <2>1, <2>2, <2>3, <2>4
<1>3. Keeps
      BY <1>1 DEF Keeps
<1>4. \A x \in Workers : RequestHolds(req[x])'
      BY <1>1, <1>3, OthersKept DEF LocalsHold
<1>5. LocalsHold' /\ LastIsRecorded' /\ SharesOwned'
      BY <1>1, <1>4 DEF LocalsHold, LastIsRecorded, SharesOwned
<1>. QED BY <1>2, <1>5

\* A contact that is removed takes its shares with it.
LEMMA RemoveContactStep ==
  ASSUME IInv, NEW c \in Contacts, RemoveContact(c)
  PROVE  IInv'
<1>. USE NoneIsNothing DEF IInv
<1>1. /\ contacts' = contacts \ {c}
      /\ shares' = [s \in ShareIds |->
                     IF shares[s].contact = c
                     THEN [shares[s] EXCEPT !.state = "deleted"]
                     ELSE shares[s]]
      /\ UNCHANGED <<rides, recorded, fresh, trips, log, pending, req, sweep,
                     active, suspended, cut, faults>>
      BY DEF RemoveContact, audits
<1>2. \A s \in ShareIds :
        /\ shares'[s] \in ShareRow
        /\ shares'[s].ride = shares[s].ride
        /\ shares'[s].contact = shares[s].contact
        /\ \/ shares'[s].state = "deleted"
           \/ shares'[s].state = shares[s].state /\ shares[s].contact # c
      BY <1>1 DEF TypeOK, ShareRow
<1>3. TypeOK'
  <2>1. shares' \in [ShareIds -> ShareRow]
        BY <1>1, <1>2
  <2>. QED BY <1>1, <2>1 DEF TypeOK
<1>4. Keeps
      BY <1>1, <1>2 DEF Keeps
<1>5. \A x \in Workers : RequestHolds(req[x])'
      BY <1>1, <1>4, OthersKept DEF LocalsHold
<1>6. LocalsHold' /\ LastIsRecorded'
      BY <1>1, <1>5 DEF LocalsHold, LastIsRecorded
<1>7. SharesOwned'
      BY <1>1, <1>2 DEF SharesOwned
<1>. QED BY <1>3, <1>6, <1>7

\* A crash forgets the requests and what they remembered.
LEMMA CrashStep ==
  ASSUME IInv, Crash
  PROVE  IInv'
<1>. USE DEF IInv, tables, world
<1>1. /\ req' = [w \in Workers |-> Idle] /\ sweep' = SweepIdle /\ pending' = {}
      /\ UNCHANGED <<rides, recorded, fresh, shares, trips, log, contacts,
                     active, suspended>>
      BY DEF Crash
<1>c. cut' \subseteq RideIds
  <2>1. \A x \in Workers :
          req[x].pc \in {"endUnshare", "endTrips"} => req[x].ride \in RideIds
        BY DEF LocalsHold, RequestHolds
  <2>. QED BY <2>1 DEF Crash, HalfEnded, TypeOK
<1>2. faults' \in 0..MaxFaults
      BY FaultsAssumption DEF Crash, TypeOK
<1>3. req' \in [Workers -> Request]
      BY <1>1, IdleHolds
<1>4. TypeOK'
      BY <1>1, <1>c, <1>2, <1>3 DEF TypeOK, Sweep, SweepIdle
<1>5. \A x \in Workers : RequestHolds(req[x])'
  <2>. TAKE x \in Workers
  <2>1. req'[x] = Idle
        BY <1>1
  <2>. QED BY <2>1 DEF RequestHolds, Idle
<1>6. LocalsHold' /\ LastIsRecorded' /\ SharesOwned'
      BY <1>1, <1>5 DEF LocalsHold, LastIsRecorded, SharesOwned, SweepIdle
<1>. QED BY <1>4, <1>6

-----------------------------------------------------------------------------
(* Results.                                                                *)

\* The invariant holds initially.
LEMMA InitIInv == Init => IInv
<1>. SUFFICES ASSUME Init PROVE IInv
     OBVIOUS
<1>1. /\ NoRide \in RideRow /\ NoShare \in ShareRow /\ SweepIdle \in Sweep
      BY DEF NoRide, RideRow, Statuses, NoShare, ShareRow, SweepIdle, Sweep
<1>2. TypeOK
      BY <1>1, IdleHolds, FaultsAssumption DEF Init, TypeOK
<1>3. LocalsHold
  <2>1. \A w \in Workers : RequestHolds(req[w])
    <3>. TAKE w \in Workers
    <3>1. req[w] = Idle
          BY DEF Init
    <3>. QED BY <3>1 DEF RequestHolds, Idle
  <2>. QED BY <2>1 DEF Init, LocalsHold, NoRide, SweepIdle
<1>4. LastIsRecorded /\ SharesOwned
      BY DEF Init, LastIsRecorded, SharesOwned, NoRide, NoShare
<1>. QED BY <1>2, <1>3, <1>4 DEF IInv

\* Every step keeps it.
LEMMA NextIInv == IInv /\ [Next]_vars => IInv'
<1>. SUFFICES ASSUME IInv, [Next]_vars PROVE IInv'
     OBVIOUS
<1>1. ASSUME NEW w \in Workers, Arrive(w) PROVE IInv'
      BY <1>1, ArriveStep
<1>2. ASSUME NEW w \in Workers, Proceed(w) PROVE IInv'
  <2>1. CASE StartOverlap(w) \/ ShareContacts(w) \/ ShareAddRejected(w)
        BY <2>1, ReadStep
  <2>2. CASE \E r \in RideIds : StartInsert(w, r)
        BY <2>2, StartInsertStep
  <2>3. CASE PingInsert(w) \/ PingUpdate(w)
        BY <2>3, PingStep
  <2>4. CASE EndUpdate(w) \/ EndUnshare(w) \/ EndTrips(w)
        BY <2>4, EndStep
  <2>5. CASE \/ ShareExisting(w)
             \/ \E c \in Contacts, s \in ShareIds : ShareAdd(w, c, s)
             \/ \E s \in ShareIds : ShareDrop(w, s)
        BY <2>5, ShareStep
  <2>. QED BY <1>2, <2>1, <2>2, <2>3, <2>4, <2>5 DEF Proceed
<1>3. CASE SweepStep
      BY <1>3, SweepStepKeeps
<1>4. CASE \E row \in pending : AuditWrite(row)
      BY <1>4, OtherStep
<1>5. CASE Environment
  <2>1. ASSUME NEW w \in Workers, Fail(w) PROVE IInv'
        BY <2>1, ReadStep
  <2>. QED BY <1>5, <2>1, OtherStep, RemoveContactStep, SweepStepKeeps,
              CrashStep DEF Environment
<1>6. CASE UNCHANGED vars
  <2>1. Keeps
        BY <1>6 DEF vars, Keeps
  <2>2. \A x \in Workers : RequestHolds(req[x])'
        BY <1>6, <2>1, OthersKept DEF vars, IInv, LocalsHold
  <2>. QED BY <1>6, <2>2 DEF vars, IInv, TypeOK, LocalsHold, LastIsRecorded,
                             SharesOwned
<1>. QED BY <1>1, <1>2, <1>3, <1>4, <1>5, <1>6 DEF Next

\* The invariant holds in every reachable state of every instance.
THEOREM Invariance == Spec => []IInv
BY InitIInv, NextIInv, PTL DEF Spec

\* Every table, request and counter keeps its type.
THEOREM TypeCorrect == Spec => []TypeOK
BY Invariance, PTL DEF IInv

\* The point a ride shows as its last was recorded for that ride.
THEOREM LastPointRecorded == Spec => []LastIsRecorded
BY Invariance, PTL DEF IInv

\* A ride is only ever shared with existing contacts of its rider.
THEOREM SharedWithOwnContacts == Spec => []SharesOwned
BY Invariance, PTL DEF IInv

\* What a request learned of its ride, contacts and shares stays true until
\* it is done.
THEOREM RequestsNotMisled == Spec => []LocalsHold
BY Invariance, PTL DEF IInv

\* One step never wakes an ended ride and never gives it to somebody else: of
\* the statements that write rides, the insert takes an id nobody has, ping
\* writes its position only, and the two ends write status and reason.
LEMMA EndedStep ==
  ASSUME IInv, [Next]_vars, NEW r \in CompletedRides
  PROVE  /\ rides'[r].status = "completed"
         /\ \A col \in {"rider", "driver", "vehicle"} :
              rides'[r][col] = rides[r][col]
<1>. DEFINE Ended == /\ rides'[r].status = "completed"
                     /\ \A col \in {"rider", "driver", "vehicle"} :
                          rides'[r][col] = rides[r][col]
<1>1. /\ r \in RideIds /\ rides[r].status = "completed"
      /\ rides \in [RideIds -> RideRow]
      BY DEF CompletedRides, IInv, TypeOK
<1>2. CASE rides' = rides
      BY <1>1, <1>2
<1>3. ASSUME NEW w \in Workers, NEW x \in RideIds, StartInsert(w, x)
      PROVE  Ended
      BY <1>1, <1>3 DEF StartInsert
<1>4. ASSUME NEW w \in Workers, PingUpdate(w)
      PROVE  Ended
      BY <1>1, <1>4 DEF PingUpdate, RideRow
<1>5. ASSUME NEW x \in RideIds, NEW reason, rides' = Completed(x, reason)
      PROVE  Ended
      BY <1>1, <1>5 DEF Completed, RideRow
<1>6. ASSUME NEW w \in Workers, EndUpdate(w)
      PROVE  Ended
  <2>1. req[w].ride \in RideIds
        BY <1>6 DEF EndUpdate, At, IInv, LocalsHold, RequestHolds
  <2>2. rides' = Completed(req[w].ride, "rider")
        BY <1>6 DEF EndUpdate
  <2>. QED BY <1>5, <2>1, <2>2
<1>7. ASSUME NEW x \in RideIds, SweepUpdate(x)
      PROVE  Ended
      BY <1>5, <1>7 DEF SweepUpdate
<1>8. ASSUME NEW w \in Workers, Arrive(w)
      PROVE  rides' = rides
      BY <1>8 DEF Arrive, StartSelect, PingSelect, EndSelect, ShareSelect,
                  tables
<1>9. ASSUME NEW w \in Workers, Proceed(w)
      PROVE  Ended
  <2>1. CASE \/ StartOverlap(w) \/ PingInsert(w) \/ EndUnshare(w)
             \/ EndTrips(w) \/ ShareContacts(w) \/ ShareExisting(w)
             \/ \E c \in Contacts, s \in ShareIds : ShareAdd(w, c, s)
             \/ ShareAddRejected(w)
             \/ \E s \in ShareIds : ShareDrop(w, s)
        BY <1>2, <2>1 DEF StartOverlap, PingInsert, EndUnshare, EndTrips,
                          ShareContacts, ShareExisting, ShareAdd,
                          ShareAddRejected, ShareDrop, tables
  <2>. QED BY <1>3, <1>4, <1>6, <1>9, <2>1 DEF Proceed
<1>10. CASE SweepStep
      BY <1>2, <1>7, <1>10 DEF SweepStep, SweepSelect, SweepUnshare, tables
<1>11. CASE \/ \E row \in pending : AuditWrite(row)
            \/ Environment
      BY <1>2, <1>11 DEF AuditWrite, Environment, GoStale, RemoveContact,
                         RevokeVehicle, Suspend, Fail, FailSweep, LoseAudit,
                         Crash, tables
<1>12. CASE UNCHANGED vars
      BY <1>2, <1>12 DEF vars
<1>. QED BY <1>2, <1>8, <1>9, <1>10, <1>11, <1>12 DEF Next

\* Once completed a ride stays completed and keeps its rider, its driver and
\* its vehicle, whichever requests are still under way.
THEOREM EndedForGood == Spec => EndedRideStaysEnded
<1>1. IInv /\ [Next]_vars
        => [\A r \in CompletedRides :
              /\ rides'[r].status = "completed"
              /\ \A col \in {"rider", "driver", "vehicle"} :
                   rides'[r][col] = rides[r][col]]_vars
      BY EndedStep
<1>. QED BY <1>1, Invariance, PTL DEF Spec, EndedRideStaysEnded

-----------------------------------------------------------------------------
(* What the cron job remembers of its select.                              *)

\* A ride the job is about to end is stale, or was pinged since the select.
SweepHolds == sweep.todo \cap fresh \subseteq sweep.pinged

\* Steps that end with the list of the job no longer and the rides no fresher.
LEMMA SweepUndisturbed ==
  ASSUME SweepHolds, sweep'.todo \subseteq sweep.todo, fresh' \subseteq fresh,
         sweep'.todo = {} \/ sweep'.pinged = sweep.pinged
  PROVE  SweepHolds'
BY DEF SweepHolds

\* A request makes a ride on the list of the job fresh only by a ping.
LEMMA RequestsSweep ==
  ASSUME IInv, SweepHolds, NEW w \in Workers, Arrive(w) \/ Proceed(w)
  PROVE  SweepHolds'
<1>. USE DEF IInv, TypeOK
<1>2. CASE \E r \in RideIds : StartInsert(w, r)
  <2>1. PICK r \in RideIds : StartInsert(w, r)
        BY <1>2
  <2>2. r \notin sweep.todo /\ sweep' = sweep /\ fresh' = fresh \cup {r}
        BY <2>1 DEF StartInsert, LocalsHold
  <2>. QED BY <2>2 DEF SweepHolds
<1>3. CASE PingUpdate(w)
  <2>1. /\ sweep'.todo = sweep.todo
        /\ sweep'.pinged = sweep.pinged \cup (sweep.todo \cap {req[w].ride})
        /\ fresh' = fresh \cup {req[w].ride}
        BY <1>3 DEF PingUpdate, PingedBehind, Sweep
  <2>. QED BY <2>1 DEF SweepHolds
<1>4. CASE EndUpdate(w)
      BY <1>4, SweepUndisturbed DEF EndUpdate
<1>5. CASE UNCHANGED <<fresh, sweep>>
      BY <1>5, SweepUndisturbed
<1>6. CASE \/ StartOverlap(w) \/ PingInsert(w) \/ EndUnshare(w)
           \/ EndTrips(w) \/ ShareContacts(w) \/ ShareExisting(w)
           \/ \E c \in Contacts, s \in ShareIds : ShareAdd(w, c, s)
           \/ ShareAddRejected(w)
           \/ \E s \in ShareIds : ShareDrop(w, s)
      BY <1>5, <1>6 DEF StartOverlap, PingInsert, EndUnshare, EndTrips,
                        ShareContacts, ShareExisting, ShareAdd,
                        ShareAddRejected, ShareDrop, tables
<1>7. CASE Arrive(w)
      BY <1>5, <1>7 DEF Arrive, StartSelect, PingSelect, EndSelect, ShareSelect,
                        tables
<1>. QED BY <1>2, <1>3, <1>4, <1>6, <1>7 DEF Proceed

\* The job itself, and everything else.
LEMMA OtherSweep ==
  ASSUME IInv, SweepHolds,
         \/ SweepStep \/ Environment \/ \E row \in pending : AuditWrite(row)
         \/ UNCHANGED vars
  PROVE  SweepHolds'
<1>. USE DEF IInv, TypeOK
<1>1. CASE SweepSelect
      BY <1>1 DEF SweepSelect, SweepHolds, SweepIdle, tables
<1>2. ASSUME NEW r \in RideIds, SweepUpdate(r) PROVE SweepHolds'
      BY <1>2, SweepUndisturbed DEF SweepUpdate, Sweep
<1>3. CASE SweepUnshare
  <2>1. /\ sweep'.todo = sweep.todo /\ fresh' = fresh
        /\ sweep'.todo = {} \/ sweep'.pinged = sweep.pinged
    <3>1. CASE sweep.todo = {}
          BY <1>3, <3>1 DEF SweepUnshare, SweepIdle
    <3>2. CASE sweep.todo # {}
          BY <1>3, <3>2 DEF SweepUnshare, Sweep
    <3>. QED BY <3>1, <3>2
  <2>. QED BY <2>1, SweepUndisturbed
<1>4. CASE FailSweep \/ Crash
      BY <1>4, SweepUndisturbed DEF FailSweep, Crash, SweepIdle, tables
<1>5. CASE UNCHANGED <<fresh, sweep>>
      BY <1>5, SweepUndisturbed
<1>6. CASE \E r \in RideIds : GoStale(r)
      BY <1>6, SweepUndisturbed DEF GoStale
<1>. QED BY <1>1, <1>2, <1>3, <1>4, <1>5, <1>6
         DEF Environment, SweepStep, AuditWrite, RemoveContact, RevokeVehicle,
             Suspend, Fail, LoseAudit, tables, vars

LEMMA NextSweep == IInv /\ SweepHolds /\ [Next]_vars => SweepHolds'
BY RequestsSweep, OtherSweep DEF Next

\* Of the steps that end rides only SweepUpdate gives that reason.
LEMMA SweptStep ==
  ASSUME IInv, SweepHolds, [Next]_vars, NEW r \in fresh,
         rides'[r].reason = "auto_timeout", rides[r].reason # "auto_timeout"
  PROVE  r \in sweep.pinged
<1>. USE DEF IInv, TypeOK
<1>1. \E x \in RideIds : SweepUpdate(x)
  <2>1. r \in RideIds /\ rides[r] \in RideRow /\ rides' # rides
        OBVIOUS
  <2>2. ASSUME NEW w \in Workers, NEW x \in RideIds, StartInsert(w, x)
        PROVE  FALSE
        BY <2>1, <2>2 DEF StartInsert, NoRide
  <2>3. ASSUME NEW w \in Workers, PingUpdate(w) PROVE FALSE
        BY <2>1, <2>3 DEF PingUpdate, RideRow
  <2>4. ASSUME NEW w \in Workers, EndUpdate(w) PROVE FALSE
        BY <2>1, <2>4 DEF EndUpdate, Completed, RideRow
  <2>5. ASSUME NEW w \in Workers, Arrive(w) PROVE FALSE
        BY <2>1, <2>5 DEF Arrive, StartSelect, PingSelect, EndSelect,
                          ShareSelect, tables
  <2>6. ASSUME NEW w \in Workers, Proceed(w) PROVE FALSE
    <3>1. CASE \/ StartOverlap(w) \/ PingInsert(w) \/ EndUnshare(w)
               \/ EndTrips(w) \/ ShareContacts(w) \/ ShareExisting(w)
               \/ \E c \in Contacts, s \in ShareIds : ShareAdd(w, c, s)
               \/ ShareAddRejected(w)
               \/ \E s \in ShareIds : ShareDrop(w, s)
          BY <2>1, <3>1 DEF StartOverlap, PingInsert, EndUnshare, EndTrips,
                            ShareContacts, ShareExisting, ShareAdd,
                            ShareAddRejected, ShareDrop, tables
    <3>. QED BY <2>2, <2>3, <2>4, <2>6, <3>1 DEF Proceed
  <2>7. CASE Environment \/ \E row \in pending : AuditWrite(row)
        BY <2>1, <2>7 DEF AuditWrite, Environment, GoStale, RemoveContact,
                          RevokeVehicle, Suspend, Fail, FailSweep, LoseAudit,
                          Crash, tables
  <2>. QED BY <2>1, <2>5, <2>6, <2>7
           DEF Next, vars, SweepStep, SweepSelect, SweepUnshare, tables
<1>2. PICK x \in RideIds : SweepUpdate(x)
      BY <1>1
<1>3. x = r
  <2>1. r \in RideIds
        OBVIOUS
  <2>2. x # r => rides'[r] = rides[r]
        BY <1>2, <2>1 DEF SweepUpdate, Completed
  <2>. QED BY <2>2
<1>. QED BY <1>2, <1>3 DEF SweepUpdate, SweepHolds

\* However long the loop of the job takes, it ends no fresh ride but one that was
\* pinged after the job selected it.
THEOREM OnlyPingedSwept == Spec => OnlyStaleSwept
<1>1. Init => SweepHolds
      BY DEF Init, SweepHolds
<1>2. IInv /\ SweepHolds /\ [Next]_vars
        => [\A r \in fresh :
              (rides'[r].reason = "auto_timeout" /\ rides[r].reason # "auto_timeout")
                => r \in sweep.pinged]_vars
      BY SweptStep
<1>. QED BY <1>1, <1>2, NextSweep, Invariance, PTL DEF Spec, OnlyStaleSwept

-----------------------------------------------------------------------------
(* The results.  An end is on the trail from its audit row on.             *)

Ended == {r \in RideIds : <<"ride.ended", r>> \in log \cup pending}

\* An id that newId() has not handed out yet has a row nowhere.
Unborn ==
  \A r \in RideIds : rides[r].status = "absent" => rides[r] = NoRide
                                                   /\ r \notin Ended

RInv == IInv /\ Unborn

-----------------------------------------------------------------------------
(* Which statements write a table.                                         *)

\* Four statements write rides.
LEMMA RidesWritten ==
  ASSUME [Next]_vars
  PROVE  \/ rides' = rides
         \/ \E w \in Workers, r \in RideIds : StartInsert(w, r)
         \/ \E w \in Workers : PingUpdate(w) \/ EndUpdate(w)
         \/ \E r \in RideIds : SweepUpdate(r)
<1>. DEFINE Goal == \/ rides' = rides
                    \/ \E w \in Workers, r \in RideIds : StartInsert(w, r)
                    \/ \E w \in Workers : PingUpdate(w) \/ EndUpdate(w)
                    \/ \E r \in RideIds : SweepUpdate(r)
<1>1. ASSUME NEW w \in Workers, Arrive(w) PROVE Goal
      BY <1>1 DEF Arrive, StartSelect, PingSelect, EndSelect, ShareSelect,
                  tables
<1>2. ASSUME NEW w \in Workers, Proceed(w) PROVE Goal
      BY <1>2 DEF Proceed, StartOverlap, PingInsert, EndUnshare, EndTrips,
                  ShareContacts, ShareExisting, ShareAdd, ShareAddRejected,
                  ShareDrop, tables
<1>3. CASE SweepStep
      BY <1>3 DEF SweepStep, SweepSelect, SweepUnshare, tables
<1>4. CASE Environment \/ \E row \in pending : AuditWrite(row)
      BY <1>4 DEF AuditWrite, Environment, GoStale, RemoveContact,
                  RevokeVehicle, Suspend, Fail, FailSweep, LoseAudit, Crash,
                  tables
<1>5. CASE UNCHANGED vars
      BY <1>5 DEF vars
<1>. QED BY <1>1, <1>2, <1>3, <1>4, <1>5 DEF Next

\* Only end counts a trip and writes its audit row, for the ride it ends.
LEMMA EndsWritten ==
  ASSUME [Next]_vars
  PROVE  \/ trips' = trips /\ Ended' \subseteq Ended
         \/ \E w \in Workers : EndTrips(w)
<1>. DEFINE Goal == \/ trips' = trips /\ Ended' \subseteq Ended
                    \/ \E w \in Workers : EndTrips(w)
<1>1. ASSUME NEW w \in Workers, Arrive(w) PROVE Goal
      BY <1>1 DEF Arrive, StartSelect, PingSelect, EndSelect, ShareSelect,
                  tables, audits, Ended
<1>2. ASSUME NEW w \in Workers, Proceed(w) PROVE Goal
  <2>1. CASE \/ ShareExisting(w)
             \/ \E c \in Contacts, s \in ShareIds : ShareAdd(w, c, s)
             \/ \E s \in ShareIds : ShareDrop(w, s)
    <3>1. trips' = trips /\ log' = log
          BY <2>1 DEF ShareExisting, ShareAdd, ShareDrop, tables
    <3>2. pending' \subseteq pending
                     \cup {<<"ride.shares.updated", req[w].ride>>}
          BY <2>1 DEF ShareExisting, ShareAdd, ShareDrop, Loop, Audit
    <3>. QED BY <3>1, <3>2 DEF Ended
  <2>2. CASE \/ StartOverlap(w) \/ PingInsert(w) \/ PingUpdate(w)
             \/ EndUpdate(w) \/ EndUnshare(w)
             \/ ShareContacts(w) \/ ShareAddRejected(w)
        BY <2>2 DEF StartOverlap, PingInsert, PingUpdate, EndUpdate, EndUnshare,
                    ShareContacts, ShareAddRejected, tables, audits, Ended
  <2>3. CASE \E r \in RideIds : StartInsert(w, r)
        BY <2>3 DEF StartInsert, Audit, Ended
  <2>. QED BY <1>2, <2>1, <2>2, <2>3 DEF Proceed
<1>3. CASE SweepStep
      BY <1>3 DEF SweepStep, SweepSelect, SweepUpdate, SweepUnshare, Audit,
                  tables, audits, Ended
<1>4. CASE Environment \/ \E row \in pending : AuditWrite(row)
      BY <1>4 DEF AuditWrite, Environment, GoStale, RemoveContact,
                  RevokeVehicle, Suspend, Fail, FailSweep, LoseAudit, Crash,
                  tables, audits, Ended
<1>5. CASE UNCHANGED vars
      BY <1>5 DEF vars, Ended
<1>. QED BY <1>1, <1>2, <1>3, <1>4, <1>5 DEF Next

\* Of the rides a step writes, all but the one that begins were there before.
LEMMA RideRowKept ==
  ASSUME IInv, [Next]_vars, NEW r \in RideIds,
         ~\E w \in Workers : StartInsert(w, r)
  PROVE  /\ rides'[r].rider = rides[r].rider
         /\ rides'[r].driver = rides[r].driver
         /\ rides'[r].vehicle = rides[r].vehicle
         /\ rides[r].status = "absent" => rides'[r] = rides[r]
         /\ rides'[r].status = "absent" => rides[r].status = "absent"
<1>. DEFINE Goal == /\ rides'[r].rider = rides[r].rider
                    /\ rides'[r].driver = rides[r].driver
                    /\ rides'[r].vehicle = rides[r].vehicle
                    /\ rides[r].status = "absent" => rides'[r] = rides[r]
                    /\ rides'[r].status = "absent"
                         => rides[r].status = "absent"
<1>1. rides \in [RideIds -> RideRow]
      BY DEF IInv, TypeOK
<1>2. ASSUME NEW w \in Workers, NEW x \in RideIds, StartInsert(w, x) PROVE Goal
      BY <1>1, <1>2 DEF StartInsert
<1>3. ASSUME NEW w \in Workers, PingUpdate(w) PROVE Goal
  <2>1. req[w].ride \in RideIds /\ rides[req[w].ride].status # "absent"
        BY <1>3, NoneIsNothing DEF PingUpdate, At, IInv, LocalsHold, RequestHolds
  <2>. QED BY <1>1, <1>3, <2>1 DEF PingUpdate, RideRow
<1>4. ASSUME NEW w \in Workers, EndUpdate(w) PROVE Goal
  <2>1. req[w].ride \in RideIds /\ rides[req[w].ride].status # "absent"
        BY <1>4, NoneIsNothing DEF EndUpdate, At, IInv, LocalsHold, RequestHolds
  <2>. QED BY <1>1, <1>4, <2>1 DEF EndUpdate, Completed, RideRow
<1>5. ASSUME NEW x \in RideIds, SweepUpdate(x) PROVE Goal
  <2>1. rides[x].status # "absent"
        BY <1>5 DEF SweepUpdate, IInv, LocalsHold
  <2>. QED BY <1>1, <1>5, <2>1 DEF SweepUpdate, Completed, RideRow
<1>. QED BY <1>2, <1>3, <1>4, <1>5, RidesWritten

-----------------------------------------------------------------------------
(* The invariant.                                                          *)

LEMMA InitRInv == Init => RInv
BY InitIInv DEF RInv, Unborn, Init, Ended

LEMMA NextRInv == RInv /\ [Next]_vars => RInv'
<1>. SUFFICES ASSUME RInv, [Next]_vars PROVE RInv'
     OBVIOUS
<1>1. IInv /\ IInv' /\ Unborn
      BY NextIInv DEF RInv
<1>2. ASSUME NEW r \in RideIds, rides'[r].status = "absent"
      PROVE  rides'[r] = NoRide /\ r \notin Ended'
  <2>1. ~\E w \in Workers : StartInsert(w, r)
        BY <1>1, <1>2 DEF StartInsert, IInv, TypeOK, NoRide
  <2>2. rides[r].status = "absent" /\ rides'[r] = rides[r]
        BY <1>1, <1>2, <2>1, RideRowKept
  <2>3. r \notin Ended'
    <3>1. ASSUME NEW w \in Workers, EndTrips(w) PROVE r \notin Ended'
      <4>1. req[w].ride # r
            BY <1>1, <2>2, <3>1, NoneIsNothing
               DEF EndTrips, At, IInv, LocalsHold, RequestHolds
      <4>. QED BY <1>1, <2>2, <3>1, <4>1 DEF EndTrips, Audit, Ended, Unborn
    <3>. QED BY <1>1, <2>2, <3>1, EndsWritten DEF Unborn
  <2>. QED BY <1>1, <2>2, <2>3 DEF Unborn
<1>. QED BY <1>1, <1>2 DEF RInv, Unborn

THEOREM RidesInvariance == Spec => []RInv
BY InitRInv, NextRInv, PTL DEF Spec

-----------------------------------------------------------------------------
(* A barred vehicle takes no ride.                                         *)

\* A request for v that is not there yet arrives only if v is active and its
\* driver not suspended; nothing in the code takes either back.
LEMMA DrainedStays ==
  ASSUME IInv, [Next]_vars, NEW v \in Vehicles, Drained(v)
  PROVE  Drained(v)'
<1>. USE DEF IInv, TypeOK
<1>1. v \notin active' \/ DriverOf[v] \in suspended'
      BY DEF Drained, Next, Arrive, StartSelect, PingSelect, EndSelect,
             ShareSelect, Proceed, StartOverlap, StartInsert, PingInsert,
             PingUpdate, EndUpdate, EndUnshare, EndTrips, ShareContacts,
             ShareExisting, ShareAdd, ShareAddRejected, ShareDrop, SweepStep,
             SweepSelect, SweepUpdate, SweepUnshare, AuditWrite, Environment,
             GoStale, RemoveContact, RevokeVehicle, Suspend, Fail, FailSweep,
             LoseAudit, Crash, world, vars
<1>2. ASSUME NEW x \in Workers PROVE req'[x].vehicle # v
  <2>0. req[x].vehicle # v /\ req[x] \in Request /\ Idle.vehicle # v
        BY NoneIsNothing DEF Drained, Idle
  <2>1. ASSUME NEW w \in Workers, Arrive(w) PROVE req'[x].vehicle # v
    <3>1. ASSUME NEW u \in Users, NEW y \in Vehicles, StartSelect(w, u, y)
          PROVE  req'[x].vehicle # v
      <4>1. y # v
            BY <3>1 DEF StartSelect, Drained
      <4>. QED BY <2>0, <3>1, <4>1 DEF StartSelect, Accept, Idle
    <3>2. ASSUME NEW u \in Users, NEW r \in RideIds, NEW p \in Positions,
                 PingSelect(w, u, r, p)
          PROVE  req'[x].vehicle # v
          BY <2>0, <3>2 DEF PingSelect, Accept, Idle
    <3>3. ASSUME NEW u \in Users, NEW r \in RideIds, EndSelect(w, u, r)
          PROVE  req'[x].vehicle # v
          BY <2>0, <3>3 DEF EndSelect, Accept, Idle
    <3>4. ASSUME NEW u \in Users, NEW r \in RideIds,
                 NEW ids \in SUBSET Contacts, ShareSelect(w, u, r, ids)
          PROVE  req'[x].vehicle # v
          BY <2>0, <3>4 DEF ShareSelect, Accept, Idle
    <3>. QED BY <2>1, <3>1, <3>2, <3>3, <3>4 DEF Arrive
  <2>2. ASSUME NEW w \in Workers, Proceed(w) PROVE req'[x].vehicle # v
    <3>0. req[w].vehicle # v /\ req[w] \in Request
          BY DEF Drained
    <3>1. CASE \/ StartOverlap(w) \/ PingInsert(w) \/ PingUpdate(w)
               \/ EndUpdate(w) \/ EndUnshare(w) \/ EndTrips(w)
               \/ ShareAddRejected(w)
               \/ \E r \in RideIds : StartInsert(w, r)
      <4>1. \/ req' = [req EXCEPT ![w] = Idle]
            \/ \E pc \in Steps : req' = [req EXCEPT ![w].pc = pc]
            BY <3>1 DEF StartOverlap, PingInsert, PingUpdate, EndUpdate,
                        EndUnshare, EndTrips, ShareAddRejected, StartInsert,
                        Goto, Done, Steps
      <4>. QED BY <2>0, <3>0, <4>1 DEF Request
    <3>2. CASE ShareContacts(w)
          BY <2>0, <3>0, <3>2 DEF ShareContacts, Request
    <3>3. ASSUME NEW add, NEW drop, Loop(w, add, drop)
          PROVE  req'[x].vehicle # v
          BY <2>0, <3>0, <3>3 DEF Loop, Done, Request
    <3>. QED BY <2>2, <3>1, <3>2, <3>3
             DEF Proceed, ShareExisting, ShareAdd, ShareDrop
  <2>3. CASE SweepStep \/ Environment \/ UNCHANGED vars
             \/ \E row \in pending : AuditWrite(row)
        BY <2>0, <2>3 DEF SweepStep, SweepSelect, SweepUpdate, SweepUnshare,
             AuditWrite, Environment, GoStale, RemoveContact, RevokeVehicle,
             Suspend, Fail, FailSweep, LoseAudit, Crash, Done, vars
  <2>. QED BY <2>1, <2>2, <2>3 DEF Next
<1>. QED BY <1>1, <1>2 DEF Drained

\* Once a vehicle is revoked or its driver suspended, and the starts that had
\* passed the check are through, no ride begins on it, in any instance.
THEOREM BarredForGood == Spec => BarredVehicleTakesNoRide
<1>1. ASSUME RInv, [Next]_vars, NEW v \in Vehicles, Drained(v)
      PROVE  Drained(v)' /\ RidesOn(v)' = RidesOn(v)
  <2>1. Drained(v)'
        BY <1>1, DrainedStays DEF RInv
  <2>2. ASSUME NEW r \in RideIds
        PROVE  rides'[r].vehicle = v <=> rides[r].vehicle = v
    <3>1. ASSUME NEW w \in Workers, StartInsert(w, r)
          PROVE  rides'[r].vehicle # v /\ rides[r].vehicle # v
          BY <1>1, <3>1, NoneIsNothing
             DEF StartInsert, Drained, RInv, IInv, TypeOK, Unborn, NoRide
    <3>. QED BY <1>1, <3>1, RideRowKept DEF RInv
  <2>. QED BY <2>1, <2>2 DEF RidesOn
<1>2. RInv /\ [Next]_vars
        => [\A v \in Vehicles :
              Drained(v) => Drained(v)' /\ RidesOn(v)' = RidesOn(v)]_vars
      BY <1>1
<1>. QED BY <1>2, RidesInvariance, PTL DEF Spec, BarredVehicleTakesNoRide

-----------------------------------------------------------------------------
(* An ended ride gains no watcher.                                         *)

\* A share is only ever inserted by a setShares under way for its ride.
LEMMA LiveSharesKept ==
  ASSUME IInv, [Next]_vars, NEW r \in RideIds, ~Sharing(r)
  PROVE  LiveShares(r)' \subseteq LiveShares(r)
<1>. USE DEF IInv, TypeOK
<1>. DEFINE Goal == \A s \in ShareIds :
                      (shares'[s].state = "live" /\ shares'[s].ride = r)
                        => (shares[s].state = "live" /\ shares[s].ride = r)
<1>0. SUFFICES Goal
      BY DEF LiveShares
<1>1. CASE shares' = shares
      BY <1>1
<1>2. ASSUME NEW w \in Workers, NEW c \in Contacts, NEW t \in ShareIds,
             ShareAdd(w, c, t)
      PROVE  Goal
  <2>1. req[w].ride # r
        BY <1>2 DEF ShareAdd, At, Sharing
  <2>. QED BY <1>2, <2>1 DEF ShareAdd
<1>3. ASSUME NEW w \in Workers, NEW t \in ShareIds, ShareDrop(w, t)
      PROVE  Goal
      BY <1>3 DEF ShareDrop, ShareRow
<1>4. ASSUME NEW x, shares' = Unshared(x) PROVE Goal
      BY <1>4 DEF Unshared, LiveShares, ShareRow
<1>5. ASSUME NEW c \in Contacts, RemoveContact(c) PROVE Goal
      BY <1>5 DEF RemoveContact, ShareRow
<1>6. ASSUME NEW w \in Workers, Arrive(w) PROVE Goal
      BY <1>1, <1>6 DEF Arrive, StartSelect, PingSelect, EndSelect,
                        ShareSelect, tables
<1>7. ASSUME NEW w \in Workers, Proceed(w) PROVE Goal
  <2>1. CASE \/ StartOverlap(w) \/ PingInsert(w) \/ PingUpdate(w)
             \/ EndUpdate(w) \/ EndTrips(w) \/ ShareContacts(w)
             \/ ShareExisting(w) \/ ShareAddRejected(w)
             \/ \E x \in RideIds : StartInsert(w, x)
        BY <1>1, <2>1 DEF StartOverlap, PingInsert, PingUpdate, EndUpdate,
                          EndTrips, ShareContacts, ShareExisting,
                          ShareAddRejected, StartInsert, tables
  <2>2. CASE EndUnshare(w)
        BY <1>4, <2>2 DEF EndUnshare
  <2>. QED BY <1>2, <1>3, <1>7, <2>1, <2>2 DEF Proceed
<1>8. CASE SweepStep
      BY <1>1, <1>4, <1>8 DEF SweepStep, SweepSelect, SweepUpdate,
                              SweepUnshare, tables
<1>9. CASE Environment \/ \E row \in pending : AuditWrite(row)
      BY <1>1, <1>5, <1>9 DEF AuditWrite, Environment, GoStale, RevokeVehicle,
                              Suspend, Fail, FailSweep, LoseAudit, Crash,
                              tables
<1>10. CASE UNCHANGED vars
      BY <1>1, <1>10 DEF vars
<1>. QED BY <1>6, <1>7, <1>8, <1>9, <1>10 DEF Next

\* A setShares comes under way only for a ride that is active.
LEMMA NotSharedAgain ==
  ASSUME IInv, [Next]_vars, NEW r \in CompletedRides, ~Sharing(r)
  PROVE  ~Sharing(r)'
<1>. USE DEF IInv, TypeOK
<1>. DEFINE Setting(q) ==
       q.ride = r /\ q.pc \in {"shareContacts", "shareExisting", "shareLoop"}
<1>0. SUFFICES ASSUME NEW x \in Workers PROVE ~Setting(req'[x])
      BY DEF Sharing
<1>1. /\ \A y \in Workers : ~Setting(req[y]) /\ req[y] \in Request
      /\ ~Setting(Idle) /\ rides[r].status = "completed"
      BY DEF Sharing, Idle, CompletedRides
<1>2. ASSUME NEW w \in Workers, Arrive(w) PROVE ~Setting(req'[x])
  <2>1. ASSUME NEW u \in Users, NEW y \in Vehicles, StartSelect(w, u, y)
        PROVE  ~Setting(req'[x])
        BY <1>1, <2>1 DEF StartSelect, Accept, Idle
  <2>2. ASSUME NEW u \in Users, NEW y \in RideIds, NEW p \in Positions,
               PingSelect(w, u, y, p)
        PROVE  ~Setting(req'[x])
        BY <1>1, <2>2 DEF PingSelect, Accept, Idle
  <2>3. ASSUME NEW u \in Users, NEW y \in RideIds, EndSelect(w, u, y)
        PROVE  ~Setting(req'[x])
        BY <1>1, <2>3 DEF EndSelect, Accept, Idle
  <2>4. ASSUME NEW u \in Users, NEW y \in RideIds, NEW ids \in SUBSET Contacts,
               ShareSelect(w, u, y, ids)
        PROVE  ~Setting(req'[x])
    <3>1. y # r
          BY <1>1, <2>4 DEF ShareSelect, MayTouch, IsActive
    <3>. QED BY <1>1, <2>4, <3>1 DEF ShareSelect, Accept, Idle
  <2>. QED BY <1>2, <2>1, <2>2, <2>3, <2>4 DEF Arrive
<1>3. ASSUME NEW w \in Workers, Proceed(w) PROVE ~Setting(req'[x])
  <2>1. CASE \/ StartOverlap(w) \/ PingInsert(w) \/ PingUpdate(w)
             \/ EndUpdate(w) \/ EndUnshare(w) \/ EndTrips(w)
             \/ ShareAddRejected(w)
             \/ \E y \in RideIds : StartInsert(w, y)
    <3>1. \/ req' = [req EXCEPT ![w] = Idle]
          \/ \E pc \in Steps \ {"shareContacts", "shareExisting", "shareLoop"} :
               req' = [req EXCEPT ![w].pc = pc]
          BY <2>1 DEF StartOverlap, PingInsert, PingUpdate, EndUpdate,
                      EndUnshare, EndTrips, ShareAddRejected, StartInsert,
                      Goto, Done, Steps
    <3>. QED BY <1>1, <3>1 DEF Request
  <2>2. CASE ShareContacts(w)
        BY <1>1, <2>2 DEF ShareContacts, At, Request
  <2>3. ASSUME NEW add, NEW drop, Loop(w, add, drop),
               At(w, "shareExisting") \/ At(w, "shareLoop")
        PROVE  ~Setting(req'[x])
        BY <1>1, <2>3 DEF Loop, Done, At, Request
  <2>. QED BY <1>3, <2>1, <2>2, <2>3
           DEF Proceed, ShareExisting, ShareAdd, ShareDrop
<1>4. CASE SweepStep \/ Environment \/ UNCHANGED vars
           \/ \E row \in pending : AuditWrite(row)
      BY <1>1, <1>4 DEF SweepStep, SweepSelect, SweepUpdate, SweepUnshare,
             AuditWrite, Environment, GoStale, RemoveContact, RevokeVehicle,
             Suspend, Fail, FailSweep, LoseAudit, Crash, Done, vars
<1>. QED BY <1>2, <1>3, <1>4 DEF Next

\* Once the setShares that were under way at its end are through, an ended
\* ride never gains a watcher.
THEOREM EndedGainsNoShare == Spec => EndedRideGainsNoShare
<1>1. ASSUME IInv, [Next]_vars, NEW r \in CompletedRides, ~Sharing(r)
      PROVE  ~Sharing(r)' /\ LiveShares(r)' \subseteq LiveShares(r)
      BY <1>1, NotSharedAgain, LiveSharesKept DEF CompletedRides
<1>2. IInv /\ [Next]_vars
        => [\A r \in CompletedRides : ~Sharing(r) =>
              ~Sharing(r)' /\ LiveShares(r)' \subseteq LiveShares(r)]_vars
      BY <1>1
<1>. QED BY <1>2, Invariance, PTL DEF Spec, EndedRideGainsNoShare

-----------------------------------------------------------------------------
(* The audit trail claims no end the driver was not credited for.          *)

LEMMA CreditedStep ==
  ASSUME IsFiniteSet(RideIds), RInv, RInv', AuditedEndsCounted, [Next]_vars
  PROVE  AuditedEndsCounted'
<1>. DEFINE Claimed(d) == RidesOf(d, Ended)
<1>0. SUFFICES ASSUME NEW d \in Drivers
               PROVE  trips'[d] >= Cardinality(Claimed(d)')
      BY DEF AuditedEndsCounted, Ended
<1>1. /\ trips[d] >= Cardinality(Claimed(d))
      /\ trips \in [Drivers -> Nat] /\ trips' \in [Drivers -> Nat]
      BY DEF AuditedEndsCounted, Ended, RInv, IInv, TypeOK
<1>2. /\ IsFiniteSet(Claimed(d)) /\ IsFiniteSet(Claimed(d)')
      /\ Cardinality(Claimed(d)) \in Nat /\ Cardinality(Claimed(d)') \in Nat
  <2>1. Claimed(d) \subseteq RideIds /\ Claimed(d)' \subseteq RideIds
        BY DEF RidesOf, Ended
  <2>. QED BY <2>1, FS_Subset, FS_CardinalityType
<1>3. ASSUME NEW r \in Ended
      PROVE  rides'[r].driver = rides[r].driver
  <2>1. r \in RideIds /\ rides[r].status # "absent"
        BY DEF Ended, RInv, Unborn
  <2>. QED BY <2>1, RideRowKept DEF RInv, StartInsert
<1>4. CASE trips' = trips /\ Ended' \subseteq Ended
  <2>1. Claimed(d)' \subseteq Claimed(d)
        BY <1>3, <1>4 DEF RidesOf
  <2>2. Cardinality(Claimed(d)') <= Cardinality(Claimed(d))
        BY <1>2, <2>1, FS_Subset
  <2>. QED BY <1>1, <1>2, <1>4, <2>2
<1>5. ASSUME NEW w \in Workers, EndTrips(w)
      PROVE  trips'[d] >= Cardinality(Claimed(d)')
  <2>. DEFINE x == req[w].ride
  <2>1. /\ x \in RideIds /\ rides' = rides
        /\ trips' = [trips EXCEPT ![rides[x].driver] = @ + 1]
        /\ Ended' = Ended \cup {x}
        BY <1>5 DEF EndTrips, At, Audit, Ended, RInv, IInv, LocalsHold,
                    RequestHolds
  <2>2. CASE rides[x].driver = d
    <3>1. trips'[d] = trips[d] + 1
          BY <1>1, <2>1, <2>2
    <3>2. Claimed(d)' = Claimed(d) \cup {x}
          BY <2>1, <2>2 DEF RidesOf
    <3>3. trips[d] \in Nat
          BY <1>1
    <3>. HIDE DEF Claimed, x
    <3>4. Cardinality(Claimed(d)') <= Cardinality(Claimed(d)) + 1
          BY <1>2, <3>2, FS_AddElement
    <3>. QED BY <1>1, <1>2, <3>1, <3>3, <3>4
  <2>3. CASE rides[x].driver # d
    <3>1. trips'[d] = trips[d]
          BY <1>1, <2>1, <2>3
    <3>2. Claimed(d)' = Claimed(d)
          BY <2>1, <2>3 DEF RidesOf
    <3>. QED BY <1>1, <3>1, <3>2
  <2>. QED BY <2>2, <2>3
<1>. QED BY <1>4, <1>5, EndsWritten

\* With finitely many rides, a driver has been credited with every end the
\* audit trail tells of, or is about to tell of.
THEOREM CreditedBeforeAudited ==
  ASSUME IsFiniteSet(RideIds) PROVE Spec => []AuditedEndsCounted
<1>1. Init => AuditedEndsCounted
  <2>. SUFFICES ASSUME Init, NEW d \in Drivers
                PROVE  trips[d] >= Cardinality(RidesOf(d, Ended))
       BY DEF AuditedEndsCounted, Ended
  <2>1. RidesOf(d, Ended) = {} /\ trips[d] = 0
        BY DEF Init, RidesOf, Ended
  <2>. QED BY <2>1, FS_EmptySet
<1>2. RInv /\ RInv' /\ AuditedEndsCounted /\ [Next]_vars => AuditedEndsCounted'
      BY CreditedStep
<1>. QED BY <1>1, <1>2, RidesInvariance, PTL DEF Spec

-----------------------------------------------------------------------------
(* The handlers implement RideLifecycle.                                   *)

\* The refinement mapping, by name.
Phase == [r \in RideIds |-> rides[r].status]
Rider == [r \in RideIds |-> rides[r].rider]
Shown == [r \in RideIds |-> rides[r].last]
Watchers == [r \in RideIds |-> {shares[s].contact : s \in LiveShares(r)}]
Seen == <<Phase, Rider, recorded, Shown, Watchers, contacts>>

LEMMA SameWatchers ==
  ASSUME shares' = shares PROVE Watchers' = Watchers
BY DEF Watchers, LiveShares

LEMMA SameRides ==
  ASSUME rides' = rides
  PROVE  Phase' = Phase /\ Rider' = Rider /\ Shown' = Shown
BY DEF Phase, Rider, Shown

\* A function on S that another differs from at r only.
LEMMA Changed ==
  ASSUME NEW S, NEW f, NEW g, NEW r \in S, NEW v,
         f = [x \in S |-> f[x]], g = [x \in S |-> g[x]],
         g[r] = v, \A x \in S : x # r => g[x] = f[x]
  PROVE  g = [f EXCEPT ![r] = v]
OBVIOUS

LEMMA Unchanged ==
  ASSUME NEW S, NEW f, NEW g, f = [x \in S |-> f[x]], g = [x \in S |-> g[x]],
         \A x \in S : g[x] = f[x]
  PROVE  g = f
OBVIOUS

LEMMA Views ==
  /\ Phase = [r \in RideIds |-> Phase[r]]
  /\ Rider = [r \in RideIds |-> Rider[r]]
  /\ Shown = [r \in RideIds |-> Shown[r]]
  /\ Watchers = [r \in RideIds |-> Watchers[r]]
  /\ \A r \in RideIds :
       /\ Phase[r] = rides[r].status
       /\ Rider[r] = rides[r].rider
       /\ Shown[r] = rides[r].last
       /\ Watchers[r] = {shares[s].contact : s \in LiveShares(r)}
BY DEF Phase, Rider, Shown, Watchers

LEMMA ViewsNext ==
  /\ Phase' = [r \in RideIds |-> Phase'[r]]
  /\ Rider' = [r \in RideIds |-> Rider'[r]]
  /\ Shown' = [r \in RideIds |-> Shown'[r]]
  /\ Watchers' = [r \in RideIds |-> Watchers'[r]]
  /\ \A r \in RideIds :
       /\ Phase'[r] = rides'[r].status
       /\ Rider'[r] = rides'[r].rider
       /\ Shown'[r] = rides'[r].last
       /\ Watchers'[r] = {shares'[s].contact : s \in LiveShares(r)'}
BY DEF Phase, Rider, Shown, Watchers

LEMMA InsertBegins ==
  ASSUME RInv, NEW w \in Workers, NEW r \in RideIds, StartInsert(w, r)
  PROVE  \E u \in Users : Lifecycle!Begin(r, u)
<1>1. PICK u \in Users : u = req[w].user
      BY DEF StartInsert, At, RInv, IInv, LocalsHold, RequestHolds
<1>2. /\ rides[r].status = "absent" /\ rides[r].last = None
      /\ rides'[r].status = "active" /\ rides'[r].rider = u
      /\ rides'[r].last = None
      /\ \A x \in RideIds : x # r => rides'[x] = rides[x]
      /\ UNCHANGED <<recorded, shares, contacts>>
      BY <1>1 DEF StartInsert, RInv, IInv, TypeOK, Unborn, NoRide, world
<1>3. Phase[r] = "absent"
      BY <1>2, Views
<1>4. Phase' = [Phase EXCEPT ![r] = "active"]
      BY <1>2, Views, ViewsNext, Changed
<1>5. Rider' = [Rider EXCEPT ![r] = u]
      BY <1>2, Views, ViewsNext, Changed
<1>6. Shown' = Shown
  <2>1. \A x \in RideIds : Shown'[x] = Shown[x]
        BY <1>2, Views, ViewsNext
  <2>. QED BY <2>1, Views, ViewsNext, Unchanged
<1>7. Lifecycle!Begin(r, u)
      BY <1>2, <1>3, <1>4, <1>5, <1>6, SameWatchers
         DEF Lifecycle!Begin, Phase, Rider, Shown, Watchers
<1>. QED BY <1>7

LEMMA PingRecords ==
  ASSUME RInv, NEW w \in Workers, PingInsert(w)
  PROVE  \E r \in RideIds, p \in Positions : Lifecycle!Record(r, p)
<1>1. PICK r \in RideIds, p \in Positions :
        r = req[w].ride /\ p = req[w].pos /\ rides[r].status # "absent"
      BY NoneIsNothing
         DEF PingInsert, At, RInv, IInv, LocalsHold, RequestHolds
<1>2. /\ recorded' = [recorded EXCEPT ![r] = @ \cup {p}]
      /\ UNCHANGED <<rides, shares, contacts>>
      BY <1>1 DEF PingInsert, world
<1>3. Phase[r] # "absent"
      BY <1>1, Views
<1>4. Lifecycle!Record(r, p)
      BY <1>2, <1>3, SameRides, SameWatchers
         DEF Lifecycle!Record, Phase, Rider, Shown, Watchers
<1>. QED BY <1>4

LEMMA PingShows ==
  ASSUME RInv, NEW w \in Workers, PingUpdate(w)
  PROVE  \E r \in RideIds, p \in Positions : Lifecycle!Show(r, p)
<1>1. PICK r \in RideIds, p \in Positions :
        r = req[w].ride /\ p = req[w].pos /\ p \in recorded[r]
      BY DEF PingUpdate, At, RInv, IInv, LocalsHold, RequestHolds
<1>2. /\ rides'[r].last = p
      /\ \A x \in RideIds : /\ rides'[x].status = rides[x].status
                            /\ rides'[x].rider = rides[x].rider
                            /\ x # r => rides'[x].last = rides[x].last
      /\ UNCHANGED <<recorded, shares, contacts>>
      BY <1>1 DEF PingUpdate, world, RInv, IInv, TypeOK, RideRow
<1>3. Phase' = Phase
  <2>1. \A x \in RideIds : Phase'[x] = Phase[x]
        BY <1>2, Views, ViewsNext
  <2>. QED BY <2>1, Views, ViewsNext, Unchanged
<1>4. Rider' = Rider
  <2>1. \A x \in RideIds : Rider'[x] = Rider[x]
        BY <1>2, Views, ViewsNext
  <2>. QED BY <2>1, Views, ViewsNext, Unchanged
<1>5. Shown' = [Shown EXCEPT ![r] = p]
  <2>1. Shown'[r] = p /\ \A x \in RideIds : x # r => Shown'[x] = Shown[x]
        BY <1>2, Views, ViewsNext
  <2>. QED BY <2>1, Views, ViewsNext, Changed
<1>6. Lifecycle!Show(r, p)
      BY <1>1, <1>2, <1>3, <1>4, <1>5, SameWatchers
         DEF Lifecycle!Show, Phase, Rider, Shown, Watchers
<1>. QED BY <1>6

\* Ending a ride that has ended already is invisible.
LEMMA CompletedFinishes ==
  ASSUME RInv, NEW r \in RideIds, NEW reason, rides[r].status # "absent",
         rides' = Completed(r, reason),
         UNCHANGED <<recorded, shares, contacts>>
  PROVE  Lifecycle!Finish(r) \/ UNCHANGED Seen
<1>. USE DEF RInv, IInv, TypeOK
<1>1. /\ Phase' = [Phase EXCEPT ![r] = "completed"]
      /\ Rider' = Rider /\ Shown' = Shown /\ Watchers' = Watchers
      BY SameWatchers DEF Completed, RideRow, Phase, Rider, Shown
<1>2. CASE rides[r].status = "active"
      BY <1>1, <1>2 DEF Lifecycle!Finish, Phase, Rider, Shown, Watchers
<1>3. CASE rides[r].status = "completed"
  <2>1. Phase' = Phase
        BY <1>1, <1>3 DEF Phase
  <2>. QED BY <1>1, <2>1 DEF Seen
<1>. QED BY <1>2, <1>3 DEF RideRow, Statuses

\* Taking live shares of a ride away is some contacts' losing sight of it; a
\* contact whose second share row is live goes on watching.
LEMMA FewerSharesStop ==
  ASSUME RInv, NEW r \in RideIds, UNCHANGED <<rides, recorded, contacts>>,
         \A s \in ShareIds : shares'[s].contact = shares[s].contact,
         LiveShares(r)' \subseteq LiveShares(r),
         \A x \in RideIds : x # r => LiveShares(x)' = LiveShares(x)
  PROVE  \E cs \in SUBSET Contacts : Lifecycle!StopWatching(r, cs)
<1>1. \A x \in RideIds :
        /\ Watchers'[x] = {shares[s].contact : s \in LiveShares(x)'}
        /\ Watchers[x] = {shares[s].contact : s \in LiveShares(x)}
  <2>1. \A x \in RideIds : LiveShares(x)' \subseteq ShareIds
        BY DEF LiveShares
  <2>. QED BY <2>1, Views, ViewsNext
<1>2. PICK cs : cs = Watchers[r] \ Watchers'[r]
      OBVIOUS
<1>3. cs \in SUBSET Contacts
  <2>1. Watchers[r] \subseteq Contacts
        BY <1>1 DEF RInv, IInv, TypeOK, SharesOwned, LiveShares
  <2>. QED BY <1>2, <2>1
<1>4. Watchers'[r] \subseteq Watchers[r]
      BY <1>1
<1>5. ASSUME NEW x \in RideIds, x # r PROVE Watchers'[x] = Watchers[x]
  <2>1. LiveShares(x)' = LiveShares(x)
        BY <1>5
  <2>. QED BY <1>1, <2>1
<1>6. Watchers' = [Watchers EXCEPT ![r] = Watchers[r] \ cs]
  <2>1. Watchers'[r] = Watchers[r] \ cs
        BY <1>2, <1>4
  <2>. QED BY <1>5, <2>1, Views, ViewsNext, Changed
<1>7. Lifecycle!StopWatching(r, cs)
      BY <1>6, SameRides
         DEF Lifecycle!StopWatching, Phase, Rider, Shown, Watchers
<1>. QED BY <1>3, <1>7

LEMMA UnsharedStops ==
  ASSUME RInv, NEW r \in RideIds, UNCHANGED <<rides, recorded, contacts>>,
         shares' = Unshared(r)
  PROVE  \E cs \in SUBSET Contacts : Lifecycle!StopWatching(r, cs)
<1>1. \A s \in ShareIds :
        /\ shares'[s].contact = shares[s].contact
        /\ shares'[s].ride = shares[s].ride
        /\ shares'[s].state = IF s \in LiveShares(r) THEN "ended"
                              ELSE shares[s].state
      BY DEF Unshared, RInv, IInv, TypeOK, ShareRow
<1>. QED BY <1>1, FewerSharesStop DEF LiveShares

LEMMA DropStops ==
  ASSUME RInv, NEW w \in Workers, NEW t \in ShareIds, ShareDrop(w, t)
  PROVE  \E r \in RideIds, cs \in SUBSET Contacts :
           Lifecycle!StopWatching(r, cs)
<1>1. PICK r \in RideIds :
        /\ shares[t].ride = r
        /\ UNCHANGED <<rides, recorded, contacts>>
      BY DEF ShareDrop, At, RInv, IInv, LocalsHold, RequestHolds, world
<1>2. \A s \in ShareIds :
        /\ shares'[s].contact = shares[s].contact
        /\ shares'[s].ride = shares[s].ride
        /\ s # t => shares'[s].state = shares[s].state
        /\ s = t => shares'[s].state # "live"
      BY DEF ShareDrop, RInv, IInv, TypeOK, ShareRow
<1>3. LiveShares(r)' \subseteq LiveShares(r)
      BY <1>2 DEF LiveShares
<1>4. ASSUME NEW x \in RideIds, x # r PROVE LiveShares(x)' = LiveShares(x)
      BY <1>1, <1>2, <1>4 DEF LiveShares
<1>5. \E cs \in SUBSET Contacts : Lifecycle!StopWatching(r, cs)
      BY <1>1, <1>2, <1>3, <1>4, FewerSharesStop
<1>. QED BY <1>5

LEMMA AddWatches ==
  ASSUME RInv, NEW w \in Workers, NEW c \in Contacts, NEW t \in ShareIds,
         ShareAdd(w, c, t)
  PROVE  \E r \in RideIds : Lifecycle!Watch(r, c)
<1>1. PICK r \in RideIds :
        /\ r = req[w].ride /\ rides[r].status # "absent"
        /\ c \in contacts /\ OwnerOf[c] = rides[r].rider
      BY NoneIsNothing
         DEF ShareAdd, At, RInv, IInv, LocalsHold, RequestHolds
<1>2. /\ shares[t].state = "absent"
      /\ shares' = [shares EXCEPT ![t] =
                      [state |-> "live", ride |-> r, contact |-> c]]
      /\ UNCHANGED <<rides, recorded, contacts>>
      BY <1>1 DEF ShareAdd, world
<1>3. /\ shares'[t] = [state |-> "live", ride |-> r, contact |-> c]
      /\ \A s \in ShareIds : s # t => shares'[s] = shares[s]
      BY <1>2 DEF RInv, IInv, TypeOK
<1>4. \A x \in RideIds : LiveShares(x) \subseteq ShareIds \ {t}
      BY <1>2 DEF LiveShares
<1>5. Watchers'[r] = Watchers[r] \cup {c}
  <2>1. LiveShares(r)' = LiveShares(r) \cup {t}
        BY <1>2, <1>3 DEF LiveShares
  <2>2. \A s \in LiveShares(r) : shares'[s] = shares[s]
        BY <1>3, <1>4
  <2>. QED BY <1>3, <2>1, <2>2, Views, ViewsNext
<1>6. ASSUME NEW x \in RideIds, x # r PROVE Watchers'[x] = Watchers[x]
  <2>1. LiveShares(x)' = LiveShares(x)
        BY <1>2, <1>3, <1>6 DEF LiveShares
  <2>2. \A s \in LiveShares(x) : shares'[s] = shares[s]
        BY <1>3, <1>4
  <2>3. {shares'[s].contact : s \in LiveShares(x)'}
          = {shares[s].contact : s \in LiveShares(x)}
        BY <2>1, <2>2
  <2>. QED BY <2>3, Views, ViewsNext
<1>7. Watchers' = [Watchers EXCEPT ![r] = Watchers[r] \cup {c}]
      BY <1>1, <1>5, <1>6, Views, ViewsNext, Changed
<1>8. Phase[r] # "absent" /\ OwnerOf[c] = Rider[r]
      BY <1>1, Views
<1>9. Lifecycle!Watch(r, c)
      BY <1>1, <1>2, <1>7, <1>8, SameRides
         DEF Lifecycle!Watch, Phase, Rider, Shown, Watchers
<1>. QED BY <1>9

LEMMA RemoveForgets ==
  ASSUME RInv, NEW c \in Contacts, RemoveContact(c)
  PROVE  Lifecycle!Forget(c)
<1>. USE DEF RInv, IInv, TypeOK
<1>1. /\ UNCHANGED <<rides, recorded>> /\ contacts' = contacts \ {c}
      /\ \A s \in ShareIds :
           IF shares[s].contact = c THEN shares'[s].state = "deleted"
           ELSE shares'[s] = shares[s]
      BY DEF RemoveContact, ShareRow
<1>2. \A x \in RideIds :
        LiveShares(x)' = {s \in LiveShares(x) : shares[s].contact # c}
      BY <1>1 DEF LiveShares
<1>3. \A x \in RideIds : Watchers'[x] = Watchers[x] \ {c}
      BY <1>1, <1>2 DEF Watchers, LiveShares
<1>4. Watchers' = [x \in RideIds |-> Watchers[x] \ {c}]
      BY <1>3 DEF Watchers
<1>. QED BY <1>1, <1>4, SameRides
         DEF Lifecycle!Forget, Phase, Rider, Shown, Watchers

\* Every step is a step of the lifecycle or invisible to it.
LEMMA LifecycleStep ==
  ASSUME RInv, [Next]_vars
  PROVE  [Lifecycle!Next]_Lifecycle!vars
<1>. DEFINE Visible ==
       \/ \E r \in RideIds :
            \/ \E u \in Users : Lifecycle!Begin(r, u)
            \/ \E p \in Positions : Lifecycle!Record(r, p)
                                    \/ Lifecycle!Show(r, p)
            \/ Lifecycle!Finish(r)
            \/ \E c \in Contacts : Lifecycle!Watch(r, c)
            \/ \E cs \in SUBSET Contacts : Lifecycle!StopWatching(r, cs)
       \/ \E c \in Contacts : Lifecycle!Forget(c)
<1>0. SUFFICES Visible \/ UNCHANGED Seen
      BY DEF Lifecycle!Next, Lifecycle!vars, Seen, Phase, Rider, Shown, Watchers
<1>1. ASSUME UNCHANGED <<rides, recorded, shares, contacts>>
      PROVE  UNCHANGED Seen
      BY <1>1, SameRides, SameWatchers DEF Seen
<1>2. ASSUME NEW w \in Workers, Arrive(w) PROVE UNCHANGED Seen
      BY <1>1, <1>2 DEF Arrive, StartSelect, PingSelect, EndSelect,
                        ShareSelect, tables, world
<1>3. ASSUME NEW w \in Workers, Proceed(w) PROVE Visible \/ UNCHANGED Seen
  <2>1. CASE \/ StartOverlap(w) \/ EndTrips(w) \/ ShareContacts(w)
             \/ ShareExisting(w) \/ ShareAddRejected(w)
        BY <1>1, <2>1 DEF StartOverlap, EndTrips, ShareContacts,
                          ShareExisting, ShareAddRejected, tables, world
  <2>2. CASE \E r \in RideIds : StartInsert(w, r)
        BY <2>2, InsertBegins
  <2>3. CASE PingInsert(w) \/ PingUpdate(w)
        BY <2>3, PingRecords, PingShows
  <2>4. CASE EndUpdate(w)
    <3>1. req[w].ride \in RideIds /\ rides[req[w].ride].status # "absent"
          BY <2>4, NoneIsNothing
             DEF EndUpdate, At, RInv, IInv, LocalsHold, RequestHolds
    <3>2. /\ rides' = Completed(req[w].ride, "rider")
          /\ UNCHANGED <<recorded, shares, contacts>>
          BY <2>4 DEF EndUpdate, world
    <3>. QED BY <3>1, <3>2, CompletedFinishes
  <2>5. CASE EndUnshare(w)
    <3>1. req[w].ride \in RideIds
          BY <2>5 DEF EndUnshare, At, RInv, IInv, LocalsHold, RequestHolds
    <3>2. /\ shares' = Unshared(req[w].ride)
          /\ UNCHANGED <<rides, recorded, contacts>>
          BY <2>5 DEF EndUnshare, world
    <3>. QED BY <3>1, <3>2, UnsharedStops
  <2>6. CASE \E c \in Contacts, s \in ShareIds : ShareAdd(w, c, s)
        BY <2>6, AddWatches
  <2>7. CASE \E s \in ShareIds : ShareDrop(w, s)
        BY <2>7, DropStops
  <2>. QED BY <1>3, <2>1, <2>2, <2>3, <2>4, <2>5, <2>6, <2>7 DEF Proceed
<1>4. CASE SweepStep
  <2>1. CASE SweepSelect
        BY <1>1, <2>1 DEF SweepSelect, tables, world
  <2>2. ASSUME NEW r \in RideIds, SweepUpdate(r)
        PROVE  Visible \/ UNCHANGED Seen
    <3>1. /\ rides[r].status # "absent"
          /\ rides' = Completed(r, "auto_timeout")
          /\ UNCHANGED <<recorded, shares, contacts>>
          BY <2>2 DEF SweepUpdate, RInv, IInv, LocalsHold, world
    <3>. QED BY <3>1, CompletedFinishes
  <2>3. CASE SweepUnshare
    <3>1. /\ sweep.cur \in RideIds /\ shares' = Unshared(sweep.cur)
          /\ UNCHANGED <<rides, recorded, contacts>>
          BY <2>3 DEF SweepUnshare, RInv, IInv, LocalsHold, world
    <3>. QED BY <3>1, UnsharedStops
  <2>. QED BY <1>4, <2>1, <2>2, <2>3 DEF SweepStep
<1>5. CASE \E c \in Contacts : RemoveContact(c)
      BY <1>5, RemoveForgets
<1>6. CASE \/ \E r \in RideIds : GoStale(r)
           \/ \E v \in Vehicles : RevokeVehicle(v)
           \/ \E d \in Drivers : Suspend(d)
           \/ \E w \in Workers : Fail(w)
           \/ FailSweep \/ Crash
           \/ \E row \in pending : AuditWrite(row) \/ LoseAudit(row)
           \/ UNCHANGED vars
      BY <1>1, <1>6 DEF GoStale, RevokeVehicle, Suspend, Fail, FailSweep,
                        Crash, AuditWrite, LoseAudit, tables, world, vars
<1>. QED BY <1>2, <1>3, <1>4, <1>5, <1>6 DEF Next, Environment

\* With any number of riders, requests, failures and crashes the handlers do
\* nothing the lifecycle of a ride does not allow.
THEOREM LifecycleImplemented == Spec => ImplementsLifecycle
<1>1. Init => Lifecycle!Init
  <2>. SUFFICES ASSUME Init PROVE Lifecycle!Init
       OBVIOUS
  <2>1. /\ Phase = [r \in RideIds |-> "absent"]
        /\ Rider = [r \in RideIds |-> None]
        /\ Shown = [r \in RideIds |-> None]
        BY DEF Init, NoRide, Phase, Rider, Shown
  <2>2. Watchers = [r \in RideIds |-> {}]
        BY DEF Init, NoShare, Watchers, LiveShares
  <2>. QED BY <2>1, <2>2
           DEF Init, Lifecycle!Init, Phase, Rider, Shown, Watchers
<1>2. RInv /\ [Next]_vars => [Lifecycle!Next]_Lifecycle!vars
      BY LifecycleStep
<1>. QED BY <1>1, <1>2, RidesInvariance, PTL
         DEF Spec, ImplementsLifecycle, Lifecycle!Spec

-----------------------------------------------------------------------------
(* Every end that was not cut off is credited.                             *)

\* The rides whose end its request is through with.
EndsDone == {r \in RideIds :
               "rider" \in rides[r].reasons /\ r \notin HalfEnded(Workers) \cup cut}

HalfPcs == {"endUnshare", "endTrips"}

\* A request that has ended a ride goes on until its trip is counted, or it
\* fails, and leaves the ride cut.
LEMMA HalfEndedKept ==
  ASSUME IInv, [Next]_vars, ~\E w \in Workers : EndTrips(w)
  PROVE  HalfEnded(Workers) \cup cut \subseteq (HalfEnded(Workers) \cup cut)'
<1>. USE DEF IInv, TypeOK
<1>0. cut \subseteq cut'
      BY DEF Next, Arrive, StartSelect, PingSelect, EndSelect,
             ShareSelect, Proceed, StartOverlap, StartInsert, PingInsert,
             PingUpdate, EndUpdate, EndUnshare, EndTrips, ShareContacts,
             ShareExisting, ShareAdd, ShareAddRejected, ShareDrop, SweepStep,
             SweepSelect, SweepUpdate, SweepUnshare, AuditWrite, Environment,
             GoStale, RemoveContact, RevokeVehicle, Suspend, Fail, FailSweep,
             LoseAudit, Crash, vars
<1>1. SUFFICES ASSUME NEW x \in Workers, req[x].pc \in HalfPcs
               PROVE  \/ req'[x].pc \in HalfPcs /\ req'[x].ride = req[x].ride
                      \/ req[x].ride \in cut'
  <2>1. HalfEnded(Workers) = {req[x].ride : x \in {w \in Workers : req[w].pc \in HalfPcs}}
        BY DEF HalfEnded, HalfPcs
  <2>2. HalfEnded(Workers)' = {req'[x].ride : x \in {w \in Workers : req'[w].pc \in HalfPcs}}
        BY DEF HalfEnded, HalfPcs
  <2>. QED BY <1>0, <2>1, <2>2
<1>. DEFINE Goal == \/ req'[x].pc \in HalfPcs /\ req'[x].ride = req[x].ride
                    \/ req[x].ride \in cut'
<1>2. CASE req' = req
      BY <1>1, <1>2
<1>3. ASSUME NEW w \in Workers, w # x,
             \E q : req' = [req EXCEPT ![w] = q]
      PROVE  Goal
      BY <1>1, <1>3
<1>4. ASSUME NEW w \in Workers, Arrive(w) PROVE Goal
  <2>1. w # x
        BY <1>1, <1>4 DEF Arrive, StartSelect, PingSelect, EndSelect,
                          ShareSelect, Accept, HalfPcs
  <2>2. \E q : req' = [req EXCEPT ![w] = q]
        BY <1>4 DEF Arrive, StartSelect, PingSelect, EndSelect, ShareSelect,
                    Accept
  <2>. QED BY <1>3, <2>1, <2>2
<1>5. ASSUME NEW w \in Workers, Proceed(w) PROVE Goal
  <2>1. CASE EndUnshare(w)
        BY <1>1, <2>1 DEF EndUnshare, Goto, HalfPcs, Request
  <2>2. CASE \/ StartOverlap(w) \/ PingInsert(w) \/ PingUpdate(w)
             \/ EndUpdate(w) \/ ShareContacts(w) \/ ShareAddRejected(w)
             \/ \E r \in RideIds : StartInsert(w, r)
    <3>1. w # x
          BY <1>1, <2>2 DEF StartOverlap, PingInsert, PingUpdate, EndUpdate,
             ShareContacts, ShareAddRejected, StartInsert, At, HalfPcs
    <3>2. req'[x] = req[x]
          BY <2>2, <3>1 DEF StartOverlap, PingInsert, PingUpdate, EndUpdate,
             ShareContacts, ShareAddRejected, StartInsert, Goto, Done
    <3>. QED BY <1>1, <3>2
  <2>3. ASSUME NEW add, NEW drop, Loop(w, add, drop),
               At(w, "shareExisting") \/ At(w, "shareLoop")
        PROVE  Goal
    <3>1. w # x
          BY <1>1, <2>3 DEF At, HalfPcs
    <3>2. req'[x] = req[x]
          BY <2>3, <3>1 DEF Loop, Done
    <3>. QED BY <1>1, <3>2
  <2>. QED BY <1>5, <2>1, <2>2, <2>3
           DEF Proceed, ShareExisting, ShareAdd, ShareDrop
<1>6. CASE \/ SweepStep \/ UNCHANGED vars
           \/ \E row \in pending : AuditWrite(row)
      BY <1>2, <1>6 DEF SweepStep, SweepSelect, SweepUpdate, SweepUnshare,
                        AuditWrite, vars
<1>7. CASE \E w \in Workers : Fail(w)
  <2>1. PICK w \in Workers : Fail(w)
        BY <1>7
  <2>2. CASE w = x
        BY <1>1, <2>1, <2>2 DEF Fail, HalfEnded, HalfPcs
  <2>3. CASE w # x
        BY <1>3, <2>1, <2>3 DEF Fail, Done
  <2>. QED BY <2>2, <2>3
<1>8. CASE Crash
      BY <1>1, <1>8 DEF Crash, HalfEnded, HalfPcs
<1>9. CASE \/ \E r \in RideIds : GoStale(r)
           \/ \E c \in Contacts : RemoveContact(c)
           \/ \E v \in Vehicles : RevokeVehicle(v)
           \/ \E d \in Drivers : Suspend(d)
           \/ FailSweep \/ \E row \in pending : LoseAudit(row)
      BY <1>2, <1>9 DEF GoStale, RemoveContact, RevokeVehicle,
                        Suspend, FailSweep, LoseAudit
<1>. QED BY <1>4, <1>5, <1>6, <1>7, <1>8, <1>9 DEF Next, Environment

LEMMA EndsDoneKept ==
  ASSUME IInv, [Next]_vars, ~\E w \in Workers : EndTrips(w)
  PROVE  EndsDone' \subseteq EndsDone
<1>. SUFFICES ASSUME NEW r \in RideIds, "rider" \in rides'[r].reasons,
                     r \notin HalfEnded(Workers)'
              PROVE  "rider" \in rides[r].reasons
     BY HalfEndedKept DEF EndsDone
<1>. USE DEF IInv, TypeOK
<1>1. CASE rides' = rides
      BY <1>1
<1>2. ASSUME NEW w \in Workers, NEW x \in RideIds, StartInsert(w, x),
             x = r
      PROVE  FALSE
      BY <1>2 DEF StartInsert, NoRide
<1>3. ASSUME NEW w \in Workers, NEW x \in RideIds, StartInsert(w, x),
             x # r
      PROVE  rides'[r] = rides[r]
      BY <1>3 DEF StartInsert
<1>4. ASSUME NEW w \in Workers, PingUpdate(w)
      PROVE  rides'[r].reasons = rides[r].reasons
      BY <1>4 DEF PingUpdate, RideRow
<1>5. ASSUME NEW w \in Workers, EndUpdate(w)
      PROVE  rides'[r] = rides[r]
  <2>1. req'[w].pc = "endUnshare" /\ req'[w].ride = req[w].ride
        BY <1>5 DEF EndUpdate, Goto, Request
  <2>2. req[w].ride # r
        BY <2>1 DEF HalfEnded
  <2>. QED BY <1>5, <2>2 DEF EndUpdate, Completed
<1>6. ASSUME NEW x \in RideIds, SweepUpdate(x)
      PROVE  "rider" \in rides'[r].reasons => "rider" \in rides[r].reasons
  <2>1. rides'[r].reasons \subseteq rides[r].reasons \cup {"auto_timeout"}
        BY <1>6 DEF SweepUpdate, Completed, RideRow
  <2>. QED BY <2>1
<1>. QED BY <1>1, <1>2, <1>3, <1>4, <1>5, <1>6, RidesWritten

LEMMA CountedStep ==
  ASSUME IsFiniteSet(RideIds), RInv, RInv', EveryEndCounted, [Next]_vars
  PROVE  EveryEndCounted'
<1>. DEFINE Owed(d) == RidesOf(d, EndsDone)
<1>0. SUFFICES ASSUME NEW d \in Drivers
               PROVE  trips'[d] >= Cardinality(Owed(d)')
      BY DEF EveryEndCounted, EndsDone
<1>2. /\ trips[d] >= Cardinality(Owed(d))
      /\ trips \in [Drivers -> Nat] /\ trips' \in [Drivers -> Nat]
      BY DEF EveryEndCounted, EndsDone, RInv, IInv, TypeOK
<1>3. /\ IsFiniteSet(Owed(d)) /\ IsFiniteSet(Owed(d)')
      /\ Cardinality(Owed(d)) \in Nat /\ Cardinality(Owed(d)') \in Nat
  <2>1. Owed(d) \subseteq RideIds /\ Owed(d)' \subseteq RideIds
        BY DEF RidesOf, EndsDone
  <2>. QED BY <2>1, FS_Subset, FS_CardinalityType
<1>4. CASE ~\E w \in Workers : EndTrips(w)
  <2>1. trips' = trips /\ EndsDone' \subseteq EndsDone
        BY <1>4, EndsWritten, EndsDoneKept DEF RInv
  <2>2. ASSUME NEW r \in EndsDone PROVE rides'[r].driver = rides[r].driver
    <3>1. r \in RideIds /\ rides[r].status # "absent"
          BY DEF EndsDone, RInv, Unborn, NoRide
    <3>. QED BY <3>1, RideRowKept DEF RInv, StartInsert
  <2>3. Owed(d)' \subseteq Owed(d)
        BY <2>1, <2>2 DEF RidesOf
  <2>4. Cardinality(Owed(d)') <= Cardinality(Owed(d))
        BY <1>3, <2>3, FS_Subset
  <2>. QED BY <1>2, <1>3, <2>1, <2>4
<1>5. ASSUME NEW w \in Workers, EndTrips(w)
      PROVE  trips'[d] >= Cardinality(Owed(d)')
  <2>. DEFINE x == req[w].ride
  <2>1. /\ x \in RideIds /\ rides' = rides
        /\ trips' = [trips EXCEPT ![rides[x].driver] = @ + 1]
        BY <1>5 DEF EndTrips, At, RInv, IInv, LocalsHold, RequestHolds
  <2>2. EndsDone' \subseteq EndsDone \cup {x}
    <3>1. \A y \in Workers : y # w => req'[y] = req[y]
          BY <1>5 DEF EndTrips, Done, RInv, IInv, TypeOK
    <3>2. HalfEnded(Workers) \subseteq HalfEnded(Workers)' \cup {x}
          BY <3>1 DEF HalfEnded
    <3>3. cut' = cut
          BY <1>5 DEF EndTrips
    <3>. QED BY <2>1, <3>2, <3>3 DEF EndsDone
  <2>3. CASE rides[x].driver = d
    <3>1. trips'[d] = trips[d] + 1
          BY <1>2, <2>1, <2>3
    <3>2. Owed(d)' \subseteq Owed(d) \cup {x}
          BY <2>1, <2>2 DEF RidesOf
    <3>3. trips[d] \in Nat
          BY <1>2
    <3>. HIDE DEF Owed, x
    <3>4. /\ IsFiniteSet(Owed(d) \cup {x})
          /\ Cardinality(Owed(d) \cup {x}) \in Nat
          /\ Cardinality(Owed(d) \cup {x}) <= Cardinality(Owed(d)) + 1
          BY <1>3, FS_AddElement
    <3>5. Cardinality(Owed(d)') <= Cardinality(Owed(d) \cup {x})
          BY <3>2, <3>4, FS_Subset
    <3>. QED BY <1>2, <1>3, <3>1, <3>3, <3>4, <3>5
  <2>4. CASE rides[x].driver # d
    <3>1. trips'[d] = trips[d]
          BY <1>2, <2>1, <2>4
    <3>2. Owed(d)' \subseteq Owed(d)
          BY <2>1, <2>2, <2>4 DEF RidesOf
    <3>3. Cardinality(Owed(d)') <= Cardinality(Owed(d))
          BY <1>3, <3>2, FS_Subset
    <3>. QED BY <1>2, <1>3, <3>1, <3>3
  <2>. QED BY <2>3, <2>4
<1>. QED BY <1>4, <1>5

\* With finitely many rides a driver is credited with every ride its rider ended
\* once the requests that end it are through, whatever the cron job writes over
\* the row; only an end that is cut off half way may be missing.
THEOREM EveryEndCredited ==
  ASSUME IsFiniteSet(RideIds) PROVE Spec => []EveryEndCounted
<1>1. Init => EveryEndCounted
  <2>. SUFFICES ASSUME Init, NEW d \in Drivers
                PROVE  trips[d] >= Cardinality(RidesOf(d, EndsDone))
       BY DEF EveryEndCounted, EndsDone
  <2>1. RidesOf(d, EndsDone) = {} /\ trips[d] = 0
        BY DEF Init, RidesOf, EndsDone, NoRide
  <2>. QED BY <2>1, FS_EmptySet
<1>2. RInv /\ RInv' /\ EveryEndCounted /\ [Next]_vars => EveryEndCounted'
      BY CountedStep
<1>. QED BY <1>1, <1>2, RidesInvariance, PTL DEF Spec

-----------------------------------------------------------------------------
(* How far racing ends stretch the trip counter.                           *)

EndPcs == {"endUpdate", "endUnshare", "endTrips"}

\* Past its first statement an end has seen its ride completed.
EndsSeen ==
  \A w \in Workers : req[w].pc \in {"endUnshare", "endTrips"}
                       => rides[req[w].ride].status = "completed"

\* The requests that may yet count a trip of d's for a ride that has ended.
Racing(d) ==
  {w \in Workers : /\ req[w].pc \in EndPcs
                   /\ rides[req[w].ride].status = "completed"
                   /\ rides[req[w].ride].driver = d}

\* The counter and those requests together: each ended ride stands for as many
\* requests as were past the status check when it ended.
CountBounded ==
  \A d \in Drivers :
    trips[d] + Cardinality(Racing(d))
      <= Cardinality(Workers) * Cardinality(RidesOf(d, CompletedRides))

\* A request ends a ride because it was ending it before, or because it just
\* found the ride active.
LEMMA EndingComes ==
  ASSUME IInv, [Next]_vars, NEW x \in Workers, req'[x].pc \in EndPcs
  PROVE  \/ req[x].pc \in EndPcs /\ req'[x].ride = req[x].ride
         \/ req'[x].pc = "endUpdate" /\ rides' = rides
            /\ rides[req'[x].ride].status = "active"
<1>. USE DEF IInv, TypeOK
<1>. DEFINE Goal == \/ req[x].pc \in EndPcs /\ req'[x].ride = req[x].ride
                    \/ req'[x].pc = "endUpdate" /\ rides' = rides
                       /\ rides[req'[x].ride].status = "active"
<1>1. CASE req'[x] = req[x]
      BY <1>1
<1>2. ASSUME NEW w \in Workers, Arrive(w) PROVE Goal
  <2>1. ASSUME NEW u \in Users, NEW y \in Vehicles, StartSelect(w, u, y)
        PROVE  Goal
        BY <2>1 DEF StartSelect, Accept, Idle, EndPcs
  <2>2. ASSUME NEW u \in Users, NEW y \in RideIds, NEW p \in Positions,
               PingSelect(w, u, y, p)
        PROVE  Goal
        BY <2>2 DEF PingSelect, Accept, Idle, EndPcs
  <2>3. ASSUME NEW u \in Users, NEW y \in RideIds, EndSelect(w, u, y)
        PROVE  Goal
        BY <2>3 DEF EndSelect, MayTouch, IsActive, Accept, Idle, EndPcs, tables
  <2>4. ASSUME NEW u \in Users, NEW y \in RideIds, NEW ids \in SUBSET Contacts,
               ShareSelect(w, u, y, ids)
        PROVE  Goal
        BY <2>4 DEF ShareSelect, Accept, Idle, EndPcs
  <2>. QED BY <1>2, <2>1, <2>2, <2>3, <2>4 DEF Arrive
<1>3. ASSUME NEW w \in Workers, Proceed(w) PROVE Goal
  <2>1. CASE EndUpdate(w) \/ EndUnshare(w)
        BY <2>1 DEF EndUpdate, EndUnshare, At, Goto, EndPcs, Request
  <2>2. CASE \/ StartOverlap(w) \/ PingInsert(w) \/ PingUpdate(w) \/ EndTrips(w)
             \/ ShareAddRejected(w)
             \/ \E r \in RideIds : StartInsert(w, r)
    <3>1. \/ req' = [req EXCEPT ![w] = Idle]
          \/ \E pc \in Steps \ EndPcs : req' = [req EXCEPT ![w].pc = pc]
          BY <2>2 DEF StartOverlap, PingInsert, PingUpdate, EndTrips,
                      ShareAddRejected, StartInsert, Goto, Done, Steps, EndPcs
    <3>. QED BY <3>1 DEF Idle, EndPcs, Request
  <2>3. CASE ShareContacts(w)
        BY <2>3 DEF ShareContacts, EndPcs
  <2>4. ASSUME NEW add, NEW drop, Loop(w, add, drop) PROVE Goal
    <3>1. \/ x = w /\ (req'[x] = Idle \/ req'[x].pc = "shareLoop")
          \/ req'[x] = req[x]
          BY <2>4 DEF Loop, Done, Request
    <3>. QED BY <1>1, <3>1 DEF Idle, EndPcs
  <2>. QED BY <1>3, <2>1, <2>2, <2>3, <2>4
           DEF Proceed, ShareExisting, ShareAdd, ShareDrop
<1>4. CASE \/ SweepStep \/ UNCHANGED vars
           \/ \E row \in pending : AuditWrite(row)
      BY <1>1, <1>4 DEF SweepStep, SweepSelect, SweepUpdate, SweepUnshare,
                        AuditWrite, vars
<1>5. CASE (\E w \in Workers : Fail(w)) \/ Crash
      BY <1>1, <1>5, FailureIdles DEF Idle, EndPcs
<1>6. CASE /\ Environment
           /\ ~((\E w \in Workers : Fail(w)) \/ Crash)
      BY <1>1, <1>6 DEF Environment, GoStale, RemoveContact, RevokeVehicle,
                        Suspend, FailSweep, LoseAudit
<1>. QED BY <1>2, <1>3, <1>4, <1>5, <1>6 DEF Next

LEMMA EndsSeenStep ==
  ASSUME IInv, EndsSeen, [Next]_vars
  PROVE  EndsSeen'
<1>. SUFFICES ASSUME NEW x \in Workers,
                     req'[x].pc \in {"endUnshare", "endTrips"}
              PROVE  rides'[req'[x].ride].status = "completed"
     BY DEF EndsSeen
<1>1. req[x].pc \in EndPcs /\ req'[x].ride = req[x].ride
      BY EndingComes DEF EndPcs
<1>2. req[x].ride \in RideIds
      BY <1>1 DEF EndPcs, IInv, LocalsHold, RequestHolds
<1>3. CASE req[x].pc \in {"endUnshare", "endTrips"}
  <2>1. req[x].ride \in CompletedRides
        BY <1>2, <1>3 DEF EndsSeen, CompletedRides
  <2>. QED BY <1>1, <2>1, EndedStep
<1>4. CASE req[x].pc = "endUpdate"
  <2>1. EndUpdate(x)
    <3>1. ASSUME NEW w \in Workers, Arrive(w) PROVE FALSE
          BY <1>4, <3>1 DEF Arrive, StartSelect, PingSelect, EndSelect,
                            ShareSelect, Accept, Idle, IInv, TypeOK
    <3>2. ASSUME NEW w \in Workers, Proceed(w) PROVE EndUpdate(x)
      <4>1. w = x
            BY <1>4, <3>2 DEF Proceed, StartOverlap, StartInsert, PingInsert,
               PingUpdate, EndUpdate, EndUnshare, EndTrips, ShareContacts,
               ShareExisting, ShareAdd, ShareAddRejected, ShareDrop, Loop,
               Goto, Done, IInv, TypeOK
      <4>. QED BY <1>4, <3>2, <4>1 DEF Proceed, StartOverlap, StartInsert,
               PingInsert, PingUpdate, EndUnshare, EndTrips, ShareContacts,
               ShareExisting, ShareAdd, ShareAddRejected, ShareDrop, At
    <3>3. CASE (\E w \in Workers : Fail(w)) \/ Crash
          BY <1>1, <1>4, <3>3, FailureIdles DEF Idle, IInv
    <3>4. ASSUME req' = req PROVE FALSE
          BY <1>4, <3>4
    <3>. QED BY <3>1, <3>2, <3>3, <3>4
             DEF Next, vars, SweepStep, SweepSelect, SweepUpdate, SweepUnshare,
               AuditWrite, Environment, GoStale, RemoveContact, RevokeVehicle,
               Suspend, FailSweep, LoseAudit
  <2>. QED BY <1>1, <1>2, <2>1 DEF EndUpdate, Completed, IInv, TypeOK, RideRow
<1>. QED BY <1>1, <1>3, <1>4 DEF EndPcs

\* One step completes at most one ride.
LEMMA CompletedStep ==
  ASSUME IInv, [Next]_vars
  PROVE  \/ \E x \in RideIds :
              CompletedRides' \subseteq CompletedRides \cup {x}
         \/ CompletedRides' = CompletedRides
<1>. USE DEF IInv, TypeOK
<1>. DEFINE Goal == \/ \E x \in RideIds :
                         CompletedRides' \subseteq CompletedRides \cup {x}
                    \/ CompletedRides' = CompletedRides
<1>1. CASE rides' = rides
      BY <1>1 DEF CompletedRides
<1>2. ASSUME NEW w \in Workers, NEW x \in RideIds, StartInsert(w, x) PROVE Goal
      BY <1>2 DEF StartInsert, CompletedRides
<1>3. ASSUME NEW w \in Workers, PingUpdate(w) PROVE Goal
      BY <1>3 DEF PingUpdate, CompletedRides, RideRow
<1>4. ASSUME NEW w \in Workers, EndUpdate(w) PROVE Goal
  <2>1. PICK x \in RideIds : x = req[w].ride
        BY <1>4 DEF EndUpdate, At, LocalsHold, RequestHolds
  <2>2. CompletedRides' \subseteq CompletedRides \cup {x}
        BY <1>4, <2>1 DEF EndUpdate, Completed, CompletedRides
  <2>. QED BY <2>2
<1>5. ASSUME NEW x \in RideIds, SweepUpdate(x) PROVE Goal
  <2>1. CompletedRides' \subseteq CompletedRides \cup {x}
        BY <1>5 DEF SweepUpdate, Completed, CompletedRides
  <2>. QED BY <2>1
<1>. QED BY <1>1, <1>2, <1>3, <1>4, <1>5, RidesWritten

LEMMA CountStep ==
  ASSUME IsFiniteSet(RideIds), IsFiniteSet(Workers), RInv, RInv', EndsSeen,
         CountBounded, [Next]_vars
  PROVE  CountBounded'
<1>. SUFFICES ASSUME NEW d \in Drivers
              PROVE  trips'[d] + Cardinality(Racing(d)')
                       <= Cardinality(Workers)
                            * Cardinality(RidesOf(d, CompletedRides)')
     BY DEF CountBounded
<1>. DEFINE W == Cardinality(Workers)
            R == Cardinality(Racing(d))
            S == Cardinality(Racing(d)')
            C == Cardinality(RidesOf(d, CompletedRides))
            D == Cardinality(RidesOf(d, CompletedRides)')
<1>1. /\ IsFiniteSet(Racing(d)) /\ IsFiniteSet(Racing(d)')
      /\ IsFiniteSet(RidesOf(d, CompletedRides))
      /\ IsFiniteSet(RidesOf(d, CompletedRides)')
      /\ W \in Nat /\ R \in Nat /\ S \in Nat /\ C \in Nat /\ D \in Nat
      /\ R <= W /\ S <= W
  <2>1. /\ Racing(d) \subseteq Workers /\ Racing(d)' \subseteq Workers
        /\ RidesOf(d, CompletedRides) \subseteq RideIds
        /\ RidesOf(d, CompletedRides)' \subseteq RideIds
        BY DEF Racing, RidesOf, CompletedRides
  <2>. QED BY <2>1, FS_Subset, FS_CardinalityType
<1>2. /\ trips[d] + R <= W * C
      /\ trips[d] \in Nat /\ trips'[d] \in Nat
      BY DEF CountBounded, RInv, IInv, TypeOK
<1>3. RidesOf(d, CompletedRides) \subseteq RidesOf(d, CompletedRides)'
      BY EndedStep DEF RInv, RidesOf, CompletedRides
<1>4. C <= D
      BY <1>1, <1>3, FS_Subset
<1>5. \* A request comes to race only as its ride is completed.
      ASSUME CompletedRides' \subseteq CompletedRides
      PROVE  Racing(d)' \subseteq Racing(d)
  <2>. SUFFICES ASSUME NEW x \in Racing(d)' PROVE x \in Racing(d)
       OBVIOUS
  <2>1. /\ x \in Workers /\ req'[x].pc \in EndPcs
        /\ rides'[req'[x].ride].status = "completed"
        /\ rides'[req'[x].ride].driver = d
        BY DEF Racing
  <2>2. req'[x].ride \in RideIds
        BY <2>1 DEF RInv, IInv, LocalsHold, RequestHolds, EndPcs
  <2>3. req'[x].ride \in CompletedRides
        BY <1>5, <2>1, <2>2 DEF CompletedRides
  <2>4. /\ req[x].pc \in EndPcs /\ req'[x].ride = req[x].ride
        BY <2>1, <2>3, EndingComes DEF CompletedRides, RInv
  <2>5. rides'[req'[x].ride].driver = rides[req'[x].ride].driver
        BY <2>3, EndedStep DEF RInv
  <2>. QED BY <2>1, <2>3, <2>4, <2>5 DEF Racing, CompletedRides
<1>6. ASSUME NEW w \in Workers, EndTrips(w)
      PROVE  trips'[d] + S <= W * D
  <2>. DEFINE x == req[w].ride
  <2>1. /\ x \in RideIds /\ rides' = rides /\ rides[x].status = "completed"
        /\ trips' = [trips EXCEPT ![rides[x].driver] = @ + 1]
        BY <1>6 DEF EndTrips, At, EndsSeen, RInv, IInv, LocalsHold,
                    RequestHolds
  <2>2. /\ CompletedRides' = CompletedRides /\ D = C
        BY <2>1 DEF CompletedRides, RidesOf
  <2>3. Racing(d)' \subseteq Racing(d) \ {w}
    <3>1. req'[w] = Idle
          BY <1>6 DEF EndTrips, Done, RInv, IInv, TypeOK
    <3>2. w \notin Racing(d)'
          BY <3>1 DEF Racing, Idle, EndPcs
    <3>. QED BY <1>5, <2>2, <3>2
  <2>4. CASE rides[x].driver = d
    <3>1. trips'[d] = trips[d] + 1
          BY <2>1, <2>4 DEF RInv, IInv, TypeOK
    <3>2. w \in Racing(d)
          BY <1>6, <2>1, <2>4 DEF Racing, EndTrips, At, EndPcs
    <3>3. S <= R - 1
      <4>1. /\ IsFiniteSet(Racing(d) \ {w})
            /\ Cardinality(Racing(d) \ {w}) = R - 1
            BY <1>1, <3>2, FS_RemoveElement
      <4>2. S <= Cardinality(Racing(d) \ {w})
            BY <2>3, <4>1, FS_Subset
      <4>. QED BY <4>1, <4>2
    <3>. HIDE DEF W, R, S, C, D
    <3>. QED BY <1>1, <1>2, <2>2, <3>1, <3>3
  <2>5. CASE rides[x].driver # d
    <3>1. trips'[d] = trips[d]
          BY <2>1, <2>5 DEF RInv, IInv, TypeOK
    <3>2. S <= R
          BY <1>1, <2>3, FS_Subset
    <3>. HIDE DEF W, R, S, C, D
    <3>. QED BY <1>1, <1>2, <2>2, <3>1, <3>2
  <2>. QED BY <2>4, <2>5
<1>7. ASSUME trips' = trips, CompletedRides' \subseteq CompletedRides
      PROVE  trips'[d] + S <= W * D
  <2>1. S <= R
        BY <1>1, <1>5, <1>7, FS_Subset
  <2>2. D = C
    <3>1. CompletedRides' = CompletedRides
          BY <1>7, EndedStep DEF RInv, CompletedRides
    <3>2. RidesOf(d, CompletedRides)' = RidesOf(d, CompletedRides)
          BY <3>1, EndedStep DEF RidesOf, RInv
    <3>. QED BY <3>2
  <2>. HIDE DEF W, R, S, C, D
  <2>. QED BY <1>1, <1>2, <1>7, <2>1, <2>2
<1>8. ASSUME trips' = trips, NEW x \in RideIds, x \notin CompletedRides,
             CompletedRides' = CompletedRides \cup {x}
      PROVE  trips'[d] + S <= W * D
  <2>1. CASE rides'[x].driver = d
    <3>1. x \in RidesOf(d, CompletedRides)'
          /\ x \notin RidesOf(d, CompletedRides)
          BY <1>8, <2>1 DEF RidesOf
    <3>2. /\ IsFiniteSet(RidesOf(d, CompletedRides) \cup {x})
          /\ Cardinality(RidesOf(d, CompletedRides) \cup {x}) = C + 1
          BY <1>1, <3>1, FS_AddElement
    <3>3. RidesOf(d, CompletedRides) \cup {x} \subseteq RidesOf(d, CompletedRides)'
          BY <1>3, <3>1
    <3>4. C + 1 <= D
          BY <1>1, <3>2, <3>3, FS_Subset
    <3>. HIDE DEF W, R, S, C, D
    <3>5. W * (C + 1) <= W * D /\ W * (C + 1) = W * C + W
          BY <1>1, <3>4
    <3>. QED BY <1>1, <1>2, <1>8, <3>5
  <2>2. CASE rides'[x].driver # d
    <3>1. Racing(d)' \subseteq Racing(d)
      <4>. SUFFICES ASSUME NEW y \in Racing(d)' PROVE y \in Racing(d)
           OBVIOUS
      <4>1. /\ y \in Workers /\ req'[y].pc \in EndPcs
            /\ rides'[req'[y].ride].status = "completed"
            /\ rides'[req'[y].ride].driver = d
            BY DEF Racing
      <4>2. req'[y].ride \in RideIds
            BY <4>1 DEF RInv, IInv, LocalsHold, RequestHolds, EndPcs
      <4>3. req'[y].ride \in CompletedRides
            BY <1>8, <2>2, <4>1, <4>2 DEF CompletedRides
      <4>4. /\ req[y].pc \in EndPcs /\ req'[y].ride = req[y].ride
            BY <4>1, <4>3, EndingComes DEF CompletedRides, RInv
      <4>5. rides'[req'[y].ride].driver = rides[req'[y].ride].driver
            BY <4>3, EndedStep DEF RInv
      <4>. QED BY <4>1, <4>3, <4>4, <4>5 DEF Racing, CompletedRides
    <3>2. S <= R
          BY <1>1, <3>1, FS_Subset
    <3>. HIDE DEF W, R, S, C, D
    <3>3. W * C <= W * D
          BY <1>1, <1>4
    <3>. QED BY <1>1, <1>2, <1>8, <3>2, <3>3
  <2>. QED BY <2>1, <2>2
<1>9. CASE trips' = trips
  <2>1. CompletedRides \subseteq CompletedRides'
        BY EndedStep DEF RInv, CompletedRides
  <2>2. CASE CompletedRides' \subseteq CompletedRides
        BY <1>7, <1>9, <2>2
  <2>3. CASE ~(CompletedRides' \subseteq CompletedRides)
    <3>1. PICK x \in RideIds : CompletedRides' \subseteq CompletedRides \cup {x}
          BY <2>3, CompletedStep DEF RInv
    <3>2. x \notin CompletedRides /\ CompletedRides' = CompletedRides \cup {x}
          BY <2>1, <2>3, <3>1
    <3>. QED BY <1>8, <1>9, <3>2
  <2>. QED BY <2>2, <2>3
<1>. QED BY <1>6, <1>9, EndsWritten

\* However many requests race to end rides, and whatever fails, the counter of
\* a driver never passes the requests in flight times the rides that ended.
THEOREM TripsCounted ==
  ASSUME IsFiniteSet(RideIds), IsFiniteSet(Workers)
  PROVE  Spec => []TripsBounded
<1>1. Init => EndsSeen
      BY DEF Init, EndsSeen, Idle
<1>2. Init => CountBounded
  <2>. SUFFICES ASSUME Init, NEW d \in Drivers
                PROVE  trips[d] + Cardinality(Racing(d))
                         <= Cardinality(Workers)
                              * Cardinality(RidesOf(d, CompletedRides))
       BY DEF CountBounded
  <2>1. trips[d] = 0 /\ Racing(d) = {} /\ RidesOf(d, CompletedRides) = {}
        BY DEF Init, Racing, RidesOf, CompletedRides, NoRide, Idle, EndPcs
  <2>2. Cardinality(Workers) \in Nat
        BY FS_CardinalityType
  <2>. QED BY <2>1, <2>2, FS_EmptySet
<1>3. RInv /\ EndsSeen /\ [Next]_vars => EndsSeen'
      BY EndsSeenStep DEF RInv
<1>4. RInv /\ RInv' /\ EndsSeen /\ CountBounded /\ [Next]_vars => CountBounded'
      BY CountStep
<1>5. RInv /\ CountBounded => TripsBounded
  <2>. SUFFICES ASSUME RInv, CountBounded, NEW d \in Drivers
                PROVE  trips[d] <= Cardinality(Workers)
                                    * Cardinality(RidesOf(d, CompletedRides))
       BY DEF TripsBounded
  <2>1. /\ Cardinality(Racing(d)) \in Nat /\ Cardinality(Workers) \in Nat
        /\ Cardinality(RidesOf(d, CompletedRides)) \in Nat
    <3>1. /\ Racing(d) \subseteq Workers
          /\ RidesOf(d, CompletedRides) \subseteq RideIds
          BY DEF Racing, RidesOf, CompletedRides
    <3>. QED BY <3>1, FS_Subset, FS_CardinalityType
  <2>2. trips[d] \in Nat
        BY DEF RInv, IInv, TypeOK
  <2>. QED BY <2>1, <2>2 DEF CountBounded
<1>. QED BY <1>1, <1>2, <1>3, <1>4, <1>5, RidesInvariance, PTL DEF Spec

-----------------------------------------------------------------------------
(* How many rides of one rider may overlap.                                *)

\* Start requests of rider u that found no active ride and are about to insert.
Starters(u) == {w \in Workers : At(w, "insert") /\ req[w].user = u}

\* Active rides there are, and active rides there may yet be.
ActiveHold ==
  \A u \in Users :
    Cardinality(ActiveRides(u)) + Cardinality(Starters(u))
      <= Cardinality(Workers)

\* A request is about to insert because it was before, or because it just found
\* no active ride of its rider.
LEMMA StartingComes ==
  ASSUME IInv, [Next]_vars, NEW x \in Workers, req'[x].pc = "insert"
  PROVE  \/ req[x].pc = "insert" /\ req'[x].user = req[x].user
         \/ ActiveRides(req'[x].user) = {}
<1>. USE DEF IInv, TypeOK
<1>. DEFINE Goal == \/ req[x].pc = "insert" /\ req'[x].user = req[x].user
                    \/ ActiveRides(req'[x].user) = {}
<1>1. CASE req'[x] = req[x]
      BY <1>1
<1>2. ASSUME NEW w \in Workers, Arrive(w) PROVE Goal
  <2>1. ASSUME NEW u \in Users, NEW y \in Vehicles, StartSelect(w, u, y)
        PROVE  Goal
        BY <2>1 DEF StartSelect, Accept, Idle
  <2>2. ASSUME NEW u \in Users, NEW y \in RideIds, NEW p \in Positions,
               PingSelect(w, u, y, p)
        PROVE  Goal
        BY <2>2 DEF PingSelect, Accept, Idle
  <2>3. ASSUME NEW u \in Users, NEW y \in RideIds, EndSelect(w, u, y)
        PROVE  Goal
        BY <2>3 DEF EndSelect, Accept, Idle
  <2>4. ASSUME NEW u \in Users, NEW y \in RideIds, NEW ids \in SUBSET Contacts,
               ShareSelect(w, u, y, ids)
        PROVE  Goal
        BY <2>4 DEF ShareSelect, Accept, Idle
  <2>. QED BY <1>2, <2>1, <2>2, <2>3, <2>4 DEF Arrive
<1>3. ASSUME NEW w \in Workers, Proceed(w) PROVE Goal
  <2>1. ASSUME StartOverlap(w) PROVE Goal
    <3>1. CASE ActiveRides(req[w].user) = {}
      <4>1. req' = [req EXCEPT ![w].pc = "insert"]
            BY <2>1, <3>1 DEF StartOverlap, Goto
      <4>2. req'[x].user = req[x].user /\ (x # w => req'[x] = req[x])
            BY <4>1 DEF Request
      <4>. QED BY <3>1, <4>1, <4>2
    <3>2. CASE ActiveRides(req[w].user) # {}
          BY <2>1, <3>2 DEF StartOverlap, Done, Idle
    <3>. QED BY <3>1, <3>2
  <2>2. CASE \/ PingInsert(w) \/ PingUpdate(w) \/ EndTrips(w)
             \/ EndUpdate(w) \/ EndUnshare(w) \/ ShareAddRejected(w)
             \/ \E r \in RideIds : StartInsert(w, r)
    <3>1. \/ req' = [req EXCEPT ![w] = Idle]
          \/ \E pc \in Steps \ {"insert"} : req' = [req EXCEPT ![w].pc = pc]
          BY <2>2 DEF PingInsert, PingUpdate, EndTrips, EndUpdate, EndUnshare,
                      ShareAddRejected, StartInsert, Goto, Done, Steps
    <3>. QED BY <3>1 DEF Idle, Request
  <2>3. CASE ShareContacts(w)
        BY <2>3 DEF ShareContacts
  <2>4. ASSUME NEW add, NEW drop, Loop(w, add, drop) PROVE Goal
    <3>1. \/ x = w /\ (req'[x] = Idle \/ req'[x].pc = "shareLoop")
          \/ req'[x] = req[x]
          BY <2>4 DEF Loop, Done, Request
    <3>. QED BY <1>1, <3>1 DEF Idle
  <2>. QED BY <1>3, <2>1, <2>2, <2>3, <2>4
           DEF Proceed, ShareExisting, ShareAdd, ShareDrop
<1>4. CASE \/ SweepStep \/ UNCHANGED vars
           \/ \E row \in pending : AuditWrite(row)
      BY <1>1, <1>4 DEF SweepStep, SweepSelect, SweepUpdate, SweepUnshare,
                        AuditWrite, vars
<1>5. CASE (\E w \in Workers : Fail(w)) \/ Crash
      BY <1>1, <1>5, FailureIdles DEF Idle
<1>6. CASE /\ Environment
           /\ ~((\E w \in Workers : Fail(w)) \/ Crash)
      BY <1>1, <1>6 DEF Environment, GoStale, RemoveContact, RevokeVehicle,
                        Suspend, FailSweep, LoseAudit
<1>. QED BY <1>2, <1>3, <1>4, <1>5, <1>6 DEF Next

\* Only an insert makes a ride active.
LEMMA ActiveKept ==
  ASSUME IInv, [Next]_vars, NEW u \in Users, NEW r \in ActiveRides(u)',
         ~\E w \in Workers : StartInsert(w, r)
  PROVE  r \in ActiveRides(u)
<1>1. /\ r \in RideIds /\ rides'[r].status = "active" /\ rides'[r].rider = u
      BY DEF ActiveRides, IsActive
<1>2. /\ rides[r].rider = u /\ rides[r].status # "absent"
      BY <1>1, RideRowKept
<1>3. rides[r].status # "completed"
      BY <1>1, EndedStep DEF CompletedRides
<1>4. rides[r].status \in Statuses
      BY <1>1 DEF IInv, TypeOK, RideRow
<1>. QED BY <1>1, <1>2, <1>3, <1>4 DEF ActiveRides, IsActive, Statuses

LEMMA ActiveStep ==
  ASSUME IsFiniteSet(RideIds), IsFiniteSet(Workers), IInv, ActiveHold,
         [Next]_vars
  PROVE  ActiveHold'
<1>. SUFFICES ASSUME NEW u \in Users
              PROVE  Cardinality(ActiveRides(u)') + Cardinality(Starters(u)')
                       <= Cardinality(Workers)
     BY DEF ActiveHold
<1>. DEFINE A == Cardinality(ActiveRides(u))
            B == Cardinality(ActiveRides(u)')
            S == Cardinality(Starters(u))
            T == Cardinality(Starters(u)')
            W == Cardinality(Workers)
<1>1. /\ IsFiniteSet(ActiveRides(u)) /\ IsFiniteSet(ActiveRides(u)')
      /\ IsFiniteSet(Starters(u)) /\ IsFiniteSet(Starters(u)')
      /\ A \in Nat /\ B \in Nat /\ S \in Nat /\ T \in Nat /\ W \in Nat
      /\ T <= W
  <2>1. /\ ActiveRides(u) \subseteq RideIds /\ ActiveRides(u)' \subseteq RideIds
        /\ Starters(u) \subseteq Workers /\ Starters(u)' \subseteq Workers
        BY DEF ActiveRides, Starters
  <2>. QED BY <2>1, FS_Subset, FS_CardinalityType
<1>2. A + S <= W
      BY DEF ActiveHold
<1>3. \/ Starters(u)' \subseteq Starters(u)
      \/ ActiveRides(u) = {}
  <2>1. ASSUME NEW x \in Workers, x \in Starters(u)', x \notin Starters(u)
        PROVE  ActiveRides(u) = {}
    <3>1. req'[x].pc = "insert" /\ req'[x].user = u
          BY <2>1 DEF Starters, At
    <3>2. ~(req[x].pc = "insert" /\ req'[x].user = req[x].user)
          BY <2>1, <3>1 DEF Starters, At
    <3>. QED BY <3>1, <3>2, StartingComes
  <2>2. Starters(u)' \subseteq Workers
        BY DEF Starters
  <2>. QED BY <2>1, <2>2
<1>4. ASSUME NEW w \in Workers, NEW r \in RideIds, StartInsert(w, r)
      PROVE  B + T <= W
  <2>1. /\ req[w].pc = "insert" /\ req' = [req EXCEPT ![w] = Idle]
        /\ rides'[r].rider = req[w].user
        /\ \A x \in RideIds : x # r => rides'[x] = rides[x]
    <3>1. /\ rides \in [RideIds -> RideRow]
          /\ rides' = [rides EXCEPT ![r] =
               [NoRide EXCEPT !.status = "active", !.rider = req[w].user,
                              !.driver = DriverOf[req[w].vehicle],
                              !.vehicle = req[w].vehicle]]
          BY <1>4 DEF StartInsert, IInv, TypeOK
    <3>2. rides'[r] = [NoRide EXCEPT !.status = "active", !.rider = req[w].user,
                              !.driver = DriverOf[req[w].vehicle],
                              !.vehicle = req[w].vehicle]
          BY <3>1
    <3>3. rides'[r].rider = req[w].user
          BY <3>2 DEF NoRide
    <3>4. \A x \in RideIds : x # r => rides'[x] = rides[x]
          BY <3>1
    <3>. QED BY <1>4, <3>3, <3>4 DEF StartInsert, At, Done
  <2>2. Starters(u)' \subseteq Starters(u) \ {w}
        BY <2>1 DEF Starters, At, Idle, IInv, TypeOK
  <2>3. ActiveRides(u)' \subseteq ActiveRides(u) \cup {r}
        BY <2>1 DEF ActiveRides, IsActive
  <2>4. CASE req[w].user = u
    <3>1. w \in Starters(u)
          BY <2>1, <2>4 DEF Starters, At
    <3>2. /\ IsFiniteSet(Starters(u) \ {w})
          /\ Cardinality(Starters(u) \ {w}) = S - 1
          BY <1>1, <3>1, FS_RemoveElement
    <3>3. T <= S - 1
          BY <2>2, <3>2, FS_Subset
    <3>4. /\ IsFiniteSet(ActiveRides(u) \cup {r})
          /\ \/ Cardinality(ActiveRides(u) \cup {r}) = A
             \/ Cardinality(ActiveRides(u) \cup {r}) = A + 1
          BY <1>1, FS_AddElement
    <3>5. B <= Cardinality(ActiveRides(u) \cup {r})
          BY <2>3, <3>4, FS_Subset
    <3>. HIDE DEF A, B, S, T, W
    <3>6. B <= A + 1
          BY <1>1, <3>4, <3>5
    <3>. QED BY <1>1, <1>2, <3>3, <3>6
  <2>5. CASE req[w].user # u
    <3>1. ActiveRides(u)' \subseteq ActiveRides(u)
          BY <2>1, <2>3, <2>5 DEF ActiveRides
    <3>2. B <= A /\ T <= S
          BY <1>1, <2>2, <3>1, FS_Subset
    <3>. HIDE DEF A, B, S, T, W
    <3>. QED BY <1>1, <1>2, <3>2
  <2>. QED BY <2>4, <2>5
<1>5. ASSUME ~\E w \in Workers, r \in RideIds : StartInsert(w, r)
      PROVE  B + T <= W
  <2>1. ActiveRides(u)' \subseteq ActiveRides(u)
    <3>. SUFFICES ASSUME NEW r \in ActiveRides(u)' PROVE r \in ActiveRides(u)
         OBVIOUS
    <3>1. r \in RideIds
          BY DEF ActiveRides
    <3>. QED BY <1>5, <3>1, ActiveKept
  <2>2. B <= A
        BY <1>1, <2>1, FS_Subset
  <2>3. CASE Starters(u)' \subseteq Starters(u)
    <3>1. T <= S
          BY <1>1, <2>3, FS_Subset
    <3>. HIDE DEF A, B, S, T, W
    <3>. QED BY <1>1, <1>2, <2>2, <3>1
  <2>4. CASE ActiveRides(u) = {}
    <3>1. A = 0
          BY <2>4, FS_EmptySet
    <3>. HIDE DEF A, B, S, T, W
    <3>. QED BY <1>1, <2>2, <3>1
  <2>. QED BY <1>3, <2>3, <2>4
<1>. QED BY <1>4, <1>5

\* The select and the insert of start are two statements, so a rider may come
\* to have several active rides: never more than there were requests in flight.
THEOREM OverlapBounded ==
  ASSUME IsFiniteSet(RideIds), IsFiniteSet(Workers)
  PROVE  Spec => []ActiveRidesBounded
<1>1. ASSUME Init PROVE ActiveHold
  <2>1. \A u \in Users : ActiveRides(u) = {} /\ Starters(u) = {}
        BY <1>1 DEF Init, ActiveRides, IsActive, Starters, At, NoRide, Idle
  <2>2. Cardinality({}) = 0 /\ Cardinality(Workers) \in Nat
        BY FS_EmptySet, FS_CardinalityType
  <2>. QED BY <2>1, <2>2 DEF ActiveHold
<1>2. IInv /\ ActiveHold /\ [Next]_vars => ActiveHold'
      BY ActiveStep
<1>3. ActiveHold => ActiveRidesBounded
  <2>. SUFFICES ASSUME ActiveHold, NEW u \in Users
                PROVE  Cardinality(ActiveRides(u)) <= Cardinality(Workers)
       BY DEF ActiveRidesBounded
  <2>1. /\ Cardinality(ActiveRides(u)) \in Nat
        /\ Cardinality(Starters(u)) \in Nat
        /\ Cardinality(Workers) \in Nat
    <3>1. ActiveRides(u) \subseteq RideIds /\ Starters(u) \subseteq Workers
          BY DEF ActiveRides, Starters
    <3>. QED BY <3>1, FS_Subset, FS_CardinalityType
  <2>. QED BY <2>1 DEF ActiveHold
<1>. QED BY <1>1, <1>2, <1>3, Invariance, PTL DEF Spec

\* Requests served one at a time never overlap rides: the race is the only way
\* to break what start checks, no failure and no crash does.
THEOREM OneByOne ==
  ASSUME IsFiniteSet(RideIds), IsFiniteSet(Workers), Cardinality(Workers) = 1
  PROVE  Spec => []OneActiveRide
<1>1. ActiveRidesBounded => OneActiveRide
      BY DEF ActiveRidesBounded, OneActiveRide
<1>. QED BY <1>1, OverlapBounded, PTL

-----------------------------------------------------------------------------
(* Without failures the audit trail is complete.                           *)

Told(act, r) == <<act, r>> \in log \cup pending
EndTold(r) == Told("ride.ended", r) \/ Told("ride.auto_ended", r)

\* The statements after the one that completed r are still to come.
BeingTold(r) ==
  \/ \E w \in Workers : req[w].pc \in {"endUnshare", "endTrips"}
                        /\ req[w].ride = r
  \/ sweep.pc = "unshare" /\ sweep.cur = r

SweepSeen == sweep.pc = "unshare" => rides[sweep.cur].status = "completed"

Telling ==
  \A r \in RideIds :
    /\ rides[r].status # "absent" <=> Told("ride.started", r)
    /\ EndTold(r) => rides[r].status = "completed"
    /\ rides[r].status = "completed" => EndTold(r) \/ BeingTold(r)

\* A request under way is moved by its own statements only.
LEMMA OnlyProceeds ==
  ASSUME IInv, [Next]_vars, faults' = faults, NEW x \in Workers,
         req[x].pc # "idle", req'[x] # req[x]
  PROVE  Proceed(x)
<1>. USE DEF IInv, TypeOK
<1>0. faults + 1 # faults
      BY FaultsAssumption
<1>1. ASSUME NEW w \in Workers, Arrive(w) PROVE FALSE
      BY <1>1 DEF Arrive, StartSelect, PingSelect, EndSelect, ShareSelect,
                  Accept
<1>2. ASSUME NEW w \in Workers, Proceed(w) PROVE Proceed(x)
  <2>1. CASE w = x
        BY <1>2, <2>1
  <2>2. CASE w # x
    <3>1. req'[x] = req[x]
          BY <1>2, <2>2 DEF Proceed, StartOverlap, StartInsert, PingInsert,
             PingUpdate, EndUpdate, EndUnshare, EndTrips, ShareContacts,
             ShareExisting, ShareAdd, ShareAddRejected, ShareDrop, Loop, Goto,
             Done
    <3>. QED BY <3>1
  <2>. QED BY <2>1, <2>2
<1>3. CASE \/ SweepStep \/ UNCHANGED vars
           \/ \E row \in pending : AuditWrite(row)
      BY <1>3 DEF SweepStep, SweepSelect, SweepUpdate, SweepUnshare,
                  AuditWrite, vars
<1>4. CASE Environment
      BY <1>0, <1>4 DEF Environment, GoStale, RemoveContact, RevokeVehicle,
                        Suspend, Fail, FailSweep, LoseAudit, Crash
<1>. QED BY <1>1, <1>2, <1>3, <1>4 DEF Next

\* What the trail tells, or is about to tell, is not taken back.
LEMMA TrailKept ==
  ASSUME IInv, [Next]_vars, faults' = faults
  PROVE  log \cup pending \subseteq log' \cup pending'
<1>0. faults + 1 # faults
      BY FaultsAssumption DEF IInv, TypeOK
<1>1. ASSUME NEW w \in Workers, Arrive(w) PROVE UNCHANGED <<log, pending>>
      BY <1>1 DEF Arrive, StartSelect, PingSelect, EndSelect, ShareSelect,
                  audits
<1>2. ASSUME NEW w \in Workers, Proceed(w)
      PROVE  log' = log /\ pending \subseteq pending'
      BY <1>2 DEF Proceed, StartOverlap, StartInsert, PingInsert, PingUpdate,
                  EndUpdate, EndUnshare, EndTrips, ShareContacts,
                  ShareExisting, ShareAdd, ShareAddRejected, ShareDrop, Loop,
                  Audit, audits
<1>3. CASE SweepStep
      BY <1>3 DEF SweepStep, SweepSelect, SweepUpdate, SweepUnshare, Audit,
                  audits
<1>4. CASE Environment \/ \E row \in pending : AuditWrite(row)
      BY <1>0, <1>4 DEF AuditWrite, Environment, GoStale, RemoveContact,
                        RevokeVehicle, Suspend, Fail, FailSweep, LoseAudit,
                        Crash, audits
<1>5. CASE UNCHANGED vars
      BY <1>5 DEF vars
<1>. QED BY <1>1, <1>2, <1>3, <1>4, <1>5 DEF Next

\* What it tells anew is what was just done.
LEMMA TrailGrows ==
  ASSUME [Next]_vars, NEW r \in RideIds
  PROVE  /\ Told("ride.started", r)' =>
              \/ Told("ride.started", r)
              \/ \E w \in Workers : StartInsert(w, r)
         /\ EndTold(r)' =>
              \/ EndTold(r)
              \/ \E w \in Workers : EndTrips(w) /\ req[w].ride = r
              \/ SweepUnshare /\ sweep.cur = r
<1>. USE DEF Told, EndTold
<1>. DEFINE Goal == /\ Told("ride.started", r)' =>
                         \/ Told("ride.started", r)
                         \/ \E w \in Workers : StartInsert(w, r)
                    /\ EndTold(r)' =>
                         \/ EndTold(r)
                         \/ \E w \in Workers : EndTrips(w) /\ req[w].ride = r
                         \/ SweepUnshare /\ sweep.cur = r
<1>0. CASE log' \cup pending' \subseteq log \cup pending
      BY <1>0
<1>1. ASSUME NEW w \in Workers, Arrive(w) PROVE Goal
      BY <1>0, <1>1 DEF Arrive, StartSelect, PingSelect, EndSelect,
                        ShareSelect, audits
<1>2. ASSUME NEW w \in Workers, Proceed(w) PROVE Goal
  <2>1. CASE \/ StartOverlap(w) \/ PingInsert(w) \/ PingUpdate(w)
             \/ EndUpdate(w) \/ EndUnshare(w) \/ ShareContacts(w)
             \/ ShareAddRejected(w)
        BY <1>0, <2>1 DEF StartOverlap, PingInsert, PingUpdate, EndUpdate,
                          EndUnshare, ShareContacts, ShareAddRejected, audits
  <2>2. ASSUME NEW x \in RideIds, StartInsert(w, x) PROVE Goal
        BY <2>2 DEF StartInsert, Audit
  <2>3. CASE EndTrips(w)
        BY <2>3 DEF EndTrips, Audit
  <2>4. ASSUME NEW add, NEW drop, Loop(w, add, drop), log' = log
        PROVE  Goal
    <3>1. pending' \subseteq pending
                     \cup {<<"ride.shares.updated", req[w].ride>>}
          BY <2>4 DEF Loop, Audit
    <3>. QED BY <2>4, <3>1
  <2>. QED BY <1>2, <2>1, <2>2, <2>3, <2>4
           DEF Proceed, ShareExisting, ShareAdd, ShareDrop
<1>3. CASE SweepSelect \/ \E x \in RideIds : SweepUpdate(x)
      BY <1>0, <1>3 DEF SweepSelect, SweepUpdate, audits
<1>4. CASE SweepUnshare
  <2>1. /\ pending' = pending \cup {<<"ride.auto_ended", sweep.cur>>}
        /\ log' = log
        BY <1>4 DEF SweepUnshare, Audit
  <2>. QED BY <1>4, <2>1
<1>5. CASE Environment \/ \E row \in pending : AuditWrite(row)
      BY <1>0, <1>5 DEF AuditWrite, Environment, GoStale, RemoveContact,
                        RevokeVehicle, Suspend, Fail, FailSweep, LoseAudit,
                        Crash, audits
<1>6. CASE UNCHANGED vars
      BY <1>0, <1>6 DEF vars
<1>. QED BY <1>1, <1>2, <1>3, <1>4, <1>5, <1>6 DEF Next, SweepStep

\* Of the job's locals a request touches at most what is observed of them.
LEMMA ProceedSweep ==
  ASSUME TypeOK, NEW w \in Workers, Proceed(w)
  PROVE  sweep'.pc = sweep.pc /\ sweep'.cur = sweep.cur
<1>1. CASE PingUpdate(w)
      BY <1>1 DEF PingUpdate, PingedBehind, TypeOK, Sweep
<1>2. CASE ~PingUpdate(w)
      BY <1>2 DEF Proceed, StartOverlap, StartInsert, PingInsert,
                  EndUpdate, EndUnshare, EndTrips, ShareContacts,
                  ShareExisting, ShareAdd, ShareAddRejected, ShareDrop
<1>. QED BY <1>1, <1>2

LEMMA SweepSeenStep ==
  ASSUME IInv, SweepSeen, [Next]_vars
  PROVE  SweepSeen'
<1>1. CASE sweep'.pc = sweep.pc /\ sweep'.cur = sweep.cur
  <2>1. CASE sweep.pc = "unshare"
    <3>1. sweep.cur \in CompletedRides
          BY <2>1 DEF SweepSeen, IInv, LocalsHold, CompletedRides
    <3>. QED BY <1>1, <3>1, EndedStep DEF SweepSeen
  <2>2. CASE sweep.pc # "unshare"
        BY <1>1, <2>2 DEF SweepSeen
  <2>. QED BY <2>1, <2>2
<1>2. ASSUME NEW r \in RideIds, SweepUpdate(r) PROVE SweepSeen'
      BY <1>2 DEF SweepUpdate, Completed, SweepSeen, IInv, TypeOK, RideRow
<1>3. CASE SweepSelect \/ SweepUnshare \/ FailSweep \/ Crash
  <2>1. CASE SweepUnshare
        BY <2>1 DEF SweepUnshare, SweepIdle, SweepSeen, IInv, TypeOK, Sweep
  <2>2. CASE SweepSelect
        BY <2>2 DEF SweepSelect, SweepIdle, SweepSeen
  <2>3. CASE FailSweep \/ Crash
        BY <2>3 DEF FailSweep, Crash, SweepIdle, SweepSeen
  <2>. QED BY <1>3, <2>1, <2>2, <2>3
<1>4. ASSUME NEW w \in Workers, Arrive(w) PROVE sweep' = sweep
      BY <1>4 DEF Arrive, StartSelect, PingSelect, EndSelect, ShareSelect
<1>5. ASSUME NEW w \in Workers, Proceed(w)
      PROVE  sweep'.pc = sweep.pc /\ sweep'.cur = sweep.cur
      BY <1>5, ProceedSweep DEF IInv
<1>6. CASE Environment \/ \E row \in pending : AuditWrite(row)
      BY <1>1, <1>3, <1>6 DEF Environment, AuditWrite, GoStale, RemoveContact,
                  RevokeVehicle, Suspend, Fail, LoseAudit
<1>. QED BY <1>1, <1>2, <1>3, <1>4, <1>5, <1>6 DEF Next, SweepStep, vars

\* A ride being told of goes on being told of until the trail has it.
LEMMA BeingToldStep ==
  ASSUME IInv, [Next]_vars, faults' = faults, NEW r \in RideIds, BeingTold(r)
  PROVE  BeingTold(r)' \/ EndTold(r)'
<1>. USE DEF IInv, TypeOK
<1>1. ASSUME NEW x \in Workers, req[x].ride = r,
             req[x].pc \in {"endUnshare", "endTrips"}
      PROVE  BeingTold(r)' \/ EndTold(r)'
  <2>1. CASE req'[x] = req[x]
        BY <1>1, <2>1 DEF BeingTold
  <2>2. CASE req'[x] # req[x]
    <3>1. EndUnshare(x) \/ EndTrips(x)
      <4>1. Proceed(x)
            BY <1>1, <2>2, OnlyProceeds
      <4>. QED BY <1>1, <4>1 DEF Proceed, StartOverlap, StartInsert,
               PingInsert, PingUpdate, EndUpdate, ShareContacts,
               ShareExisting, ShareAdd, ShareAddRejected, ShareDrop, At
    <3>2. CASE EndUnshare(x)
      <4>1. req'[x].pc = "endTrips" /\ req'[x].ride = r
            BY <1>1, <3>2 DEF EndUnshare, Goto, Request
      <4>. QED BY <4>1 DEF BeingTold
    <3>3. CASE EndTrips(x)
          BY <1>1, <3>3 DEF EndTrips, Audit, EndTold, Told
    <3>. QED BY <3>1, <3>2, <3>3
  <2>. QED BY <2>1, <2>2
<1>2. CASE sweep.pc = "unshare" /\ sweep.cur = r
  <2>0. faults + 1 # faults
        BY FaultsAssumption
  <2>1. CASE sweep'.pc = sweep.pc /\ sweep'.cur = sweep.cur
        BY <1>2, <2>1 DEF BeingTold
  <2>2. CASE SweepUnshare
        BY <1>2, <2>2 DEF SweepUnshare, Audit, EndTold, Told
  <2>3. CASE SweepSelect \/ \E x \in RideIds : SweepUpdate(x)
        BY <1>2, <2>3 DEF SweepSelect, SweepUpdate
  <2>4. ASSUME NEW w \in Workers, Arrive(w) PROVE sweep' = sweep
        BY <2>4 DEF Arrive, StartSelect, PingSelect, EndSelect, ShareSelect
  <2>5. ASSUME NEW w \in Workers, Proceed(w)
        PROVE  sweep'.pc = sweep.pc /\ sweep'.cur = sweep.cur
        BY <2>5, ProceedSweep
  <2>6. CASE Environment \/ \E row \in pending : AuditWrite(row)
        BY <2>0, <2>1, <2>6 DEF Environment, AuditWrite, GoStale, Crash,
           RemoveContact, RevokeVehicle, Suspend, Fail, FailSweep, LoseAudit
  <2>. QED BY <2>1, <2>2, <2>3, <2>4, <2>5, <2>6 DEF Next, SweepStep, vars
<1>. QED BY <1>1, <1>2 DEF BeingTold

\* A ride that is just completed is being told of.
LEMMA NewlyCompleted ==
  ASSUME IInv, [Next]_vars, NEW r \in RideIds,
         rides[r].status # "completed", rides'[r].status = "completed"
  PROVE  BeingTold(r)'
<1>. USE DEF IInv, TypeOK
<1>1. ASSUME NEW w \in Workers, NEW x \in RideIds, StartInsert(w, x) PROVE FALSE
      BY <1>1 DEF StartInsert, NoRide
<1>2. ASSUME NEW w \in Workers, PingUpdate(w) PROVE FALSE
      BY <1>2 DEF PingUpdate, RideRow
<1>3. ASSUME NEW w \in Workers, EndUpdate(w) PROVE BeingTold(r)'
  <2>1. req[w].ride = r
        BY <1>3 DEF EndUpdate, Completed
  <2>2. req'[w].pc = "endUnshare" /\ req'[w].ride = r
        BY <1>3, <2>1 DEF EndUpdate, Goto, Request
  <2>. QED BY <2>2 DEF BeingTold
<1>4. ASSUME NEW x \in RideIds, SweepUpdate(x) PROVE BeingTold(r)'
  <2>1. x = r
        BY <1>4 DEF SweepUpdate, Completed
  <2>. QED BY <1>4, <2>1 DEF SweepUpdate, BeingTold
<1>. QED BY <1>1, <1>2, <1>3, <1>4, RidesWritten

LEMMA TellingStep ==
  ASSUME RInv, RInv', EndsSeen, SweepSeen, faults = 0 => Telling, [Next]_vars
  PROVE  faults' = 0 => Telling'
<1>. SUFFICES ASSUME faults' = 0, NEW r \in RideIds
              PROVE  /\ rides'[r].status # "absent" <=> Told("ride.started", r)'
                     /\ EndTold(r)' => rides'[r].status = "completed"
                     /\ rides'[r].status = "completed"
                          => EndTold(r)' \/ BeingTold(r)'
     BY DEF Telling
<1>1. faults = 0 /\ faults' = faults
  <2>1. faults \in Nat
        BY FaultsAssumption DEF RInv, IInv, TypeOK
  <2>2. faults' = faults \/ faults' = faults + 1
        BY DEF Next, Arrive, StartSelect, PingSelect, EndSelect,
             ShareSelect, Proceed, StartOverlap, StartInsert, PingInsert,
             PingUpdate, EndUpdate, EndUnshare, EndTrips, ShareContacts,
             ShareExisting, ShareAdd, ShareAddRejected, ShareDrop, SweepStep,
             SweepSelect, SweepUpdate, SweepUnshare, AuditWrite, Environment,
             GoStale, RemoveContact, RevokeVehicle, Suspend, Fail, FailSweep,
             LoseAudit, Crash, vars
  <2>. QED BY <2>1, <2>2
<1>2. /\ rides[r].status # "absent" <=> Told("ride.started", r)
      /\ EndTold(r) => rides[r].status = "completed"
      /\ rides[r].status = "completed" => EndTold(r) \/ BeingTold(r)
      BY <1>1 DEF Telling
<1>3. /\ Told("ride.started", r) => Told("ride.started", r)'
      /\ EndTold(r) => EndTold(r)'
      BY <1>1, TrailKept DEF RInv, Told, EndTold
<1>4. rides'[r].status # "absent" <=> Told("ride.started", r)'
  <2>1. ASSUME NEW w \in Workers, StartInsert(w, r)
        PROVE  rides'[r].status # "absent" /\ Told("ride.started", r)'
        BY <2>1 DEF StartInsert, Audit, Told, RInv, IInv, TypeOK, NoRide
  <2>2. CASE ~\E w \in Workers : StartInsert(w, r)
    <3>1. rides'[r].status = "absent" <=> rides[r].status = "absent"
          BY <2>2, RideRowKept DEF RInv
    <3>. QED BY <1>2, <1>3, <2>2, <3>1, TrailGrows
  <2>. QED BY <2>1, <2>2
<1>5. rides[r].status = "completed" => rides'[r].status = "completed"
      BY EndedStep DEF RInv, CompletedRides
<1>6. EndTold(r)' => rides'[r].status = "completed"
  <2>1. ASSUME NEW w \in Workers, EndTrips(w), req[w].ride = r
        PROVE  rides[r].status = "completed"
        BY <2>1 DEF EndTrips, At, EndsSeen
  <2>2. ASSUME SweepUnshare, sweep.cur = r
        PROVE  rides[r].status = "completed"
        BY <2>2 DEF SweepUnshare, SweepSeen
  <2>. QED BY <1>2, <1>5, <2>1, <2>2, TrailGrows
<1>7. rides'[r].status = "completed" => EndTold(r)' \/ BeingTold(r)'
      BY <1>1, <1>2, <1>3, BeingToldStep, NewlyCompleted DEF RInv
<1>. QED BY <1>4, <1>6, <1>7

\* As long as nothing fails, the trail tells, whenever nothing is in flight,
\* exactly which rides began and which ended.
THEOREM TrailComplete == Spec => []AuditComplete
<1>1. Init => EndsSeen /\ SweepSeen /\ (faults = 0 => Telling)
      BY DEF Init, EndsSeen, SweepSeen, Telling, Told, EndTold, Idle,
             SweepIdle, NoRide
<1>2. RInv /\ EndsSeen /\ SweepSeen /\ [Next]_vars => EndsSeen' /\ SweepSeen'
      BY EndsSeenStep, SweepSeenStep DEF RInv
<1>3. RInv /\ RInv' /\ EndsSeen /\ SweepSeen /\ (faults = 0 => Telling)
        /\ [Next]_vars => (faults = 0 => Telling)'
      BY TellingStep
<1>4. RInv /\ (faults = 0 => Telling) => AuditComplete
  <2>. SUFFICES ASSUME RInv, Telling, Quiet
                PROVE  /\ {r \in RideIds : <<"ride.started", r>> \in log}
                            = {r \in RideIds : rides[r].status # "absent"}
                       /\ {r \in RideIds : \/ <<"ride.ended", r>> \in log
                                            \/ <<"ride.auto_ended", r>> \in log}
                            = CompletedRides
       BY DEF AuditComplete
  <2>1. ASSUME NEW r \in RideIds PROVE ~BeingTold(r)
        BY DEF BeingTold, Quiet
  <2>2. ASSUME NEW r \in RideIds
        PROVE  /\ rides[r].status # "absent" <=> <<"ride.started", r>> \in log
               /\ rides[r].status = "completed"
                    <=> \/ <<"ride.ended", r>> \in log
                        \/ <<"ride.auto_ended", r>> \in log
        BY <2>1 DEF Telling, Told, EndTold, Quiet
  <2>. QED BY <2>2 DEF CompletedRides
<1>. QED BY <1>1, <1>2, <1>3, <1>4, RidesInvariance, PTL DEF Spec
=============================================================================
