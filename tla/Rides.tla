------------------------------- MODULE Rides -------------------------------
(***************************************************************************)
(* RidesService (start, ping, end, setShares) with the cron job            *)
(* endStaleRides that ends rides behind the riders' backs.                 *)
(*                                                                         *)
(* A handler is an async function without a transaction: every awaited     *)
(* database statement is one atomic step, and between two of them the      *)
(* statements of other requests, of the cron job and of the process that   *)
(* serves DELETE contact / POST revoke may run.  A request is a worker     *)
(* with a pc naming the statement it is about to run and the locals the    *)
(* rest of the handler still uses.  Rejected requests change nothing and   *)
(* are the missing steps.                                                  *)
(***************************************************************************)
EXTENDS Integers, FiniteSets

CONSTANTS
  Users,      \* riders
  Drivers,    \* users.id of the drivers (rides.driverId)
  Vehicles,   \* rows of vehicles
  DriverOf,   \* vehicles.driverId, joined with drivers.userId
  Contacts,   \* rows of emergency_contacts
  OwnerOf,    \* emergency_contacts.userId
  RideIds,    \* pool of fresh ids: newId() of rides
  ShareIds,   \* pool of fresh ids: newId() of ride_shares
  Positions,  \* the points a phone may report
  Workers,    \* requests that may be in flight together
  Ops,        \* operations that happen in this instance
  MaxFaults,  \* bound on failed statements and crashes
  None        \* SQL NULL / JavaScript undefined

ASSUME DriverOfAssumption == DriverOf \in [Vehicles -> Drivers]
ASSUME OwnerOfAssumption == OwnerOf \in [Contacts -> Users]
ASSUME FaultsAssumption == MaxFaults \in Nat
ASSUME NoneAssumption ==
  None \notin Users \cup Drivers \cup Vehicles \cup Contacts \cup RideIds
                \cup ShareIds \cup Positions

VARIABLES
  rides,      \* table rides
  recorded,   \* table ride_locations: the points recorded for a ride
  fresh,      \* rides whose last ping (or start) is at most 3 hours old
  shares,     \* table ride_shares
  contacts,   \* rows of emergency_contacts that exist
  active,     \* vehicles with is_active
  suspended,  \* drivers with suspended_at
  trips,      \* drivers.total_verified_trips
  log,        \* table audit_events, as <<action, ride>>
  pending,    \* audit rows on their way to the table
  req,        \* the requests in flight
  sweep,      \* the run of endStaleRides in progress
  cut,        \* rides of end requests that stopped half way (observed)
  faults      \* failures so far

vars == <<rides, recorded, fresh, shares, contacts, active, suspended, trips,
          log, pending, req, sweep, cut, faults>>
tables == <<rides, recorded, fresh, shares, trips>>
world == <<contacts, active, suspended>>  \* written by other components
audits == <<log, pending>>

-----------------------------------------------------------------------------
Statuses == {"absent", "active", "completed"}
\* reasons (observed): every reason the row was ended with, not the last alone.
RideRow == [status : Statuses, rider : Users \cup {None},
            driver : Drivers \cup {None}, vehicle : Vehicles \cup {None},
            reason : {"none", "rider", "auto_timeout"},
            last : Positions \cup {None},
            reasons : SUBSET {"rider", "auto_timeout"}]
ShareRow == [state : {"absent", "live", "ended", "deleted"},
             ride : RideIds \cup {None}, contact : Contacts \cup {None}]

Steps == {"idle", "overlap", "insert", "pingInsert", "pingUpdate", "endUpdate",
          "endUnshare", "endTrips", "shareContacts", "shareExisting",
          "shareLoop"}
AuditActions == {"ride.started", "ride.ended", "ride.shares.updated",
                 "ride.auto_ended"}
Request == [pc : Steps, user : Users \cup {None}, ride : RideIds \cup {None},
            vehicle : Vehicles \cup {None}, pos : Positions \cup {None},
            valid : SUBSET Contacts, add : SUBSET Contacts,
            drop : SUBSET ShareIds]
\* pinged (observed): rides selected by this run that were pinged since.
Sweep == [pc : {"idle", "update", "unshare"}, todo : SUBSET RideIds,
          cur : RideIds \cup {None}, pinged : SUBSET RideIds]

NoRide == [status |-> "absent", rider |-> None, driver |-> None,
           vehicle |-> None, reason |-> "none", last |-> None,
           reasons |-> {}]
NoShare == [state |-> "absent", ride |-> None, contact |-> None]
Idle == [pc |-> "idle", user |-> None, ride |-> None, vehicle |-> None,
         pos |-> None, valid |-> {}, add |-> {}, drop |-> {}]
SweepIdle == [pc |-> "idle", todo |-> {}, cur |-> None, pinged |-> {}]

Init ==
  /\ rides = [r \in RideIds |-> NoRide]
  /\ recorded = [r \in RideIds |-> {}]
  /\ fresh = {}
  /\ shares = [s \in ShareIds |-> NoShare]
  /\ contacts = Contacts
  /\ active = Vehicles
  /\ suspended = {}
  /\ trips = [d \in Drivers |-> 0]
  /\ log = {}
  /\ pending = {}
  /\ req = [w \in Workers |-> Idle]
  /\ sweep = SweepIdle
  /\ cut = {}
  /\ faults = 0

-----------------------------------------------------------------------------
(* Vocabulary of the queries.                                              *)

IsActive(r) == rides[r].status = "active"
LiveShares(r) ==
  {s \in ShareIds : shares[s].state = "live" /\ shares[s].ride = r}
ActiveRides(u) == {r \in RideIds : IsActive(r) /\ rides[r].rider = u}

\* Mutant: the status check forgotten.
MayTouchAnyStatus(u, r) == rides[r].rider = u

\* The select and the three checks that ping, end and setShares begin with.
MayTouch(u, r) == rides[r].rider = u /\ IsActive(r)

\* UPDATE ride_shares SET unshared_at WHERE ride = r AND unshared_at IS NULL
Unshared(r) ==
  [s \in ShareIds |-> IF s \in LiveShares(r)
                      THEN [shares[s] EXCEPT !.state = "ended"]
                      ELSE shares[s]]

\* UPDATE rides SET status = 'completed', end_reason = reason WHERE id = r
Completed(r, reason) ==
  [rides EXCEPT ![r].status = "completed", ![r].reason = reason,
                ![r].reasons = @ \cup {reason}]

Accept(w, op, request) == op \in Ops /\ req[w].pc = "idle"
                          /\ req' = [req EXCEPT ![w] = request]
At(w, pc) == req[w].pc = pc
Goto(w, pc) == req' = [req EXCEPT ![w].pc = pc]
Done(w) == req' = [req EXCEPT ![w] = Idle]

\* AuditService.write: an insert nobody awaits, it may land long after the
\* response or not at all.
Audit(act, r) == pending' = pending \cup {<<act, r>>}

-----------------------------------------------------------------------------
(* start                                                                   *)

\* Mutant: is_active forgotten in the WHERE clause.
StartSelectRevoked(w, u, v) ==
  /\ DriverOf[v] \notin suspended
  /\ Accept(w, "start",
       [Idle EXCEPT !.pc = "overlap", !.user = u, !.vehicle = v])
  /\ UNCHANGED <<tables, audits, sweep, world, cut, faults>>

StartSelect(w, u, v) ==
  /\ v \in active
  /\ DriverOf[v] \notin suspended
  /\ Accept(w, "start",
       [Idle EXCEPT !.pc = "overlap", !.user = u, !.vehicle = v])
  /\ UNCHANGED <<tables, audits, sweep, world, cut, faults>>

StartOverlap(w) ==
  /\ At(w, "overlap")
  /\ IF ActiveRides(req[w].user) = {} THEN Goto(w, "insert") ELSE Done(w)
  /\ UNCHANGED <<tables, audits, sweep, world, cut, faults>>

StartInsert(w, r) ==
  /\ At(w, "insert")
  /\ rides[r].status = "absent"
  /\ rides' = [rides EXCEPT ![r] =
       [NoRide EXCEPT !.status = "active", !.rider = req[w].user,
                      !.driver = DriverOf[req[w].vehicle],
                      !.vehicle = req[w].vehicle]]
  /\ fresh' = fresh \cup {r}
  /\ Audit("ride.started", r)
  /\ Done(w)
  /\ UNCHANGED <<recorded, shares, trips, log, sweep, world, cut, faults>>

-----------------------------------------------------------------------------
(* ping                                                                    *)

PingSelect(w, u, r, p) ==
  /\ MayTouch(u, r)
  /\ Accept(w, "ping", [Idle EXCEPT !.pc = "pingInsert", !.user = u,
                                    !.ride = r, !.pos = p])
  /\ UNCHANGED <<tables, audits, sweep, world, cut, faults>>

PingInsert(w) ==
  /\ At(w, "pingInsert")
  /\ recorded' = [recorded EXCEPT ![req[w].ride] = @ \cup {req[w].pos}]
  /\ Goto(w, "pingUpdate")
  /\ UNCHANGED <<rides, fresh, shares, trips, audits, sweep, world, cut, faults>>

\* The job has the ride on its list: it will end it although it is fresh.
PingedBehind(r) == sweep' = [sweep EXCEPT !.pinged = @ \cup (sweep.todo \cap {r})]

\* Mutant: the row of the select is written back with its status.
PingUpdateStaleRow(w) ==
  /\ At(w, "pingUpdate")
  /\ rides' = [rides EXCEPT ![req[w].ride].last = req[w].pos,
                            ![req[w].ride].status = "active"]
  /\ fresh' = fresh \cup {req[w].ride}
  /\ PingedBehind(req[w].ride)
  /\ Done(w)
  /\ UNCHANGED <<recorded, shares, trips, audits, world, cut, faults>>

PingUpdate(w) ==
  /\ At(w, "pingUpdate")
  /\ rides' = [rides EXCEPT ![req[w].ride].last = req[w].pos]
  /\ fresh' = fresh \cup {req[w].ride}
  /\ PingedBehind(req[w].ride)
  /\ Done(w)
  /\ UNCHANGED <<recorded, shares, trips, audits, world, cut, faults>>

-----------------------------------------------------------------------------
(* end                                                                     *)

EndSelect(w, u, r) ==
  /\ MayTouch(u, r)
  /\ Accept(w, "end", [Idle EXCEPT !.pc = "endUpdate", !.user = u, !.ride = r])
  /\ UNCHANGED <<tables, audits, sweep, world, cut, faults>>

EndUpdate(w) ==
  /\ At(w, "endUpdate")
  /\ rides' = Completed(req[w].ride, "rider")
  /\ Goto(w, "endUnshare")
  /\ UNCHANGED <<recorded, fresh, shares, trips, audits, sweep, world,
                 cut, faults>>

\* Mutant: an early return when there is nothing to unshare.
EndUnshareEarlyReturn(w) ==
  /\ At(w, "endUnshare")
  /\ shares' = Unshared(req[w].ride)
  /\ IF LiveShares(req[w].ride) = {} THEN Done(w) ELSE Goto(w, "endTrips")
  /\ UNCHANGED <<rides, recorded, fresh, trips, audits, sweep, world,
                 cut, faults>>

\* Mutant: the audit row is written before the counter is bumped.
EndUnshareAuditsEarly(w) ==
  /\ At(w, "endUnshare")
  /\ shares' = Unshared(req[w].ride)
  /\ Audit("ride.ended", req[w].ride)
  /\ Goto(w, "endTrips")
  /\ UNCHANGED <<rides, recorded, fresh, trips, log, sweep, world, cut, faults>>

EndUnshare(w) ==
  /\ At(w, "endUnshare")
  /\ shares' = Unshared(req[w].ride)
  /\ Goto(w, "endTrips")
  /\ UNCHANGED <<rides, recorded, fresh, trips, audits, sweep, world,
                 cut, faults>>

\* rides.driverId never changes, so the driver of the select is still the one.
EndTrips(w) ==
  /\ At(w, "endTrips")
  /\ trips' = [trips EXCEPT ![rides[req[w].ride].driver] = @ + 1]
  /\ Audit("ride.ended", req[w].ride)
  /\ Done(w)
  /\ UNCHANGED <<rides, recorded, fresh, shares, log, sweep, world, cut, faults>>

-----------------------------------------------------------------------------
(* setShares                                                               *)

\* With no contact ids the query on emergency_contacts is skipped.
ShareSelect(w, u, r, ids) ==
  /\ MayTouch(u, r)
  /\ Accept(w, "share",
       [Idle EXCEPT !.pc = IF ids = {} THEN "shareExisting"
                                       ELSE "shareContacts",
                    !.user = u, !.ride = r, !.valid = ids])
  /\ UNCHANGED <<tables, audits, sweep, world, cut, faults>>

\* Mutant: the owner forgotten in the WHERE clause.
ValidContactsOfAnyone(u, ids) == ids \cap contacts

ValidContacts(u, ids) == {c \in ids \cap contacts : OwnerOf[c] = u}

ShareContacts(w) ==
  /\ At(w, "shareContacts")
  /\ req' = [req EXCEPT ![w].pc = "shareExisting",
                        ![w].valid = ValidContacts(req[w].user, @)]
  /\ UNCHANGED <<tables, audits, sweep, world, cut, faults>>

\* The two loops: after the last statement comes a select whose rows are only
\* returned, so the next step is the audit row.
Loop(w, add, drop) ==
  IF add = {} /\ drop = {}
  THEN Audit("ride.shares.updated", req[w].ride) /\ Done(w)
  ELSE /\ req' = [req EXCEPT ![w].pc = "shareLoop", ![w].add = add,
                             ![w].drop = drop]
       /\ UNCHANGED pending

ShareExisting(w) ==
  /\ At(w, "shareExisting")
  /\ LET existing == LiveShares(req[w].ride)
         valid == req[w].valid
     IN  Loop(w, valid \ {shares[s].contact : s \in existing},
                 {s \in existing : shares[s].contact \notin valid})
  /\ UNCHANGED <<tables, log, sweep, world, cut, faults>>

\* Mutant: no foreign key on ride_shares.contact_id.
ShareAddNoForeignKey(w, c, s) ==
  /\ At(w, "shareLoop")
  /\ c \in req[w].add
  /\ shares[s].state = "absent"
  /\ shares' = [shares EXCEPT ![s] =
                  [state |-> "live", ride |-> req[w].ride, contact |-> c]]
  /\ Loop(w, req[w].add \ {c}, req[w].drop)
  /\ UNCHANGED <<rides, recorded, fresh, trips, log, sweep, world, cut, faults>>

ShareAdd(w, c, s) ==
  /\ At(w, "shareLoop")
  /\ c \in req[w].add \cap contacts
  /\ shares[s].state = "absent"
  /\ shares' = [shares EXCEPT ![s] =
                  [state |-> "live", ride |-> req[w].ride, contact |-> c]]
  /\ Loop(w, req[w].add \ {c}, req[w].drop)
  /\ UNCHANGED <<rides, recorded, fresh, trips, log, sweep, world, cut, faults>>

\* The contact was removed meanwhile: the foreign key rejects the insert and
\* the request ends with INTERNAL_ERROR.
ShareAddRejected(w) ==
  /\ At(w, "shareLoop")
  /\ req[w].add \ contacts # {}
  /\ Done(w)
  /\ UNCHANGED <<tables, audits, sweep, world, cut, faults>>

\* An UPDATE by id: it rewrites unshared_at of a row already unshared and
\* matches nothing when the row was deleted.
ShareDrop(w, s) ==
  /\ At(w, "shareLoop")
  /\ req[w].add = {}
  /\ s \in req[w].drop
  /\ shares' = [shares EXCEPT ![s].state =
                  IF @ = "deleted" THEN @ ELSE "ended"]
  /\ Loop(w, {}, req[w].drop \ {s})
  /\ UNCHANGED <<rides, recorded, fresh, trips, log, sweep, world, cut, faults>>

-----------------------------------------------------------------------------
(* AuditService.doWrite lands its row.                                      *)

AuditWrite(row) ==
  /\ row \in pending
  /\ pending' = pending \ {row}
  /\ log' = log \cup {row}
  /\ UNCHANGED <<tables, req, sweep, world, cut, faults>>

-----------------------------------------------------------------------------
(* endStaleRides, every ten minutes                                         *)

\* Mutant: rides that never had a ping are forgotten.
SweepSelectPingedOnly ==
  LET stale == {r \in RideIds : IsActive(r) /\ r \notin fresh
                                           /\ rides[r].last # None}
  IN  /\ "sweep" \in Ops
      /\ sweep.pc = "idle"
      /\ stale # {}
      /\ sweep' = [SweepIdle EXCEPT !.pc = "update", !.todo = stale]
      /\ UNCHANGED <<tables, audits, req, world, cut, faults>>

\* Mutant: the age of a ride without a ping is not looked at.
SweepSelectUnpinged ==
  LET stale == {r \in RideIds : IsActive(r) /\ (r \notin fresh
                                                \/ rides[r].last = None)}
  IN  /\ "sweep" \in Ops
      /\ sweep.pc = "idle"
      /\ stale # {}
      /\ sweep' = [SweepIdle EXCEPT !.pc = "update", !.todo = stale]
      /\ UNCHANGED <<tables, audits, req, world, cut, faults>>

SweepSelect ==
  LET stale == {r \in RideIds : IsActive(r) /\ r \notin fresh}
  IN  /\ "sweep" \in Ops
      /\ sweep.pc = "idle"
      /\ stale # {}
      /\ sweep' = [SweepIdle EXCEPT !.pc = "update", !.todo = stale]
      /\ UNCHANGED <<tables, audits, req, world, cut, faults>>

SweepUpdate(r) ==
  /\ sweep.pc = "update"
  /\ r \in sweep.todo
  /\ rides' = Completed(r, "auto_timeout")
  /\ sweep' = [sweep EXCEPT !.pc = "unshare", !.todo = @ \ {r}, !.cur = r]
  /\ UNCHANGED <<recorded, fresh, shares, trips, audits, req, world, cut, faults>>

\* Mutant: the job leaves no audit row.
SweepUnshareSilent ==
  /\ sweep.pc = "unshare"
  /\ shares' = Unshared(sweep.cur)
  /\ sweep' = IF sweep.todo = {} THEN SweepIdle
              ELSE [sweep EXCEPT !.pc = "update", !.cur = None]
  /\ UNCHANGED <<rides, recorded, fresh, trips, audits, req, world, cut, faults>>

SweepUnshare ==
  /\ sweep.pc = "unshare"
  /\ shares' = Unshared(sweep.cur)
  /\ Audit("ride.auto_ended", sweep.cur)
  /\ sweep' = IF sweep.todo = {} THEN SweepIdle
              ELSE [sweep EXCEPT !.pc = "update", !.cur = None]
  /\ UNCHANGED <<rides, recorded, fresh, trips, log, req, world, cut, faults>>

SweepStep == \/ SweepSelect
             \/ \E r \in RideIds : SweepUpdate(r)
             \/ SweepUnshare

-----------------------------------------------------------------------------
(* The rest of the system, as far as rides depend on it.                    *)

\* Three hours pass without a ping.
GoStale(r) ==
  /\ "stale" \in Ops
  /\ IsActive(r) /\ r \in fresh
  /\ fresh' = fresh \ {r}
  /\ UNCHANGED <<rides, recorded, shares, trips, audits, req, sweep, world,
                 cut, faults>>

\* RidersService.removeContact: ON DELETE CASCADE takes the shares with it.
RemoveContact(c) ==
  /\ "removeContact" \in Ops
  /\ c \in contacts
  /\ contacts' = contacts \ {c}
  /\ shares' = [s \in ShareIds |-> IF shares[s].contact = c
                                   THEN [shares[s] EXCEPT !.state = "deleted"]
                                   ELSE shares[s]]
  /\ UNCHANGED <<rides, recorded, fresh, trips, audits, req, sweep, active,
                 suspended, cut, faults>>

\* DriversService.revokeVehicle.
RevokeVehicle(v) ==
  /\ "revoke" \in Ops
  /\ active' = active \ {v}
  /\ UNCHANGED <<tables, audits, req, sweep, contacts, suspended, cut, faults>>

\* drivers.suspended_at is set by hand: nothing in the repository writes it.
Suspend(d) ==
  /\ "suspend" \in Ops
  /\ suspended' = suspended \cup {d}
  /\ UNCHANGED <<tables, audits, req, sweep, contacts, active, cut, faults>>

\* The rides that requests of ws have ended, and not yet counted.
HalfEnded(ws) ==
  {req[w].ride : w \in {x \in ws : req[x].pc \in {"endUnshare", "endTrips"}}}

\* The next statement of a request fails: INTERNAL_ERROR, and what the earlier
\* statements wrote stays.
Fail(w) ==
  /\ faults < MaxFaults
  /\ req[w].pc # "idle"
  /\ Done(w)
  /\ cut' = cut \cup HalfEnded({w})
  /\ faults' = faults + 1
  /\ UNCHANGED <<tables, audits, sweep, world>>

\* A statement of the cron job fails: the exception ends this run of the job.
FailSweep ==
  /\ faults < MaxFaults
  /\ sweep.pc # "idle"
  /\ sweep' = SweepIdle
  /\ faults' = faults + 1
  /\ UNCHANGED <<tables, audits, req, world, cut>>

\* A failed audit insert is only logged.
LoseAudit(row) ==
  /\ faults < MaxFaults
  /\ row \in pending
  /\ pending' = pending \ {row}
  /\ faults' = faults + 1
  /\ UNCHANGED <<tables, log, req, sweep, world, cut>>

\* The process dies: what is in flight is gone, the database stays.
Crash ==
  /\ faults < MaxFaults
  /\ req' = [w \in Workers |-> Idle]
  /\ sweep' = SweepIdle
  /\ pending' = {}
  /\ cut' = cut \cup HalfEnded(Workers)
  /\ faults' = faults + 1
  /\ UNCHANGED <<tables, log, world>>

-----------------------------------------------------------------------------
Arrive(w) ==
  \/ \E u \in Users, v \in Vehicles : StartSelect(w, u, v)
  \/ \E u \in Users, r \in RideIds :
       \/ \E p \in Positions : PingSelect(w, u, r, p)
       \/ EndSelect(w, u, r)
       \/ \E ids \in SUBSET Contacts : ShareSelect(w, u, r, ids)

Proceed(w) ==
  \/ StartOverlap(w)
  \/ \E r \in RideIds : StartInsert(w, r)
  \/ PingInsert(w) \/ PingUpdate(w)
  \/ EndUpdate(w) \/ EndUnshare(w) \/ EndTrips(w)
  \/ ShareContacts(w) \/ ShareExisting(w)
  \/ \E c \in Contacts, s \in ShareIds : ShareAdd(w, c, s)
  \/ ShareAddRejected(w)
  \/ \E s \in ShareIds : ShareDrop(w, s)

Environment ==
  \/ \E r \in RideIds : GoStale(r)
  \/ \E c \in Contacts : RemoveContact(c)
  \/ \E v \in Vehicles : RevokeVehicle(v)
  \/ \E d \in Drivers : Suspend(d)
  \/ \E w \in Workers : Fail(w)
  \/ FailSweep
  \/ \E row \in pending : LoseAudit(row)
  \/ Crash

Next == \/ \E w \in Workers : Arrive(w) \/ Proceed(w)
        \/ SweepStep
        \/ \E row \in pending : AuditWrite(row)
        \/ Environment

Spec == Init /\ [][Next]_vars

\* The event loop runs what is ready and the scheduler fires the cron job:
\* a request in flight and the sweep go on.  Nobody has to send a request.
FairSpec ==
  Spec /\ WF_vars(SweepStep) /\ \A w \in Workers : WF_vars(Proceed(w))

-----------------------------------------------------------------------------
(* Type invariant.                                                         *)

\* Every table, request and counter stays inside its type: the columns the
\* schema declares, the locals the handlers keep.
TypeOK ==
  /\ rides \in [RideIds -> RideRow]
  /\ recorded \in [RideIds -> SUBSET Positions]
  /\ fresh \subseteq RideIds
  /\ shares \in [ShareIds -> ShareRow]
  /\ contacts \subseteq Contacts
  /\ active \subseteq Vehicles
  /\ suspended \subseteq Drivers
  /\ trips \in [Drivers -> Nat]
  /\ log \subseteq AuditActions \X RideIds
  /\ pending \subseteq AuditActions \X RideIds
  /\ req \in [Workers -> Request]
  /\ sweep \in Sweep
  /\ cut \subseteq RideIds
  /\ faults \in 0..MaxFaults

-----------------------------------------------------------------------------
(* Safety.                                                                 *)

\* The point a ride shows as its last (lastLat, lastLng) is a point recorded
\* for that same ride, whatever pings, failures and crashes come in between.
LastIsRecorded ==
  \A r \in RideIds : rides[r].last # None => rides[r].last \in recorded[r]

\* A share that exists, live or ended, is for an existing contact of the rider
\* whose ride it is: setShares never shows a ride to somebody else's contact,
\* even if contacts are removed while it runs.
SharesOwned ==
  \A s \in ShareIds :
    shares[s].state \in {"live", "ended"} =>
      /\ shares[s].contact \in contacts
      /\ shares[s].ride \in RideIds
      /\ OwnerOf[shares[s].contact] = rides[shares[s].ride].rider

\* What the request q learned in its first statements.
RequestHolds(q) ==
  /\ q.pc \in {"overlap", "insert"} =>
       q.user \in Users /\ q.vehicle \in Vehicles
  /\ q.pc \notin {"idle", "overlap", "insert"} =>
       /\ q.user \in Users
       /\ q.ride \in RideIds
       /\ rides[q.ride].rider = q.user
  /\ q.pc \in {"pingInsert", "pingUpdate"} => q.pos \in Positions
  /\ q.pc = "pingUpdate" => q.pos \in recorded[q.ride]
  /\ q.pc = "shareExisting" => \A c \in q.valid : OwnerOf[c] = q.user
  /\ \A c \in q.add : OwnerOf[c] = q.user
  /\ \A s \in q.drop : shares[s].state # "absent" /\ shares[s].ride = q.ride

\* What a handler learned in its first statements stays true while others run,
\* the status of the ride excepted: the ride exists and is the caller's, the
\* contacts it goes on with are the caller's, the shares it drops are rows of
\* that ride, and a ping is recorded before the ride shows it.
LocalsHold ==
  /\ \A r \in RideIds :
       rides[r].status = "absent" <=> rides[r].rider = None
  /\ \A w \in Workers : RequestHolds(req[w])
  /\ sweep.pc = "unshare" => sweep.cur \in RideIds
  /\ \A r \in sweep.todo : rides[r].status # "absent"

RidesOf(d, rs) == {r \in rs : rides[r].driver = d}
CompletedRides == {r \in RideIds : rides[r].status = "completed"}

\* Requests racing to end a ride may count it more than once, but never more
\* often than there were requests past the status check; a ride that has not
\* ended is never counted.
TripsBounded ==
  \A d \in Drivers :
    trips[d] <= Cardinality(Workers) * Cardinality(RidesOf(d, CompletedRides))

\* The audit trail never claims an end the driver was not credited for: the
\* counter is bumped before ride.ended is written, whatever fails.
AuditedEndsCounted ==
  \A d \in Drivers :
    trips[d] >= Cardinality(RidesOf(d, {r \in RideIds :
                                <<"ride.ended", r>> \in log \cup pending}))

\* Every ride its rider ended is credited to its driver once the requests that
\* were ending it are through, although the cron job may have ended it, and
\* overwritten the reason, before, in between or after.  Only a request that
\* failed, or died with the process, after it had ended the ride leaves it out.
EveryEndCounted ==
  \A d \in Drivers :
    trips[d] >= Cardinality(RidesOf(d, {r \in RideIds :
         "rider" \in rides[r].reasons /\ r \notin HalfEnded(Workers) \cup cut}))

Quiet ==
  pending = {} /\ sweep.pc = "idle" /\ \A w \in Workers : req[w].pc = "idle"

\* Without failures the audit trail tells, once nothing is in flight, exactly
\* which rides began and which ended, whoever ended them.
AuditComplete ==
  (faults = 0 /\ Quiet) =>
    /\ {r \in RideIds : <<"ride.started", r>> \in log}
         = {r \in RideIds : rides[r].status # "absent"}
    /\ {r \in RideIds : \/ <<"ride.ended", r>> \in log
                         \/ <<"ride.auto_ended", r>> \in log} = CompletedRides

-----------------------------------------------------------------------------
(* Action properties.                                                      *)

\* A ride that ended never becomes active again and never changes hands, not
\* even through a ping or a start that read the tables before it ended.
EndedRideStaysEnded ==
  [][\A r \in CompletedRides :
       /\ rides'[r].status = "completed"
       /\ \A col \in {"rider", "driver", "vehicle"} :
            rides'[r][col] = rides[r][col]]_vars

Sharing(r) ==
  \E w \in Workers :
    /\ req[w].ride = r
    /\ req[w].pc \in {"shareContacts", "shareExisting", "shareLoop"}

\* unshared_at is "set when rider un-shares or trip ends" (schema/rides.ts:89).
\* A setShares under way may still add shares after the end; once those are
\* through, an ended ride never gains a watcher again, crashes and failures
\* included.
EndedRideGainsNoShare ==
  [][\A r \in CompletedRides : ~Sharing(r) =>
       ~Sharing(r)' /\ LiveShares(r)' \subseteq LiveShares(r)]_vars

\* No ride of vehicle v is about to begin, and none may.
Drained(v) ==
  /\ v \notin active \/ DriverOf[v] \in suspended
  /\ \A w \in Workers : req[w].vehicle # v
RidesOn(v) == {r \in RideIds : rides[r].vehicle = v}

\* Once a vehicle is revoked, or its driver suspended, and the start requests
\* that had passed the check are through, no ride ever begins on it again.
BarredVehicleTakesNoRide ==
  [][\A v \in Vehicles :
       Drained(v) => Drained(v)' /\ RidesOn(v)' = RidesOn(v)]_vars

\* "Auto-end rides that have had no ping for 3+ hours" (maintenance.jobs.ts:14):
\* the job ends by id what it selected earlier, so a ride may be fresh when it is
\* ended, but only by a ping that came in after the job selected it: never a ride
\* that just began, never one that was pinged in time.
OnlyStaleSwept ==
  [][\A r \in fresh :
       (rides'[r].reason = "auto_timeout" /\ rides[r].reason # "auto_timeout")
         => r \in sweep.pinged]_vars

-----------------------------------------------------------------------------
(* Liveness.                                                               *)

\* A ride without a ping for three hours is ended by the cron job, unless a
\* late ping revives it; failures and crashes only postpone it.
StaleRideEnds ==
  \A r \in RideIds :
    (IsActive(r) /\ r \notin fresh) ~> (~IsActive(r) \/ r \in fresh)

-----------------------------------------------------------------------------
(* What the code means to keep, and does not when requests race.           *)

\* "Prevent overlapping active rides for this rider" (rides.service.ts:62).
OneActiveRide == \A u \in Users : Cardinality(ActiveRides(u)) <= 1

\* What is left of it: two starts may both find no active ride before either
\* inserts one, yet no rider ever has more active rides than there are requests
\* in flight, whatever fails and however often the process restarts.
ActiveRidesBounded ==
  \A u \in Users : Cardinality(ActiveRides(u)) <= Cardinality(Workers)

-----------------------------------------------------------------------------
(* Refinement.                                                             *)

\* The handlers implement RideLifecycle: a contact watches a ride as long as
\* some live share row says so.
Lifecycle == INSTANCE RideLifecycle WITH
  phase <- [r \in RideIds |-> rides[r].status],
  rider <- [r \in RideIds |-> rides[r].rider],
  track <- recorded,
  last <- [r \in RideIds |-> rides[r].last],
  watchers <- [r \in RideIds |-> {shares[s].contact : s \in LiveShares(r)}]

\* Every step of a handler, of the cron job or of a failure is a step of the
\* lifecycle or invisible to it.
ImplementsLifecycle == Lifecycle!Spec

=============================================================================
