----------------------------- MODULE LiveProofs -----------------------------
(***************************************************************************)
(* A point recorded after a share was over never reaches the watcher of    *)
(* that share, and every other point does unless the handler that reported *)
(* it failed, for any number of rides, shares, requests and sockets.       *)
(*                                                                         *)
(* The fan-out uses share rows it read a while ago, so the argument is     *)
(* about what those rows say of one point: a share whose row was live when *)
(* it was read was live when the point was recorded, because a share that  *)
(* is over stays over.                                                     *)
(***************************************************************************)
EXTENDS LiveTracking, RidesProofs

Over == {"ended", "deleted"}
Reported(p) == \E r \in RideIds : p \in recorded[r]

\* A point about to be recorded is new to everybody.
PointsNew ==
  \A w \in Workers : req[w].pc = "pingInsert" =>
    /\ req[w].pos \in Positions
    /\ ~Reported(req[w].pos)
    /\ \A x \in Workers : x # w => req[x].pos # req[w].pos

\* A handler that goes on after the ping speaks of the ping's ride and point,
\* and tells its watchers a point only once it is recorded.
FansHold ==
  /\ fan \in [Workers -> [pc : {"idle", "ping", "room", "list", "emit"},
                          ride : RideIds \cup {None},
                          pos : Positions \cup {None},
                          targets : SUBSET ShareIds]]
  /\ \A w \in Workers :
       /\ fan[w].pc = "ping" => /\ req[w].pc \in {"pingInsert", "pingUpdate"}
                                /\ fan[w].ride = req[w].ride
                                /\ fan[w].pos = req[w].pos
       /\ fan[w].pc \in {"room", "list", "emit"} => /\ fan[w].ride \in RideIds
                                                    /\ Reported(fan[w].pos)
       /\ fan[w].pc = "emit" =>
            \A s \in fan[w].targets : <<s, fan[w].pos>> \notin barred

\* A share is barred from a point only when it is over, and only shares are; a
\* share that is not there yet is of no ride.
BarredHolds ==
  /\ \A s \in ShareIds : shares[s].state = "absent" => shares[s].ride = None
  /\ \A b \in barred : /\ b[1] \in ShareIds
                       /\ shares[b[1]].state \in Over

GotHolds == \A g \in got : Reported(g[3])

LiveInv == IInv /\ PointsNew /\ FansHold /\ BarredHolds /\ GotHolds
           /\ NoLatePositions

-----------------------------------------------------------------------------
(* What the steps of Rides leave true.                                     *)

\* Every step of the composition is one of Rides.
LEMMA LiveIsRides ==
  ASSUME [LiveNext]_allVars
  PROVE  [Next]_vars
<1>1. CASE UNCHANGED allVars
      BY <1>1 DEF allVars
<1>2. ASSUME NEW w \in Workers, NEW u \in Users, NEW r \in RideIds,
             NEW p \in Positions, SocketPing(w, u, r, p) \/ HttpPing(w, u, r, p)
      PROVE  Next
      BY <1>2 DEF SocketPing, HttpPing, Next, Arrive
<1>3. ASSUME NEW w \in Workers, Insert(w) \/ Update(w)
      PROVE  Next
      BY <1>3 DEF Insert, Update, Next, Proceed
<1>4. ASSUME NEW w \in Workers,
             EmitRide(w) \/ ListTokens(w) \/ Emit(w) \/ ListFails(w)
      PROVE  UNCHANGED vars
      BY <1>4 DEF EmitRide, ListTokens, Emit, ListFails
<1>5. ASSUME NEW w \in Workers, OtherRequest(w) \/ OtherProceed(w)
      PROVE  Next
      BY <1>5 DEF OtherRequest, OtherProceed, Next, Arrive
<1>6. ASSUME NEW w \in Workers, RequestFails(w) PROVE Next
      BY <1>6 DEF RequestFails, Next, Environment
<1>7. ASSUME NEW c \in Clients,
             \/ \E s \in ShareIds : Connect(c, s)
             \/ \E r \in RideIds : JoinRide(c, r)
             \/ Join(c) \/ Disconnect(c)
      PROVE  UNCHANGED vars
      BY <1>7 DEF Connect, JoinRide, Join, Disconnect
<1>8. CASE ProcessDies \/ Around
      BY <1>8 DEF ProcessDies, Around, Next, Environment
<1>. QED BY <1>1, <1>2, <1>3, <1>4, <1>5, <1>6, <1>7, <1>8 DEF LiveNext

\* A share that is over stays over, one that is added is absent no more, and a
\* row stays a row of its ride.
LEMMA OverStays ==
  ASSUME IInv, [Next]_vars, NEW s \in ShareIds
  PROVE  /\ shares[s].state \in Over => shares'[s].state \in Over
         /\ shares'[s].state = "absent" => shares'[s] = shares[s]
         /\ shares[s].state # "absent" => /\ shares'[s].state # "absent"
                                          /\ shares'[s].ride = shares[s].ride
<1>. USE DEF Over
<1>. DEFINE Goal == /\ shares[s].state \in Over => shares'[s].state \in Over
                    /\ shares'[s].state = "absent" => shares'[s] = shares[s]
                    /\ shares[s].state # "absent" =>
                         /\ shares'[s].state # "absent"
                         /\ shares'[s].ride = shares[s].ride
<1>0. shares \in [ShareIds -> ShareRow]
      BY DEF IInv, TypeOK
<1>1. CASE shares' = shares
      BY <1>1
<1>2. ASSUME NEW r, shares' = Unshared(r) PROVE Goal
  <2>1. \/ shares'[s] = shares[s]
        \/ s \in LiveShares(r) /\ shares'[s] = [shares[s] EXCEPT !.state = "ended"]
        BY <1>2 DEF Unshared
  <2>. QED BY <1>0, <2>1 DEF ShareRow, LiveShares
<1>3. ASSUME NEW w \in Workers, Arrive(w) PROVE Goal
      BY <1>1, <1>3 DEF Arrive, StartSelect, PingSelect, EndSelect,
                        ShareSelect, tables
<1>4. ASSUME NEW w \in Workers, Proceed(w) PROVE Goal
  <2>1. ASSUME NEW c \in Contacts, NEW t \in ShareIds, ShareAdd(w, c, t)
        PROVE  Goal
        BY <1>0, <2>1 DEF ShareAdd
  <2>2. ASSUME NEW t \in ShareIds, ShareDrop(w, t) PROVE Goal
        BY <1>0, <2>2 DEF ShareDrop, ShareRow
  <2>3. CASE EndUnshare(w)
        BY <1>2, <2>3 DEF EndUnshare
  <2>4. CASE \/ StartOverlap(w) \/ PingInsert(w) \/ PingUpdate(w)
             \/ EndUpdate(w) \/ EndTrips(w) \/ ShareContacts(w)
             \/ ShareExisting(w) \/ ShareAddRejected(w)
             \/ \E x \in RideIds : StartInsert(w, x)
        BY <1>1, <2>4 DEF StartOverlap, PingInsert, PingUpdate, EndUpdate,
           EndTrips, ShareContacts, ShareExisting, ShareAddRejected,
           StartInsert, tables
  <2>. QED BY <1>4, <2>1, <2>2, <2>3, <2>4 DEF Proceed
<1>5. CASE SweepStep
      BY <1>1, <1>2, <1>5 DEF SweepStep, SweepSelect, SweepUpdate,
                              SweepUnshare, tables
<1>6. ASSUME NEW c \in Contacts, RemoveContact(c) PROVE Goal
  <2>1. \/ shares'[s] = shares[s]
        \/ shares'[s] = [shares[s] EXCEPT !.state = "deleted"]
        BY <1>6 DEF RemoveContact
  <2>. QED BY <1>0, <2>1 DEF ShareRow
<1>7. CASE Environment \/ \E row \in pending : AuditWrite(row)
      BY <1>1, <1>6, <1>7 DEF AuditWrite, Environment, GoStale, RevokeVehicle,
         Suspend, Fail, FailSweep, LoseAudit, Crash, tables
<1>8. CASE UNCHANGED vars
      BY <1>1, <1>8 DEF vars
<1>. QED BY <1>3, <1>4, <1>5, <1>7, <1>8 DEF Next

\* Only the insert of a ping records a point.
LEMMA RecordedStays ==
  ASSUME [Next]_vars, ~\E w \in Workers : PingInsert(w)
  PROVE  recorded' = recorded
<1>1. ASSUME NEW w \in Workers, Arrive(w) PROVE recorded' = recorded
      BY <1>1 DEF Arrive, StartSelect, PingSelect, EndSelect, ShareSelect,
                  tables
<1>2. ASSUME NEW w \in Workers, Proceed(w) PROVE recorded' = recorded
      BY <1>2 DEF Proceed, StartOverlap, StartInsert, PingUpdate, EndUpdate,
                  EndUnshare, EndTrips, ShareContacts, ShareExisting, ShareAdd,
                  ShareAddRejected, ShareDrop, tables
<1>3. CASE SweepStep
      BY <1>3 DEF SweepStep, SweepSelect, SweepUpdate, SweepUnshare, tables
<1>4. CASE Environment \/ \E row \in pending : AuditWrite(row)
      BY <1>4 DEF AuditWrite, Environment, GoStale, RemoveContact,
                  RevokeVehicle, Suspend, Fail, FailSweep, LoseAudit, Crash,
                  tables
<1>. QED BY <1>1, <1>2, <1>3, <1>4 DEF Next, vars

\* A request goes on with the point it arrived with, or with none.
Carries(q, p) == q.pos \in {p, None} /\ q.pc # "pingInsert"

\* A step that records nothing keeps what is said of points and of shares.
Calmly ==
  /\ UNCHANGED <<recorded, barred>>
  /\ \A w \in Workers : \/ req'[w] = req[w]
                        \/ Carries(req'[w], req[w].pos)

LEMMA CalmStep ==
  ASSUME LiveInv, [Next]_vars, Calmly
  PROVE  /\ \A p : Reported(p)' <=> Reported(p)
         /\ PointsNew' /\ BarredHolds'
<1>. USE DEF LiveInv, Calmly
<1>1. \A p : Reported(p)' <=> Reported(p)
      BY DEF Reported
<1>2. PointsNew'
      BY <1>1, NoneIsNothing DEF PointsNew, Carries
<1>3. BarredHolds'
      BY OverStays DEF BarredHolds
<1>. QED BY <1>1, <1>2, <1>3

\* What is on the way stays so, too.
Quietly ==
  /\ Calmly
  /\ UNCHANGED <<fan, got>>
  /\ \A w \in Workers : fan[w].pc = "ping" => req'[w] = req[w]

LEMMA QuietStep ==
  ASSUME LiveInv, IInv', [Next]_vars, Quietly
  PROVE  LiveInv'
<1>. USE DEF LiveInv, Quietly
<1>1. /\ \A p : Reported(p)' <=> Reported(p)
      /\ PointsNew' /\ BarredHolds'
      BY CalmStep
<1>2. FansHold'
      BY <1>1 DEF FansHold, Calmly
<1>3. GotHolds' /\ NoLatePositions'
      BY <1>1 DEF GotHolds, NoLatePositions, Calmly
<1>. QED BY <1>1, <1>2, <1>3

-----------------------------------------------------------------------------
(* Each step preserves the invariant.                                      *)

\* A point comes in, over either transport.
LEMMA PingArrives ==
  ASSUME LiveInv, IInv', NEW w \in Workers, NEW u \in Users, NEW r \in RideIds,
         NEW p \in Positions, SocketPing(w, u, r, p) \/ HttpPing(w, u, r, p)
  PROVE  LiveInv'
<1>. USE DEF LiveInv
<1>1. /\ Unreported(p) /\ fan[w].pc = "idle"
      /\ req' = [req EXCEPT ![w] = [Idle EXCEPT !.pc = "pingInsert", !.user = u,
                                                !.ride = r, !.pos = p]]
      /\ UNCHANGED <<recorded, shares, got, barred>>
  <2>1. CASE SocketPing(w, u, r, p)
        BY <2>1 DEF SocketPing, PingSelect, Accept, tables
  <2>2. CASE HttpPing(w, u, r, p)
        BY <2>2 DEF HttpPing, PingSelect, Accept, tables, liveVars
  <2>. QED BY <2>1, <2>2
<1>2. /\ req'[w].pc = "pingInsert" /\ req'[w].ride = r /\ req'[w].pos = p
      /\ \A x \in Workers : x # w => req'[x] = req[x]
      BY <1>1 DEF IInv, TypeOK, Idle
<1>3. \A x : Reported(x)' <=> Reported(x)
      BY <1>1 DEF Reported
<1>4. PointsNew'
      BY <1>1, <1>2, <1>3 DEF PointsNew, Unreported, Reported
<1>5. FansHold'
  <2>1. CASE fan' = fan
        BY <1>1, <1>2, <1>3, <2>1 DEF FansHold
  <2>2. CASE fan' = [fan EXCEPT ![w] = [pc |-> "ping", ride |-> r, pos |-> p,
                                        targets |-> {}]]
        BY <1>1, <1>2, <1>3, <2>2 DEF FansHold
  <2>. QED BY <2>1, <2>2 DEF SocketPing, HttpPing, liveVars
<1>6. BarredHolds' /\ GotHolds' /\ NoLatePositions'
      BY <1>1, <1>3 DEF BarredHolds, GotHolds, NoLatePositions
<1>. QED BY <1>4, <1>5, <1>6

\* The point is recorded: a share that is over is barred from it, and nobody
\* has it or is about to tell it yet.
LEMMA InsertStep ==
  ASSUME LiveInv, IInv', NEW w \in Workers, Insert(w)
  PROVE  LiveInv'
<1>. USE NoneIsNothing DEF LiveInv
<1>1. PICK r \in RideIds, p \in Positions :
        r = req[w].ride /\ p = req[w].pos /\ ~Reported(p)
      BY DEF Insert, PingInsert, At, IInv, LocalsHold, RequestHolds, PointsNew
<1>2. /\ recorded' = [recorded EXCEPT ![r] = @ \cup {p}]
      /\ UNCHANGED <<shares, fan, got>>
      /\ req' = [req EXCEPT ![w].pc = "pingUpdate"]
      /\ barred' = barred \cup {<<s, p>> : s \in {t \in ShareIds :
                     shares[t].ride = r /\ shares[t].state # "live"}}
      BY <1>1 DEF Insert, PingInsert, Goto
<1>3. /\ \A x \in Workers : x # w => req'[x] = req[x]
      /\ req'[w].pc = "pingUpdate" /\ req'[w].ride = r /\ req'[w].pos = p
      BY <1>1, <1>2 DEF IInv, TypeOK, Request
<1>4. \A q : Reported(q)' <=> Reported(q) \/ q = p
      BY <1>2 DEF Reported, IInv, TypeOK
<1>5. PointsNew'
      BY <1>1, <1>3, <1>4, Insert(w) DEF PointsNew, Insert, PingInsert, At
<1>6. FansHold'
  <2>1. \A x \in Workers : fan[x].pc \in {"room", "list", "emit"}
                             => fan[x].pos # p
        BY <1>1 DEF FansHold
  <2>2. \A x \in Workers : fan[x].pc = "ping" =>
          /\ req'[x].pc \in {"pingInsert", "pingUpdate"}
          /\ fan[x].ride = req'[x].ride
          /\ fan[x].pos = req'[x].pos
        BY <1>1, <1>3 DEF FansHold
  <2>3. ASSUME NEW x \in Workers, fan[x].pc = "emit", NEW s \in fan[x].targets
        PROVE  <<s, fan[x].pos>> \notin barred'
        BY <1>2, <2>1, <2>3 DEF FansHold
  <2>. QED BY <1>2, <1>4, <2>2, <2>3 DEF FansHold
<1>7. BarredHolds'
  <2>1. ASSUME NEW t \in ShareIds, shares[t].ride = r, shares[t].state # "live"
        PROVE  shares[t].state \in Over
    <3>1. shares[t].state # "absent"
          BY <2>1 DEF BarredHolds
    <3>. QED BY <2>1, <3>1 DEF Over, IInv, TypeOK, ShareRow
  <2>. QED BY <1>2, <2>1 DEF BarredHolds
<1>8. GotHolds'
      BY <1>2, <1>4 DEF GotHolds
<1>9. NoLatePositions'
  <2>1. \A g \in got : g[3] # p
        BY <1>1 DEF GotHolds
  <2>. QED BY <1>2, <2>1 DEF NoLatePositions
<1>. QED BY <1>5, <1>6, <1>7, <1>8, <1>9

\* The point is in the ride's row: its handler goes on to the watchers.
LEMMA UpdateStep ==
  ASSUME LiveInv, IInv', [Next]_vars, NEW w \in Workers, Update(w)
  PROVE  LiveInv'
<1>. USE DEF LiveInv
<1>1. /\ UNCHANGED <<recorded, barred, got>>
      /\ req' = [req EXCEPT ![w] = Idle]
      /\ req[w].pc = "pingUpdate"
      BY DEF Update, PingUpdate, Done, At
<1>2. Calmly
      BY <1>1 DEF Calmly, Carries, Idle, IInv, TypeOK
<1>3. /\ \A p : Reported(p)' <=> Reported(p)
      /\ PointsNew' /\ BarredHolds'
      BY <1>2, CalmStep
<1>4. req[w].ride \in RideIds /\ Reported(req[w].pos)
      BY <1>1 DEF IInv, LocalsHold, RequestHolds, Reported
<1>5. \A x \in Workers : x # w => req'[x] = req[x]
      BY <1>1
<1>6. FansHold'
  <2>1. CASE fan[w].pc = "ping"
    <3>1. fan' = [fan EXCEPT ![w].pc = "room"]
          BY <2>1 DEF Update, FanGoto
    <3>2. fan[w].ride = req[w].ride /\ fan[w].pos = req[w].pos
          BY <2>1 DEF FansHold
    <3>3. /\ fan'[w].pc = "room" /\ fan'[w].ride = fan[w].ride
          /\ fan'[w].pos = fan[w].pos
          /\ \A x \in Workers : x # w => fan'[x] = fan[x]
          BY <3>1 DEF FansHold
    <3>4. fan' \in [Workers -> [pc : {"idle", "ping", "room", "list", "emit"},
                               ride : RideIds \cup {None},
                               pos : Positions \cup {None},
                               targets : SUBSET ShareIds]]
          BY <3>1 DEF FansHold
    <3>. QED BY <1>1, <1>3, <1>4, <1>5, <3>2, <3>3, <3>4 DEF FansHold
  <2>2. CASE fan[w].pc # "ping"
    <3>1. fan' = fan
          BY <2>2 DEF Update
    <3>. QED BY <1>1, <1>3, <1>5, <2>2, <3>1 DEF FansHold
  <2>. QED BY <2>1, <2>2
<1>7. GotHolds' /\ NoLatePositions'
      BY <1>1, <1>3 DEF GotHolds, NoLatePositions
<1>. QED BY <1>3, <1>6, <1>7

\* The emits and the select between them: what a socket gets is a recorded
\* point, through a ride's room or through a share that was live after the
\* point was recorded.
LEMMA FanOutStep ==
  ASSUME LiveInv, IInv', NEW w \in Workers,
         EmitRide(w) \/ ListTokens(w) \/ Emit(w)
  PROVE  LiveInv'
<1>. USE DEF LiveInv
<1>1. UNCHANGED <<vars, barred>>
      BY DEF EmitRide, ListTokens, Emit
<1>2. Calmly
      BY <1>1 DEF Calmly, vars
<1>3. /\ \A p : Reported(p)' <=> Reported(p)
      /\ PointsNew' /\ BarredHolds'
      BY <1>1, <1>2, CalmStep
<1>4. req' = req
      BY <1>1 DEF vars
<1>5. CASE EmitRide(w)
  <2>1. /\ fan[w].pc = "room" /\ fan' = [fan EXCEPT ![w].pc = "list"]
        /\ got' = got \cup In({fan[w].ride}, fan[w].pos)
        BY <1>5 DEF EmitRide, FanGoto
  <2>2. FansHold'
        BY <1>1, <1>3, <1>4, <2>1 DEF FansHold
  <2>3. ASSUME NEW g \in got', g \notin got
        PROVE  g[2] = fan[w].ride /\ g[3] = fan[w].pos
        BY <2>1, <2>3 DEF In
  <2>4. fan[w].ride \notin ShareIds /\ Reported(fan[w].pos)
        BY <2>1, RoomsAssumption DEF FansHold
  <2>5. GotHolds'
        BY <1>3, <2>3, <2>4 DEF GotHolds
  <2>6. NoLatePositions'
    <3>1. ASSUME NEW g \in got', g \notin got
          PROVE  <<g[2], g[3]>> \notin barred
          BY <2>3, <2>4, <3>1 DEF BarredHolds
    <3>. QED BY <1>1, <3>1 DEF NoLatePositions
  <2>. QED BY <1>3, <2>2, <2>5, <2>6
<1>6. CASE ListTokens(w)
  <2>1. /\ fan[w].pc = "list" /\ got' = got
        /\ fan' = [fan EXCEPT ![w].pc = "emit",
                              ![w].targets = LiveShares(fan[w].ride)]
        BY <1>6 DEF ListTokens
  <2>2. /\ fan'[w].pc = "emit" /\ fan'[w].ride = fan[w].ride
        /\ fan'[w].pos = fan[w].pos
        /\ fan'[w].targets = LiveShares(fan[w].ride)
        /\ \A x \in Workers : x # w => fan'[x] = fan[x]
        BY <2>1 DEF FansHold
  <2>3. fan' \in [Workers -> [pc : {"idle", "ping", "room", "list", "emit"},
                             ride : RideIds \cup {None},
                             pos : Positions \cup {None},
                             targets : SUBSET ShareIds]]
        BY <2>1 DEF FansHold, LiveShares
  <2>4. \A t \in LiveShares(fan[w].ride) : <<t, fan[w].pos>> \notin barred
        BY DEF LiveShares, BarredHolds, Over
  <2>5. FansHold'
        BY <1>1, <1>3, <1>4, <2>1, <2>2, <2>3, <2>4 DEF FansHold
  <2>. QED BY <1>1, <1>3, <2>1, <2>5 DEF GotHolds, NoLatePositions
<1>7. CASE Emit(w)
  <2>1. /\ fan[w].pc = "emit" /\ fan' = [fan EXCEPT ![w] = NoFan]
        /\ got' = got \cup In(fan[w].targets, fan[w].pos)
        BY <1>7 DEF Emit
  <2>2. FansHold'
        BY <1>1, <1>3, <1>4, <2>1 DEF FansHold, NoFan
  <2>3. ASSUME NEW g \in got', g \notin got
        PROVE  g[2] \in fan[w].targets /\ g[3] = fan[w].pos
        BY <2>1, <2>3 DEF In
  <2>4. /\ Reported(fan[w].pos)
        /\ \A t \in fan[w].targets : <<t, fan[w].pos>> \notin barred
        BY <2>1 DEF FansHold
  <2>5. GotHolds' /\ NoLatePositions'
        BY <1>1, <1>3, <2>3, <2>4 DEF GotHolds, NoLatePositions
  <2>. QED BY <1>3, <2>2, <2>5
<1>. QED BY <1>5, <1>6, <1>7

\* A handler that fails, or dies with the process, tells nobody anything more.
LEMMA FailStep ==
  ASSUME LiveInv, IInv', [Next]_vars,
         ProcessDies \/ \E w \in Workers : RequestFails(w) \/ ListFails(w)
  PROVE  LiveInv'
<1>. USE DEF LiveInv
<1>1. UNCHANGED <<recorded, shares, barred, got>>
      BY DEF ProcessDies, Crash, RequestFails, Fail, ListFails, Misses, tables,
             vars
<1>2. \A x \in Workers : \/ req'[x] = req[x] /\ fan'[x] = fan[x]
                         \/ req'[x] \in {req[x], Idle} /\ fan'[x] = NoFan
  <2>1. CASE ProcessDies
        BY <2>1 DEF ProcessDies, Crash
  <2>2. ASSUME NEW w \in Workers, RequestFails(w)
        PROVE  req' = [req EXCEPT ![w] = Idle] /\ fan' = [fan EXCEPT ![w] = NoFan]
        BY <2>2 DEF RequestFails, Misses, Fail, Done
  <2>3. ASSUME NEW w \in Workers, ListFails(w)
        PROVE  req' = req /\ fan' = [fan EXCEPT ![w] = NoFan]
        BY <2>3 DEF ListFails, Misses, vars
  <2>. QED BY <2>1, <2>2, <2>3 DEF IInv, TypeOK, FansHold
<1>3. Calmly
      BY <1>1, <1>2 DEF Calmly, Carries, Idle
<1>4. /\ \A p : Reported(p)' <=> Reported(p)
      /\ PointsNew' /\ BarredHolds'
      BY <1>3, CalmStep
<1>5. FansHold'
  <2>1. \/ fan' = [x \in Workers |-> NoFan]
        \/ \E w \in Workers : fan' = [fan EXCEPT ![w] = NoFan]
        BY DEF ProcessDies, RequestFails, ListFails, Misses
  <2>2. fan' \in [Workers -> [pc : {"idle", "ping", "room", "list", "emit"},
                             ride : RideIds \cup {None},
                             pos : Positions \cup {None},
                             targets : SUBSET ShareIds]]
        BY <2>1 DEF FansHold, NoFan
  <2>. QED BY <1>1, <1>2, <1>4, <2>2 DEF FansHold, NoFan
<1>6. GotHolds' /\ NoLatePositions'
      BY <1>1, <1>4 DEF GotHolds, NoLatePositions
<1>. QED BY <1>4, <1>5, <1>6

\* Every other request, and whatever happens around, is quiet.
LEMMA ElseStep ==
  ASSUME LiveInv, IInv', [Next]_vars, NEW w \in Workers,
         OtherRequest(w) \/ OtherProceed(w)
  PROVE  LiveInv'
<1>. DEFINE Later == /\ recorded' = recorded
                     /\ Carries(req'[w], req[w].pos)
                     /\ \A x \in Workers : x # w => req'[x] = req[x]
<1>a. ASSUME NEW q, req' = [req EXCEPT ![w] = q], q.pos = None,
             q.pc # "pingInsert", recorded' = recorded
      PROVE  Later
      BY <1>a DEF LiveInv, IInv, TypeOK, Carries
<1>b. ASSUME NEW pc, Goto(w, pc), pc # "pingInsert", recorded' = recorded
      PROVE  Later
  <2>1. req \in [Workers -> Request]
        BY DEF LiveInv, IInv, TypeOK
  <2>2. /\ req'[w].pc = pc /\ req'[w].pos = req[w].pos
        /\ \A x \in Workers : x # w => req'[x] = req[x]
        BY <1>b, <2>1 DEF Goto, Request
  <2>. QED BY <1>b, <2>2 DEF Carries
<1>c. ASSUME Done(w), recorded' = recorded
      PROVE  Later
  <2>1. req' = [req EXCEPT ![w] = Idle] /\ Idle.pos = None /\ Idle.pc = "idle"
        BY <1>c DEF Done, Idle
  <2>. QED BY <1>a, <1>c, <2>1
<1>d. ASSUME NEW add, NEW drop, Loop(w, add, drop), recorded' = recorded
      PROVE  Later
  <2>1. CASE Done(w)
        BY <1>c, <1>d, <2>1
  <2>2. CASE req' = [req EXCEPT ![w].pc = "shareLoop", ![w].add = add,
                                ![w].drop = drop]
    <3>1. req \in [Workers -> Request]
          BY DEF LiveInv, IInv, TypeOK
    <3>2. /\ req'[w].pc = "shareLoop" /\ req'[w].pos = req[w].pos
          /\ \A x \in Workers : x # w => req'[x] = req[x]
          BY <2>2, <3>1 DEF Request
    <3>. QED BY <1>d, <3>2 DEF Carries
  <2>. QED BY <1>d, <2>1, <2>2 DEF Loop
<1>. HIDE DEF Later
<1>1. ASSUME OtherRequest(w) PROVE Later
  <2>1. ASSUME NEW u \in Users, NEW v \in Vehicles, StartSelect(w, u, v)
        PROVE  Later
    <3>. DEFINE q == [Idle EXCEPT !.pc = "overlap", !.user = u, !.vehicle = v]
    <3>1. q.pos = None /\ q.pc # "pingInsert"
          BY DEF Idle
    <3>2. req' = [req EXCEPT ![w] = q] /\ recorded' = recorded
          BY <2>1 DEF StartSelect, Accept, tables
    <3>. QED BY <1>a, <3>1, <3>2
  <2>2. ASSUME NEW u \in Users, NEW r \in RideIds, EndSelect(w, u, r)
        PROVE  Later
    <3>. DEFINE q == [Idle EXCEPT !.pc = "endUpdate", !.user = u, !.ride = r]
    <3>1. q.pos = None /\ q.pc # "pingInsert"
          BY DEF Idle
    <3>2. req' = [req EXCEPT ![w] = q] /\ recorded' = recorded
          BY <2>2 DEF EndSelect, Accept, tables
    <3>. QED BY <1>a, <3>1, <3>2
  <2>3. ASSUME NEW u \in Users, NEW r \in RideIds, NEW ids \in SUBSET Contacts,
               ShareSelect(w, u, r, ids)
        PROVE  Later
    <3>. DEFINE q == [Idle EXCEPT !.pc = IF ids = {} THEN "shareExisting"
                                                   ELSE "shareContacts",
                                !.user = u, !.ride = r, !.valid = ids]
    <3>1. q.pos = None /\ q.pc # "pingInsert"
          BY DEF Idle
    <3>2. req' = [req EXCEPT ![w] = q] /\ recorded' = recorded
          BY <2>3 DEF ShareSelect, Accept, tables
    <3>. QED BY <1>a, <3>1, <3>2
  <2>. QED BY <1>1, <2>1, <2>2, <2>3 DEF OtherRequest
<1>2. ASSUME OtherProceed(w) PROVE Later
  <2>1. ASSUME StartOverlap(w)
        PROVE  Later
        BY <1>b, <1>c, <2>1 DEF StartOverlap, tables
  <2>2. ASSUME \E r \in RideIds : StartInsert(w, r)
        PROVE  Later
        BY <1>c, <2>2 DEF StartInsert
  <2>3. ASSUME EndUpdate(w)
        PROVE  Later
        BY <1>b, <2>3 DEF EndUpdate
  <2>4. ASSUME EndUnshare(w)
        PROVE  Later
        BY <1>b, <1>c, <2>4 DEF EndUnshare
  <2>5. ASSUME EndTrips(w)
        PROVE  Later
        BY <1>c, <2>5 DEF EndTrips
  <2>6. ASSUME ShareContacts(w)
        PROVE  Later
    <3>1. req \in [Workers -> Request]
          BY DEF LiveInv, IInv, TypeOK
    <3>2. /\ req'[w].pc = "shareExisting" /\ req'[w].pos = req[w].pos
          /\ \A x \in Workers : x # w => req'[x] = req[x]
          BY <2>6, <3>1 DEF ShareContacts, Request
    <3>. QED BY <2>6, <3>2 DEF ShareContacts, Carries, Later, tables
  <2>7. ASSUME ShareExisting(w)
        PROVE  Later
        BY <1>d, <2>7 DEF ShareExisting, tables
  <2>8. ASSUME \E c \in Contacts, s \in ShareIds : ShareAdd(w, c, s)
        PROVE  Later
        BY <1>d, <2>8 DEF ShareAdd
  <2>9. ASSUME ShareAddRejected(w)
        PROVE  Later
        BY <1>c, <2>9 DEF ShareAddRejected, tables
  <2>10. ASSUME \E s \in ShareIds : ShareDrop(w, s)
        PROVE  Later
        BY <1>d, <2>10 DEF ShareDrop
  <2>. QED BY <1>2, <2>1, <2>2, <2>3, <2>4, <2>5, <2>6, <2>7, <2>8, <2>9, <2>10
           DEF OtherProceed, Proceed, PingInsert, PingUpdate
<1>3. /\ UNCHANGED <<fan, got, barred>>
      /\ fan[w].pc # "ping"
      BY DEF OtherRequest, OtherProceed, liveVars, LiveInv, FansHold, At
<1>. QED BY <1>1, <1>2, <1>3, QuietStep DEF Quietly, Calmly, Later

LEMMA AroundStep ==
  ASSUME LiveInv, IInv', [Next]_vars, Around
  PROVE  LiveInv'
<1>1. UNCHANGED <<recorded, fan, got, barred, req>>
      BY DEF Around, liveVars, SweepStep, SweepSelect, SweepUpdate,
         SweepUnshare, GoStale, RemoveContact, tables
<1>. QED BY <1>1, QuietStep DEF Quietly, Calmly

\* Sockets come and go, or nothing happens.
LEMMA SocketStep ==
  ASSUME LiveInv, IInv', [Next]_vars, UNCHANGED <<vars, fan, got, barred>>
  PROVE  LiveInv'
BY QuietStep DEF Quietly, Calmly, vars

-----------------------------------------------------------------------------
LEMMA InitLive == LiveInit => LiveInv
<1>. SUFFICES ASSUME LiveInit PROVE LiveInv
     OBVIOUS
<1>1. IInv
      BY InitIInv DEF LiveInit
<1>2. PointsNew
      BY DEF LiveInit, Init, PointsNew, Idle
<1>3. FansHold
      BY DEF LiveInit, FansHold, NoFan
<1>. QED BY <1>1, <1>2, <1>3 DEF LiveInit, Init, LiveInv, BarredHolds, GotHolds,
                                 NoLatePositions, NoShare

LEMMA NextLive == LiveInv /\ [LiveNext]_allVars => LiveInv'
<1>. SUFFICES ASSUME LiveInv, [LiveNext]_allVars PROVE LiveInv'
     OBVIOUS
<1>1. [Next]_vars
      BY LiveIsRides
<1>2. IInv'
      BY <1>1, NextIInv DEF LiveInv
<1>3. ASSUME NEW w \in Workers, NEW u \in Users, NEW r \in RideIds,
             NEW p \in Positions, SocketPing(w, u, r, p) \/ HttpPing(w, u, r, p)
      PROVE  LiveInv'
      BY <1>2, <1>3, PingArrives
<1>4. ASSUME NEW w \in Workers, Insert(w) PROVE LiveInv'
      BY <1>2, <1>4, InsertStep
<1>5. ASSUME NEW w \in Workers, Update(w) PROVE LiveInv'
      BY <1>1, <1>2, <1>5, UpdateStep
<1>6. ASSUME NEW w \in Workers, EmitRide(w) \/ ListTokens(w) \/ Emit(w)
      PROVE  LiveInv'
      BY <1>2, <1>6, FanOutStep
<1>7. ASSUME NEW w \in Workers, OtherRequest(w) \/ OtherProceed(w) PROVE LiveInv'
      BY <1>1, <1>2, <1>7, ElseStep
<1>8. CASE ProcessDies \/ \E w \in Workers : RequestFails(w) \/ ListFails(w)
      BY <1>1, <1>2, <1>8, FailStep
<1>9. ASSUME NEW c \in Clients,
             \/ \E s \in ShareIds : Connect(c, s)
             \/ \E r \in RideIds : JoinRide(c, r)
             \/ Join(c) \/ Disconnect(c)
      PROVE  LiveInv'
  <2>1. UNCHANGED <<vars, fan, got, barred>>
        BY <1>9 DEF Connect, JoinRide, Join, Disconnect
  <2>. QED BY <1>1, <1>2, <2>1, SocketStep
<1>10. CASE Around
      BY <1>1, <1>2, <1>10, AroundStep
<1>11. CASE UNCHANGED allVars
  <2>1. UNCHANGED <<vars, fan, got, barred>>
        BY <1>11 DEF allVars, liveVars
  <2>. QED BY <1>1, <1>2, <2>1, SocketStep
<1>. QED BY <1>3, <1>4, <1>5, <1>6, <1>7, <1>8, <1>9, <1>10, <1>11 DEF LiveNext

\* A watcher never receives, through a share, a point that was recorded after
\* the rider dropped that share or the ride ended.
THEOREM NoLatePoints == LiveSpec => []NoLatePositions
<1>1. LiveSpec => []LiveInv
      BY InitLive, NextLive, PTL DEF LiveSpec
<1>2. LiveInv => NoLatePositions
      BY DEF LiveInv
<1>. QED BY <1>1, <1>2, PTL

\* What the gateway does is, for the rides, what Rides allows: the theorems about
\* Rides hold with the gateway around them.
THEOREM GatewayKeepsRides == LiveSpec => []IInv
<1>1. LiveSpec => []LiveInv
      BY InitLive, NextLive, PTL DEF LiveSpec
<1>2. LiveInv => IInv
      BY DEF LiveInv
<1>. QED BY <1>1, <1>2, PTL

-----------------------------------------------------------------------------
(* Nothing is withheld: what is owed to a socket has reached it, or is on   *)
(* its way in a fan-out that has not come to that room yet, or went by a    *)
(* share that is over or by a handler that failed.                         *)

LinksHold == link \in [Clients -> [state : {"off", "checked", "joined"},
                                   room : RideIds \cup ShareIds \cup {None}]]

\* The rest of w's onPing reaches o's socket if it stays in its room.
Owes(w, o) ==
  /\ fan[w].pos = o[3]
  /\ \/ fan[w].pc \in {"ping", "room"} /\ o[2] = fan[w].ride
     \/ /\ o[2] \in ShareIds /\ shares[o[2]].ride = fan[w].ride
        /\ \/ fan[w].pc \in {"ping", "room", "list"}
           \/ fan[w].pc = "emit" /\ o[2] \in fan[w].targets

Settled(o) ==
  \/ o \in got
  \/ <<o[2], o[3]>> \in dropped
  \/ o[2] \in ShareIds /\ shares[o[2]].state \in Over
  \/ \E w \in Workers : Owes(w, o)

\* A socket stays in its room while something is owed to it there.
Joined(o) ==
  /\ o[1] \in Clients
  /\ o[2] \in RideIds \cup ShareIds
  /\ o = <<o[1], o[2], o[3]>>
  /\ link[o[1]] = [state |-> "joined", room |-> o[2]]
  /\ o[2] \in ShareIds => shares[o[2]].state # "absent"

OwedHolds == \A o \in owed : Joined(o) /\ Settled(o)

WatchInv == LiveInv /\ LinksHold /\ OwedHolds

\* While a fan-out does not move, what it owes stays owed; what is settled stays
\* settled, because a share that is over stays over.
LEMMA SettledStays ==
  ASSUME IInv, [Next]_vars, NEW o, Settled(o), got \subseteq got',
         dropped \subseteq dropped',
         o[2] \in ShareIds => shares[o[2]].state # "absent",
         \A w \in Workers : Owes(w, o) => fan'[w] = fan[w]
  PROVE  Settled(o)'
<1>1. CASE o \in got \/ <<o[2], o[3]>> \in dropped
      BY <1>1 DEF Settled
<1>2. CASE o[2] \in ShareIds /\ shares[o[2]].state \in Over
      BY <1>2, OverStays DEF Settled
<1>3. ASSUME NEW w \in Workers, Owes(w, o) PROVE Settled(o)'
  <2>1. fan'[w] = fan[w]
        BY <1>3
  <2>2. o[2] \in ShareIds => shares'[o[2]].ride = shares[o[2]].ride
        BY OverStays
  <2>3. Owes(w, o)'
        BY <1>3, <2>1, <2>2 DEF Owes
  <2>. QED BY <2>3 DEF Settled
<1>. QED BY <1>1, <1>2, <1>3 DEF Settled

LEMMA JoinedStays ==
  ASSUME IInv, [Next]_vars, NEW o, Joined(o), link'[o[1]] = link[o[1]]
  PROVE  Joined(o)'
BY OverStays DEF Joined

\* Steps that owe nothing new and move no fan-out that owes something.
LEMMA OwedKept ==
  ASSUME IInv, [Next]_vars, LinksHold, OwedHolds,
         link' = link, owed' = owed, got \subseteq got', dropped \subseteq dropped',
         \A w \in Workers, o \in owed : Owes(w, o) => fan'[w] = fan[w]
  PROVE  LinksHold' /\ OwedHolds'
<1>1. ASSUME NEW o \in owed PROVE Joined(o)' /\ Settled(o)'
  <2>1. Joined(o) /\ Settled(o)
        BY <1>1 DEF OwedHolds
  <2>2. Joined(o)'
        BY <2>1, JoinedStays
  <2>3. Settled(o)'
        BY <2>1, SettledStays DEF Joined
  <2>. QED BY <2>2, <2>3
<1>. QED BY <1>1 DEF OwedHolds, LinksHold

\* A fan-out moves on: what it owed it still owes, or has delivered.
LEMMA FanMoves ==
  ASSUME IInv, [Next]_vars, LinksHold, OwedHolds, NEW w \in Workers,
         link' = link, owed' = owed, got \subseteq got', dropped \subseteq dropped',
         \A x \in Workers : x # w => fan'[x] = fan[x],
         \A o \in owed : Joined(o) /\ Owes(w, o) => Settled(o)'
  PROVE  LinksHold' /\ OwedHolds'
<1>1. ASSUME NEW o \in owed PROVE Joined(o)' /\ Settled(o)'
  <2>1. Joined(o) /\ Settled(o)
        BY <1>1 DEF OwedHolds
  <2>2. Joined(o)'
        BY <2>1, JoinedStays
  <2>3. CASE Owes(w, o)
        BY <2>1, <2>2, <2>3
  <2>4. CASE ~Owes(w, o)
    <3>1. \A x \in Workers : Owes(x, o) => fan'[x] = fan[x]
          BY <2>4
    <3>2. Settled(o)'
          BY <2>1, <3>1, SettledStays DEF Joined
    <3>. QED BY <2>2, <3>2
  <2>. QED BY <2>3, <2>4
<1>. QED BY <1>1 DEF OwedHolds, LinksHold

-----------------------------------------------------------------------------
(* Each step keeps it.                                                     *)

\* The insert owes the point to every socket in the room of the ride or of a
\* live share of it, and the fan-out of that ping comes to all of them.
LEMMA InsertOwes ==
  ASSUME WatchInv, [Next]_vars, NEW w \in Workers, Insert(w)
  PROVE  LinksHold' /\ OwedHolds'
<1>. DEFINE r == req[w].ride  p == req[w].pos
<1>1. /\ link' = link /\ got' = got /\ fan' = fan /\ dropped' = dropped
      /\ shares' = shares
      /\ owed' = IF fan[w].pc # "ping" THEN owed
                 ELSE owed \cup In(LiveShares(r) \cup {r}, p)
      BY DEF Insert, PingInsert
<1>2. CASE owed' = owed
      BY <1>1, <1>2, OwedKept DEF WatchInv, LiveInv
<1>3. CASE fan[w].pc = "ping" /\ owed' = owed \cup In(LiveShares(r) \cup {r}, p)
  <2>1. fan[w].ride = r /\ fan[w].pos = p /\ r \in RideIds
        BY <1>3 DEF WatchInv, LiveInv, FansHold, IInv, LocalsHold, RequestHolds,
                    Insert, PingInsert, At
  <2>2. ASSUME NEW o \in owed PROVE Joined(o)' /\ Settled(o)'
    <3>1. Joined(o) /\ Settled(o)
          BY <2>2 DEF WatchInv, OwedHolds
    <3>2. IInv
          BY DEF WatchInv, LiveInv
    <3>. QED BY <1>1, <3>1, <3>2, JoinedStays, SettledStays DEF Joined
  <2>3. ASSUME NEW o \in In(LiveShares(r) \cup {r}, p)
        PROVE  Joined(o)' /\ Settled(o)'
    <3>1. PICK c \in Clients : /\ link[c].state = "joined"
                               /\ link[c].room \in LiveShares(r) \cup {r}
                               /\ o = <<c, link[c].room, p>>
          BY DEF In
    <3>2. link[c] = [state |-> "joined", room |-> link[c].room]
      <4>1. link[c] \in [state : {"off", "checked", "joined"},
                         room : RideIds \cup ShareIds \cup {None}]
            BY DEF WatchInv, LinksHold
      <4>. QED BY <3>1, <4>1
    <3>3. o[1] = c /\ o[2] = link[c].room /\ o[3] = p
          BY <3>1
    <3>4. o[2] \in ShareIds => o[2] \in LiveShares(r)
          BY <2>1, <3>1, <3>3, RoomsAssumption
    <3>5. o[2] \in RideIds \cup ShareIds
          BY <2>1, <3>1, <3>3 DEF LiveShares
    <3>6. Joined(o)'
      <4>1. o[2] \in ShareIds => shares[o[2]].state = "live"
            BY <3>4 DEF LiveShares
      <4>. QED BY <1>1, <3>1, <3>2, <3>3, <3>5, <4>1 DEF Joined
    <3>7. Owes(w, o)
          BY <1>3, <2>1, <3>1, <3>3 DEF Owes, LiveShares
    <3>8. Owes(w, o)'
          BY <1>1, <3>7 DEF Owes
    <3>. QED BY <3>6, <3>8 DEF Settled
  <2>. QED BY <1>1, <1>3, <2>2, <2>3 DEF WatchInv, LinksHold, OwedHolds
<1>. QED BY <1>1, <1>2, <1>3

LEMMA UpdateOwes ==
  ASSUME WatchInv, [Next]_vars, NEW w \in Workers, Update(w)
  PROVE  LinksHold' /\ OwedHolds'
<1>1. /\ link' = link /\ got' = got /\ owed' = owed /\ dropped' = dropped
      /\ shares' = shares
      BY DEF Update, PingUpdate
<1>2. CASE fan' = fan
      BY <1>1, <1>2, OwedKept DEF WatchInv, LiveInv
<1>3. CASE fan[w].pc = "ping" /\ fan' = [fan EXCEPT ![w].pc = "room"]
  <2>1. /\ fan'[w].pc = "room" /\ fan'[w].ride = fan[w].ride
        /\ fan'[w].pos = fan[w].pos
        /\ \A x \in Workers : x # w => fan'[x] = fan[x]
        BY <1>3 DEF WatchInv, LiveInv, FansHold
  <2>2. ASSUME NEW o \in owed, Owes(w, o) PROVE Settled(o)'
    <3>1. Owes(w, o)'
          BY <1>1, <2>1, <2>2 DEF Owes
    <3>. QED BY <3>1 DEF Settled
  <2>. QED BY <1>1, <2>1, <2>2, FanMoves DEF WatchInv, LiveInv
<1>. QED BY <1>2, <1>3 DEF Update, FanGoto

\* The three steps of the fan-out: the emit to a room settles what is owed to
\* the sockets in it, and the select finds every share that is live.
LEMMA FanOutOwes ==
  ASSUME WatchInv, [Next]_vars, NEW w \in Workers,
         EmitRide(w) \/ ListTokens(w) \/ Emit(w)
  PROVE  LinksHold' /\ OwedHolds'
<1>1. /\ link' = link /\ owed' = owed /\ UNCHANGED vars
      /\ got \subseteq got' /\ dropped' = dropped
      BY DEF EmitRide, ListTokens, Emit
<1>2. shares' = shares
      BY <1>1 DEF vars
<1>3. ASSUME NEW rooms, NEW o, got' = got \cup In(rooms, fan[w].pos),
             Joined(o), Owes(w, o), o[2] \in rooms
      PROVE  Settled(o)'
  <2>1. /\ o[1] \in Clients /\ o = <<o[1], link[o[1]].room, fan[w].pos>>
        /\ link[o[1]].state = "joined" /\ link[o[1]].room \in rooms
        BY <1>3 DEF Joined, Owes
  <2>2. o \in In(rooms, fan[w].pos)
        BY <2>1 DEF In
  <2>. QED BY <1>3, <2>2 DEF Settled
<1>4. CASE EmitRide(w)
  <2>1. /\ fan[w].pc = "room" /\ fan'[w].pc = "list"
        /\ fan'[w].ride = fan[w].ride /\ fan'[w].pos = fan[w].pos
        /\ \A x \in Workers : x # w => fan'[x] = fan[x]
        /\ got' = got \cup In({fan[w].ride}, fan[w].pos)
        BY <1>4 DEF EmitRide, FanGoto, WatchInv, LiveInv, FansHold
  <2>2. ASSUME NEW o \in owed, Joined(o), Owes(w, o) PROVE Settled(o)'
    <3>1. CASE o[2] = fan[w].ride
          BY <1>3, <2>1, <2>2, <3>1
    <3>2. CASE o[2] # fan[w].ride
      <4>1. Owes(w, o)'
            BY <1>2, <2>1, <2>2, <3>2 DEF Owes
      <4>. QED BY <4>1 DEF Settled
    <3>. QED BY <3>1, <3>2
  <2>. QED BY <1>1, <1>2, <2>1, <2>2, FanMoves DEF WatchInv, LiveInv
<1>5. CASE ListTokens(w)
  <2>1. /\ fan[w].pc = "list" /\ fan'[w].pc = "emit"
        /\ fan'[w].ride = fan[w].ride /\ fan'[w].pos = fan[w].pos
        /\ fan'[w].targets = LiveShares(fan[w].ride)
        /\ \A x \in Workers : x # w => fan'[x] = fan[x]
        BY <1>5 DEF ListTokens, WatchInv, LiveInv, FansHold
  <2>2. ASSUME NEW o \in owed, Joined(o), Owes(w, o) PROVE Settled(o)'
    <3>1. o[2] \in ShareIds /\ shares[o[2]].ride = fan[w].ride
          BY <2>1, <2>2 DEF Owes
    <3>2. CASE shares[o[2]].state = "live"
      <4>1. o[2] \in fan'[w].targets
            BY <2>1, <3>1, <3>2 DEF LiveShares
      <4>2. Owes(w, o)'
            BY <1>2, <2>1, <2>2, <3>1, <4>1 DEF Owes
      <4>. QED BY <4>2 DEF Settled
    <3>3. CASE shares[o[2]].state # "live"
      <4>1. shares[o[2]].state \in Over
            BY <2>2, <3>1, <3>3
            DEF Joined, WatchInv, LiveInv, IInv, TypeOK, ShareRow, Over
      <4>. QED BY <1>2, <3>1, <4>1 DEF Settled
    <3>. QED BY <3>2, <3>3
  <2>. QED BY <1>1, <1>2, <2>1, <2>2, FanMoves DEF WatchInv, LiveInv
<1>6. CASE Emit(w)
  <2>1. /\ fan[w].pc = "emit"
        /\ \A x \in Workers : x # w => fan'[x] = fan[x]
        /\ got' = got \cup In(fan[w].targets, fan[w].pos)
        BY <1>6 DEF Emit, WatchInv, LiveInv, FansHold
  <2>2. ASSUME NEW o \in owed, Joined(o), Owes(w, o) PROVE Settled(o)'
    <3>1. o[2] \in fan[w].targets
          BY <2>1, <2>2 DEF Owes
    <3>. QED BY <1>3, <2>1, <2>2, <3>1
  <2>. QED BY <1>1, <1>2, <2>1, <2>2, FanMoves DEF WatchInv, LiveInv
<1>. QED BY <1>4, <1>5, <1>6

\* A socket that comes was in no room, and to one that goes nothing is owed.
LEMMA SocketOwes ==
  ASSUME WatchInv, [Next]_vars, NEW c \in Clients,
         \/ \E s \in ShareIds : Connect(c, s)
         \/ \E r \in RideIds : JoinRide(c, r)
         \/ Join(c) \/ Disconnect(c)
  PROVE  LinksHold' /\ OwedHolds'
<1>1. /\ fan' = fan /\ got' = got /\ dropped' = dropped /\ UNCHANGED vars
      BY DEF Connect, JoinRide, Join, Disconnect
<1>2. LinksHold'
      BY DEF Connect, JoinRide, Join, Disconnect, WatchInv, LinksHold, Off
<1>3. /\ owed' \subseteq owed
      /\ \A d \in Clients : d # c => link'[d] = link[d]
      BY DEF Connect, JoinRide, Join, Disconnect, WatchInv, LinksHold
<1>4. \/ link[c].state # "joined"
      \/ \A o \in owed' : o[1] # c
      BY DEF Connect, JoinRide, Join, Disconnect, Off
<1>5. ASSUME NEW o \in owed' PROVE Joined(o)' /\ Settled(o)'
  <2>1. Joined(o) /\ Settled(o)
        BY <1>1, <1>3, <1>5 DEF vars, WatchInv, OwedHolds
  <2>2. o[1] # c
        BY <1>4, <2>1 DEF Joined
  <2>3. link'[o[1]] = link[o[1]]
        BY <1>3, <2>1, <2>2 DEF Joined
  <2>4. IInv
        BY DEF WatchInv, LiveInv
  <2>. QED BY <1>1, <2>1, <2>3, <2>4, JoinedStays, SettledStays DEF Joined
<1>. QED BY <1>2, <1>5 DEF OwedHolds

\* A fan-out that begins owes nothing yet; every other step moves none.
LEMMA PingOwes ==
  ASSUME WatchInv, [Next]_vars, NEW w \in Workers, NEW u \in Users,
         NEW r \in RideIds, NEW p \in Positions,
         SocketPing(w, u, r, p) \/ HttpPing(w, u, r, p)
  PROVE  LinksHold' /\ OwedHolds'
<1>1. /\ link' = link /\ owed' = owed /\ got' = got /\ dropped' = dropped
      /\ fan[w].pc = "idle"
      /\ \A x \in Workers : x # w => fan'[x] = fan[x]
      BY DEF SocketPing, HttpPing, PingSelect, liveVars, WatchInv, LiveInv,
             FansHold
<1>2. \A o \in owed : ~Owes(w, o)
      BY <1>1 DEF Owes
<1>. QED BY <1>1, <1>2, FanMoves DEF WatchInv, LiveInv

\* A handler that fails drops what it owes; on a process that dies nobody is
\* connected any more.
LEMMA FailOwes ==
  ASSUME WatchInv, [Next]_vars,
         ProcessDies \/ \E w \in Workers : RequestFails(w) \/ ListFails(w)
  PROVE  LinksHold' /\ OwedHolds'
<1>1. CASE ProcessDies
      BY <1>1 DEF ProcessDies, WatchInv, LinksHold, OwedHolds, Off
<1>2. ASSUME NEW w \in Workers, RequestFails(w) \/ ListFails(w)
      PROVE  LinksHold' /\ OwedHolds'
  <2>1. PICK rooms \in {RideIds \cup ShareIds, ShareIds} :
          /\ Misses(w, rooms)
          /\ RideIds \subseteq rooms \/ fan[w].pc = "list"
        BY <1>2 DEF RequestFails, ListFails
  <2>2. /\ link' = link /\ owed' = owed /\ got' = got
        /\ dropped \subseteq dropped'
        /\ \A x \in Workers : x # w => fan'[x] = fan[x]
        BY <2>1 DEF Misses, WatchInv, LiveInv, FansHold
  <2>3. ASSUME NEW o \in owed, Joined(o), Owes(w, o) PROVE Settled(o)'
    <3>1. o[2] \in rooms
          BY <2>1, <2>3, RoomsAssumption DEF Joined, Owes
    <3>2. <<o[2], o[3]>> \in dropped'
          BY <2>1, <2>3, <3>1 DEF Misses, Owes
    <3>. QED BY <3>2 DEF Settled
  <2>. QED BY <2>2, <2>3, FanMoves DEF WatchInv, LiveInv
<1>. QED BY <1>1, <1>2

LEMMA ElseOwes ==
  ASSUME WatchInv, [Next]_vars, link' = link, fan' = fan, got' = got,
         owed' = owed, dropped' = dropped
  PROVE  LinksHold' /\ OwedHolds'
BY OwedKept DEF WatchInv, LiveInv

LEMMA InitWatch == LiveInit => WatchInv
BY InitLive DEF LiveInit, WatchInv, LinksHold, OwedHolds, Off

LEMMA NextWatch == WatchInv /\ [LiveNext]_allVars => WatchInv'
<1>. SUFFICES ASSUME WatchInv, [LiveNext]_allVars PROVE WatchInv'
     OBVIOUS
<1>1. [Next]_vars
      BY LiveIsRides
<1>2. LiveInv'
      BY NextLive DEF WatchInv
<1>. DEFINE Goal == LinksHold' /\ OwedHolds'
<1>3. ASSUME NEW w \in Workers, NEW u \in Users, NEW r \in RideIds,
             NEW p \in Positions, SocketPing(w, u, r, p) \/ HttpPing(w, u, r, p)
      PROVE  Goal
      BY <1>1, <1>3, PingOwes
<1>4. ASSUME NEW w \in Workers, Insert(w) \/ Update(w) PROVE Goal
      BY <1>1, <1>4, InsertOwes, UpdateOwes
<1>5. ASSUME NEW w \in Workers, EmitRide(w) \/ ListTokens(w) \/ Emit(w)
      PROVE  Goal
      BY <1>1, <1>5, FanOutOwes
<1>6. ASSUME NEW w \in Workers, OtherRequest(w) \/ OtherProceed(w) PROVE Goal
  <2>1. /\ link' = link /\ fan' = fan /\ got' = got /\ owed' = owed
        /\ dropped' = dropped
        BY <1>6 DEF OtherRequest, OtherProceed, liveVars
  <2>. QED BY <1>1, <2>1, ElseOwes
<1>7. ASSUME ProcessDies \/ \E w \in Workers : RequestFails(w) \/ ListFails(w)
      PROVE  Goal
      BY <1>1, <1>7, FailOwes
<1>8. ASSUME NEW c \in Clients,
             \/ \E s \in ShareIds : Connect(c, s)
             \/ \E r \in RideIds : JoinRide(c, r)
             \/ Join(c) \/ Disconnect(c)
      PROVE  Goal
      BY <1>1, <1>8, SocketOwes
<1>9. ASSUME Around PROVE Goal
  <2>1. /\ link' = link /\ fan' = fan /\ got' = got /\ owed' = owed
        /\ dropped' = dropped
        BY <1>9 DEF liveVars, Around
  <2>. QED BY <1>1, <2>1, ElseOwes
<1>10. ASSUME UNCHANGED allVars PROVE Goal
  <2>1. /\ link' = link /\ fan' = fan /\ got' = got /\ owed' = owed
        /\ dropped' = dropped
        BY <1>10 DEF allVars, liveVars
  <2>. QED BY <1>1, <2>1, ElseOwes
<1>11. Goal
       BY <1>3, <1>4, <1>5, <1>6, <1>7, <1>8, <1>9, <1>10 DEF LiveNext
<1>. QED BY <1>2, <1>11 DEF WatchInv

\* Whoever watches a ride through a live share, or in the room of the ride, has
\* every point reported over the socket while they were connected, as soon as
\* nothing is in flight, whatever other requests fail; the handler that reported
\* the point must not have failed before it came to their room.
THEOREM WatchersServed == LiveSpec => []WatchersSeeEveryPoint
<1>1. LiveSpec => []WatchInv
      BY InitWatch, NextWatch, PTL DEF LiveSpec
<1>2. WatchInv => WatchersSeeEveryPoint
  <2>. SUFFICES ASSUME WatchInv,
                       \A w \in Workers : req[w].pc = "idle" /\ fan[w].pc = "idle",
                       NEW o \in owed,
                       o[2] \in RideIds \/ shares[o[2]].state = "live"
                PROVE  o \in got \/ <<o[2], o[3]>> \in dropped
       BY DEF WatchersSeeEveryPoint
  <2>1. Joined(o) /\ Settled(o)
        BY DEF WatchInv, OwedHolds
  <2>2. \A w \in Workers : ~Owes(w, o)
        BY DEF Owes
  <2>3. ~(o[2] \in ShareIds /\ shares[o[2]].state \in Over)
        BY RoomsAssumption DEF Over
  <2>. QED BY <2>1, <2>2, <2>3 DEF Settled
<1>. QED BY <1>1, <1>2, PTL
=============================================================================
