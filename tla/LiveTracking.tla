---------------------------- MODULE LiveTracking ----------------------------
(***************************************************************************)
(* RidesGateway on top of Rides: the emergency contacts that watch through *)
(* a Socket.IO connection, users who join the room of a ride, and the      *)
(* fan-out of the points a rider's phone reports.  A ping over the socket  *)
(* is a ping of Rides whose handler goes on after it returns; a ping over  *)
(* HTTP is a ping of Rides and no more.  A share row stands for its watch  *)
(* token, which is unique, and shares and rides stand for their rooms.     *)
(***************************************************************************)
EXTENDS Rides

CONSTANTS
  Clients,     \* sockets of those who watch
  Transports   \* how phones report points: "socket", "http"

\* The rooms ride:<id> and watch:<token> have names of their own.
ASSUME RoomsAssumption == RideIds \cap ShareIds = {}

VARIABLES
  link,    \* their sockets: the room, joined or about to be
  fan,     \* the rest of onPing, for each request
  got,     \* <<client, room, point>> received (observed)
  owed,    \* the same, recorded by a ping over the socket while the client
           \* was in the room of the ride or of a live share
  barred,  \* <<share, point>> recorded when the share was over (observed)
  dropped  \* <<room, point>> of the handlers that failed (observed)

liveVars == <<link, fan, got, owed, barred, dropped>>
allVars == <<vars, liveVars>>

Off == [state |-> "off", room |-> None]
NoFan == [pc |-> "idle", ride |-> None, pos |-> None, targets |-> {}]

LiveInit ==
  /\ Init
  /\ link = [c \in Clients |-> Off]
  /\ fan = [w \in Workers |-> NoFan]
  /\ got = {} /\ owed = {} /\ barred = {} /\ dropped = {}

FanGoto(w, pc) == fan' = [fan EXCEPT ![w].pc = pc]

-----------------------------------------------------------------------------
(* handleConnection, ride:join.                                            *)

\* The select of watchByToken.
Connect(c, s) ==
  /\ link[c] = Off
  /\ shares[s].state = "live"
  /\ link' = [link EXCEPT ![c] = [state |-> "checked", room |-> s]]
  /\ UNCHANGED <<vars, fan, got, owed, barred, dropped>>

\* The room is joined when the update of the view count is through; the counts
\* are left out.
Join(c) ==
  /\ link[c].state = "checked"
  /\ link' = [link EXCEPT ![c].state = "joined"]
  /\ UNCHANGED <<vars, fan, got, owed, barred, dropped>>

\* A user whose access token is good joins the room of any ride.
JoinRide(c, r) ==
  /\ link[c] = Off
  /\ link' = [link EXCEPT ![c] = [state |-> "joined", room |-> r]]
  /\ UNCHANGED <<vars, fan, got, owed, barred, dropped>>

Disconnect(c) ==
  /\ link' = [link EXCEPT ![c] = Off]
  /\ owed' = {o \in owed : o[1] # c}
  /\ UNCHANGED <<vars, fan, got, barred, dropped>>

-----------------------------------------------------------------------------
(* onPing.                                                                 *)

\* Bound: a point is reported once.
Unreported(p) ==
  /\ \A r \in RideIds : p \notin recorded[r]
  /\ \A w \in Workers : req[w].pos # p /\ fan[w].pos # p

\* The sockets in some rooms, with what they get.
In(rooms, p) == {<<c, link[c].room, p>> : c \in {d \in Clients :
                    link[d].state = "joined" /\ link[d].room \in rooms}}

SocketPing(w, u, r, p) ==
  /\ "socket" \in Transports
  /\ Unreported(p)
  /\ fan[w].pc = "idle"
  /\ PingSelect(w, u, r, p)
  /\ fan' = [fan EXCEPT ![w] = [pc |-> "ping", ride |-> r, pos |-> p,
                                targets |-> {}]]
  /\ UNCHANGED <<link, got, owed, barred, dropped>>

HttpPing(w, u, r, p) ==
  /\ "http" \in Transports
  /\ Unreported(p)
  /\ fan[w].pc = "idle"
  /\ PingSelect(w, u, r, p)
  /\ UNCHANGED liveVars

Insert(w) ==
  LET r == req[w].ride  p == req[w].pos IN
  /\ PingInsert(w)
  /\ owed' = IF fan[w].pc # "ping" THEN owed
             ELSE owed \cup In(LiveShares(r) \cup {r}, p)
  /\ barred' = barred \cup {<<s, p>> : s \in {t \in ShareIds :
                 shares[t].ride = r /\ shares[t].state # "live"}}
  /\ UNCHANGED <<link, fan, got, dropped>>

Update(w) ==
  /\ PingUpdate(w)
  /\ IF fan[w].pc = "ping" THEN FanGoto(w, "room") ELSE UNCHANGED fan
  /\ UNCHANGED <<link, got, owed, barred, dropped>>

\* Mutant: the room of the ride is forgotten.
EmitRideNobody(w) ==
  /\ fan[w].pc = "room"
  /\ FanGoto(w, "list")
  /\ UNCHANGED <<vars, link, got, owed, barred, dropped>>

\* The emit to the room ride:<id>.
EmitRide(w) ==
  /\ fan[w].pc = "room"
  /\ got' = got \cup In({fan[w].ride}, fan[w].pos)
  /\ FanGoto(w, "list")
  /\ UNCHANGED <<vars, link, owed, barred, dropped>>

\* Mutant: unshared_at is forgotten in the WHERE clause.
ListTokensOfAll(w) ==
  /\ fan[w].pc = "list"
  /\ fan' = [fan EXCEPT ![w].pc = "emit",
               ![w].targets = {s \in ShareIds : shares[s].ride = fan[w].ride}]
  /\ UNCHANGED <<vars, link, got, owed, barred, dropped>>

\* listActiveWatchTokens.
ListTokens(w) ==
  /\ fan[w].pc = "list"
  /\ fan' = [fan EXCEPT ![w].pc = "emit",
                        ![w].targets = LiveShares(fan[w].ride)]
  /\ UNCHANGED <<vars, link, got, owed, barred, dropped>>

\* The emits to the rooms watch:<token> run without a pause.
Emit(w) ==
  /\ fan[w].pc = "emit"
  /\ got' = got \cup In(fan[w].targets, fan[w].pos)
  /\ fan' = [fan EXCEPT ![w] = NoFan]
  /\ UNCHANGED <<vars, link, owed, barred, dropped>>

-----------------------------------------------------------------------------
\* Every other request, and the rest of the system, as in Rides.
OtherRequest(w) ==
  /\ fan[w].pc = "idle"
  /\ \E u \in Users :
       \/ \E v \in Vehicles : StartSelect(w, u, v)
       \/ \E r \in RideIds : \/ EndSelect(w, u, r)
                             \/ \E ids \in SUBSET Contacts :
                                  ShareSelect(w, u, r, ids)
  /\ UNCHANGED liveVars

OtherProceed(w) ==
  /\ ~At(w, "pingInsert") /\ ~At(w, "pingUpdate")
  /\ Proceed(w)
  /\ UNCHANGED liveVars

\* The rest of w's handler is not run: these rooms miss its point.
Misses(w, rooms) ==
  /\ fan' = [fan EXCEPT ![w] = NoFan]
  /\ dropped' = IF fan[w].pc = "idle" THEN dropped
                ELSE dropped \cup (rooms \X {fan[w].pos})
  /\ UNCHANGED <<link, got, owed, barred>>

RequestFails(w) ==
  /\ Fail(w)
  /\ Misses(w, RideIds \cup ShareIds)

\* listActiveWatchTokens fails, after the ping returned: the point is recorded
\* and the room of the ride has it.  Nothing here is bounded by MaxFaults.
ListFails(w) ==
  /\ fan[w].pc = "list"
  /\ Misses(w, ShareIds)
  /\ UNCHANGED vars

\* The sockets die with the process, like on a disconnect; watchers connect
\* again.
ProcessDies ==
  /\ Crash
  /\ fan' = [w \in Workers |-> NoFan]
  /\ link' = [c \in Clients |-> Off]
  /\ owed' = {}
  /\ UNCHANGED <<got, barred, dropped>>

\* Nobody here reads the audit trail: its rows may as well not land.
Around ==
  /\ \/ SweepStep
     \/ \E r \in RideIds : GoStale(r)
     \/ \E c \in Contacts : RemoveContact(c)
  /\ UNCHANGED liveVars

LiveNext ==
  \/ \E w \in Workers :
       \/ \E u \in Users, r \in RideIds, p \in Positions :
            SocketPing(w, u, r, p) \/ HttpPing(w, u, r, p)
       \/ Insert(w) \/ Update(w)
       \/ EmitRide(w) \/ ListTokens(w) \/ Emit(w)
       \/ OtherRequest(w) \/ OtherProceed(w)
       \/ RequestFails(w) \/ ListFails(w)
  \/ \E c \in Clients : \/ \E s \in ShareIds : Connect(c, s)
                        \/ \E r \in RideIds : JoinRide(c, r)
                        \/ Join(c) \/ Disconnect(c)
  \/ ProcessDies
  \/ Around

LiveSpec == LiveInit /\ [][LiveNext]_allVars

-----------------------------------------------------------------------------
(* Properties.                                                             *)

\* A point recorded after a share was dropped, or after the ride's end took
\* its shares back, never reaches a socket that watches through that share,
\* although the socket stays in its room: the tokens are read after the insert.
NoLatePositions == \A g \in got : <<g[2], g[3]>> \notin barred

\* A watcher whose share stays live, and whoever is in the room of the ride, gets
\* every point that is reported over the socket while they are connected, once
\* nothing is in flight: "Watcher: socket.on('ride:location')" (README.md:97-99).
\* Whatever else fails, a recorded point misses a room only if a later statement
\* of the handler that reported it failed, and the room of the ride only if that
\* was the update of the ride.  Points reported over HTTP are emitted to nobody.
WatchersSeeEveryPoint ==
  (\A w \in Workers : req[w].pc = "idle" /\ fan[w].pc = "idle") =>
    \A o \in owed :
      (o[2] \in RideIds \/ shares[o[2]].state = "live") =>
        o \in got \/ <<o[2], o[3]>> \in dropped
=============================================================================
