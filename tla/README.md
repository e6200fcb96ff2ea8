# BeSafe backend: a TLA+ verification project

BeSafe is a NestJS service over PostgreSQL and Redis: riders check a vehicle,
start a monitored ride, share it with emergency contacts who watch it live, and
may raise an SOS. Nearly every handler is an `async` function that runs several
database statements **without a transaction**. Between two `await`s other
requests, the cron jobs and detached promises run, a statement may fail, and the
process may die. That is what these modules are about: what still holds when
handlers interleave, and what does not.

## 1. The system

| Component (source) | State | Operations | Interacts with |
|---|---|---|---|
| Rides (`modules/rides`) | `rides`, `ride_locations`, `ride_shares` | start, ping, end, setShares, watchByToken, history | vehicles and drivers (start, trip counter), contacts (shares), audit, gateway |
| Cron jobs (`jobs/maintenance.jobs.ts`) | the same tables, `refresh_tokens` | endStaleRides (10 min), cleanupExpiredRefreshTokens, cleanupExpiredOtps | runs behind the requests' backs |
| SOS (`modules/sos`) | `sos_events`, Redis `sos:trigger_lock:<user>` | trigger, notifyRecipients (detached), cancel, resolve | contacts, SMS, PIN of the account, audit |
| Notifications (`modules/notifications`) | none of its own | sendManySms, sendSms | SOS and one-time codes, over one client |
| Resilient HTTP client (`common/resilient-http.ts`) | breaker, rolling statistics, requests on their way | request | the provider; **shared by every caller of it** |
| One-time codes (`modules/auth`) | Redis `otp:<phone>`, `ratelimit:otp:<phone>` | requestOtp, verifyOtp | users, SMS, sessions |
| Sessions (`modules/auth`) | `refresh_tokens` | issueTokens, refresh, logout | users, nightly cleanup |
| Accounts (`modules/auth`) | `users`, `drivers` | setRole, verifyNin, setSosPin | identity providers |
| Contacts (`modules/riders`) | `emergency_contacts` | addContact, removeContact | cascade to `ride_shares` |
| Drivers and vehicles (`modules/drivers`) | `vehicles`, `drivers` | verifyLicense, registerVehicle, revokeVehicle, setOnline, me | start, verification, identity providers |
| Verification (`modules/verify`) | - | byQr, byPlate | vehicles, drivers |
| Gateway (`gateways/rides.gateway.ts`) | Socket.IO rooms of rides and of shares | connection, ride:join, ride:ping | Rides |
| Audit (`modules/audit`) | `audit_events` | write (not awaited) | everyone |
| Identity (`modules/identity`) | breaker of its own | verifyNin, verifyDriverLicense | external provider |
| Gov, health, guard, filters, pipes, config | none | queries, wiring | - |

What is hard in this code, and what makes each part correct:

* **Read, then write.** A check and the write it guards are two statements.
  Correct would be: one active ride, one active SOS, three PINs, five contacts,
  one NIN per account, one successor per token, one session per code. Some of
  these hold because of a unique index or a Redis key, some only as long as
  requests do not race.
* **Stale rows.** Handlers and the cron job update by id what they selected
  earlier. An ended ride must not come back, a closed SOS must stay closed, a
  point shown must have been recorded, a share must belong to the rider's own
  contact even if contacts are deleted meanwhile, the expiry date on file must
  be the one of the licence on file.
* **Partial failure.** Each statement may be the last: the trip counter, the
  shares, the audit trail, times to live in Redis and the row of `drivers` can
  be left behind.
* **Detached work.** Audit rows and SOS notifications are not awaited.
* **Timeouts.** The breaker stops waiting for a text that goes on, is retried and
  may be accepted afterwards; its half-open state waits for one probe.
* **Fan-out.** Watchers sit in rooms nobody removes them from; what they may see
  is decided by a query at every ping.

`PROJECT.json` lists every hazard with its line and the properties that cover it.

## 2. Modelling conventions

* A request in flight is a **worker** with a `pc` that names the statement it
  will run next and the locals the rest of the handler needs. One action is one
  awaited statement with everything synchronous after it, up to the next
  `await`. A request that is refused changes nothing and is the absence of a
  step, or a step back to idle.
* `Arrive` is the first statement of a handler, `Proceed` the others. Ids from
  `newId()` come from finite pools; running out of ids is the bound on an
  instance, which is why every run has `CHECK_DEADLOCK FALSE` (users may also
  simply stop).
* `Fail` ends a request before its next statement. What earlier statements wrote
  stays. `Crash` ends everything in flight at once and loses audit rows that
  have not landed; in the modules without `Crash` a crash is the failure of
  each request. `MaxFaults` bounds both; VehicleRegistry has no bound.
* Variables the code does not have are marked *(observed)* and only ever
  recorded, never read by an action.
* `TypeOK` of every module gives the domains of its variables. No run checks it:
  it is a conjunct of the inductive invariant wherever section 5 reports proofs.
* Operators whose comment begins with **Mutant** are defective variants of the
  definition that follows them. They show that a property can fail and are used
  by no action.

## 3. Modules

```
Rides ------INSTANCE--> RideLifecycle     RidesProofs    EXTENDS Rides
  ^ EXTENDS                               LiveProofs     EXTENDS LiveTracking, RidesProofs
LiveTracking

Sos --------INSTANCE--> SosAlarm          SosProofs      EXTENDS SosTexts
  ^ EXTENDS
SosTexts
  v EXTENDS
ResilientHttp

RefreshTokens --INSTANCE--> Sessions      TokensProofs   EXTENDS RefreshTokens

Otp, VehicleRegistry                      OtpProofs, VehicleProofs
Contacts, Accounts                        ContactsProofs, AccountsProofs

MC<M> EXTENDS <M> for every run
```

**Rides** - `RidesService.start/ping/end/setShares` and `endStaleRides`.
`rides`, `recorded`, `shares` are the three tables, `fresh` is "last ping (or
start) within three hours", `contacts`, `active`, `suspended` are what other
components write (`RemoveContact` with the cascade, `RevokeVehicle`, `Suspend`),
`trips` is `drivers.total_verified_trips`, `pending` and `log` the audit rows on
their way and landed, `req` the requests, `sweep` the run of the cron job.
`MayTouch` is the select and the three checks ping, end and setShares begin
with. `endReason` keeps only whether rider or timeout ended the ride. Observed
are `reasons` (every reason a ride was ended with; the column keeps the last),
`sweep.pinged` (what was pinged since this run of the job selected it) and `cut`
(rides whose `end` stopped half way).

**RideLifecycle** - the promise: a ride begins once and ends for good, shows a
point of its own track and is watched by contacts of its rider. It does *not*
promise that recording or sharing stops at the end, because the code does not.

**LiveTracking** - `RidesGateway` on top of Rides. A socket ping is Rides' ping
that continues with the emit to the room of the ride, `listActiveWatchTokens`
and the emits to the rooms of its shares; an HTTP ping stops after the update.
`link` is the socket of somebody who watches, through a share or, with a user's
token, in the room of a ride; `fan` is the rest of `onPing`; `got`, `owed`,
`barred` observe deliveries, `dropped` the rooms and points of handlers that
failed before they came to them. A failing `listActiveWatchTokens`
(`ListFails`) happens after the point is recorded and emitted to the ride's
room; it is not bounded by `MaxFaults`.

**Sos** - `SosService` with `setSosPin`/`verifySosPin`. `lock` is the Redis key,
`fan` the detached `notifyRecipients` of each event, `texted` what the provider
accepted, `guesses` the PINs compared (observed). Sos leaves open whether a text
gets through and what its sender hears of it. The key expires when it likes, also
under a running trigger: its five seconds are fixed, and nothing bounds the
statements of the trigger (a connection alone may be waited for that long,
`db.module.ts:23`, and there is no statement timeout). `slow` (observed) are the
users to whom that happened. **SosAlarm** is what a user may rely on: an alarm
is raised once and called off for good; how many are on at a time is left open.

**ResilientHttp** - one client: `breaker`, the rolling statistics `window`, and
for each call what happens to its axios request and, separately, what its caller
was told, because `opossum` answers after its own timeout while the request and
its retries go on. `Trip` is the test opossum makes after a failure, with
`errorThresholdPercentage: 50` and no volume threshold.

**SosTexts** - Sos and ResilientHttp composed as `notifyRecipients` and
`requestOtp` use them: the texts of one event are fired together (`Batch`),
those of one-time codes go through the same breaker, results are read in
`Settle`, a crash resets the breaker and leaves requests on their way. It
implements Sos by its own variables (`ImplementsSos == Spec`).

**Otp** - `requestOtp`, `verifyOtp`: the hash and the counter with their times
to live as separate commands, the test code, the account a first login creates.
Codes are numbered; guess 0 matches none. That two codes for one phone are
equal by chance is left out.

**RefreshTokens** - the tokens of a session (`parent` is observed). The catch in
`logout` answers ok after an UPDATE that failed (`auth.service.ts:408-411`):
`LogoutSwallowed`, which leaves the token as it was; `loggedOut` are the tokens
with an answered logout, `swallowed` those of them whose UPDATE failed every
time (both observed). **Sessions**
is what they amount to: a tree of tokens of one user whose live tokens are
leaves. A token is live as long as a refresh would accept it (`Live`); a login
is `Begin`, the insert of a refresh `Rotate`, and revoking a live token, by
refresh or logout, or its thirty days are `Retire`.

**Accounts** - role, name and NIN of a user and the row of `drivers`. The
provider answers yes or no (`Identity`). `NinTaken` follows `limit(1)` without
an order: with several holders any of them may be the row.

**Contacts** - the counted limit and the removal.

**VehicleRegistry** - `requireDriver` and the four operations behind it, the two
lookups, and the two normal forms of a plate, as functions on sequences of
characters (capitalisation, the same on both sides, is left out). A licence is
its number; `Dated` are those for which the provider reports an expiry date,
`held` the two columns of the driver, `WarnsOfLicence` the warning riders see.

## 4. What the runs check

| Run | Shows | Instance |
|---|---|---|
| RidesRequests | SharesOwned: who may watch. TripsBounded, AuditedEndsCounted, AuditComplete: how far counter and trail may drift. EndedRideGainsNoShare. ImplementsLifecycle (refinement) | 2 riders with a contact each, 1 ride, 2 shares, 2 requests, cron job, removal of contacts, 1 fault |
| RidesSweep | EndedRideStaysEnded, EveryEndCounted, BarredVehicleTakesNoRide, OnlyStaleSwept, StaleRideEnds (liveness) | 1 ride, 2 points, 2 requests, cron job, revocation, suspension, 1 fault; no symmetry |
| SosRequests | StackBounded, AuditComplete, PinsBounded, ImplementsAlarm (refinement) | 1 user, 1 contact, 2 events, 2 PINs, 2 requests, a limit of 1 PIN, keys that expire at any time, 1 fault |
| SosTexts | OkMeansTexted, FailuresIsolated, ProbeUnderWay, ImplementsSos (refinement), AlarmRecorded (liveness) | 1 event that its user may resolve, 2 contacts, 1 text of a code, 1 retry, 1 bucket, 1 fault; no symmetry |
| OtpCodes | WrongGuessesBounded, ReplayBounded, CodeExpires, RateWindowEnds | limits of 2, 2 codes, 2 requests, 1 fault |
| TokensRotation | SuccessorsBounded, LogoutIsFinal, RevokedForAReason, ImplementsSessions (refinement) | 1 user, 4 tokens, 2 requests, 1 fault |
| LivePositions | WatchersSeeEveryPoint, NoLatePositions | 1 ride, 2 shares, 2 points, both transports, 2 requests, 1 socket, 1 fault |
| VehiclesPlates | PlatesUnique, PlainPlateIsFound, ExpiredLicenceWarned, RevokedForGood, SuspendedDoesNothing | 2 drivers, 2 vehicles, 3 spellings of one plate, 2 licences (one with a date), 2 requests, any number of failures |
| AccountsChecks | NinHoldersBounded, EnteredNameKept, DriverHasRow | 3 users, 1 name, 2 NINs, 2 requests, 1 fault |
| ContactsLimit | OverflowBounded, RemovedByOwner | 2 users, limit 2, 5 contacts, 3 requests, 1 fault |
| RidesOverlap (violation) | OneActiveRide: "Prevent overlapping active rides for this rider" (`rides.service.ts:62`) is refuted by two starts that both look before either inserts | 2 rides, 2 requests |
| VehiclesNotFound (violation) | RegisteredPlateIsFound: "same, by plate number" (`README.md:179`) is refuted by a plate registered with a dash, or with a blank, which becomes one: it is stored with the dash and looked up without | 1 driver, 5 spellings |

**Limits and races.** Most limits of this code are read in one statement and
enforced in another, so a property that states the bare limit is false and says
no more. The properties state instead *how far* races stretch it, in terms of
the number of requests in flight; with one request each is the promise of the
documentation:

| Promise | Where | What holds with W requests in flight |
|---|---|---|
| L = 3 PINs per SOS | `README.md:195` | L for W = 1, (L + 1)(L + 2)/2 - 1, that is **9**, for W = 2 (PinsBounded): a slow cancel writes back the count it selected plus one and reopens the limit |
| five wrong codes | `auth.service.ts` | 5 + (W - 1), and one more per failed HINCRBY (WrongGuessesBounded) |
| one active ride per rider | `rides.service.ts:62` | W rides (ActiveRidesBounded, proved; the run RidesOverlap shows two) |
| "No stacking: cancel any active first" | `sos.service.ts:61` | nothing is cancelled: a trigger that finds an active event is refused (`SOS_ALREADY_ACTIVE`). One event, unless a trigger of the user outlived its key; then W (StackBounded) |
| a code is used once | `auth.service.ts:139` | W sessions (ReplayBounded) |
| a refresh token has one successor | `README.md:155` | W successors (SuccessorsBounded) |
| logout revokes | `README.md:156` | once the refreshes under way are through, and if its UPDATE went through: the answer is ok either way, and a token whose UPDATE failed can still be exchanged (LogoutIsFinal) |
| one NIN per account | `auth.service.ts:249` | W accounts (NinHoldersBounded) |
| five contacts | `README.md:162` | 5 + (W - 1) (OverflowBounded) |
| a trip is counted once | `rides.service.ts` | W times (TripsBounded) |
| an ended ride is not shared | `schema/rides.ts:89` | except by the setShares under way at the end (EndedRideGainsNoShare) |
| an entered name is kept | `auth.service.ts:289` | except by the verifications under way (EnteredNameKept) |
| a suspended driver is refused | `drivers.service.ts:32` | except what was past the check (SuspendedDoesNothing, BarredVehicleTakesNoRide) |
| only stale rides are ended | `maintenance.jobs.ts:14` | except those pinged after the job's select (OnlyStaleSwept) |

Properties that need the absence of failures say so (`faults = 0 => ...`): both
AuditComplete and PinsBounded; CodeExpires and RateWindowEnds,
because a failure between `HSET`/`INCR` and `EXPIRE` leaves a key for good;
DriverHasRow, because `setRole` updates `users` before it inserts into
`drivers`; RevokedForAReason, because `refresh` revokes before it issues.
Four others hold with failures, and except what the failed handlers themselves
left undone: EveryEndCounted the ends that stopped between their update of the
ride and that of the counter, WatchersSeeEveryPoint the rooms a failed `onPing`
had not come to, LogoutIsFinal the logouts whose UPDATE failed, AlarmRecorded the
fan-outs a failure or a crash took, which nothing in the code resumes.
WatchersSeeEveryPoint speaks of points reported over the socket:
`POST /rides/:id/ping` records a point and emits nothing. Three hazards of this
kind have no property at all, because the code does what it should not and no
text of the repository says otherwise: a code or a counter without a time to
live, and a driver without a row.

**One client for all texts.** FailuresIsolated holds of texts sent while the
breaker is closed: Promise.all fires all texts of an event before any is
answered. It is not true of texts in general. Without a volume threshold one
failed text of a one-time code opens the breaker, and of the texts of an SOS
raised in the next twenty seconds none goes out, or one as a probe; no property
forbids that. AlarmRecorded says that their contacts are then recorded, as not
reached. In its run the user may resolve the event while the texts are out, and
the update of the recipients must still come.
ProbeUnderWay says that the breaker cannot be caught in its probe, whose answer
or timeout always comes. Late acceptances go one way only: a contact may be
recorded as not reached and be texted after all, never the other way round
(OkMeansTexted).

A mutant of a mapped definition is named for every property in `PROJECT.json`:
the change of the code that the property would notice.

**Why the bounds are enough.** The hazards are races between a check and a
write, so two requests with one further actor, the cron job, the fan-out or an
expiry, exhibit them, and every mutant is found within them; where a bound
counts requests, the instance has one value more than the bound allows (four
tokens, three users, five contacts), so that passing it is possible. Limits
(wrong codes, contacts, requests per hour) are lowered to 2 so that they are
reached; the code compares them with `>=` or `>` only, so their size does not
matter. The limit of PINs is 1 in SosRequests: there two cancels compare two
PINs, one more than the limit, and what happens for larger limits is proved.
It has two events, so that of StackBounded only the bound of one can be exceeded
there; the bound for users whose trigger outlived its key is proved.
One fault is enough to stop a handler after any of its statements. One ride is
enough for RidesRequests and RidesSweep because no handler but start looks at
two rides; RidesOverlap has two. In SosTexts one bucket, emptied at any
moment, lets the breaker decide by whatever calls are recent, and one retry is
what tells a late acceptance from an early one; the proofs hold for any number
of both. TokensRotation
has one user: a logout with another user's token changes nothing, and that
sessions stay with their users is proved. Symmetry is
used for sets of interchangeable values in safety runs, for contacts and users
only where `OwnerOf` does not tell them apart, and never in liveness runs.

**Fairness.** `Rides!FairSpec` assumes weak fairness of the cron job's steps
(the scheduler fires every ten minutes, the loop in it is plain code) and of the
statements of a request in flight (Node resumes a promise whose statement was
answered). `SosTexts!TextsFairSpec` assumes it of the event loop (`EventLoop`):
as long as something is ready, the next statement of a fan-out (select, send,
read results, update) or a breaker's timer that is due, some of it is run. Which
is not said: each of these happens once, so all of them come about. The
provider may never answer, retry or accept anything. Nobody is assumed to send a
request, no failure to happen. A ride that `StaleRideEnds` speaks of may be
revived by a ping; a job that failed runs again.

## 5. What is proved

TLAPS checks the theorems of eight modules for every value of the constants,
from the assumptions named in the modules: foreign keys that are NOT NULL are
functions (`DriverOf`, `OwnerOf`), limits and bounds are natural numbers,
`None` is none of the ids, rooms and calls of different
kinds are different. Sets need not be finite except where a theorem counts:
there it assumes `IsFiniteSet` of the rides or of the requests in flight, and
where a bound allows each request but one, that there is a request.

**RidesProofs.** `IInv == TypeOK /\ LocalsHold /\ LastIsRecorded /\ SharesOwned`
is inductive. None of the last two is inductive alone: that a ping shows a
recorded point needs the request to remember a recorded point of the same ride,
and that an inserted share belongs to the rider needs the ids a setShares still
holds to belong to the caller, the caller to be the rider, and the contact to
exist at the moment of the insert, which is what the foreign key checks.
`LocalsHold` is that strengthening; it says of every handler what survives the
interleaving, and its parts about `sweep` keep the cron job from touching a ride
that does not exist. The proof has one lemma per group of handlers over two
facts used everywhere: a request other than the one that moves keeps its locals
(`OthersKept`, `WorkerKept`), because rows are never unmade. Theorems:
`TypeCorrect`, `LastPointRecorded`, `SharedWithOwnContacts`,
`RequestsNotMisled`, and the action properties `EndedForGood` and
`OnlyPingedSwept` (`SweepHolds`: what the job selected and has not ended is
stale, or was pinged since, because only a ping makes a ride fresh that had gone
stale).

Its second half adds that an id nobody has used has left no trace (`Unborn`)
and proves that the handlers implement RideLifecycle (`LifecycleImplemented`,
one lemma per table and statement that writes it), `BarredForGood`,
`EndedGainsNoShare`, and the properties that count: `CreditedBeforeAudited`
(`EndsSeen`: who is about to write `ride.ended` has bumped the counter),
`EveryEndCredited` (a ride its rider ended is counted, or its request is about to
count it, or stopped half way; what the job writes over the row does not
matter), `TripsCounted` (`CountBounded`: trips counted and requests
past the status check together stay below W for each ended ride), and
`TrailComplete` (`Telling`: whoever changed a ride either has written the row,
or is about to). `OverlapBounded` says how far the race that RidesOverlap shows
can go: active rides of a rider and starts past the check together never pass W,
because the check lets a start pass only when there is no active ride, and an
insert turns the one into the other (`ActiveHold`). With `W = 1` nothing is left
of it (`OneByOne`): failures and crashes alone never overlap rides.

**SosProofs.** `IInv` consists of `TypeOK`, `LocalsHold`, `AttemptsWereMade`
and, for every user who is not `slow`, `OneActive`. `LocalsHold` contains
`LockHolds` of the same users: while a trigger runs, the key is there, no other
trigger of that user runs, and past its select the user has no active event.
`TypeOK` bounds `cancel_attempts` because a request that counts had seen fewer
than the limit. Theorems: `TypeCorrect`, `AttemptsReal`, `OkReal` (`FansHold`: a
fan-out takes for ok only its own user's contacts, whose text was accepted),
`TrailComplete` (`LogTells`), the refinement `AlarmImplemented` (an insert is
`Raise`, the end of an active event is `CallOff`, everything else, closing one
that is closed included, stutters), and `PinsCompared`. The argument of the
last: the update of a cancel that selected n attempts may set the count back to
n + 1, so what bounds the PINs compared is not the count but what could have
been compared to reach it (`Spent`), for the count in the row and for the one
each cancel in flight selected; each attempt that stays is worth more PINs than
are left to compare below it (`SpentGrows`, `PinsHold`). `StackingBounded` is in
two parts. Of users who are not `slow` it is `OneActive`, which rests on the
key. Of the others, whose triggers outlived a key and may stack events against
"No stacking" (`sos.service.ts:61`), active events and triggers past their
select together stay below W, whatever becomes of the keys: a trigger passes the
select only when there is no active event, and an insert turns the one into the
other.

The second half is about SosTexts; no theorem of the first cites an assumption
of the client's. For the client alone `HttpInv` says where each call stands:
a refused call is never on its way, one answered with success was carried out,
and while the breaker is probing somebody waits. For the composition `SentFor`
relates the two state machines: a text on its way belongs to a contact its
fan-out selected. Theorems: `NeverStuck`, `AnswersReal`, `TextsImplementSos`
(every step of the client, of the service and of both is a step of Sos or a
stutter), `TextsIsolated`, `TextsNeverStuck`.

**LiveProofs.** The fan-out uses share rows it read a while ago; a share whose
row was live when it was read was live when the point was recorded, because a
share that is over stays over (`NoLatePoints`). The gateway keeps the invariant
of Rides (`GatewayKeepsRides`). `WatchersServed` is by `WatchInv`: a point a
watcher is owed has reached them, or their share is over, or a fan-out of that
point has not come to their room yet (`Settled`, `Owes`), or it failed before it
did. It survives the select
of the tokens because a share that is not over by then is live and among them,
and the emits because who is owed something is still in that room (`Joined`).

**VehicleProofs.** `NoTwoOfAPlate`, `WarnedOfTheRightLicence` (every update
writes number and date of a licence together, so the date on file is that of the
licence on file), `RevokedStays`, `SuspendedIsOut`. `PlainPlatesFound` is about
the two recursive functions on plates. The library's induction theorems take an
operator, which the provers cannot instantiate; `Induction` is stated for sets
of numbers instead and proved from the well-foundedness of `<` by the least
number that is missing, and `Recursion` builds with it the function whose
existence the definition by `CHOOSE` needs. Then: what is looked up has no blank
and no dash, a plate without blanks is registered as typed, one with either has
a dash when it is registered, so the two forms meet exactly where the plate was
typed plainly (`FormsMeet`).

**TokensProofs.** A handler past its update knows its token to be dead, and a
dead token is never selected again, so the requests that may still add a
successor only become fewer; a token with a logout that went through is dead:
`ExchangedForGood`, `BoundedSuccessors`,
`LoggedOutForGood`, `NoSessionLost`. `SessionsImplemented` is the refinement of
Sessions. It needs to know besides that a token has an owner from its insert on
and that a request on its way to a successor goes on for the owner of the token
it was given (`OwnersHold`); then every write but the insert leaves owners and
parents alone and takes at most one token out of the live ones
(`SameSessions`), and the insert is `Begin` or `Rotate`.

**OtpProofs.** Nothing is known of a code before it is issued, and Redis never
gets an old one back. `GuessesBounded`: a wrong guess is counted in the hash,
about to be counted by a request past the comparison, or lost by a failure, and
a comparison takes place only below the limit by a request that is none of
those. `UsesBounded`: sessions opened with a code and requests that may still
open one are together at most W, and while Redis holds the code none of them has
come further than deleting it. `CodesExpire`, `WindowsEnd`: without failures
whoever left a key without a time to live is about to run `EXPIRE`.

**ContactsProofs.** The contacts of a user are counted together with the
additions past the count: an insert moves one from the second to the first, and
a request passes the count only below the limit. `AdditionsBounded` follows;
`OwnersRemove` needs ids to be used once, so that what a delete removes is still
what its select found.

**AccountsProofs.** The party of a NIN are the accounts that have it and those a
request has let past the collision check with it. It grows only in that check,
when no account has the NIN: everyone in it then is the user of a request in
flight, so there are at most W of them (`UsersOfRequests`), and it never grows
again while one of them has the NIN: `NinsBounded`. For `DriversHaveRows`,
whoever has the role has the row or a request that is about to look for it and
to insert it (`RowsComing`). `EnteredNamesKept`: a verification writes back the
name it read at its beginning unless there was none, so one that has read what
is in the row leaves an entered name alone.

**Only model-checked.** Liveness (`StaleRideEnds`, `AlarmRecorded`) is beyond
the proof system. Every other property a passing run checks has a theorem.

## 6. Not modelled

* `history`, `listMine`, `me`, the government queries and health: they only
  read. `view_count` and `last_viewed_at` of a share: written, read by nothing.
* `cleanupExpiredOtps`: it deletes from a table nothing fills since codes live
  in Redis.
* The warnings of a lookup about a driver's rating and open flags: no code in
  the repository writes those columns, nor `ride_ratings` and `reports`.
* `verifyVehiclePlate` of the identity provider has no caller. The provider's
  own client (`dojah`) has a breaker of its own; lookups only read, so all it
  adds is delay and failure, which the models of its callers have.
* Stub mode of the providers (no API key): it answers at once, which is a
  special case.
* Signatures, hashing, validation, the shape of answers, the guard, filters and
  pipes, pools and wiring: stateless.
* Clock skew between processes. `fresh`, `expired` and times to live are
  whatever the comparison with the clock would say.

## 7. Plan

Next, most important first:

1. Sos with its contacts: emergency contacts added and removed while the fan-out
   runs, composed with Contacts.
2. LiveTracking: the snapshot `GET /rides/watch/:token` next to the socket, and
   several rides per rider.
3. An abstract specification for one-time codes, and its refinement.
