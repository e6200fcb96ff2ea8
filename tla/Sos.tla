-------------------------------- MODULE Sos --------------------------------
(***************************************************************************)
(* SosService (trigger, notifyRecipients, cancel, resolve) with            *)
(* AuthService.setSosPin / verifySosPin and the Redis key that serialises  *)
(* a user's triggers.  As in Rides a request is a worker that runs one     *)
(* awaited statement per step; notifyRecipients, which trigger starts      *)
(* without await, is a process of its own for each SOS event.              *)
(***************************************************************************)
EXTENDS Integers, FiniteSets

CONSTANTS
  Users,
  Contacts,   \* emergency contacts
  OwnerOf,    \* emergency_contacts.userId
  SosIds,     \* pool of fresh ids: newId() of sos_events
  Pins,       \* what users may set, and type, as a PIN
  Workers,    \* requests that may be in flight together
  Ops,        \* operations that happen in this instance, expiry among them
  MAX_CANCEL_ATTEMPTS,  \* 3 in the code
  MaxFaults,  \* bound on failed statements and crashes
  None

ASSUME OwnerOfAssumption == OwnerOf \in [Contacts -> Users]
ASSUME AttemptsAssumption == MAX_CANCEL_ATTEMPTS \in Nat \ {0}
ASSUME FaultsAssumption == MaxFaults \in Nat
ASSUME NoneAssumption == None \notin Users \cup SosIds \cup Pins

VARIABLES
  sos,      \* table sos_events
  fan,      \* notifyRecipients, for each event
  texted,   \* <<event, contact>>: SMS the provider accepted
  lock,     \* users whose key sos:trigger_lock:<user> exists
  slow,     \* users whose key ran out while a trigger of theirs ran (observed)
  pin,      \* users.sos_pin_hash
  guesses,  \* PINs compared for an event (observed, not stored by the code)
  log,      \* audit_events, as <<action, event>>
  req,      \* the requests in flight
  faults

vars == <<sos, fan, texted, lock, slow, pin, guesses, log, req, faults>>

Closed == {"false_alarm", "resolved"}
SosRow == [status : {"absent", "active"} \cup Closed, user : Users \cup {None},
           attempts : 0..MAX_CANCEL_ATTEMPTS, told : BOOLEAN,
           ok : SUBSET Contacts]
Fan == [pc : {"idle", "contacts", "sms", "done"}, people : SUBSET Contacts,
        todo : SUBSET Contacts, ok : SUBSET Contacts]
Request == [pc : {"idle", "existing", "insert", "pin", "wrong", "close",
                  "resolve"},
            user : Users \cup {None}, sos : SosIds \cup {None},
            tries : 0..(MAX_CANCEL_ATTEMPTS - 1)]
AuditActions == {"sos.triggered", "sos.recipients_notified",
                 "sos.cancel.wrong_pin", "sos.cancelled", "sos.resolved"}

NoSos == [status |-> "absent", user |-> None, attempts |-> 0, told |-> FALSE,
          ok |-> {}]
NoFan == [pc |-> "idle", people |-> {}, todo |-> {}, ok |-> {}]
Idle == [pc |-> "idle", user |-> None, sos |-> None, tries |-> 0]

Init ==
  /\ sos = [s \in SosIds |-> NoSos]
  /\ fan = [s \in SosIds |-> NoFan]
  /\ texted = {}
  /\ lock = {}
  /\ slow = {}
  /\ pin = [u \in Users |-> None]
  /\ guesses = [s \in SosIds |-> 0]
  /\ log = {}
  /\ req = [w \in Workers |-> Idle]
  /\ faults = 0

ActiveSos(u) == {s \in SosIds : sos[s].status = "active" /\ sos[s].user = u}
Triggering == {"existing", "insert"}

Accept(w, op, request) == op \in Ops /\ req[w].pc = "idle"
                          /\ req' = [req EXCEPT ![w] = request]
At(w, pc) == req[w].pc = pc
Goto(w, pc) == req' = [req EXCEPT ![w].pc = pc]
Done(w) == req' = [req EXCEPT ![w] = Idle]
\* AuditService.write does not wait for its insert.  Nothing here reads the
\* table, so it makes no difference when a row lands; that rows may be lost is
\* a matter of Rides, here the trail is only looked at without failures.
Audit(act, s) == log' = log \cup {<<act, s>>}

-----------------------------------------------------------------------------
(* trigger                                                                 *)

\* Mutant: SET without NX.
TriggerLockAlways(w, u) ==
  /\ lock' = lock \cup {u}
  /\ Accept(w, "trigger", [Idle EXCEPT !.pc = "existing", !.user = u])
  /\ UNCHANGED <<sos, fan, texted, slow, pin, guesses, log, faults>>

\* SET sos:trigger_lock:<user> NX EX 5; nothing ever deletes the key.
TriggerLock(w, u) ==
  /\ u \notin lock
  /\ lock' = lock \cup {u}
  /\ Accept(w, "trigger", [Idle EXCEPT !.pc = "existing", !.user = u])
  /\ UNCHANGED <<sos, fan, texted, slow, pin, guesses, log, faults>>

TriggerSelect(w) ==
  /\ At(w, "existing")
  /\ IF ActiveSos(req[w].user) = {} THEN Goto(w, "insert") ELSE Done(w)
  /\ UNCHANGED <<sos, fan, texted, lock, slow, pin, guesses, log, faults>>

TriggerInsert(w, s) ==
  /\ At(w, "insert")
  /\ sos[s].status = "absent"
  /\ sos' = [sos EXCEPT ![s] =
               [NoSos EXCEPT !.status = "active", !.user = req[w].user]]
  /\ fan' = [fan EXCEPT ![s].pc = "contacts"]
  /\ Audit("sos.triggered", s)
  /\ Done(w)
  /\ UNCHANGED <<texted, lock, slow, pin, guesses, faults>>

\* rideId is any string: the foreign key rejects one that is no ride.
TriggerInsertRejected(w) ==
  /\ At(w, "insert")
  /\ Done(w)
  /\ UNCHANGED <<sos, fan, texted, lock, slow, pin, guesses, log, faults>>

\* Nothing holds the key for longer than its 5 s, nor the trigger's statements
\* to less: a connection alone may be waited for that long (db.module.ts:23).
LockExpires(u) ==
  /\ "expiry" \in Ops
  /\ u \in lock
  /\ lock' = lock \ {u}
  /\ slow' = slow \cup {x \in {u} : \E w \in Workers :
                           req[w].user = u /\ req[w].pc \in Triggering}
  /\ UNCHANGED <<sos, fan, texted, pin, guesses, log, req, faults>>

-----------------------------------------------------------------------------
(* notifyRecipients                                                        *)

\* The user has whatever contacts exist when the query runs.
FanContacts(s, people) ==
  /\ fan[s].pc = "contacts"
  /\ \A c \in people : OwnerOf[c] = sos[s].user
  /\ fan' = [fan EXCEPT ![s] = [pc |-> "sms", people |-> people,
                                todo |-> people, ok |-> {}]]
  /\ UNCHANGED <<sos, texted, lock, slow, pin, guesses, log, req, faults>>

\* The provider accepts an SMS that went out, at any time after: once more, or
\* when nobody waits for its answer any longer.
SmsAccepted(s, c) ==
  /\ c \in fan[s].people
  /\ texted' = texted \cup {<<s, c>>}
  /\ UNCHANGED <<sos, fan, lock, slow, pin, guesses, log, req, faults>>

\* The SMS go out concurrently and sendSms never throws: whatever happened to a
\* request, its answer is a result, and only a message_id makes it ok.
SmsAnswered(s, c, ok) ==
  /\ fan[s].pc = "sms"
  /\ c \in fan[s].todo
  /\ ok => <<s, c>> \in texted
  /\ fan' = [fan EXCEPT ![s].todo = @ \ {c},
                        ![s].ok = IF ok THEN @ \cup {c} ELSE @]
  /\ UNCHANGED <<sos, texted, lock, slow, pin, guesses, log, req, faults>>

\* Mutant: the results are recorded without looking at ok.
FanWriteAllOk(s) ==
  /\ fan[s].pc = "sms" /\ fan[s].todo = {}
  /\ sos' = [sos EXCEPT ![s].told = TRUE, ![s].ok = fan[s].people]
  /\ fan' = [fan EXCEPT ![s].pc = "done"]
  /\ Audit("sos.recipients_notified", s)
  /\ UNCHANGED <<texted, lock, slow, pin, guesses, req, faults>>

\* Mutant: the whole row is written back, with the status of the trigger.
FanWriteWholeRow(s) ==
  /\ fan[s].pc = "sms" /\ fan[s].todo = {}
  /\ sos' = [sos EXCEPT ![s].told = TRUE, ![s].ok = fan[s].ok,
                        ![s].status = "active"]
  /\ fan' = [fan EXCEPT ![s].pc = "done"]
  /\ Audit("sos.recipients_notified", s)
  /\ UNCHANGED <<texted, lock, slow, pin, guesses, req, faults>>

\* Mutant: only an SOS that is still active gets its recipients recorded.
FanWriteIfActive(s) ==
  /\ fan[s].pc = "sms" /\ fan[s].todo = {} /\ sos[s].status = "active"
  /\ sos' = [sos EXCEPT ![s].told = TRUE, ![s].ok = fan[s].ok]
  /\ fan' = [fan EXCEPT ![s].pc = "done"]
  /\ Audit("sos.recipients_notified", s)
  /\ UNCHANGED <<texted, lock, slow, pin, guesses, req, faults>>

\* Promise.all waits for every SMS; the authorities are recorded as ok without
\* being contacted and are left out here.
FanWrite(s) ==
  /\ fan[s].pc = "sms" /\ fan[s].todo = {}
  /\ sos' = [sos EXCEPT ![s].told = TRUE, ![s].ok = fan[s].ok]
  /\ fan' = [fan EXCEPT ![s].pc = "done"]
  /\ Audit("sos.recipients_notified", s)
  /\ UNCHANGED <<texted, lock, slow, pin, guesses, req, faults>>

FanStep(s) ==
  \/ \E people \in SUBSET Contacts : FanContacts(s, people)
  \/ \E c \in Contacts, ok \in BOOLEAN : SmsAnswered(s, c, ok)
  \/ FanWrite(s)

-----------------------------------------------------------------------------
(* cancel                                                                  *)

CancelSelect(w, u, s) ==
  /\ sos[s].user = u
  /\ sos[s].status = "active"
  /\ sos[s].attempts < MAX_CANCEL_ATTEMPTS
  /\ Accept(w, "cancel", [pc |-> "pin", user |-> u, sos |-> s,
                          tries |-> sos[s].attempts])
  /\ UNCHANGED <<sos, fan, texted, lock, slow, pin, guesses, log, faults>>

\* verifySosPin: PIN_NOT_SET when there is no hash, else argon2 compares the PIN
\* of the request, g, with the hash just read.
CancelPin(w, g) ==
  /\ At(w, "pin")
  /\ IF pin[req[w].user] = None
     THEN Done(w) /\ UNCHANGED guesses
     ELSE /\ Goto(w, IF g = pin[req[w].user] THEN "close"
                                                        ELSE "wrong")
          /\ guesses' = [guesses EXCEPT ![req[w].sos] = @ + 1]
  /\ UNCHANGED <<sos, fan, texted, lock, slow, pin, log, faults>>

\* Mutant: a wrong PIN is refused without being counted.
CancelWrongUncounted(w) ==
  /\ At(w, "wrong")
  /\ Audit("sos.cancel.wrong_pin", req[w].sos)
  /\ Done(w)
  /\ UNCHANGED <<sos, fan, texted, lock, slow, pin, guesses, faults>>

\* The new count is computed from the row of the select.
CancelWrong(w) ==
  /\ At(w, "wrong")
  /\ sos' = [sos EXCEPT ![req[w].sos].attempts = req[w].tries + 1]
  /\ Audit("sos.cancel.wrong_pin", req[w].sos)
  /\ Done(w)
  /\ UNCHANGED <<fan, texted, lock, slow, pin, guesses, faults>>

CancelClose(w) ==
  /\ At(w, "close")
  /\ sos' = [sos EXCEPT ![req[w].sos].status = "false_alarm"]
  /\ Audit("sos.cancelled", req[w].sos)
  /\ Done(w)
  /\ UNCHANGED <<fan, texted, lock, slow, pin, guesses, faults>>

-----------------------------------------------------------------------------
(* resolve, setSosPin                                                      *)

ResolveSelect(w, u, s) ==
  /\ sos[s].user = u
  /\ sos[s].status \notin Closed
  /\ Accept(w, "resolve",
            [Idle EXCEPT !.pc = "resolve", !.user = u, !.sos = s])
  /\ UNCHANGED <<sos, fan, texted, lock, slow, pin, guesses, log, faults>>

\* Mutant: no audit row.
ResolveUpdateSilent(w) ==
  /\ At(w, "resolve")
  /\ sos' = [sos EXCEPT ![req[w].sos].status = "resolved"]
  /\ Done(w)
  /\ UNCHANGED <<fan, texted, lock, slow, pin, guesses, log, faults>>

ResolveUpdate(w) ==
  /\ At(w, "resolve")
  /\ sos' = [sos EXCEPT ![req[w].sos].status = "resolved"]
  /\ Audit("sos.resolved", req[w].sos)
  /\ Done(w)
  /\ UNCHANGED <<fan, texted, lock, slow, pin, guesses, faults>>

\* The hash is computed from the request and overwrites whatever is there.
SetSosPin(u, p) ==
  /\ "setPin" \in Ops
  /\ pin' = [pin EXCEPT ![u] = p]
  /\ UNCHANGED <<sos, fan, texted, lock, slow, guesses, log, req, faults>>

-----------------------------------------------------------------------------
(* Failures                                                                *)

Fail(w) ==
  /\ faults < MaxFaults
  /\ req[w].pc # "idle"
  /\ Done(w)
  /\ faults' = faults + 1
  /\ UNCHANGED <<sos, fan, texted, lock, slow, pin, guesses, log>>

\* What is left of a fan-out that stopped: the SMS that went out.
Stopped(f) == [f EXCEPT !.pc = "done", !.todo = {}, !.ok = {}]

\* "failure doesn't abort SOS": a statement of notifyRecipients fails, and the
\* exception is logged.
FailFan(s) ==
  /\ faults < MaxFaults
  /\ \/ fan[s].pc = "contacts"
     \/ fan[s].pc = "sms" /\ fan[s].todo = {}
  /\ fan' = [fan EXCEPT ![s] = Stopped(@)]
  /\ faults' = faults + 1
  /\ UNCHANGED <<sos, texted, lock, slow, pin, guesses, log, req>>

\* Postgres and Redis survive the process.
Crash ==
  /\ faults < MaxFaults
  /\ req' = [w \in Workers |-> Idle]
  /\ fan' = [s \in SosIds |-> IF fan[s].pc \in {"contacts", "sms"}
                              THEN Stopped(fan[s]) ELSE fan[s]]
  /\ faults' = faults + 1
  /\ UNCHANGED <<sos, texted, lock, slow, pin, guesses, log>>

-----------------------------------------------------------------------------
Arrive(w) ==
  \E u \in Users :
    \/ TriggerLock(w, u)
    \/ \E s \in SosIds : CancelSelect(w, u, s) \/ ResolveSelect(w, u, s)

Proceed(w) ==
  \/ TriggerSelect(w)
  \/ \E s \in SosIds : TriggerInsert(w, s)
  \/ TriggerInsertRejected(w)
  \/ \E g \in Pins : CancelPin(w, g)
  \/ CancelWrong(w) \/ CancelClose(w)
  \/ ResolveUpdate(w)

Environment ==
  \/ \E u \in Users : LockExpires(u) \/ \E p \in Pins : SetSosPin(u, p)
  \/ \E w \in Workers : Fail(w)
  \/ \E s \in SosIds : FailFan(s)
  \/ Crash

Next == \/ \E w \in Workers : Arrive(w) \/ Proceed(w)
        \/ \E s \in SosIds : \/ FanStep(s)
                             \/ \E c \in Contacts : SmsAccepted(s, c)
        \/ Environment

Spec == Init /\ [][Next]_vars

-----------------------------------------------------------------------------
(* Properties.                                                             *)

\* The rows of sos_events and the locals of the handlers stay in their types;
\* cancel_attempts never passes MAX_CANCEL_ATTEMPTS, however many cancels race.
TypeOK ==
  /\ sos \in [SosIds -> SosRow]
  /\ fan \in [SosIds -> Fan]
  /\ texted \subseteq SosIds \X Contacts
  /\ lock \subseteq Users /\ slow \subseteq Users
  /\ pin \in [Users -> Pins \cup {None}]
  /\ guesses \in [SosIds -> Nat]
  /\ log \subseteq AuditActions \X SosIds
  /\ req \in [Workers -> Request]
  /\ faults \in 0..MaxFaults

\* What the request q learned in its first statements: cancel and resolve act
\* on an SOS of their caller, and the attempts cancel counts from were made.
RequestHolds(q) ==
  /\ q.pc \in Triggering => q.user \in Users
  /\ q.pc \in {"pin", "wrong", "close", "resolve"} =>
       /\ q.user \in Users
       /\ q.sos \in SosIds
       /\ sos[q.sos].status # "absent"
       /\ sos[q.sos].user = q.user
  /\ q.pc = "pin" => q.tries <= guesses[q.sos]
  /\ q.pc = "wrong" => q.tries < guesses[q.sos]

\* While a trigger runs it alone runs for its user, the key is there, and once
\* past the select the user has no active SOS.
LockHolds(u) ==
  /\ \A w \in Workers :
       (req[w].pc \in Triggering /\ req[w].user = u) => u \in lock
  /\ \A w, x \in Workers :
       (/\ req[w].pc \in Triggering /\ req[x].pc \in Triggering
        /\ req[w].user = u /\ req[x].user = u) => w = x
  /\ \A w \in Workers :
       (req[w].pc = "insert" /\ req[w].user = u) => ActiveSos(u) = {}

\* Requests are not misled by what others do between their statements, and
\* neither are triggers, as long as none of their user outlived its key.
LocalsHold ==
  /\ \A w \in Workers : RequestHolds(req[w])
  /\ \A s \in SosIds : sos[s].status = "absent" => sos[s].user = None
  /\ \A u \in Users \ slow : LockHolds(u)

\* What the key makes of "No stacking: cancel any active first"
\* (sos.service.ts:61), although nothing is cancelled: a user none of whose
\* triggers outlived its key has at most one active SOS.  Once one did, others
\* get in behind it, and there are at most as many as requests in flight.
StackBounded ==
  \A u \in Users :
    Cardinality(ActiveSos(u)) <= IF u \in slow THEN Cardinality(Workers) ELSE 1

\* A contact that notified lists as ok is one of the user's own, and the
\* provider did accept the SMS for it: results and contacts are not mixed up.
OkMeansTexted ==
  \A s \in SosIds : \A c \in sos[s].ok :
    <<s, c>> \in texted /\ OwnerOf[c] = sos[s].user

\* cancel_attempts never runs ahead of the PINs that were compared: nobody is
\* told "Too many wrong PIN attempts" before three PINs were.
AttemptsWereMade == \A s \in SosIds : sos[s].attempts <= guesses[s]

\* What two cancels in flight make of the limit: the slower one selects n
\* attempts, the others use up the limit, and its update sets the count back to
\* n + 1, for n = 0, 1 and so on: (3 + 1) + (2 + 1) + (1 + 1) for a limit of 3.
Stretched == ((MAX_CANCEL_ATTEMPTS + 1) * (MAX_CANCEL_ATTEMPTS + 2)) \div 2 - 1

\* "PIN-guarded. Max 3 attempts." (README.md:195): one request at a time, and
\* without failures, no more PINs are compared for an SOS than that; two requests
\* that overlap stretch the limit, from three to nine PINs, and no further.
PinsBounded ==
  (faults = 0 /\ Cardinality(Workers) <= 2) =>
    \A s \in SosIds :
      guesses[s] <= IF Cardinality(Workers) = 1 THEN MAX_CANCEL_ATTEMPTS
                                                ELSE Stretched

Quiet == /\ \A w \in Workers : req[w].pc = "idle"
         /\ \A s \in SosIds : fan[s].pc \in {"idle", "done"}
Logged(act) == {s \in SosIds : <<act, s>> \in log}

\* Without failures the audit trail tells, once nothing is in flight, which SOS
\* were raised, which recipients were recorded and which SOS were closed.
AuditComplete ==
  (faults = 0 /\ Quiet) =>
    /\ Logged("sos.triggered") = {s \in SosIds : sos[s].status # "absent"}
    /\ Logged("sos.recipients_notified") = {s \in SosIds : sos[s].told}
    /\ Logged("sos.cancelled") \cup Logged("sos.resolved")
         = {s \in SosIds : sos[s].status \in Closed}

\* "fire-and-forget; failure doesn't abort SOS" (sos.service.ts:103): every SOS
\* gets its recipients notified and recorded, also when the user closes it in
\* the meantime, unless a failure or a crash takes its fan-out, which nothing
\* resumes.  (What is told stays told: always again told or lost is soon told or
\* lost.)
AlarmRecorded ==
  \A s \in SosIds :
    []<>(\/ sos[s].status = "absent" \/ sos[s].told
         \/ faults > 0 /\ fan[s].pc = "done")

\* Seen from outside, SOS events are alarms.
Alarm == INSTANCE SosAlarm WITH
  current <- [u \in Users |-> ActiveSos(u)],
  past <- {s \in SosIds : sos[s].status \in Closed}

\* Triggers, cancels and resolves, however they interleave and wherever they
\* fail, raise and call off alarms, each of them once and for good.
ImplementsAlarm == Alarm!Spec

=============================================================================
