----------------------------- MODULE SosProofs -----------------------------
(***************************************************************************)
(* What holds of SosService for any number of users, requests and events,  *)
(* and any number of failures and crashes; and that SOS events implement   *)
(* SosAlarm.                                                               *)
(*                                                                         *)
(* That a user has one active SOS rests on the key: while a trigger runs,  *)
(* no other runs for its user, so the user's active SOS cannot come from   *)
(* anybody else between its select and its insert.  LocalsHold says so, of *)
(* users none of whose triggers outlived its key.  Of the others there is  *)
(* one for each request in flight at most.                                 *)
(*                                                                         *)
(* The PINs compared for an event are counted at the end: with two cancels *)
(* in flight each may set the count of the row back to what it selected.   *)
(*                                                                         *)
(* The second half is about texts.  First a resilient client, for any      *)
(* number of calls, retries and buckets of statistics; then the fan-out    *)
(* over its shared client, for any number of events, contacts and texts:   *)
(* it implements Sos, failed texts do not refuse the others of their       *)
(* event, and the breaker is never stuck.  SentFor relates the two state   *)
(* machines: a text on its way belongs to a contact the fan-out selected,  *)
(* and what the client calls done the provider has accepted.               *)
(***************************************************************************)
EXTENDS SosTexts, FiniteSetTheorems, TLAPS

OneActive(u) == \A s, t \in ActiveSos(u) : s = t

\* The inductive invariant.
IInv == /\ TypeOK /\ LocalsHold /\ AttemptsWereMade
        /\ \A u \in Users \ slow : OneActive(u)

\* What a request relies on: an event stays its user's, PINs that were compared
\* stay compared.
Keeps ==
  /\ \A s \in SosIds :
       sos[s].status # "absent" => /\ sos'[s].status # "absent"
                                   /\ sos'[s].user = sos[s].user
  /\ \A s \in SosIds : guesses'[s] >= guesses[s]

\* No trigger moves, none loses its key unnoticed, and no event becomes active.
Calm ==
  /\ \A w \in Workers : req'[w].pc \in Triggering => req'[w] = req[w]
  /\ \A s \in SosIds : sos'[s].status = "active"
                         => /\ sos[s].status = "active"
                            /\ sos'[s].user = sos[s].user
  /\ \A s \in SosIds : sos'[s].status = "absent"
                         => /\ sos[s].status = "absent"
                            /\ sos'[s].user = sos[s].user
  /\ slow \subseteq slow'
  /\ \A w \in Workers :
       (req'[w].pc \in Triggering /\ req'[w].user \in lock)
         => req'[w].user \in lock' \cup slow'

-----------------------------------------------------------------------------
(* Lemmas on requests.                                                     *)

\* None is no user and no event.
LEMMA NoneIsNothing ==
  None \notin Users /\ None \notin SosIds /\ None \notin Pins
BY NoneAssumption

\* A worker without a request remembers nothing.
LEMMA IdleHolds ==
  Idle \in Request /\ RequestHolds(Idle) /\ RequestHolds(Idle)'
BY AttemptsAssumption
   DEF Idle, Request, RequestHolds, Triggering

\* What a request relies on is not disturbed by the steps of others.
LEMMA RequestKept ==
  ASSUME TypeOK, TypeOK', Keeps, NEW q \in Request, RequestHolds(q)
  PROVE  RequestHolds(q)'
<1>1. /\ q.tries \in Int
      /\ \A s \in SosIds : guesses[s] \in Int /\ guesses'[s] \in Int
      BY AttemptsAssumption DEF TypeOK, Request
<1>2. \A s \in SosIds : guesses'[s] >= guesses[s]
      BY DEF Keeps
<1>3. q.pc = "pin" => q.tries <= guesses'[q.sos]
      BY <1>1, <1>2 DEF RequestHolds
<1>4. q.pc = "wrong" => q.tries < guesses'[q.sos]
      BY <1>1, <1>2 DEF RequestHolds
<1>. QED BY <1>3, <1>4 DEF Keeps, RequestHolds

\* Steps that leave the requests alone.
LEMMA OthersKept ==
  ASSUME TypeOK, TypeOK', Keeps, \A x \in Workers : RequestHolds(req[x]),
         req' = req
  PROVE  \A x \in Workers : RequestHolds(req[x])'
<1>. TAKE x \in Workers
<1>1. PICK q \in Request : q = req[x]
      BY DEF TypeOK
<1>2. RequestHolds(q)'
      BY <1>1, RequestKept
<1>. QED BY <1>1, <1>2 DEF RequestHolds

\* Steps of worker w.
LEMMA WorkerKept ==
  ASSUME TypeOK, TypeOK', Keeps, \A x \in Workers : RequestHolds(req[x]),
         NEW w \in Workers, NEW p \in Request, RequestHolds(p)',
         req' = [req EXCEPT ![w] = p]
  PROVE  \A x \in Workers : RequestHolds(req[x])'
<1>. TAKE x \in Workers
<1>1. CASE x = w
  <2>1. req'[x] = p
        BY <1>1 DEF TypeOK
  <2>. QED BY <2>1 DEF RequestHolds
<1>2. CASE x # w
  <2>1. PICK q \in Request : q = req[x]
        BY DEF TypeOK
  <2>2. RequestHolds(q)'
        BY <2>1, RequestKept
  <2>3. req'[x] = q
        BY <1>2, <2>1 DEF TypeOK
  <2>. QED BY <2>2, <2>3 DEF RequestHolds
<1>. QED BY <1>1, <1>2

\* A calm step disturbs no trigger and stacks no events.
LEMMA CalmKeeps ==
  ASSUME IInv, Calm, NEW u \in Users \ slow'
  PROVE  LockHolds(u)' /\ OneActive(u)'
<1>1. LockHolds(u) /\ OneActive(u)
      BY DEF Calm, IInv, LocalsHold
<1>2. ActiveSos(u)' \subseteq ActiveSos(u)
      BY DEF Calm, ActiveSos
<1>3. \A w \in Workers : req'[w].pc \in Triggering => req'[w] = req[w]
      BY DEF Calm
<1>4. \A w \in Workers :
        (req'[w].pc \in Triggering /\ req'[w].user = u) => u \in lock'
      BY <1>1, <1>3 DEF Calm, LockHolds
<1>5. \A w \in Workers :
        (req'[w].pc = "insert" /\ req'[w].user = u) => ActiveSos(u)' = {}
      BY <1>1, <1>2, <1>3 DEF LockHolds, Triggering
<1>6. LockHolds(u)'
      BY <1>1, <1>3, <1>4, <1>5 DEF LockHolds
<1>7. OneActive(u)'
      BY <1>1, <1>2 DEF OneActive
<1>. QED BY <1>6, <1>7

-----------------------------------------------------------------------------
(* trigger: each statement preserves the invariant.                        *)

\* The key is taken: no other trigger of this user runs, or it would hold it.
LEMMA TriggerLockStep ==
  ASSUME IInv, NEW w \in Workers, NEW u \in Users, TriggerLock(w, u)
  PROVE  IInv'
<1>. USE DEF IInv
<1>1. PICK q \in Request : q = [Idle EXCEPT !.pc = "existing", !.user = u]
      BY IdleHolds DEF Idle, Request
<1>2. /\ u \notin lock /\ lock' = lock \cup {u}
      /\ req' = [req EXCEPT ![w] = q] /\ req[w].pc = "idle"
      /\ UNCHANGED <<sos, fan, texted, slow, pin, guesses, log, faults>>
      BY <1>1 DEF TriggerLock, Accept
<1>3. q.pc = "existing" /\ q.user = u
      BY <1>1 DEF Idle
<1>4. TypeOK'
  <2>1. req' \in [Workers -> Request]
        BY <1>2 DEF TypeOK
  <2>. QED BY <1>2, <2>1 DEF TypeOK
<1>5. Keeps
      BY <1>2 DEF Keeps, TypeOK
<1>6. RequestHolds(q)'
      BY <1>3 DEF RequestHolds, Triggering
<1>7. \A x \in Workers : RequestHolds(req[x])'
      BY <1>2, <1>4, <1>5, <1>6, WorkerKept DEF LocalsHold
<1>8. AttemptsWereMade'
      BY <1>2 DEF AttemptsWereMade
<1>9. ASSUME NEW v \in Users \ slow' PROVE LockHolds(v)' /\ OneActive(v)'
  <2>1. \A x \in Workers : IF x = w THEN req'[x] = q ELSE req'[x] = req[x]
        BY <1>2 DEF TypeOK
  <2>2. LockHolds(v) /\ OneActive(v)
        BY <1>2, <1>9 DEF LocalsHold
  <2>3. ActiveSos(v)' = ActiveSos(v)
        BY <1>2 DEF ActiveSos
  <2>4. \A x \in Workers :
          (req'[x].pc \in Triggering /\ req'[x].user = v) => v \in lock'
        BY <1>2, <1>3, <2>1, <2>2 DEF LockHolds
  <2>5. \A x, y \in Workers :
          (/\ req'[x].pc \in Triggering /\ req'[y].pc \in Triggering
           /\ req'[x].user = v /\ req'[y].user = v) => x = y
        BY <1>2, <1>3, <2>1, <2>2 DEF LockHolds
  <2>6. \A x \in Workers :
          (req'[x].pc = "insert" /\ req'[x].user = v) => ActiveSos(v)' = {}
        BY <1>3, <2>1, <2>2, <2>3 DEF LockHolds
  <2>7. OneActive(v)'
        BY <2>2, <2>3 DEF OneActive
  <2>. QED BY <2>4, <2>5, <2>6, <2>7 DEF LockHolds
<1>10. \A s \in SosIds : sos'[s].status = "absent" => sos'[s].user = None
      BY <1>2 DEF LocalsHold
<1>. QED BY <1>4, <1>7, <1>8, <1>9, <1>10 DEF LocalsHold

\* The select finds no active SOS, and nobody else can raise one meanwhile.
LEMMA TriggerSelectStep ==
  ASSUME IInv, NEW w \in Workers, TriggerSelect(w)
  PROVE  IInv'
<1>. USE DEF IInv
<1>1. req[w] \in Request /\ RequestHolds(req[w]) /\ req[w].pc = "existing"
      BY DEF TypeOK, LocalsHold, TriggerSelect, At
<1>2. PICK q \in Request :
        /\ req' = [req EXCEPT ![w] = q]
        /\ \/ q = Idle
           \/ /\ ActiveSos(req[w].user) = {}
              /\ q.pc = "insert" /\ q.user = req[w].user
  <2>1. CASE ActiveSos(req[w].user) = {}
    <3>1. [req[w] EXCEPT !.pc = "insert"] \in Request
          BY <1>1 DEF Request
    <3>2. /\ [req[w] EXCEPT !.pc = "insert"].pc = "insert"
          /\ [req[w] EXCEPT !.pc = "insert"].user = req[w].user
          BY <1>1 DEF Request
    <3>. QED BY <2>1, <3>1, <3>2 DEF TriggerSelect, Goto
  <2>2. CASE ActiveSos(req[w].user) # {}
        BY <2>2, IdleHolds DEF TriggerSelect, Done
  <2>. QED BY <2>1, <2>2
<1>3. UNCHANGED <<sos, fan, texted, lock, slow, pin, guesses, log, faults>>
      BY DEF TriggerSelect
<1>4. TypeOK'
  <2>1. req' \in [Workers -> Request]
        BY <1>2 DEF TypeOK
  <2>. QED BY <1>3, <2>1 DEF TypeOK
<1>5. Keeps
      BY <1>3 DEF Keeps, TypeOK
<1>6. RequestHolds(q)'
      BY <1>1, <1>2 DEF RequestHolds, Triggering, Idle
<1>7. \A x \in Workers : RequestHolds(req[x])'
      BY <1>2, <1>4, <1>5, <1>6, WorkerKept DEF LocalsHold
<1>8. AttemptsWereMade'
      BY <1>3 DEF AttemptsWereMade
<1>9. ASSUME NEW v \in Users \ slow' PROVE LockHolds(v)' /\ OneActive(v)'
  <2>1. \A x \in Workers : IF x = w THEN req'[x] = q ELSE req'[x] = req[x]
        BY <1>2 DEF TypeOK
  <2>2. LockHolds(v) /\ OneActive(v)
        BY <1>3, <1>9 DEF LocalsHold
  <2>3. ActiveSos(v)' = ActiveSos(v)
        BY <1>3 DEF ActiveSos
  <2>4. \A x \in Workers : req'[x].pc \in Triggering =>
          /\ req[x].pc \in Triggering
          /\ req'[x].user = req[x].user
        BY <1>1, <1>2, <2>1 DEF Triggering, Idle
  <2>5. \A x \in Workers :
          (req'[x].pc = "insert" /\ req'[x].user = v) => ActiveSos(v)' = {}
        BY <1>2, <2>1, <2>2, <2>3 DEF LockHolds, Idle
  <2>6. OneActive(v)'
        BY <2>2, <2>3 DEF OneActive
  <2>. QED BY <1>3, <2>2, <2>4, <2>5, <2>6 DEF LockHolds
<1>10. \A s \in SosIds : sos'[s].status = "absent" => sos'[s].user = None
      BY <1>3 DEF LocalsHold
<1>. QED BY <1>4, <1>7, <1>8, <1>9, <1>10 DEF LocalsHold

\* The insert raises the user's only SOS, unless a trigger outlived its key.
LEMMA TriggerInsertStep ==
  ASSUME IInv, NEW w \in Workers, NEW s \in SosIds, TriggerInsert(w, s)
  PROVE  IInv'
<1>. USE NoneIsNothing DEF IInv
<1>1. /\ req[w] \in Request /\ req[w].pc = "insert" /\ req[w].user \in Users
      BY DEF TypeOK, LocalsHold, RequestHolds, TriggerInsert, At, Triggering
<1>2. PICK row \in SosRow :
        row = [NoSos EXCEPT !.status = "active", !.user = req[w].user]
  <2>1. NoSos \in SosRow
        BY AttemptsAssumption DEF NoSos, SosRow
  <2>2. [NoSos EXCEPT !.status = "active", !.user = req[w].user] \in SosRow
        BY <1>1, <2>1 DEF SosRow
  <2>. QED BY <2>2
<1>3. row.status = "active" /\ row.user = req[w].user /\ row.attempts = 0
      BY <1>2 DEF NoSos
<1>4. /\ sos[s].status = "absent"
      /\ sos' = [sos EXCEPT ![s] = row]
      /\ fan' = [fan EXCEPT ![s].pc = "contacts"]
      /\ log' = log \cup {<<"sos.triggered", s>>}
      /\ req' = [req EXCEPT ![w] = Idle]
      /\ UNCHANGED <<texted, lock, slow, pin, guesses, faults>>
      BY <1>2 DEF TriggerInsert, Audit, Done
<1>5. TypeOK'
  <2>1. sos' \in [SosIds -> SosRow]
        BY <1>4 DEF TypeOK
  <2>2. fan' \in [SosIds -> Fan]
        BY <1>4 DEF TypeOK, Fan
  <2>3. req' \in [Workers -> Request]
        BY <1>4, IdleHolds DEF TypeOK
  <2>4. log' \subseteq AuditActions \X SosIds
        BY <1>4 DEF TypeOK, AuditActions
  <2>. QED BY <1>4, <2>1, <2>2, <2>3, <2>4 DEF TypeOK
<1>6. Keeps
      BY <1>4 DEF Keeps, TypeOK
<1>7. \A x \in Workers : RequestHolds(req[x])'
      BY <1>4, <1>5, <1>6, IdleHolds, WorkerKept DEF LocalsHold
<1>8. AttemptsWereMade'
      BY <1>3, <1>4 DEF AttemptsWereMade, TypeOK
<1>9. ASSUME NEW v \in Users \ slow' PROVE LockHolds(v)' /\ OneActive(v)'
  <2>1. LockHolds(v) /\ OneActive(v)
        BY <1>4, <1>9 DEF LocalsHold
  <2>2. \A t \in SosIds : t # s => sos'[t] = sos[t]
        BY <1>4 DEF TypeOK
  <2>3. sos'[s].user = req[w].user
        BY <1>3, <1>4 DEF TypeOK
  <2>4. \A x \in Workers : req'[x].pc \in Triggering =>
          x # w /\ req'[x] = req[x]
        BY <1>4 DEF TypeOK, Idle, Triggering
  <2>5. CASE req[w].user = v
    <3>1. ActiveSos(v) = {}
          BY <1>1, <2>1, <2>5 DEF LockHolds
    <3>2. ActiveSos(v)' \subseteq {s}
          BY <2>2, <3>1 DEF ActiveSos
    <3>3. \A x \in Workers :
            req'[x].pc \in Triggering => req'[x].user # v
          BY <1>1, <2>1, <2>4, <2>5 DEF LockHolds, Triggering
    <3>4. LockHolds(v)'
          BY <3>3 DEF LockHolds, Triggering
    <3>. QED BY <3>2, <3>4 DEF OneActive
  <2>6. CASE req[w].user # v
    <3>1. ActiveSos(v)' \subseteq ActiveSos(v)
          BY <2>2, <2>3, <2>6 DEF ActiveSos
    <3>2. OneActive(v)'
          BY <2>1, <3>1 DEF OneActive
    <3>3. \A x \in Workers :
            (req'[x].pc = "insert" /\ req'[x].user = v) => ActiveSos(v)' = {}
          BY <2>1, <2>4, <3>1 DEF LockHolds, Triggering
    <3>4. LockHolds(v)'
          BY <1>4, <2>1, <2>4, <3>3 DEF LockHolds
    <3>. QED BY <3>2, <3>4
  <2>. QED BY <2>5, <2>6
<1>10. \A t \in SosIds : sos'[t].status = "absent" => sos'[t].user = None
      BY <1>3, <1>4 DEF TypeOK, LocalsHold
<1>. QED BY <1>5, <1>7, <1>8, <1>9, <1>10 DEF LocalsHold

-----------------------------------------------------------------------------
(* The other steps are calm.                                               *)

\* A calm step keeps the invariant when it keeps types and attempts.
LEMMA CalmStep ==
  ASSUME IInv, TypeOK', Keeps, Calm, AttemptsWereMade',
         \A x \in Workers : RequestHolds(req[x])'
  PROVE  IInv'
<1>1. \A s \in SosIds : sos'[s].status = "absent" => sos'[s].user = None
      BY DEF Calm, IInv, LocalsHold
<1>. QED BY <1>1, CalmKeeps DEF IInv, LocalsHold

\* A request that begins or goes on without writing an event.
LEMMA MoveOn ==
  ASSUME IInv, NEW w \in Workers, NEW q \in Request,
         q.pc \notin Triggering, RequestHolds(q)',
         req' = [req EXCEPT ![w] = q],
         guesses' \in [SosIds -> Nat],
         \A s \in SosIds : guesses'[s] >= guesses[s],
         faults' \in 0..MaxFaults,
         UNCHANGED <<sos, fan, texted, lock, slow, pin, log>>
  PROVE  IInv'
<1>. USE DEF IInv
<1>1. req' \in [Workers -> Request]
      BY DEF TypeOK
<1>2. TypeOK'
      BY <1>1 DEF TypeOK
<1>3. Keeps
      BY DEF Keeps
<1>4. Calm
      BY DEF Calm, TypeOK
<1>5. \A x \in Workers : RequestHolds(req[x])'
      BY <1>2, <1>3, WorkerKept DEF LocalsHold
<1>6. AttemptsWereMade'
  <2>1. \A s \in SosIds : /\ sos[s].attempts \in Int
                          /\ guesses[s] \in Int /\ guesses'[s] \in Int
        BY AttemptsAssumption DEF TypeOK, SosRow
  <2>. QED BY <2>1 DEF AttemptsWereMade
<1>. QED BY <1>2, <1>3, <1>4, <1>5, <1>6, CalmStep

\* The first statements of cancel and resolve, the PIN comparison, an insert
\* the foreign key rejects and a statement that fails.
LEMMA ReadStep ==
  ASSUME IInv, NEW w \in Workers,
         \/ \E u \in Users, s \in SosIds : CancelSelect(w, u, s)
         \/ \E u \in Users, s \in SosIds : ResolveSelect(w, u, s)
         \/ \E g \in Pins : CancelPin(w, g)
         \/ TriggerInsertRejected(w) \/ Fail(w)
  PROVE  IInv'
<1>t. /\ req[w] \in Request /\ RequestHolds(req[w])
      /\ guesses \in [SosIds -> Nat]
      /\ faults \in 0..MaxFaults /\ MaxFaults \in Nat
      BY FaultsAssumption DEF IInv, TypeOK, LocalsHold
<1>i. Idle.pc \notin Triggering
      BY DEF Idle, Triggering
<1>1. ASSUME NEW u \in Users, NEW s \in SosIds, CancelSelect(w, u, s)
      PROVE  IInv'
  <2>1. /\ sos[s].user = u /\ sos[s].status = "active"
        /\ sos[s].attempts \in 0..(MAX_CANCEL_ATTEMPTS - 1)
        /\ sos[s].attempts <= guesses[s]
        BY <1>1, AttemptsAssumption
           DEF CancelSelect, IInv, TypeOK, SosRow, AttemptsWereMade
  <2>2. PICK q \in Request :
          q = [pc |-> "pin", user |-> u, sos |-> s, tries |-> sos[s].attempts]
        BY <2>1 DEF Request
  <2>3. /\ req' = [req EXCEPT ![w] = q]
        /\ UNCHANGED <<sos, fan, texted, lock, slow, pin, guesses, log,
                       faults>>
        BY <1>1, <2>2 DEF CancelSelect, Accept
  <2>4. RequestHolds(q)' /\ q.pc \notin Triggering
        BY <2>1, <2>2, <2>3 DEF RequestHolds, Triggering
  <2>5. \A t \in SosIds : guesses'[t] >= guesses[t]
        BY <1>t, <2>3
  <2>. QED BY <1>t, <2>3, <2>4, <2>5, MoveOn
<1>2. ASSUME NEW u \in Users, NEW s \in SosIds, ResolveSelect(w, u, s)
      PROVE  IInv'
  <2>1. sos[s].user = u /\ sos[s].status # "absent"
    <3>1. sos[s].user = u
          BY <1>2 DEF ResolveSelect
    <3>. QED BY <3>1, NoneIsNothing DEF IInv, LocalsHold
  <2>2. PICK q \in Request :
          q = [Idle EXCEPT !.pc = "resolve", !.user = u, !.sos = s]
        BY IdleHolds DEF Request, Idle
  <2>3. /\ req' = [req EXCEPT ![w] = q]
        /\ UNCHANGED <<sos, fan, texted, lock, slow, pin, guesses, log,
                       faults>>
        BY <1>2, <2>2 DEF ResolveSelect, Accept
  <2>4. RequestHolds(q)' /\ q.pc \notin Triggering
        BY <2>1, <2>2, <2>3 DEF RequestHolds, Triggering, Idle
  <2>5. \A t \in SosIds : guesses'[t] >= guesses[t]
        BY <1>t, <2>3
  <2>. QED BY <1>t, <2>3, <2>4, <2>5, MoveOn
<1>3. ASSUME NEW g \in Pins, CancelPin(w, g)
      PROVE  IInv'
  <2>. DEFINE s == req[w].sos
  <2>1. /\ req[w].pc = "pin" /\ s \in SosIds /\ req[w].user \in Users
        /\ sos[s].status # "absent" /\ sos[s].user = req[w].user
        /\ req[w].tries <= guesses[s]
        /\ req[w].tries \in Nat
        BY <1>3, <1>t DEF CancelPin, At, RequestHolds, Request
  <2>2. UNCHANGED <<sos, fan, texted, lock, slow, pin, log, faults>>
        BY <1>3 DEF CancelPin
  <2>3. CASE pin[req[w].user] = None
    <3>1. req' = [req EXCEPT ![w] = Idle] /\ guesses' = guesses
          BY <1>3, <2>3 DEF CancelPin, Done
    <3>2. \A t \in SosIds : guesses'[t] >= guesses[t]
          BY <1>t, <3>1
    <3>. QED BY <1>t, <1>i, <2>2, <3>1, <3>2, IdleHolds, MoveOn
  <2>4. CASE pin[req[w].user] # None
    <3>1. PICK pc \in {"close", "wrong"} :
            /\ req' = [req EXCEPT ![w].pc = pc]
            /\ guesses' = [guesses EXCEPT ![s] = @ + 1]
          BY <1>3, <2>4 DEF CancelPin, Goto
    <3>2. PICK q \in Request : q = [req[w] EXCEPT !.pc = pc]
          BY <1>t DEF Request
    <3>3. req' = [req EXCEPT ![w] = q]
          BY <3>1, <3>2
    <3>4. /\ q.pc = pc /\ q.user = req[w].user /\ q.sos = s
          /\ q.tries = req[w].tries
          BY <1>t, <3>2 DEF Request
    <3>5. /\ guesses' \in [SosIds -> Nat]
          /\ \A t \in SosIds : guesses'[t] >= guesses[t]
          /\ guesses'[s] = guesses[s] + 1
          BY <1>t, <2>1, <3>1
    <3>6. q.tries < guesses'[q.sos]
      <4>1. guesses[s] \in Nat /\ guesses'[q.sos] = guesses[s] + 1
            BY <1>t, <2>1, <3>1, <3>4
      <4>. QED BY <2>1, <3>4, <4>1
    <3>7. RequestHolds(q)' /\ q.pc \notin Triggering
          BY <2>1, <2>2, <3>1, <3>4, <3>6 DEF RequestHolds, Triggering
    <3>. QED BY <1>t, <2>2, <3>3, <3>5, <3>7, MoveOn
  <2>. QED BY <2>3, <2>4
<1>4. CASE TriggerInsertRejected(w) \/ Fail(w)
  <2>1. /\ req' = [req EXCEPT ![w] = Idle]
        /\ UNCHANGED <<sos, fan, texted, lock, slow, pin, guesses, log>>
        BY <1>4 DEF TriggerInsertRejected, Fail, Done
  <2>2. faults' \in 0..MaxFaults
        BY <1>4, <1>t DEF TriggerInsertRejected, Fail
  <2>3. \A t \in SosIds : guesses'[t] >= guesses[t]
        BY <1>t, <2>1
  <2>. QED BY <1>t, <1>i, <2>1, <2>2, <2>3, IdleHolds, MoveOn
<1>. QED BY <1>1, <1>2, <1>3, <1>4

\* The statements of cancel and resolve that write the event.
LEMMA CloseStep ==
  ASSUME IInv, NEW w \in Workers,
         CancelWrong(w) \/ CancelClose(w) \/ ResolveUpdate(w)
  PROVE  IInv'
<1>. USE DEF IInv
<1>. DEFINE e == req[w].sos
<1>1. /\ req[w] \in Request /\ e \in SosIds
      /\ sos[e] \in SosRow /\ sos[e].status # "absent"
      /\ req[w].tries + 1 \in 0..MAX_CANCEL_ATTEMPTS
      /\ req[w].pc = "wrong" => req[w].tries + 1 <= guesses[e]
  <2>1. /\ req[w] \in Request /\ e \in SosIds
        /\ sos[e] \in SosRow /\ sos[e].status # "absent"
        /\ req[w].pc = "wrong" => req[w].tries < guesses[e]
        BY DEF TypeOK, LocalsHold, RequestHolds, CancelWrong, CancelClose,
               ResolveUpdate, At
  <2>2. /\ req[w].tries \in Int /\ guesses[e] \in Int
        /\ req[w].tries + 1 \in 0..MAX_CANCEL_ATTEMPTS
        BY <2>1, AttemptsAssumption DEF TypeOK, Request
  <2>. QED BY <2>1, <2>2
<1>2. PICK row \in SosRow, act \in AuditActions :
        /\ sos' = [sos EXCEPT ![e] = row]
        /\ log' = log \cup {<<act, e>>}
        /\ row.user = sos[e].user /\ row.status # "absent"
        /\ row.status \in Closed \cup {sos[e].status}
        /\ row.attempts <= guesses[e]
  <2>1. CASE CancelWrong(w)
    <3>1. [sos[e] EXCEPT !.attempts = req[w].tries + 1] \in SosRow
          BY <1>1 DEF SosRow
    <3>2. PICK row \in SosRow :
            row = [sos[e] EXCEPT !.attempts = req[w].tries + 1]
          BY <3>1
    <3>3. /\ row.user = sos[e].user /\ row.status = sos[e].status
          /\ row.attempts = req[w].tries + 1
          BY <1>1, <3>2 DEF SosRow
    <3>4. req[w].tries + 1 <= guesses[e]
          BY <1>1, <2>1 DEF CancelWrong, At
    <3>5. /\ sos' = [sos EXCEPT ![e] = row]
          /\ log' = log \cup {<<"sos.cancel.wrong_pin", e>>}
          BY <2>1, <3>2 DEF CancelWrong, Audit
    <3>. QED BY <1>1, <3>3, <3>4, <3>5 DEF AuditActions
  <2>2. ASSUME NEW st \in Closed, sos' = [sos EXCEPT ![e].status = st]
        PROVE  \E row \in SosRow :
                 /\ sos' = [sos EXCEPT ![e] = row]
                 /\ row.user = sos[e].user /\ row.status = st
                 /\ row.attempts <= guesses[e]
    <3>1. PICK row \in SosRow : row = [sos[e] EXCEPT !.status = st]
          BY <1>1 DEF SosRow
    <3>2. /\ row.user = sos[e].user /\ row.status = st
          /\ row.attempts = sos[e].attempts
          BY <1>1, <3>1 DEF SosRow
    <3>3. sos[e].attempts <= guesses[e]
          BY <1>1 DEF AttemptsWereMade
    <3>. QED BY <2>2, <3>1, <3>2, <3>3
  <2>3. CASE CancelClose(w)
    <3>1. /\ sos' = [sos EXCEPT ![e].status = "false_alarm"]
          /\ log' = log \cup {<<"sos.cancelled", e>>}
          BY <2>3 DEF CancelClose, Audit
    <3>. QED BY <2>2, <3>1 DEF Closed, AuditActions
  <2>4. CASE ResolveUpdate(w)
    <3>1. /\ sos' = [sos EXCEPT ![e].status = "resolved"]
          /\ log' = log \cup {<<"sos.resolved", e>>}
          BY <2>4 DEF ResolveUpdate, Audit
    <3>. QED BY <2>2, <3>1 DEF Closed, AuditActions
  <2>. QED BY <2>1, <2>3, <2>4
<1>3. /\ req' = [req EXCEPT ![w] = Idle]
      /\ UNCHANGED <<fan, texted, lock, slow, pin, guesses, faults>>
      BY DEF CancelWrong, CancelClose, ResolveUpdate, Done
<1>4. TypeOK'
  <2>1. sos' \in [SosIds -> SosRow] /\ req' \in [Workers -> Request]
        BY <1>2, <1>3, IdleHolds DEF TypeOK
  <2>2. log' \subseteq AuditActions \X SosIds
        BY <1>1, <1>2 DEF TypeOK
  <2>. QED BY <1>3, <2>1, <2>2 DEF TypeOK
<1>5. Keeps
      BY <1>2, <1>3 DEF Keeps, TypeOK
<1>6. \A x \in Workers : RequestHolds(req[x])'
      BY <1>3, <1>4, <1>5, IdleHolds, WorkerKept DEF LocalsHold
<1>7. Calm
  <2>1. \A x \in Workers : req'[x].pc \in Triggering => req'[x] = req[x]
        BY <1>3 DEF TypeOK, Idle, Triggering
  <2>. QED BY <1>1, <1>2, <1>3, <2>1 DEF Calm, TypeOK, Closed
<1>8. AttemptsWereMade'
      BY <1>2, <1>3 DEF AttemptsWereMade, TypeOK
<1>. QED BY <1>4, <1>5, <1>6, <1>7, <1>8, CalmStep

\* notifyRecipients writes the columns of the recipients only.
LEMMA FanStepKeeps ==
  ASSUME IInv, NEW s \in SosIds, FanStep(s)
  PROVE  IInv'
<1>. USE DEF IInv
<1>1. fan[s] \in Fan /\ sos[s] \in SosRow
      BY DEF TypeOK
<1>. DEFINE Written == /\ fan' \in [SosIds -> Fan]
                       /\ texted' \subseteq SosIds \X Contacts
                       /\ log' \subseteq AuditActions \X SosIds
                       /\ UNCHANGED <<lock, slow, pin, guesses, req, faults>>
<1>2. Written
  <2>1. ASSUME NEW people \in SUBSET Contacts, FanContacts(s, people)
        PROVE  Written
    <3>1. [pc |-> "sms", people |-> people, todo |-> people, ok |-> {}] \in Fan
          BY DEF Fan
    <3>. QED BY <2>1, <3>1 DEF FanContacts, TypeOK
  <2>2. ASSUME NEW c \in Contacts, NEW ok \in BOOLEAN, SmsAnswered(s, c, ok)
        PROVE  Written
    <3>1. PICK f \in Fan :
            f = [fan[s] EXCEPT !.todo = @ \ {c},
                               !.ok = IF ok THEN @ \cup {c} ELSE @]
          BY <1>1 DEF Fan
    <3>2. fan' = [fan EXCEPT ![s] = f]
          BY <2>2, <3>1 DEF SmsAnswered, TypeOK
    <3>. QED BY <2>2, <3>2 DEF SmsAnswered, TypeOK
  <2>3. CASE FanWrite(s)
    <3>1. fan' \in [SosIds -> Fan]
          BY <2>3 DEF FanWrite, TypeOK, Fan
    <3>2. log' \subseteq AuditActions \X SosIds
          BY <2>3 DEF FanWrite, Audit, TypeOK, AuditActions
    <3>. QED BY <2>3, <3>1, <3>2 DEF FanWrite, TypeOK
  <2>. QED BY <2>1, <2>2, <2>3 DEF FanStep
<1>3. /\ sos' \in [SosIds -> SosRow]
      /\ \A t \in SosIds : /\ sos'[t].status = sos[t].status
                           /\ sos'[t].user = sos[t].user
                           /\ sos'[t].attempts = sos[t].attempts
  <2>1. CASE FanWrite(s)
    <3>1. PICK row \in SosRow :
            row = [sos[s] EXCEPT !.told = TRUE, !.ok = fan[s].ok]
          BY <1>1 DEF SosRow, Fan
    <3>2. sos' = [sos EXCEPT ![s] = row]
          BY <2>1, <3>1 DEF FanWrite, TypeOK
    <3>3. /\ row.status = sos[s].status /\ row.user = sos[s].user
          /\ row.attempts = sos[s].attempts
          BY <1>1, <3>1 DEF SosRow
    <3>. QED BY <3>2, <3>3 DEF TypeOK
  <2>2. CASE sos' = sos
        BY <2>2 DEF TypeOK
  <2>. QED BY <2>1, <2>2 DEF FanStep, FanContacts, SmsAnswered
<1>4. TypeOK'
      BY <1>2, <1>3 DEF TypeOK
<1>5. Keeps
      BY <1>2, <1>3 DEF Keeps, TypeOK
<1>6. \A x \in Workers : RequestHolds(req[x])'
      BY <1>2, <1>4, <1>5, OthersKept DEF LocalsHold
<1>7. Calm
      BY <1>2, <1>3 DEF Calm
<1>8. AttemptsWereMade'
      BY <1>2, <1>3 DEF AttemptsWereMade
<1>. QED BY <1>4, <1>5, <1>6, <1>7, <1>8, CalmStep

\* The key expires: it is noted when it still guards a trigger.
LEMMA LockExpiresStep ==
  ASSUME IInv, NEW u \in Users, LockExpires(u)
  PROVE  IInv'
<1>. USE DEF IInv
<1>1. /\ UNCHANGED <<sos, fan, texted, pin, guesses, log, req, faults>>
      /\ lock' = lock \ {u}
      /\ slow' \subseteq slow \cup {u} /\ slow \subseteq slow'
      /\ \A w \in Workers :
           (req[w].pc \in Triggering /\ req[w].user = u) => u \in slow'
      BY DEF LockExpires
<1>2. TypeOK'
      BY <1>1 DEF TypeOK
<1>3. Keeps
      BY <1>1 DEF Keeps, TypeOK
<1>4. \A x \in Workers : RequestHolds(req[x])'
      BY <1>1, <1>2, <1>3, OthersKept DEF LocalsHold
<1>5. Calm
      BY <1>1 DEF Calm
<1>6. AttemptsWereMade'
      BY <1>1 DEF AttemptsWereMade
<1>. QED BY <1>2, <1>3, <1>4, <1>5, <1>6, CalmStep

\* An SMS that is accepted, a new PIN, and the failures that touch no event.
LEMMA OtherStep ==
  ASSUME IInv,
         \/ \E u \in Users, p \in Pins : SetSosPin(u, p)
         \/ \E s \in SosIds, c \in Contacts : SmsAccepted(s, c)
         \/ \E s \in SosIds : FailFan(s)
         \/ Crash
  PROVE  IInv'
<1>. USE DEF IInv
<1>1. UNCHANGED <<sos, lock, slow, guesses>>
      BY DEF SetSosPin, SmsAccepted, FailFan, Crash
<1>2. \/ req' = req
      \/ req' = [w \in Workers |-> Idle]
      BY DEF SetSosPin, SmsAccepted, FailFan, Crash
<1>3. TypeOK'
  <2>1. CASE \E u \in Users, p \in Pins : SetSosPin(u, p)
        BY <2>1 DEF SetSosPin, TypeOK
  <2>2. CASE \E s \in SosIds, c \in Contacts : SmsAccepted(s, c)
        BY <2>2 DEF SmsAccepted, TypeOK
  <2>3. ASSUME NEW f \in Fan PROVE Stopped(f) \in Fan
        BY DEF Stopped, Fan
  <2>4. CASE \E s \in SosIds : FailFan(s)
    <3>1. fan' \in [SosIds -> Fan]
          BY <2>3, <2>4 DEF FailFan, TypeOK
    <3>2. faults' \in 0..MaxFaults
          BY <2>4, FaultsAssumption DEF FailFan, TypeOK
    <3>. QED BY <2>4, <3>1, <3>2 DEF FailFan, TypeOK
  <2>5. CASE Crash
    <3>1. fan' \in [SosIds -> Fan]
          BY <2>3, <2>5 DEF Crash, TypeOK
    <3>2. faults' \in 0..MaxFaults
          BY <2>5, FaultsAssumption DEF Crash, TypeOK
    <3>3. req' \in [Workers -> Request]
          BY <2>5, IdleHolds DEF Crash
    <3>. QED BY <2>5, <3>1, <3>2, <3>3 DEF Crash, TypeOK
  <2>. QED BY <2>1, <2>2, <2>4, <2>5
<1>4. Keeps
      BY <1>1 DEF Keeps, TypeOK
<1>5. \A x \in Workers : RequestHolds(req[x])'
  <2>1. CASE req' = req
        BY <1>3, <1>4, <2>1, OthersKept DEF LocalsHold
  <2>2. CASE req' = [w \in Workers |-> Idle]
    <3>. TAKE x \in Workers
    <3>1. req'[x] = Idle
          BY <2>2
    <3>. QED BY <3>1 DEF RequestHolds, Idle, Triggering
  <2>. QED BY <1>2, <2>1, <2>2
<1>6. Calm
  <2>1. \A x \in Workers : req'[x].pc \in Triggering => req'[x] = req[x]
        BY <1>2 DEF Idle, Triggering
  <2>. QED BY <1>1, <2>1 DEF Calm
<1>7. AttemptsWereMade'
      BY <1>1 DEF AttemptsWereMade
<1>. QED BY <1>3, <1>4, <1>5, <1>6, <1>7, CalmStep

-----------------------------------------------------------------------------
(* Results.                                                                *)

\* The invariant holds initially.
LEMMA InitIInv == Init => IInv
<1>. SUFFICES ASSUME Init PROVE IInv
     OBVIOUS
<1>1. NoSos \in SosRow /\ NoFan \in Fan
      BY AttemptsAssumption DEF NoSos, SosRow, NoFan, Fan
<1>2. TypeOK
      BY <1>1, IdleHolds, FaultsAssumption DEF Init, TypeOK
<1>3. \A w \in Workers : req[w].pc = "idle" /\ RequestHolds(req[w])
  <2>. TAKE w \in Workers
  <2>1. req[w] = Idle
        BY DEF Init
  <2>. QED BY <2>1 DEF RequestHolds, Idle, Triggering
<1>4. LocalsHold
      BY <1>3 DEF Init, LocalsHold, LockHolds, NoSos, Triggering
<1>5. AttemptsWereMade /\ \A u \in Users : OneActive(u)
      BY DEF Init, AttemptsWereMade, OneActive, ActiveSos, NoSos
<1>. QED BY <1>2, <1>4, <1>5 DEF IInv

\* Every step keeps it.
LEMMA NextIInv == IInv /\ [Next]_vars => IInv'
<1>. SUFFICES ASSUME IInv, [Next]_vars PROVE IInv'
     OBVIOUS
<1>1. ASSUME NEW w \in Workers, Arrive(w) PROVE IInv'
      BY <1>1, TriggerLockStep, ReadStep DEF Arrive
<1>2. ASSUME NEW w \in Workers, Proceed(w) PROVE IInv'
  <2>1. CASE (\E g \in Pins : CancelPin(w, g)) \/ TriggerInsertRejected(w)
        BY <2>1, ReadStep
  <2>2. CASE CancelWrong(w) \/ CancelClose(w) \/ ResolveUpdate(w)
        BY <2>2, CloseStep
  <2>. QED BY <1>2, <2>1, <2>2, TriggerSelectStep, TriggerInsertStep
           DEF Proceed
<1>3. ASSUME NEW s \in SosIds,
             FanStep(s) \/ \E c \in Contacts : SmsAccepted(s, c)
      PROVE  IInv'
      BY <1>3, FanStepKeeps, OtherStep
<1>4. CASE Environment
  <2>1. ASSUME NEW w \in Workers, Fail(w) PROVE IInv'
        BY <2>1, ReadStep
  <2>. QED BY <1>4, <2>1, LockExpiresStep, OtherStep DEF Environment
<1>5. CASE UNCHANGED vars
  <2>1. TypeOK'
        BY <1>5 DEF vars, IInv, TypeOK
  <2>2. Keeps
        BY <1>5 DEF vars, Keeps, IInv, TypeOK
  <2>3. \A x \in Workers : RequestHolds(req[x])'
        BY <1>5, <2>1, <2>2, OthersKept DEF vars, IInv, LocalsHold
  <2>4. Calm
        BY <1>5 DEF vars, Calm
  <2>5. AttemptsWereMade'
        BY <1>5 DEF vars, IInv, AttemptsWereMade
  <2>. QED BY <2>1, <2>2, <2>3, <2>4, <2>5, CalmStep
<1>. QED BY <1>1, <1>2, <1>3, <1>4, <1>5 DEF Next

\* The invariant holds in every reachable state of every instance.
THEOREM Invariance == Spec => []IInv
BY InitIInv, NextIInv, PTL DEF Spec

\* Events, requests and counters keep their types: cancel_attempts never
\* passes MAX_CANCEL_ATTEMPTS, however many cancels overwrite each other.
THEOREM TypeCorrect == Spec => []TypeOK
BY Invariance, PTL DEF IInv

\* cancel_attempts never counts a PIN that was not compared.
THEOREM AttemptsReal == Spec => []AttemptsWereMade
BY Invariance, PTL DEF IInv

-----------------------------------------------------------------------------
(* How far triggers slower than their key stack events.                    *)

\* Triggers of user u that found no active event and are about to insert.
Raisers(u) == {w \in Workers : At(w, "insert") /\ req[w].user = u}

\* Active events there are, and active events there may yet be.
StackHolds ==
  \A u \in Users :
    Cardinality(ActiveSos(u)) + Cardinality(Raisers(u))
      <= Cardinality(Workers)

\* A request is about to insert because it was before, or because it just found
\* no active event of its user.
LEMMA RaisingComes ==
  ASSUME IInv, [Next]_vars, NEW x \in Workers, req'[x].pc = "insert"
  PROVE  \/ req[x].pc = "insert" /\ req'[x].user = req[x].user
         \/ ActiveSos(req'[x].user) = {}
<1>. DEFINE Goal == \/ req[x].pc = "insert" /\ req'[x].user = req[x].user
                    \/ ActiveSos(req'[x].user) = {}
<1>0. req \in [Workers -> Request]
      BY DEF IInv, TypeOK
<1>1. CASE req'[x] = req[x]
      BY <1>1
<1>2. ASSUME NEW w \in Workers, NEW q, q.pc # "insert",
             req' = [req EXCEPT ![w] = q]
      PROVE  Goal
      BY <1>0, <1>1, <1>2
<1>3. ASSUME NEW w \in Workers, NEW pc, pc # "insert", Goto(w, pc) PROVE Goal
  <2>1. x # w
        BY <1>0, <1>3 DEF Goto, Request
  <2>. QED BY <1>0, <1>1, <1>3, <2>1 DEF Goto
<1>4. ASSUME NEW w \in Workers, Arrive(w) PROVE Goal
  <2>1. ASSUME NEW u \in Users, TriggerLock(w, u) PROVE Goal
        BY <1>2, <2>1 DEF TriggerLock, Accept, Idle
  <2>2. ASSUME NEW u \in Users, NEW s \in SosIds, CancelSelect(w, u, s)
        PROVE  Goal
        BY <1>2, <2>2 DEF CancelSelect, Accept
  <2>3. ASSUME NEW u \in Users, NEW s \in SosIds, ResolveSelect(w, u, s)
        PROVE  Goal
        BY <1>2, <2>3 DEF ResolveSelect, Accept, Idle
  <2>. QED BY <1>4, <2>1, <2>2, <2>3 DEF Arrive
<1>5. ASSUME NEW w \in Workers, Proceed(w) PROVE Goal
  <2>1. ASSUME Done(w) PROVE Goal
        BY <1>2, <2>1 DEF Done, Idle
  <2>2. ASSUME TriggerSelect(w) PROVE Goal
    <3>1. CASE ActiveSos(req[w].user) = {} /\ Goto(w, "insert")
      <4>1. x = w => req'[x].user = req[w].user
            BY <1>0, <3>1 DEF Goto, Request
      <4>2. x # w => req'[x] = req[x]
            BY <1>0, <3>1 DEF Goto
      <4>. QED BY <1>1, <3>1, <4>1, <4>2
    <3>. QED BY <2>1, <2>2, <3>1 DEF TriggerSelect
  <2>3. ASSUME NEW g \in Pins, CancelPin(w, g) PROVE Goal
        BY <1>3, <2>1, <2>3 DEF CancelPin
  <2>. QED BY <1>5, <2>1, <2>2, <2>3
           DEF Proceed, TriggerInsert, TriggerInsertRejected, CancelWrong,
               CancelClose, ResolveUpdate
<1>6. CASE \E s \in SosIds : \/ FanStep(s)
                             \/ \E c \in Contacts : SmsAccepted(s, c)
      BY <1>1, <1>6 DEF FanStep, FanContacts, SmsAnswered, FanWrite,
                        SmsAccepted
<1>7. CASE Environment
  <2>1. ASSUME NEW w \in Workers, Fail(w) PROVE Goal
        BY <1>2, <2>1 DEF Fail, Done, Idle
  <2>2. CASE Crash
        BY <2>2 DEF Crash, Idle
  <2>. QED BY <1>1, <1>7, <2>1, <2>2
           DEF Environment, LockExpires, SetSosPin, FailFan
<1>8. CASE UNCHANGED vars
      BY <1>1, <1>8 DEF vars
<1>. QED BY <1>4, <1>5, <1>6, <1>7, <1>8 DEF Next

\* Only an insert makes an event active.
LEMMA StackKept ==
  ASSUME IInv, [Next]_vars, NEW u \in Users,
         ~\E w \in Workers, s \in SosIds : TriggerInsert(w, s)
  PROVE  ActiveSos(u)' \subseteq ActiveSos(u)
<1>. DEFINE Goal == ActiveSos(u)' \subseteq ActiveSos(u)
<1>0. sos \in [SosIds -> SosRow]
      BY DEF IInv, TypeOK
<1>1. CASE sos' = sos
      BY <1>1 DEF ActiveSos
<1>2. ASSUME NEW s \in SosIds, FanWrite(s) PROVE Goal
  <2>1. \A t \in SosIds : /\ sos'[t].status = sos[t].status
                          /\ sos'[t].user = sos[t].user
        BY <1>0, <1>2 DEF FanWrite, SosRow
  <2>. QED BY <2>1 DEF ActiveSos
<1>3. ASSUME NEW w \in Workers, CancelWrong(w) PROVE Goal
  <2>1. \A t \in SosIds : /\ sos'[t].status = sos[t].status
                          /\ sos'[t].user = sos[t].user
        BY <1>0, <1>3 DEF CancelWrong, SosRow
  <2>. QED BY <2>1 DEF ActiveSos
<1>4. ASSUME NEW w \in Workers, CancelClose(w) \/ ResolveUpdate(w) PROVE Goal
  <2>1. PICK status \in Closed :
          sos' = [sos EXCEPT ![req[w].sos].status = status]
        BY <1>4 DEF CancelClose, ResolveUpdate, Closed
  <2>2. \A t \in SosIds : \/ sos'[t] = sos[t]
                          \/ sos'[t].status = status
        BY <1>0, <2>1 DEF SosRow
  <2>. QED BY <2>2 DEF ActiveSos, Closed
<1>5. ASSUME NEW w \in Workers, Arrive(w) PROVE Goal
  <2>1. sos' = sos
        BY <1>5 DEF Arrive, TriggerLock, CancelSelect, ResolveSelect
  <2>. QED BY <1>1, <2>1
<1>6. ASSUME NEW w \in Workers, Proceed(w) PROVE Goal
      BY <1>1, <1>3, <1>4, <1>6
         DEF Proceed, TriggerSelect, TriggerInsertRejected, CancelPin
<1>7. CASE \E s \in SosIds : \/ FanStep(s)
                             \/ \E c \in Contacts : SmsAccepted(s, c)
      BY <1>1, <1>2, <1>7 DEF FanStep, FanContacts, SmsAnswered, SmsAccepted
<1>8. CASE Environment
      BY <1>1, <1>8 DEF Environment, LockExpires, SetSosPin, Fail, FailFan,
                        Crash
<1>9. CASE UNCHANGED vars
      BY <1>1, <1>9 DEF vars
<1>. QED BY <1>5, <1>6, <1>7, <1>8, <1>9 DEF Next

LEMMA StackStep ==
  ASSUME IsFiniteSet(SosIds), IsFiniteSet(Workers), IInv, StackHolds,
         [Next]_vars
  PROVE  StackHolds'
<1>. SUFFICES ASSUME NEW u \in Users
              PROVE  Cardinality(ActiveSos(u)') + Cardinality(Raisers(u)')
                       <= Cardinality(Workers)
     BY DEF StackHolds
<1>. DEFINE A == Cardinality(ActiveSos(u))
            B == Cardinality(ActiveSos(u)')
            R == Cardinality(Raisers(u))
            S == Cardinality(Raisers(u)')
            W == Cardinality(Workers)
<1>1. /\ IsFiniteSet(ActiveSos(u)) /\ IsFiniteSet(ActiveSos(u)')
      /\ IsFiniteSet(Raisers(u)) /\ IsFiniteSet(Raisers(u)')
      /\ A \in Nat /\ B \in Nat /\ R \in Nat /\ S \in Nat /\ W \in Nat
      /\ S <= W
  <2>1. /\ ActiveSos(u) \subseteq SosIds /\ ActiveSos(u)' \subseteq SosIds
        /\ Raisers(u) \subseteq Workers /\ Raisers(u)' \subseteq Workers
        BY DEF ActiveSos, Raisers
  <2>. QED BY <2>1, FS_Subset, FS_CardinalityType
<1>2. A + R <= W
      BY DEF StackHolds
<1>3. \/ Raisers(u)' \subseteq Raisers(u)
      \/ ActiveSos(u) = {}
  <2>1. ASSUME NEW x \in Workers, x \in Raisers(u)', x \notin Raisers(u)
        PROVE  ActiveSos(u) = {}
    <3>1. req'[x].pc = "insert" /\ req'[x].user = u
          BY <2>1 DEF Raisers, At
    <3>2. ~(req[x].pc = "insert" /\ req'[x].user = req[x].user)
          BY <2>1, <3>1 DEF Raisers, At
    <3>. QED BY <3>1, <3>2, RaisingComes
  <2>2. Raisers(u)' \subseteq Workers
        BY DEF Raisers
  <2>. QED BY <2>1, <2>2
<1>4. ASSUME NEW w \in Workers, NEW s \in SosIds, TriggerInsert(w, s)
      PROVE  B + S <= W
  <2>1. /\ req[w].pc = "insert" /\ req' = [req EXCEPT ![w] = Idle]
        /\ sos'[s].user = req[w].user
        /\ \A t \in SosIds : t # s => sos'[t] = sos[t]
    <3>1. /\ sos \in [SosIds -> SosRow]
          /\ sos' = [sos EXCEPT ![s] =
               [NoSos EXCEPT !.status = "active", !.user = req[w].user]]
          BY <1>4 DEF TriggerInsert, IInv, TypeOK
    <3>2. sos'[s] = [NoSos EXCEPT !.status = "active", !.user = req[w].user]
          BY <3>1
    <3>3. sos'[s].user = req[w].user
          BY <3>2 DEF NoSos
    <3>4. \A t \in SosIds : t # s => sos'[t] = sos[t]
          BY <3>1
    <3>. QED BY <1>4, <3>3, <3>4 DEF TriggerInsert, At, Done
  <2>2. Raisers(u)' \subseteq Raisers(u) \ {w}
        BY <2>1 DEF Raisers, At, Idle, IInv, TypeOK
  <2>3. ActiveSos(u)' \subseteq ActiveSos(u) \cup {s}
        BY <2>1 DEF ActiveSos
  <2>4. CASE req[w].user = u
    <3>1. w \in Raisers(u)
          BY <2>1, <2>4 DEF Raisers, At
    <3>2. /\ IsFiniteSet(Raisers(u) \ {w})
          /\ Cardinality(Raisers(u) \ {w}) = R - 1
          BY <1>1, <3>1, FS_RemoveElement
    <3>3. S <= R - 1
          BY <2>2, <3>2, FS_Subset
    <3>4. /\ IsFiniteSet(ActiveSos(u) \cup {s})
          /\ \/ Cardinality(ActiveSos(u) \cup {s}) = A
             \/ Cardinality(ActiveSos(u) \cup {s}) = A + 1
          BY <1>1, FS_AddElement
    <3>5. B <= Cardinality(ActiveSos(u) \cup {s})
          BY <2>3, <3>4, FS_Subset
    <3>. HIDE DEF A, B, R, S, W
    <3>6. B <= A + 1
          BY <1>1, <3>4, <3>5
    <3>. QED BY <1>1, <1>2, <3>3, <3>6
  <2>5. CASE req[w].user # u
    <3>1. ActiveSos(u)' \subseteq ActiveSos(u)
          BY <2>1, <2>3, <2>5 DEF ActiveSos
    <3>2. B <= A /\ S <= R
          BY <1>1, <2>2, <3>1, FS_Subset
    <3>. HIDE DEF A, B, R, S, W
    <3>. QED BY <1>1, <1>2, <3>2
  <2>. QED BY <2>4, <2>5
<1>5. ASSUME ~\E w \in Workers, s \in SosIds : TriggerInsert(w, s)
      PROVE  B + S <= W
  <2>1. ActiveSos(u)' \subseteq ActiveSos(u)
        BY <1>5, StackKept
  <2>2. B <= A
        BY <1>1, <2>1, FS_Subset
  <2>3. CASE Raisers(u)' \subseteq Raisers(u)
    <3>1. S <= R
          BY <1>1, <2>3, FS_Subset
    <3>. HIDE DEF A, B, R, S, W
    <3>. QED BY <1>1, <1>2, <2>2, <3>1
  <2>4. CASE ActiveSos(u) = {}
    <3>1. A = 0
          BY <2>4, FS_EmptySet
    <3>. HIDE DEF A, B, R, S, W
    <3>. QED BY <1>1, <2>2, <3>1
  <2>. QED BY <1>3, <2>3, <2>4
<1>. QED BY <1>4, <1>5

\* Of one event at most there is one or none.
LEMMA OneIsFew ==
  ASSUME NEW S, \A s, t \in S : s = t
  PROVE  Cardinality(S) <= 1
<1>1. CASE S = {}
      BY <1>1, FS_EmptySet
<1>2. ASSUME NEW s \in S PROVE Cardinality(S) <= 1
  <2>1. S = {s}
        BY <1>2
  <2>. QED BY <2>1, FS_Singleton
<1>. QED BY <1>1, <1>2

\* A user none of whose triggers outlived its key has one active event at most,
\* whatever fails or crashes; and however slow triggers are compared to their
\* key, never more than there are requests in flight.
THEOREM StackingBounded ==
  ASSUME IsFiniteSet(SosIds), IsFiniteSet(Workers)
  PROVE  Spec => []StackBounded
<1>1. ASSUME Init PROVE StackHolds
  <2>1. \A u \in Users : ActiveSos(u) = {} /\ Raisers(u) = {}
        BY <1>1 DEF Init, ActiveSos, Raisers, At, NoSos, Idle
  <2>2. Cardinality({}) = 0 /\ Cardinality(Workers) \in Nat
        BY FS_EmptySet, FS_CardinalityType
  <2>. QED BY <2>1, <2>2 DEF StackHolds
<1>2. IInv /\ StackHolds /\ [Next]_vars => StackHolds'
      BY StackStep
<1>3. ASSUME IInv, StackHolds, NEW u \in Users
      PROVE  Cardinality(ActiveSos(u))
               <= IF u \in slow THEN Cardinality(Workers) ELSE 1
  <2>1. /\ Cardinality(ActiveSos(u)) \in Nat
        /\ Cardinality(Raisers(u)) \in Nat
        /\ Cardinality(Workers) \in Nat
    <3>1. ActiveSos(u) \subseteq SosIds /\ Raisers(u) \subseteq Workers
          BY DEF ActiveSos, Raisers
    <3>. QED BY <3>1, FS_Subset, FS_CardinalityType
  <2>2. Cardinality(ActiveSos(u)) <= Cardinality(Workers)
        BY <1>3, <2>1 DEF StackHolds
  <2>3. ASSUME u \notin slow PROVE Cardinality(ActiveSos(u)) <= 1
    <3>1. \A s, t \in ActiveSos(u) : s = t
          BY <1>3, <2>3 DEF IInv, OneActive
    <3>. QED BY <3>1, OneIsFew
  <2>. QED BY <2>2, <2>3
<1>4. IInv /\ StackHolds => StackBounded
      BY <1>3 DEF StackBounded
<1>. QED BY <1>1, <1>2, <1>4, Invariance, PTL DEF Spec

-----------------------------------------------------------------------------
(* Results and contacts are not mixed up.                                  *)

\* What notifyRecipients knows of event s at any time: it writes to contacts of
\* the user, and notes as ok who was texted.
FanHolds(s) ==
  /\ \A c \in fan[s].people : OwnerOf[c] = sos[s].user
  /\ fan[s].todo \subseteq fan[s].people
  /\ fan[s].pc \in {"idle", "contacts"} => fan[s].people = {}
  /\ \A c \in fan[s].ok : c \in fan[s].people /\ <<s, c>> \in texted
  /\ \A c \in sos[s].ok : <<s, c>> \in texted /\ OwnerOf[c] = sos[s].user
  /\ sos[s].status = "absent" => fan[s] = NoFan /\ sos[s].ok = {}

FansHold == \A s \in SosIds : FanHolds(s)

\* A step that leaves the fan-out of s and the recipients of s alone.
LEMMA FanUntouched ==
  ASSUME NEW s \in SosIds, FanHolds(s), fan'[s] = fan[s],
         sos'[s].ok = sos[s].ok, sos'[s].user = sos[s].user,
         sos'[s].status = "absent" => sos[s].status = "absent",
         texted \subseteq texted'
  PROVE  FanHolds(s)'
BY DEF FanHolds

\* The insert starts the fan-out of an event that had none.
LEMMA InsertFan ==
  ASSUME IInv, FansHold, NEW w \in Workers, NEW s \in SosIds,
         TriggerInsert(w, s)
  PROVE  FansHold'
<1>1. fan[s] = NoFan
      BY DEF FansHold, FanHolds, TriggerInsert
<1>2. fan'[s] = [NoFan EXCEPT !.pc = "contacts"]
      BY <1>1 DEF TriggerInsert, IInv, TypeOK
<1>3. sos'[s] = [NoSos EXCEPT !.status = "active", !.user = req[w].user]
      BY DEF TriggerInsert, IInv, TypeOK
<1>4. FanHolds(s)'
      BY <1>2, <1>3 DEF FanHolds, NoFan, NoSos
<1>5. ASSUME NEW t \in SosIds, t # s PROVE FanHolds(t)'
  <2>1. fan'[t] = fan[t] /\ sos'[t] = sos[t] /\ texted' = texted
        BY <1>5 DEF TriggerInsert, IInv, TypeOK
  <2>. QED BY <2>1, FanUntouched DEF FansHold
<1>. QED BY <1>4, <1>5 DEF FansHold

\* The steps of the fan-out itself, and SMS that are accepted.
LEMMA FanStepFan ==
  ASSUME IInv, FansHold, NEW s \in SosIds,
         FanStep(s) \/ \E c \in Contacts : SmsAccepted(s, c)
  PROVE  FansHold'
<1>. USE DEF IInv, TypeOK
<1>1. FanHolds(s) /\ fan[s] \in Fan /\ sos[s] \in SosRow
      BY DEF FansHold
<1>2. ASSUME NEW people \in SUBSET Contacts, FanContacts(s, people)
      PROVE  FansHold'
  <2>1. /\ fan'[s] = [pc |-> "sms", people |-> people, todo |-> people,
                      ok |-> {}]
        /\ sos' = sos /\ texted' = texted
        /\ \A c \in people : OwnerOf[c] = sos[s].user
        BY <1>2 DEF FanContacts
  <2>2. sos[s].status # "absent"
        BY <1>1, <1>2 DEF FanContacts, FanHolds, NoFan
  <2>3. FanHolds(s)'
        BY <1>1, <2>1, <2>2 DEF FanHolds
  <2>4. \A t \in SosIds : t # s => fan'[t] = fan[t]
        BY <1>2 DEF FanContacts
  <2>. QED BY <2>1, <2>3, <2>4, FanUntouched DEF FansHold
<1>3. ASSUME NEW c \in Contacts, SmsAccepted(s, c)
      PROVE  FansHold'
  <2>1. fan' = fan /\ sos' = sos /\ texted \subseteq texted'
        BY <1>3 DEF SmsAccepted
  <2>. QED BY <2>1, FanUntouched DEF FansHold
<1>4. ASSUME NEW c \in Contacts, NEW ok \in BOOLEAN, SmsAnswered(s, c, ok)
      PROVE  FansHold'
  <2>1. /\ fan'[s].people = fan[s].people
        /\ fan'[s].todo = fan[s].todo \ {c}
        /\ fan'[s].ok = IF ok THEN fan[s].ok \cup {c} ELSE fan[s].ok
        /\ c \in fan[s].todo /\ (ok => <<s, c>> \in texted)
        /\ fan'[s].pc = "sms" /\ sos' = sos /\ texted' = texted
        BY <1>1, <1>4 DEF SmsAnswered, Fan
  <2>2. sos[s].status # "absent"
        BY <1>1, <1>4 DEF SmsAnswered, FanHolds, NoFan
  <2>3. FanHolds(s)'
        BY <1>1, <2>1, <2>2 DEF FanHolds
  <2>4. \A t \in SosIds : t # s => fan'[t] = fan[t]
        BY <1>4 DEF SmsAnswered
  <2>. QED BY <2>1, <2>3, <2>4, FanUntouched DEF FansHold
<1>5. CASE FanWrite(s)
  <2>1. /\ fan'[s].people = fan[s].people /\ fan'[s].ok = fan[s].ok
        /\ fan'[s].todo = fan[s].todo /\ fan'[s].pc = "done"
        /\ sos'[s].ok = fan[s].ok /\ sos'[s].user = sos[s].user
        /\ sos'[s].status = sos[s].status /\ texted' = texted
        BY <1>1, <1>5 DEF FanWrite, Fan, SosRow
  <2>2. sos[s].status # "absent"
        BY <1>1, <1>5 DEF FanWrite, FanHolds, NoFan
  <2>3. FanHolds(s)'
        BY <1>1, <2>1, <2>2 DEF FanHolds
  <2>4. \A t \in SosIds : t # s => fan'[t] = fan[t] /\ sos'[t] = sos[t]
        BY <1>5 DEF FanWrite
  <2>. QED BY <2>1, <2>3, <2>4, FanUntouched DEF FansHold
<1>. QED BY <1>2, <1>3, <1>4, <1>5 DEF FanStep

\* A fan-out that stops records nothing more.
LEMMA StopFan ==
  ASSUME IInv, FansHold, (\E s \in SosIds : FailFan(s)) \/ Crash
  PROVE  FansHold'
<1>. SUFFICES ASSUME NEW s \in SosIds PROVE FanHolds(s)'
     BY DEF FansHold
<1>1. sos' = sos /\ texted' = texted
      BY DEF FailFan, Crash
<1>2. FanHolds(s) /\ fan[s] \in Fan
      BY DEF FansHold, IInv, TypeOK
<1>. DEFINE Stops == /\ fan'[s] = Stopped(fan[s])
                     /\ fan[s].pc # "idle"
<1>3. fan'[s] = fan[s] \/ Stops
  <2>1. CASE Crash
        BY <2>1 DEF Crash
  <2>2. ASSUME NEW t \in SosIds, FailFan(t)
        PROVE  fan'[s] = fan[s] \/ Stops
        BY <2>2 DEF FailFan, IInv, TypeOK
  <2>. QED BY <2>1, <2>2
<1>4. CASE fan'[s] = fan[s]
      BY <1>1, <1>2, <1>4, FanUntouched
<1>5. CASE Stops
  <2>1. /\ fan'[s].people = fan[s].people /\ fan'[s].todo = {}
        /\ fan'[s].ok = {} /\ fan'[s].pc = "done"
        BY <1>2, <1>5 DEF Stopped, Fan
  <2>2. sos[s].status # "absent"
        BY <1>2, <1>5 DEF FanHolds, NoFan
  <2>. QED BY <1>1, <1>2, <2>1, <2>2 DEF FanHolds
<1>. QED BY <1>3, <1>4, <1>5

\* cancel and resolve write no recipients; the other statements no event.
LEMMA OtherFan ==
  ASSUME IInv, FansHold,
         \/ \E w \in Workers :
              \/ CancelWrong(w) \/ CancelClose(w) \/ ResolveUpdate(w)
         \/ UNCHANGED <<sos, fan, texted>>
  PROVE  FansHold'
<1>. SUFFICES ASSUME NEW s \in SosIds PROVE FanHolds(s)'
     BY DEF FansHold
<1>1. fan' = fan /\ texted' = texted
      BY DEF CancelWrong, CancelClose, ResolveUpdate
<1>. DEFINE Same ==
       /\ sos'[s].ok = sos[s].ok /\ sos'[s].user = sos[s].user
       /\ sos'[s].status = "absent" => sos[s].status = "absent"
<1>2. Same
  <2>1. sos[s] \in SosRow
        BY DEF IInv, TypeOK
  <2>2. ASSUME NEW w \in Workers,
               CancelWrong(w) \/ CancelClose(w) \/ ResolveUpdate(w)
        PROVE  Same
    <3>1. PICK e \in SosIds : e = req[w].sos
          BY <2>2 DEF IInv, LocalsHold, RequestHolds, CancelWrong, CancelClose,
                      ResolveUpdate, At
    <3>2. PICK n \in Int, st \in Closed :
            \/ sos' = [sos EXCEPT ![e].attempts = n]
            \/ sos' = [sos EXCEPT ![e].status = st]
      <4>1. req[w].tries + 1 \in Int
            BY AttemptsAssumption DEF IInv, TypeOK, Request
      <4>. QED BY <2>2, <3>1, <4>1 DEF CancelWrong, CancelClose, ResolveUpdate,
                                       Closed
    <3>. QED BY <2>1, <3>2 DEF IInv, TypeOK, SosRow, Closed
  <2>. QED BY <2>2
<1>. QED BY <1>1, <1>2, FanUntouched DEF FansHold

\* Every step keeps what the fan-outs know.
LEMMA NextFans == IInv /\ FansHold /\ [Next]_vars => FansHold'
<1>. SUFFICES ASSUME IInv, FansHold, [Next]_vars PROVE FansHold'
     OBVIOUS
<1>1. ASSUME NEW w \in Workers, Arrive(w) PROVE FansHold'
      BY <1>1, OtherFan DEF Arrive, TriggerLock, CancelSelect, ResolveSelect
<1>2. ASSUME NEW w \in Workers, Proceed(w) PROVE FansHold'
  <2>1. CASE \/ TriggerSelect(w) \/ TriggerInsertRejected(w)
             \/ \E g \in Pins : CancelPin(w, g)
        BY <2>1, OtherFan DEF TriggerSelect, TriggerInsertRejected, CancelPin
  <2>. QED BY <1>2, <2>1, InsertFan, OtherFan DEF Proceed
<1>3. CASE Environment
      BY <1>3, StopFan, OtherFan DEF Environment, LockExpires, SetSosPin, Fail
<1>4. CASE UNCHANGED vars
      BY <1>4, OtherFan DEF vars
<1>. QED BY <1>1, <1>2, <1>3, <1>4, FanStepFan DEF Next

LEMMA InitFans == Init => FansHold
BY DEF Init, FansHold, FanHolds, NoFan, NoSos

\* A contact that is recorded as ok was texted and is the user's own, however
\* the SMS are answered and whatever fails.
THEOREM OkReal == Spec => []OkMeansTexted
<1>1. FansHold => OkMeansTexted
      BY DEF FansHold, FanHolds, OkMeansTexted
<1>. QED BY <1>1, InitFans, NextFans, Invariance, PTL DEF Spec

-----------------------------------------------------------------------------
(* SOS events implement alarms.                                            *)

\* The alarms of each user, and those that are over.
On == [u \in Users |-> ActiveSos(u)]
Past == {s \in SosIds : sos[s].status \in Closed}

\* Rows that keep their status and user, or go from closed to closed, are
\* the same alarms.
LEMMA SameAlarms ==
  ASSUME \A s \in SosIds :
           \/ /\ sos'[s].status = sos[s].status
              /\ sos'[s].user = sos[s].user
           \/ /\ sos[s].status \in Closed
              /\ sos'[s].status \in Closed
  PROVE  UNCHANGED <<On, Past>>
<1>1. \A u \in Users : ActiveSos(u)' = ActiveSos(u)
      BY DEF ActiveSos, Closed
<1>2. Past' = Past
      BY DEF Past
<1>3. On' = On
      BY <1>1 DEF On
<1>. QED BY <1>2, <1>3

\* The insert of trigger raises an alarm, with an event that had none.
LEMMA InsertRaises ==
  ASSUME IInv, NEW w \in Workers, NEW s \in SosIds, TriggerInsert(w, s)
  PROVE  \E u \in Users : Alarm!Raise(u, s)
<1>1. PICK u \in Users : u = req[w].user
      BY DEF IInv, LocalsHold, RequestHolds, TriggerInsert, At, Triggering
<1>2. sos[s].status = "absent"
      BY DEF TriggerInsert
<1>3. \A t \in SosIds : t # s => sos'[t] = sos[t]
      BY DEF TriggerInsert, IInv, TypeOK
<1>4. sos'[s].status = "active" /\ sos'[s].user = u
      BY <1>1 DEF TriggerInsert, IInv, TypeOK, NoSos
<1>5. ActiveSos(u)' = ActiveSos(u) \cup {s}
      BY <1>2, <1>3, <1>4 DEF ActiveSos
<1>6. \A v \in Users : v # u => ActiveSos(v)' = ActiveSos(v)
      BY <1>2, <1>3, <1>4 DEF ActiveSos
<1>7. Past' = Past /\ s \notin Past
      BY <1>2, <1>3, <1>4 DEF Past, Closed
<1>8. \A v \in Users : s \notin On[v]
      BY <1>2 DEF On, ActiveSos
<1>9. On' = [On EXCEPT ![u] = @ \cup {s}]
      BY <1>5, <1>6 DEF On
<1>. QED BY <1>7, <1>8, <1>9 DEF Alarm!Raise, On, Past

\* Closing an active SOS calls that alarm off; closing one that another request
\* has closed meanwhile changes no alarm.
LEMMA CloseCallsOff ==
  ASSUME IInv, NEW w \in Workers, CancelClose(w) \/ ResolveUpdate(w)
  PROVE  \/ \E u \in Users, s \in SosIds : Alarm!CallOff(u, s)
         \/ UNCHANGED <<On, Past>>
<1>. USE NoneIsNothing
<1>1. PICK e \in SosIds : e = req[w].sos
      BY DEF IInv, LocalsHold, RequestHolds, CancelClose, ResolveUpdate, At
<1>2. PICK u \in Users : u = req[w].user /\ sos[e].user = u
      BY <1>1 DEF IInv, LocalsHold, RequestHolds, CancelClose, ResolveUpdate,
                  At
<1>3. sos[e].status \in Closed \cup {"active"}
      BY <1>1 DEF IInv, TypeOK, SosRow, LocalsHold, RequestHolds, CancelClose,
                  ResolveUpdate, At
<1>4. /\ sos'[e].status \in Closed /\ sos'[e].user = u
      /\ \A t \in SosIds : t # e => sos'[t] = sos[t]
  <2>1. PICK st \in Closed : sos' = [sos EXCEPT ![e].status = st]
        BY <1>1 DEF CancelClose, ResolveUpdate, Closed
  <2>. QED BY <1>2, <2>1 DEF IInv, TypeOK, SosRow
<1>5. CASE sos[e].status \in Closed
      BY <1>4, <1>5, SameAlarms
<1>6. CASE sos[e].status = "active"
  <2>1. e \in On[u]
        BY <1>2, <1>6 DEF On, ActiveSos
  <2>2. \A v \in Users : v # u => ActiveSos(v)' = ActiveSos(v)
        BY <1>2, <1>4 DEF ActiveSos
  <2>3. ActiveSos(u)' = ActiveSos(u) \ {e}
        BY <1>4 DEF ActiveSos, Closed
  <2>4. On' = [On EXCEPT ![u] = @ \ {e}]
        BY <2>2, <2>3 DEF On
  <2>5. Past' = Past \cup {e}
        BY <1>4 DEF Past
  <2>6. Alarm!CallOff(u, e)
        BY <2>1, <2>4, <2>5 DEF Alarm!CallOff, On, Past
  <2>. QED BY <2>6
<1>. QED BY <1>3, <1>5, <1>6

\* One step of the service is one step of the alarms, or none.
LEMMA AlarmStep ==
  ASSUME IInv, [Next]_vars
  PROVE  [Alarm!Next]_Alarm!vars
<1>. DEFINE Goal == \/ \E u \in Users, s \in SosIds :
                          Alarm!Raise(u, s) \/ Alarm!CallOff(u, s)
                    \/ UNCHANGED <<On, Past>>
<1>0. SUFFICES Goal
      BY DEF Alarm!Next, Alarm!vars, On, Past
<1>1. CASE sos' = sos
  <2>1. UNCHANGED <<On, Past>>
        BY <1>1, SameAlarms
  <2>. QED BY <2>1
<1>2. ASSUME NEW w \in Workers, NEW s \in SosIds, TriggerInsert(w, s)
      PROVE  Goal
      BY <1>2, InsertRaises
<1>3. ASSUME NEW w \in Workers, CancelClose(w) \/ ResolveUpdate(w)
      PROVE  Goal
      BY <1>3, CloseCallsOff
<1>4. ASSUME NEW w \in Workers, CancelWrong(w)
      PROVE  Goal
  <2>1. \A s \in SosIds : sos'[s].status = sos[s].status
                          /\ sos'[s].user = sos[s].user
        BY <1>4 DEF CancelWrong, IInv, TypeOK, SosRow
  <2>2. UNCHANGED <<On, Past>>
        BY <2>1, SameAlarms
  <2>. QED BY <2>2
<1>5. ASSUME NEW s \in SosIds, FanWrite(s)
      PROVE  Goal
  <2>1. \A t \in SosIds : sos'[t].status = sos[t].status
                          /\ sos'[t].user = sos[t].user
        BY <1>5 DEF FanWrite, IInv, TypeOK, SosRow
  <2>2. UNCHANGED <<On, Past>>
        BY <2>1, SameAlarms
  <2>. QED BY <2>2
<1>6. ASSUME NEW w \in Workers, Arrive(w)
      PROVE  Goal
      BY <1>1, <1>6 DEF Arrive, TriggerLock, CancelSelect, ResolveSelect
<1>7. ASSUME NEW w \in Workers, Proceed(w)
      PROVE  Goal
  <2>1. CASE \/ TriggerSelect(w) \/ TriggerInsertRejected(w)
             \/ \E g \in Pins : CancelPin(w, g)
        BY <1>1, <2>1 DEF TriggerSelect, TriggerInsertRejected, CancelPin
  <2>. QED BY <1>2, <1>3, <1>4, <1>7, <2>1 DEF Proceed
<1>8. ASSUME NEW s \in SosIds,
             FanStep(s) \/ \E c \in Contacts : SmsAccepted(s, c)
      PROVE  Goal
      BY <1>1, <1>5, <1>8 DEF FanStep, FanContacts, SmsAnswered, SmsAccepted
<1>9. CASE Environment
      BY <1>1, <1>9 DEF Environment, LockExpires, SetSosPin, Fail, FailFan,
                        Crash
<1>10. CASE UNCHANGED vars
      BY <1>1, <1>10 DEF vars
<1>. QED BY <1>6, <1>7, <1>8, <1>9, <1>10 DEF Next

\* Whatever the requests, the fan-out and the failures do, SOS events are raised
\* and called off once each, by their user, and no alarm comes back.
THEOREM AlarmImplemented == Spec => ImplementsAlarm
<1>1. Init => Alarm!Init
  <2>. SUFFICES ASSUME Init PROVE Alarm!Init
       OBVIOUS
  <2>1. \A u \in Users : ActiveSos(u) = {}
        BY DEF Init, ActiveSos, NoSos
  <2>2. On = [u \in Users |-> {}]
        BY <2>1 DEF On
  <2>3. Past = {}
        BY DEF Past, Init, NoSos, Closed
  <2>. QED BY <2>2, <2>3 DEF Alarm!Init, On, Past
<1>2. IInv /\ [Next]_vars => [Alarm!Next]_Alarm!vars
      BY AlarmStep
<1>. QED BY <1>1, <1>2, Invariance, PTL DEF Spec, ImplementsAlarm, Alarm!Spec

-----------------------------------------------------------------------------
(* How far two cancels in flight stretch the limit.  Whatever is in flight *)
(* may set the count back to the attempts it selected, plus one; what has  *)
(* been compared so far is therefore bounded in terms of every such count. *)

Cancelling(w, s) == req[w].sos = s /\ req[w].pc \in {"pin", "wrong", "close"}
Counted(w, s) == IF Cancelling(w, s) /\ req[w].pc # "pin" THEN 1 ELSE 0
Pending(w, s) == IF Cancelling(w, s) /\ req[w].pc = "pin" THEN 1 ELSE 0

\* Twice the PINs that can be compared until attempts are n for good, and until
\* they are a after having been n.
Spent(n) == n * (2 * MAX_CANCEL_ATTEMPTS + 3 - n)
SpentFrom(n, a) == Spent(n) + 2 * (a - n)

\* What holds of event s when v and x are all the requests.
PinsOfTwo(v, x, s) ==
  LET a == sos[s].attempts
      extra == Counted(v, s) + Counted(x, s)
  IN  /\ sos[s].status = "absent" => guesses[s] = 0
      /\ sos[s].status = "active" =>
           /\ 2 * guesses[s] <= SpentFrom(a, a) + 2 * extra
           /\ \A w \in {v, x} : Cancelling(w, s) =>
                2 * guesses[s] <= SpentFrom(req[w].tries, a) + 2 * extra
           /\ Cancelling(v, s) /\ Cancelling(x, s) =>
                a = req[v].tries \/ a = req[x].tries
      /\ sos[s].status \in Closed =>
           2 * (guesses[s] + Pending(v, s) + Pending(x, s))
             <= Spent(MAX_CANCEL_ATTEMPTS)

\* What holds of event s when v is the only one.
PinsOfOne(v, s) ==
  /\ sos[s].status = "absent" => guesses[s] = 0
  /\ sos[s].status = "active" =>
       /\ guesses[s] <= sos[s].attempts + Counted(v, s)
       /\ Cancelling(v, s) => sos[s].attempts = req[v].tries
  /\ sos[s].status \in Closed =>
       guesses[s] + Pending(v, s) <= MAX_CANCEL_ATTEMPTS

\* One more attempt that stays is worth more PINs than are left to compare.
LEMMA SpentGrows ==
  ASSUME NEW n \in 0..MAX_CANCEL_ATTEMPTS, NEW m \in 0..MAX_CANCEL_ATTEMPTS,
         n < m
  PROVE  /\ Spent(m) >= Spent(n) + 2 * (MAX_CANCEL_ATTEMPTS + 1 - n)
         /\ Spent(m) >= Spent(n) + 4 * (m - n)
<1>. DEFINE L == MAX_CANCEL_ATTEMPTS
<1>0. L \in Nat
      BY AttemptsAssumption
<1>1. PICK d \in Nat : m = n + 1 + d
  <2>1. m - n - 1 \in Nat /\ m = n + 1 + (m - n - 1)
        BY <1>0
  <2>. QED BY <2>1
<1>2. PICK e \in Nat : L = m + e
  <2>1. L - m \in Nat /\ L = m + (L - m)
        BY <1>0
  <2>. QED BY <2>1
<1>3. Spent(m) - Spent(n) = 2 * (L + 1 - n) + d * (d + 3) + 2 * d * e
  <2>1. /\ Spent(m) = (n + 1 + d) * (n + d + 2 * e + 4)
        /\ Spent(n) = n * (n + 2 * d + 2 * e + 5)
        BY <1>1, <1>2 DEF Spent
  <2>. QED BY <2>1, <1>1, <1>2
<1>4. d * (d + 3) \in Nat /\ d * (d + 3) >= 2 * d /\ 2 * d * e \in Nat
      OBVIOUS
<1>5. Spent(m) \in Int /\ Spent(n) \in Int
      BY <1>0 DEF Spent
<1>. HIDE DEF Spent
<1>. QED BY <1>0, <1>1, <1>2, <1>3, <1>4, <1>5

LEMMA SpentNat ==
  ASSUME NEW n \in 0..MAX_CANCEL_ATTEMPTS
  PROVE  Spent(n) \in Nat
BY AttemptsAssumption DEF Spent

\* Twice what Stretched says.
LEMMA SpentStretched ==
  ASSUME NEW g \in Nat, 2 * g <= Spent(MAX_CANCEL_ATTEMPTS)
  PROVE  g <= Stretched
<1>. DEFINE L == MAX_CANCEL_ATTEMPTS
            q == (L + 1) * (L + 2)
<1>1. L \in Nat /\ q \in Nat
      BY AttemptsAssumption
<1>2. Spent(L) = q - 2
      BY <1>1 DEF Spent
<1>3. Stretched = q \div 2 - 1
      BY DEF Stretched
<1>. HIDE DEF q
<1>. QED BY <1>1, <1>2, <1>3

\* What a step may mean for event s and the cancels that look at it.
Same(s) == /\ sos'[s].status = sos[s].status
           /\ sos'[s].attempts = sos[s].attempts
           /\ guesses'[s] = guesses[s]
Stays(w, s) == /\ Cancelling(w, s)' <=> Cancelling(w, s)
               /\ Cancelling(w, s) => req'[w] = req[w]
OthersStay(w, s) == \A x \in Workers \ {w} : Stays(x, s)

Nothing(s) == Same(s) /\ \A w \in Workers : Stays(w, s)
Raised(s) ==
  /\ sos[s].status = "absent" /\ sos'[s].status = "active"
  /\ sos'[s].attempts = 0 /\ guesses'[s] = guesses[s]
  /\ \A w \in Workers : ~Cancelling(w, s) /\ ~Cancelling(w, s)'
Selects(w, s) ==
  /\ ~Cancelling(w, s) /\ Cancelling(w, s)' /\ req'[w].pc = "pin"
  /\ req'[w].tries = sos[s].attempts
  /\ sos[s].status = "active" /\ Same(s)
Compares(w, s) ==
  /\ Cancelling(w, s) /\ req[w].pc = "pin"
  /\ Cancelling(w, s)' /\ req'[w].pc # "pin" /\ req'[w].tries = req[w].tries
  /\ sos'[s].status = sos[s].status /\ sos'[s].attempts = sos[s].attempts
  /\ guesses'[s] = guesses[s] + 1
Writes(w, s) ==
  /\ Cancelling(w, s) /\ req[w].pc = "wrong" /\ ~Cancelling(w, s)'
  /\ sos'[s].status = sos[s].status /\ sos'[s].attempts = req[w].tries + 1
  /\ guesses'[s] = guesses[s]
Closes(w, s) ==
  /\ Cancelling(w, s) => req[w].pc = "close"
  /\ ~Cancelling(w, s)'
  /\ sos[s].status # "absent" /\ sos'[s].status \in Closed
  /\ guesses'[s] = guesses[s]
Leaves(w, s) ==
  /\ Cancelling(w, s) /\ req[w].pc = "pin" /\ ~Cancelling(w, s)'
  /\ Same(s)
Moves(w, s) == /\ OthersStay(w, s)
               /\ \/ Selects(w, s) \/ Compares(w, s) \/ Leaves(w, s)
                  \/ Writes(w, s) \/ Closes(w, s)
PinStep(s) == Nothing(s) \/ Raised(s) \/ \E w \in Workers : Moves(w, s)

\* A request that is not about s, before or after, leaves s alone.
LEMMA Elsewhere ==
  ASSUME IInv, NEW s \in SosIds, NEW w \in Workers, NEW q,
         req' = [req EXCEPT ![w] = q]
  PROVE  /\ OthersStay(w, s)
         /\ req'[w] = q
         /\ ~Cancelling(w, s) /\ ~(q.sos = s /\ q.pc \in {"pin", "wrong", "close"})
              => \A x \in Workers : Stays(x, s)
<1>1. /\ \A x \in Workers \ {w} : req'[x] = req[x]
      /\ req'[w] = q
      BY DEF IInv, TypeOK
<1>. QED BY <1>1 DEF OthersStay, Stays, Cancelling

\* Requests and tables that do not change.
LEMMA StandStill ==
  ASSUME NEW s \in SosIds, req' = req, Same(s)
  PROVE  PinStep(s)
BY DEF PinStep, Nothing, Stays, Cancelling

LEMMA IdleStays ==
  ASSUME IInv, NEW s \in SosIds, NEW w \in Workers,
         req' = [req EXCEPT ![w] = Idle]
  PROVE  OthersStay(w, s) /\ req'[w] = Idle /\ ~Cancelling(w, s)'
<1>1. OthersStay(w, s) /\ req'[w] = Idle
      BY Elsewhere
<1>2. ~Cancelling(w, s)'
      BY <1>1 DEF Cancelling, Idle
<1>. QED BY <1>1, <1>2

LEMMA CancelMoves ==
  ASSUME IInv, NEW s \in SosIds, NEW w \in Workers,
         \/ \E u \in Users, t \in SosIds : CancelSelect(w, u, t)
         \/ \E g \in Pins : CancelPin(w, g)
         \/ CancelWrong(w) \/ CancelClose(w)
  PROVE  PinStep(s)
<1>1. CASE \E u \in Users, t \in SosIds : CancelSelect(w, u, t)
  <2>1. PICK u \in Users, t \in SosIds : CancelSelect(w, u, t)
        BY <1>1
  <2>. DEFINE q == [pc |-> "pin", user |-> u, sos |-> t,
                    tries |-> sos[t].attempts]
  <2>2. req[w].pc = "idle" /\ req' = [req EXCEPT ![w] = q] /\ Same(s)
        BY <2>1 DEF CancelSelect, Accept, Same
  <2>q. q.pc = "pin" /\ q.sos = t /\ q.tries = sos[t].attempts
        OBVIOUS
  <2>. HIDE DEF q
  <2>3. OthersStay(w, s) /\ req'[w] = q
        BY <2>2, Elsewhere
  <2>4. ~Cancelling(w, s)
        BY <2>2 DEF Cancelling
  <2>5. CASE t = s
    <3>1. /\ Cancelling(w, s)' /\ req'[w].pc = "pin"
          /\ req'[w].tries = sos[s].attempts
          BY <2>3, <2>5, <2>q DEF Cancelling
    <3>2. sos[s].status = "active"
          BY <2>1, <2>5 DEF CancelSelect
    <3>. QED BY <2>2, <2>3, <2>4, <3>1, <3>2 DEF Selects, Moves, PinStep
  <2>6. CASE t # s
    <3>1. ~(q.sos = s /\ q.pc \in {"pin", "wrong", "close"})
          BY <2>6, <2>q
    <3>. QED BY <2>2, <2>4, <3>1, Elsewhere DEF PinStep, Nothing
  <2>. QED BY <2>5, <2>6
<1>2. ASSUME NEW g \in Pins, CancelPin(w, g) PROVE PinStep(s)
  <2>. DEFINE t == req[w].sos
  <2>1. CASE pin[req[w].user] = None
    <3>1. req' = [req EXCEPT ![w] = Idle] /\ Same(s) /\ req[w].pc = "pin"
          BY <1>2, <2>1 DEF CancelPin, Done, Same, At
    <3>2. OthersStay(w, s) /\ req'[w] = Idle /\ ~Cancelling(w, s)'
          BY <3>1, IdleStays
    <3>3. CASE Cancelling(w, s)
          BY <3>1, <3>2, <3>3 DEF Leaves, Moves, PinStep
    <3>4. CASE ~Cancelling(w, s)
          BY <3>1, <3>2, <3>4, Elsewhere DEF PinStep, Nothing, Idle
    <3>. QED BY <3>3, <3>4
  <2>2. CASE pin[req[w].user] # None
    <3>. DEFINE q == [req[w] EXCEPT !.pc = IF g = pin[req[w].user]
                                           THEN "close" ELSE "wrong"]
    <3>1. /\ req' = [req EXCEPT ![w] = q] /\ sos' = sos
          /\ guesses' = [guesses EXCEPT ![t] = @ + 1]
          /\ req[w].pc = "pin"
          BY <1>2, <2>2 DEF CancelPin, Goto, At
    <3>2. /\ q.sos = t /\ q.tries = req[w].tries
          /\ q.pc \in {"close", "wrong"}
          BY DEF IInv, TypeOK, Request
    <3>. HIDE DEF q
    <3>3. OthersStay(w, s) /\ req'[w] = q
          BY <3>1, Elsewhere
    <3>4. CASE t = s
      <4>1. guesses'[s] = guesses[s] + 1
            BY <3>1, <3>4 DEF IInv, TypeOK
      <4>. QED BY <3>1, <3>2, <3>3, <3>4, <4>1
               DEF Cancelling, Compares, Moves, PinStep
    <3>5. CASE t # s
      <4>1. Same(s)
            BY <3>1, <3>5 DEF Same, IInv, TypeOK
      <4>. QED BY <3>1, <3>2, <3>5, <4>1, Elsewhere
               DEF Cancelling, PinStep, Nothing
    <3>. QED BY <3>4, <3>5
  <2>. QED BY <2>1, <2>2
<1>3. CASE CancelWrong(w) \/ CancelClose(w)
  <2>. DEFINE t == req[w].sos
  <2>1. /\ req' = [req EXCEPT ![w] = Idle] /\ guesses' = guesses
        /\ t \in SosIds
        BY <1>3 DEF CancelWrong, CancelClose, Done, At, IInv, LocalsHold,
                    RequestHolds
  <2>2. OthersStay(w, s) /\ req'[w] = Idle /\ ~Cancelling(w, s)'
        BY <2>1, IdleStays
  <2>3. CASE t # s
    <3>1. Same(s)
          BY <1>3, <2>1, <2>3 DEF CancelWrong, CancelClose, Same, IInv, TypeOK
    <3>. QED BY <2>1, <2>3, <3>1, Elsewhere
             DEF Cancelling, PinStep, Nothing, Idle
  <2>4. CASE t = s /\ CancelWrong(w)
    <3>1. /\ sos'[s].status = sos[s].status
          /\ sos'[s].attempts = req[w].tries + 1
          BY <2>4 DEF CancelWrong, IInv, TypeOK, SosRow
    <3>. QED BY <2>1, <2>2, <2>4, <3>1
             DEF CancelWrong, At, Cancelling, Writes, Moves, PinStep
  <2>5. CASE t = s /\ CancelClose(w)
    <3>1. sos'[s].status \in Closed /\ sos[s].status # "absent"
          BY <2>5 DEF CancelClose, At, IInv, TypeOK, SosRow, LocalsHold,
                      RequestHolds, Closed
    <3>. QED BY <2>1, <2>2, <2>5, <3>1
             DEF CancelClose, At, Cancelling, Closes, Moves, PinStep
  <2>. QED BY <1>3, <2>3, <2>4, <2>5
<1>. QED BY <1>1, <1>2, <1>3

LEMMA NextPins ==
  ASSUME IInv, [Next]_vars, faults' = 0, NEW s \in SosIds
  PROVE  PinStep(s)
<1>1. ASSUME NEW w \in Workers, NEW q, req' = [req EXCEPT ![w] = q], Same(s),
             req[w].pc \notin {"pin", "wrong", "close"},
             q.pc \notin {"pin", "wrong", "close"}
      PROVE  PinStep(s)
      BY <1>1, Elsewhere DEF Cancelling, PinStep, Nothing
<1>2. ASSUME NEW w \in Workers, Arrive(w) PROVE PinStep(s)
  <2>1. ASSUME NEW u \in Users,
               TriggerLock(w, u) \/ \E t \in SosIds : ResolveSelect(w, u, t)
        PROVE  PinStep(s)
    <3>1. Same(s) /\ req[w].pc = "idle"
          BY <2>1 DEF TriggerLock, ResolveSelect, Accept, Same
    <3>2. CASE TriggerLock(w, u)
          BY <1>1, <3>1, <3>2 DEF TriggerLock, Accept, Idle
    <3>3. ASSUME NEW t \in SosIds, ResolveSelect(w, u, t)
          PROVE  PinStep(s)
          BY <1>1, <3>1, <3>3 DEF ResolveSelect, Accept, Idle
    <3>. QED BY <2>1, <3>2, <3>3
  <2>. QED BY <1>2, <2>1, CancelMoves DEF Arrive
<1>3. ASSUME NEW w \in Workers, Proceed(w) PROVE PinStep(s)
  <2>1. CASE TriggerSelect(w) \/ TriggerInsertRejected(w)
    <3>1. Same(s) /\ req[w].pc \in Triggering
          BY <2>1 DEF TriggerSelect, TriggerInsertRejected, Same, At,
                      Triggering
    <3>2. \/ req' = [req EXCEPT ![w] = Idle]
          \/ req' = [req EXCEPT ![w] = [req[w] EXCEPT !.pc = "insert"]]
          BY <2>1 DEF TriggerSelect, TriggerInsertRejected, Goto, Done
    <3>3. [req[w] EXCEPT !.pc = "insert"].pc = "insert"
          BY DEF IInv, TypeOK, Request
    <3>. QED BY <1>1, <3>1, <3>2, <3>3 DEF Triggering, Idle
  <2>2. ASSUME NEW t \in SosIds, TriggerInsert(w, t) PROVE PinStep(s)
    <3>1. req[w].pc = "insert" /\ req' = [req EXCEPT ![w] = Idle]
          BY <2>2 DEF TriggerInsert, At, Done
    <3>2. CASE t # s
      <4>1. Same(s)
            BY <2>2, <3>2 DEF TriggerInsert, Same, IInv, TypeOK
      <4>. QED BY <1>1, <3>1, <4>1 DEF Idle
    <3>3. CASE t = s
      <4>1. /\ sos[s].status = "absent" /\ sos'[s].status = "active"
            /\ sos'[s].attempts = 0 /\ guesses'[s] = guesses[s]
            BY <2>2, <3>3 DEF TriggerInsert, NoSos, IInv, TypeOK
      <4>2. \A x \in Workers : ~Cancelling(x, s)
            BY <4>1 DEF Cancelling, IInv, LocalsHold, RequestHolds
      <4>3. \A x \in Workers : ~Cancelling(x, s)'
        <5>1. \A x \in Workers \ {w} : Stays(x, s)
              BY <3>1, Elsewhere DEF OthersStay
        <5>2. req'[w] = Idle
              BY <3>1, Elsewhere
        <5>. QED BY <4>2, <5>1, <5>2 DEF Stays, Cancelling, Idle
      <4>. QED BY <4>1, <4>2, <4>3 DEF Raised, PinStep
    <3>. QED BY <3>2, <3>3
  <2>3. CASE ResolveUpdate(w)
    <3>1. /\ req[w].pc = "resolve" /\ req' = [req EXCEPT ![w] = Idle]
          /\ req[w].sos \in SosIds /\ guesses' = guesses
          /\ sos[req[w].sos].status # "absent"
          BY <2>3 DEF ResolveUpdate, At, Done, IInv, LocalsHold, RequestHolds
    <3>2. CASE req[w].sos # s
      <4>1. Same(s)
            BY <2>3, <3>1, <3>2 DEF ResolveUpdate, Same, IInv, TypeOK
      <4>. QED BY <1>1, <3>1, <4>1 DEF Idle
    <3>3. CASE req[w].sos = s
      <4>1. sos'[s].status = "resolved"
            BY <2>3, <3>3 DEF ResolveUpdate, IInv, TypeOK, SosRow
      <4>2. OthersStay(w, s) /\ req'[w] = Idle /\ ~Cancelling(w, s)'
            BY <3>1, IdleStays
      <4>3. ~Cancelling(w, s)
            BY <3>1 DEF Cancelling
      <4>. QED BY <3>1, <3>3, <4>1, <4>2, <4>3
               DEF Closed, Closes, Moves, PinStep
    <3>. QED BY <3>2, <3>3
  <2>. QED BY <1>3, <2>1, <2>2, <2>3, CancelMoves DEF Proceed
<1>4. ASSUME NEW t \in SosIds,
             FanStep(t) \/ \E c \in Contacts : SmsAccepted(t, c)
      PROVE  PinStep(s)
  <2>1. req' = req /\ guesses' = guesses
        BY <1>4 DEF FanStep, FanContacts, SmsAnswered, FanWrite, SmsAccepted
  <2>2. CASE FanWrite(t)
    <3>1. /\ sos'[s].status = sos[s].status
          /\ sos'[s].attempts = sos[s].attempts
          BY <2>2 DEF FanWrite, IInv, TypeOK, SosRow
    <3>. QED BY <2>1, <3>1, StandStill DEF Same
  <2>3. CASE ~FanWrite(t)
    <3>1. sos' = sos
          BY <1>4, <2>3 DEF FanStep, FanContacts, SmsAnswered, SmsAccepted
    <3>. QED BY <2>1, <3>1, StandStill DEF Same
  <2>. QED BY <2>2, <2>3
<1>5. CASE Environment
  <2>1. req' = req /\ Same(s)
        BY <1>5 DEF Environment, LockExpires, SetSosPin, Fail, FailFan, Crash,
                    Same, IInv, TypeOK
  <2>. QED BY <2>1, StandStill
<1>6. CASE UNCHANGED vars
      BY <1>6, StandStill DEF vars, Same
<1>. QED BY <1>2, <1>3, <1>4, <1>5, <1>6 DEF Next

-----------------------------------------------------------------------------
(* The arithmetic of a step.                                               *)

LEMMA PinTypes ==
  ASSUME IInv, NEW s \in SosIds
  PROVE  /\ sos[s].attempts \in 0..MAX_CANCEL_ATTEMPTS
         /\ guesses[s] \in Nat
         /\ sos[s].status \in {"absent", "active"} \cup Closed
         /\ \A w \in Workers :
              /\ req[w].tries \in 0..(MAX_CANCEL_ATTEMPTS - 1)
              /\ Cancelling(w, s) => sos[s].status # "absent"
BY DEF IInv, TypeOK, SosRow, Request, LocalsHold, RequestHolds, Cancelling

LEMMA TwoSwapped ==
  ASSUME NEW v, NEW x, NEW s, IInv, s \in SosIds,
         PinsOfTwo(v, x, s)
  PROVE  PinsOfTwo(x, v, s)
<1>1. /\ Counted(v, s) \in 0..1 /\ Counted(x, s) \in 0..1
      /\ Pending(v, s) \in 0..1 /\ Pending(x, s) \in 0..1
      BY DEF Counted, Pending
<1>2. guesses[s] \in Nat
      BY DEF IInv, TypeOK
<1>3. Counted(v, s) + Counted(x, s) = Counted(x, s) + Counted(v, s)
      BY <1>1
<1>4. guesses[s] + Pending(v, s) + Pending(x, s)
        = guesses[s] + Pending(x, s) + Pending(v, s)
      BY <1>1, <1>2
<1>5. {v, x} = {x, v}
      OBVIOUS
<1>6. CASE sos[s].status = "active"
      BY <1>3, <1>5, <1>6 DEF PinsOfTwo, Closed
<1>7. CASE sos[s].status # "active"
      BY <1>4, <1>7 DEF PinsOfTwo
<1>. QED BY <1>6, <1>7

\* All the PINs that are compared, and that are about to be.
LEMMA AllOfTwo ==
  ASSUME IInv, NEW s \in SosIds, NEW v \in Workers, NEW x \in Workers,
         PinsOfTwo(v, x, s)
  PROVE  2 * (guesses[s] + Pending(v, s) + Pending(x, s))
           <= Spent(MAX_CANCEL_ATTEMPTS)
<1>. DEFINE L == MAX_CANCEL_ATTEMPTS
            g == guesses[s]
            a == sos[s].attempts
            cv == Counted(v, s)
            cx == Counted(x, s)
            pv == Pending(v, s)
            px == Pending(x, s)
            tv == req[v].tries
            tx == req[x].tries
<1>1. L \in Nat \ {0} /\ g \in Nat /\ a \in 0..L /\ tv \in 0..(L - 1)
      /\ tx \in 0..(L - 1)
      BY AttemptsAssumption, PinTypes
<1>2. /\ cv \in 0..1 /\ cx \in 0..1 /\ pv \in 0..1 /\ px \in 0..1
      /\ Cancelling(v, s) => cv + pv = 1
      /\ ~Cancelling(v, s) => cv = 0 /\ pv = 0
      /\ Cancelling(x, s) => cx + px = 1
      /\ ~Cancelling(x, s) => cx = 0 /\ px = 0
      BY DEF Counted, Pending
<1>3. /\ Spent(L) \in Nat /\ Spent(a) \in Nat
      /\ Spent(tv) \in Nat /\ Spent(tx) \in Nat
      BY <1>1, SpentNat
<1>4. /\ a < L => Spent(L) >= Spent(a) + 2 * (L + 1 - a)
      /\ Spent(L) >= Spent(tv) + 2 * (L + 1 - tv)
      /\ Spent(L) >= Spent(tx) + 2 * (L + 1 - tx)
      BY <1>1, SpentGrows
<1>5. CASE sos[s].status = "active"
  <2>1. /\ 2 * g <= Spent(a) + 2 * (a - a) + 2 * (cv + cx)
        /\ Cancelling(v, s) => 2 * g <= Spent(tv) + 2 * (a - tv) + 2 * (cv + cx)
        /\ Cancelling(x, s) => 2 * g <= Spent(tx) + 2 * (a - tx) + 2 * (cv + cx)
        /\ Cancelling(v, s) /\ Cancelling(x, s) => a = tv \/ a = tx
        BY <1>5 DEF PinsOfTwo, SpentFrom
  <2>. HIDE DEF L, g, a, cv, cx, pv, px, tv, tx
  <2>2. ASSUME Cancelling(v, s), Cancelling(x, s)
        PROVE  2 * (g + pv + px) <= Spent(L)
        BY <1>1, <1>2, <1>3, <1>4, <2>1, <2>2
  <2>3. ASSUME Cancelling(v, s), ~Cancelling(x, s)
        PROVE  2 * (g + pv + px) <= Spent(L)
        BY <1>1, <1>2, <1>3, <1>4, <2>1, <2>3
  <2>4. ASSUME ~Cancelling(v, s), Cancelling(x, s)
        PROVE  2 * (g + pv + px) <= Spent(L)
        BY <1>1, <1>2, <1>3, <1>4, <2>1, <2>4
  <2>5. ASSUME ~Cancelling(v, s), ~Cancelling(x, s)
        PROVE  2 * (g + pv + px) <= Spent(L)
    <3>1. 2 * g <= Spent(a)
          BY <1>1, <1>2, <1>3, <2>1, <2>5
    <3>2. Spent(a) <= Spent(L)
          BY <1>1, <1>3, <1>4
    <3>. QED BY <1>1, <1>2, <1>3, <2>5, <3>1, <3>2
  <2>6. 2 * (g + pv + px) <= Spent(L)
        BY <2>2, <2>3, <2>4, <2>5
  <2>. QED BY <2>6 DEF g, pv, px, L
<1>6. CASE sos[s].status = "absent"
  <2>1. ~Cancelling(v, s) /\ ~Cancelling(x, s) /\ g = 0
        BY <1>6, PinTypes DEF PinsOfTwo
  <2>. QED BY <1>2, <1>3, <2>1
<1>7. CASE sos[s].status \in Closed
      BY <1>7 DEF PinsOfTwo
<1>. QED BY <1>5, <1>6, <1>7, PinTypes

LEMMA MoveOfTwo ==
  ASSUME IInv, IInv', NEW s \in SosIds, NEW w \in Workers, NEW y \in Workers,
         w # y, PinsOfTwo(w, y, s), Moves(w, s)
  PROVE  PinsOfTwo(w, y, s)'
<1>. DEFINE L == MAX_CANCEL_ATTEMPTS
            g == guesses[s]
            a == sos[s].attempts
            t == req[w].tries
            ty == req[y].tries
            cy == Counted(y, s)
<1>1. L \in Nat \ {0} /\ g \in Nat /\ a \in 0..L /\ t \in 0..(L - 1)
      /\ ty \in 0..(L - 1) /\ cy \in 0..1 /\ Counted(w, s) \in 0..1
      BY AttemptsAssumption, PinTypes DEF Counted
<1>2. /\ Cancelling(y, s)' <=> Cancelling(y, s)
      /\ Counted(y, s)' = cy /\ Pending(y, s)' = Pending(y, s)
      /\ Cancelling(y, s) => req'[y].tries = ty
      BY DEF Moves, OthersStay, Stays, Counted, Pending
<1>3. /\ Spent(a) \in Nat /\ Spent(t) \in Nat /\ Spent(ty) \in Nat
      /\ Spent(t + 1) \in Nat
      BY <1>1, SpentNat
<1>4. Pending(w, s) \in 0..1 /\ Pending(y, s) \in 0..1
      BY DEF Pending
<1>5. CASE Selects(w, s)
  <2>1. /\ sos'[s].status = "active" /\ sos[s].status = "active"
        /\ sos'[s].attempts = a /\ guesses'[s] = g /\ req'[w].tries = a
        /\ Counted(w, s)' = 0 /\ Counted(w, s) = 0
        BY <1>5 DEF Selects, Same, Counted
  <2>. QED BY <1>2, <2>1 DEF PinsOfTwo, SpentFrom, Closed
<1>6. CASE Compares(w, s)
  <2>1. /\ sos'[s].status = sos[s].status /\ sos[s].status # "absent"
        /\ sos'[s].attempts = a /\ guesses'[s] = g + 1 /\ req'[w].tries = t
        /\ Counted(w, s)' = 1 /\ Counted(w, s) = 0
        /\ Pending(w, s)' = 0 /\ Pending(w, s) = 1
        /\ Cancelling(w, s) /\ Cancelling(w, s)'
        BY <1>6, PinTypes DEF Compares, Counted, Pending
  <2>2. CASE sos[s].status = "active"
    <3>1. /\ 2 * g <= SpentFrom(a, a) + 2 * (0 + cy)
          /\ 2 * g <= SpentFrom(t, a) + 2 * (0 + cy)
          /\ Cancelling(y, s) => /\ 2 * g <= SpentFrom(ty, a) + 2 * (0 + cy)
                                 /\ a = t \/ a = ty
          BY <2>1, <2>2 DEF PinsOfTwo
    <3>2. /\ SpentFrom(a, a) \in Int /\ SpentFrom(t, a) \in Int
          /\ SpentFrom(ty, a) \in Int
          BY <1>1, <1>3 DEF SpentFrom
    <3>3. /\ 2 * (g + 1) <= SpentFrom(a, a) + 2 * (1 + cy)
          /\ 2 * (g + 1) <= SpentFrom(t, a) + 2 * (1 + cy)
          /\ Cancelling(y, s) => 2 * (g + 1) <= SpentFrom(ty, a) + 2 * (1 + cy)
          BY <1>1, <3>1, <3>2
    <3>. QED BY <1>2, <2>1, <2>2, <3>1, <3>3 DEF PinsOfTwo, Closed
  <2>3. CASE sos[s].status \in Closed
    <3>1. 2 * (g + 1 + Pending(y, s)) <= Spent(L)
          BY <2>1, <2>3 DEF PinsOfTwo
    <3>2. g + 1 + 0 + Pending(y, s) = g + 1 + Pending(y, s)
          BY <1>1, <1>4
    <3>. QED BY <1>2, <2>1, <2>3, <3>1, <3>2 DEF PinsOfTwo, Closed
  <2>. QED BY <2>1, <2>2, <2>3, PinTypes
<1>7. CASE Leaves(w, s)
  <2>1. /\ sos'[s].status = sos[s].status /\ sos[s].status # "absent"
        /\ sos'[s].attempts = a /\ guesses'[s] = g
        /\ Counted(w, s)' = 0 /\ Counted(w, s) = 0
        /\ Pending(w, s)' = 0 /\ Pending(w, s) = 1
        /\ ~Cancelling(w, s)'
        BY <1>7, PinTypes DEF Leaves, Same, Counted, Pending
  <2>2. CASE sos[s].status = "active"
        BY <1>2, <2>1, <2>2 DEF PinsOfTwo, Closed
  <2>3. CASE sos[s].status \in Closed
    <3>1. 2 * (g + 1 + Pending(y, s)) <= Spent(L)
          BY <2>1, <2>3 DEF PinsOfTwo
    <3>2. 2 * (g + 0 + Pending(y, s)) <= Spent(L)
          BY <1>1, <1>4, <3>1, SpentNat
    <3>. QED BY <1>2, <2>1, <2>3, <3>2 DEF PinsOfTwo, Closed
  <2>. QED BY <2>1, <2>2, <2>3, PinTypes
<1>8. CASE Writes(w, s)
  <2>1. /\ sos'[s].status = sos[s].status /\ sos[s].status # "absent"
        /\ sos'[s].attempts = t + 1 /\ guesses'[s] = g
        /\ Counted(w, s)' = 0 /\ Counted(w, s) = 1
        /\ Pending(w, s)' = 0 /\ Pending(w, s) = 0
        /\ Cancelling(w, s) /\ ~Cancelling(w, s)'
        BY <1>8, PinTypes DEF Writes, Counted, Pending
  <2>2. CASE sos[s].status = "active"
    <3>1. /\ 2 * g <= Spent(t) + 2 * (a - t) + 2 * (1 + cy)
          /\ Cancelling(y, s) => /\ 2 * g <= Spent(ty) + 2 * (a - ty) + 2 * (1 + cy)
                                 /\ a = t \/ a = ty
          BY <2>1, <2>2 DEF PinsOfTwo, SpentFrom
    <3>2. /\ Spent(t + 1) >= Spent(t) + 2 * (L + 1 - t)
          /\ t < a => Spent(a) >= Spent(t) + 4 * (a - t)
          BY <1>1, SpentGrows
    <3>3. /\ 2 * g <= Spent(t + 1) + 2 * cy
          /\ Cancelling(y, s) => 2 * g <= Spent(ty) + 2 * (t + 1 - ty) + 2 * cy
      <4>. HIDE DEF L, g, a, t, ty, cy
      <4>1. 2 * g <= Spent(t + 1) + 2 * cy
            BY <1>1, <1>3, <3>1, <3>2
      <4>2. ASSUME Cancelling(y, s)
            PROVE  2 * g <= Spent(ty) + 2 * (t + 1 - ty) + 2 * cy
        <5>1. CASE a = t
              BY <1>1, <1>3, <3>1, <4>2, <5>1
        <5>2. CASE a = ty
              BY <1>1, <1>3, <3>1, <3>2, <4>2, <5>2
        <5>. QED BY <3>1, <4>2, <5>1, <5>2
      <4>. QED BY <4>1, <4>2
    <3>4. /\ 2 * g <= SpentFrom(t + 1, t + 1) + 2 * (0 + cy)
          /\ Cancelling(y, s) => 2 * g <= SpentFrom(ty, t + 1) + 2 * (0 + cy)
      <4>. HIDE DEF L, g, a, t, ty, cy
      <4>1. /\ SpentFrom(t + 1, t + 1) = Spent(t + 1)
            /\ SpentFrom(ty, t + 1) = Spent(ty) + 2 * (t + 1 - ty)
            /\ 0 + cy = cy
            BY <1>1, <1>3 DEF SpentFrom
      <4>. QED BY <3>3, <4>1
    <3>. QED BY <1>2, <2>1, <2>2, <3>4 DEF PinsOfTwo, Closed
  <2>3. CASE sos[s].status \in Closed
        BY <1>2, <2>1, <2>3 DEF PinsOfTwo, Closed
  <2>. QED BY <2>1, <2>2, <2>3, PinTypes
<1>9. CASE Closes(w, s)
  <2>1. /\ sos'[s].status \in Closed /\ guesses'[s] = g
        /\ Pending(w, s)' = 0 /\ Pending(w, s) = 0
        BY <1>9 DEF Closes, Pending
  <2>2. 2 * (g + Pending(w, s) + Pending(y, s)) <= Spent(L)
        BY AllOfTwo
  <2>. QED BY <1>2, <2>1, <2>2 DEF PinsOfTwo, Closed
<1>. QED BY <1>5, <1>6, <1>7, <1>8, <1>9 DEF Moves

LEMMA MoveOfOne ==
  ASSUME IInv, IInv', NEW s \in SosIds, NEW w \in Workers,
         PinsOfOne(w, s), Moves(w, s)
  PROVE  PinsOfOne(w, s)'
<1>. DEFINE L == MAX_CANCEL_ATTEMPTS
            g == guesses[s]
            a == sos[s].attempts
            t == req[w].tries
<1>1. /\ L \in Nat \ {0} /\ g \in Nat /\ a \in 0..L /\ t \in 0..(L - 1)
      /\ Cancelling(w, s) => sos[s].status # "absent"
      BY AttemptsAssumption, PinTypes
<1>2. CASE Selects(w, s)
      BY <1>1, <1>2 DEF Selects, Same, PinsOfOne, Counted, Closed
<1>3. CASE Compares(w, s)
  <2>1. /\ sos'[s].status = sos[s].status /\ sos[s].status # "absent"
        /\ sos'[s].attempts = a /\ guesses'[s] = g + 1 /\ req'[w].tries = t
        /\ Counted(w, s)' = 1 /\ Counted(w, s) = 0
        /\ Pending(w, s)' = 0 /\ Pending(w, s) = 1
        /\ Cancelling(w, s)
        BY <1>1, <1>3 DEF Compares, Counted, Pending
  <2>. QED BY <1>1, <2>1 DEF PinsOfOne, Closed
<1>4. CASE Leaves(w, s)
  <2>1. /\ sos'[s].status = sos[s].status /\ sos[s].status # "absent"
        /\ sos'[s].attempts = a /\ guesses'[s] = g
        /\ Counted(w, s)' = 0 /\ Counted(w, s) = 0
        /\ Pending(w, s)' = 0 /\ Pending(w, s) = 1
        /\ ~Cancelling(w, s)'
        BY <1>1, <1>4 DEF Leaves, Same, Counted, Pending
  <2>. QED BY <1>1, <2>1 DEF PinsOfOne, Closed
<1>5. CASE Writes(w, s)
  <2>1. /\ sos'[s].status = sos[s].status /\ sos[s].status # "absent"
        /\ sos'[s].attempts = t + 1 /\ guesses'[s] = g
        /\ Counted(w, s)' = 0 /\ Counted(w, s) = 1
        /\ Pending(w, s)' = 0 /\ Pending(w, s) = 0
        /\ Cancelling(w, s) /\ ~Cancelling(w, s)'
        BY <1>1, <1>5 DEF Writes, Counted, Pending
  <2>. QED BY <1>1, <2>1 DEF PinsOfOne, Closed
<1>6. CASE Closes(w, s)
  <2>1. /\ sos'[s].status \in Closed /\ guesses'[s] = g
        /\ Pending(w, s)' = 0 /\ Pending(w, s) = 0
        /\ Counted(w, s) = IF Cancelling(w, s) THEN 1 ELSE 0
        BY <1>6 DEF Closes, Pending, Counted
  <2>2. sos[s].status = "active" \/ sos[s].status \in Closed
        BY <1>6, PinTypes DEF Closes
  <2>3. g <= L
        BY <1>1, <2>1, <2>2 DEF PinsOfOne
  <2>. QED BY <1>1, <2>1, <2>3 DEF PinsOfOne, Closed
<1>. QED BY <1>2, <1>3, <1>4, <1>5, <1>6 DEF Moves

\* The count of event s with no, one and two requests; nothing is said of more.
PinsAt(s) ==
  \/ ~(Cardinality(Workers) <= 2)
  \/ Workers = {} /\ guesses[s] = 0
  \/ \E v \in Workers : Workers = {v} /\ PinsOfOne(v, s)
  \/ \E v, x \in Workers : v # x /\ Workers = {v, x} /\ PinsOfTwo(v, x, s)
PinsHold == faults = 0 => \A s \in SosIds : PinsAt(s)

LEMMA PinsInit ==
  ASSUME IsFiniteSet(Workers), Init
  PROVE  PinsHold
<1>. SUFFICES ASSUME NEW s \in SosIds, Cardinality(Workers) <= 2
              PROVE  PinsAt(s)
     BY DEF PinsHold, PinsAt
<1>1. guesses[s] = 0 /\ sos[s].status = "absent"
      BY DEF Init, NoSos
<1>2. \A v, x : PinsOfOne(v, s) /\ PinsOfTwo(v, x, s)
      BY <1>1 DEF PinsOfOne, PinsOfTwo, Closed
<1>3. CASE Workers = {}
      BY <1>1, <1>3 DEF PinsAt
<1>4. ASSUME NEW v \in Workers PROVE PinsAt(s)
  <2>. DEFINE R == Workers \ {v}
  <2>1. /\ IsFiniteSet(R) /\ Cardinality(Workers) \in Nat
        /\ Cardinality(R) = Cardinality(Workers) - 1
        BY <1>4, FS_RemoveElement, FS_CardinalityType
  <2>2. CASE R = {}
    <3>1. Workers = {v}
          BY <1>4, <2>2
    <3>. QED BY <1>2, <1>4, <3>1 DEF PinsAt
  <2>3. ASSUME NEW x \in R PROVE PinsAt(s)
    <3>1. IsFiniteSet(R \ {x}) /\ Cardinality(R \ {x}) = 0
      <4>. HIDE DEF R
      <4>1. IsFiniteSet(R \ {x}) /\ Cardinality(R \ {x}) = Cardinality(R) - 1
            BY <2>1, <2>3, FS_RemoveElement
      <4>2. Cardinality(R \ {x}) \in Nat
            BY <4>1, FS_CardinalityType
      <4>. QED BY <2>1, <4>1, <4>2
    <3>2. R \ {x} = {}
          BY <3>1, FS_EmptySet
    <3>3. Workers = {v, x} /\ v # x
          BY <1>4, <2>3, <3>2
    <3>. QED BY <1>2, <1>4, <2>3, <3>3 DEF PinsAt
  <2>. QED BY <2>2, <2>3
<1>. QED BY <1>3, <1>4

LEMMA PinsNext ==
  ASSUME IInv, IInv', [Next]_vars, PinsHold
  PROVE  PinsHold'
<1>. SUFFICES ASSUME faults' = 0, NEW s \in SosIds PROVE PinsAt(s)'
     BY DEF PinsHold
<1>1. faults = 0
  <2>1. faults \in Nat /\ (faults' = faults \/ faults' = faults + 1)
    <3>1. faults \in Nat
          BY FaultsAssumption DEF IInv, TypeOK
    <3>. QED BY <3>1 DEF Next, vars, Arrive, Proceed, Environment, FanStep,
           TriggerLock, TriggerSelect, TriggerInsert, TriggerInsertRejected,
           LockExpires, FanContacts, SmsAccepted, SmsAnswered, FanWrite,
           CancelSelect, CancelPin, CancelWrong, CancelClose, ResolveSelect,
           ResolveUpdate, SetSosPin, Fail, FailFan, Crash
  <2>. QED BY <2>1
<1>2. PinStep(s)
      BY NextPins
<1>3. PinsAt(s)
      BY <1>1 DEF PinsHold
<1>4. CASE ~(Cardinality(Workers) <= 2)
      BY <1>4 DEF PinsAt
<1>5. CASE Workers = {} /\ guesses[s] = 0
  <2>1. guesses'[s] = guesses[s]
        BY <1>2, <1>5 DEF PinStep, Nothing, Same, Raised
  <2>. QED BY <1>5, <2>1 DEF PinsAt
<1>6. ASSUME NEW v \in Workers, Workers = {v}, PinsOfOne(v, s)
      PROVE  PinsAt(s)'
  <2>1. CASE Nothing(s)
    <3>1. PinsOfOne(v, s)'
          BY <1>6, <2>1
             DEF Nothing, Same, Stays, PinsOfOne, Counted, Pending
    <3>. QED BY <1>6, <3>1 DEF PinsAt
  <2>2. CASE Raised(s)
    <3>1. PinsOfOne(v, s)'
          BY <1>6, <2>2 DEF Raised, PinsOfOne, Counted, Closed
    <3>. QED BY <1>6, <3>1 DEF PinsAt
  <2>3. CASE Moves(v, s)
    <3>1. PinsOfOne(v, s)'
          BY <1>6, <2>3, MoveOfOne
    <3>. QED BY <1>6, <3>1 DEF PinsAt
  <2>. QED BY <1>2, <1>6, <2>1, <2>2, <2>3 DEF PinStep
<1>7. ASSUME NEW v \in Workers, NEW x \in Workers, v # x, Workers = {v, x},
             PinsOfTwo(v, x, s)
      PROVE  PinsAt(s)'
  <2>1. CASE Nothing(s)
    <3>1. PinsOfTwo(v, x, s)'
          BY <1>7, <2>1
             DEF Nothing, Same, Stays, PinsOfTwo, Counted, Pending
    <3>. QED BY <1>7, <3>1 DEF PinsAt
  <2>2. CASE Raised(s)
    <3>1. /\ sos'[s].status = "active" /\ sos'[s].attempts = 0
          /\ guesses'[s] = 0
          BY <1>7, <2>2 DEF Raised, PinsOfTwo
    <3>2. /\ ~Cancelling(v, s)' /\ ~Cancelling(x, s)'
          /\ Counted(v, s)' = 0 /\ Counted(x, s)' = 0
          BY <1>7, <2>2 DEF Raised, Counted
    <3>3. SpentFrom(0, 0) = 0
          BY AttemptsAssumption DEF SpentFrom, Spent
    <3>4. PinsOfTwo(v, x, s)'
          BY <3>1, <3>2, <3>3 DEF PinsOfTwo, Closed
    <3>. QED BY <1>7, <3>4 DEF PinsAt
  <2>3. CASE Moves(v, s)
    <3>1. PinsOfTwo(v, x, s)'
          BY <1>7, <2>3, MoveOfTwo
    <3>. QED BY <1>7, <3>1 DEF PinsAt
  <2>4. CASE Moves(x, s)
    <3>1. PinsOfTwo(x, v, s)
          BY <1>7, TwoSwapped
    <3>2. PinsOfTwo(x, v, s)'
          BY <1>7, <2>4, <3>1, MoveOfTwo
    <3>3. Workers = {x, v} /\ x # v
          BY <1>7
    <3>. QED BY <1>7, <3>2, <3>3 DEF PinsAt
  <2>. QED BY <1>2, <1>7, <2>1, <2>2, <2>3, <2>4 DEF PinStep
<1>. QED BY <1>3, <1>4, <1>5, <1>6, <1>7 DEF PinsAt

LEMMA PinsEnough ==
  ASSUME IsFiniteSet(Workers), IInv, PinsHold
  PROVE  PinsBounded
<1>. SUFFICES ASSUME faults = 0, Cardinality(Workers) <= 2, NEW s \in SosIds
              PROVE  guesses[s] <= IF Cardinality(Workers) = 1
                                   THEN MAX_CANCEL_ATTEMPTS ELSE Stretched
     BY DEF PinsBounded
<1>1. PinsAt(s)
      BY DEF PinsHold
<1>2. CASE Workers = {} /\ guesses[s] = 0
  <2>1. Cardinality(Workers) = 0
        BY <1>2, FS_EmptySet
  <2>2. 2 * 0 <= Spent(MAX_CANCEL_ATTEMPTS)
        BY AttemptsAssumption, SpentNat
  <2>3. 0 <= Stretched
        BY <2>2, SpentStretched
  <2>. QED BY <1>2, <2>1, <2>3
<1>3. ASSUME NEW v \in Workers, Workers = {v}, PinsOfOne(v, s)
      PROVE  guesses[s] <= IF Cardinality(Workers) = 1
                           THEN MAX_CANCEL_ATTEMPTS ELSE Stretched
  <2>1. Cardinality(Workers) = 1
        BY <1>3, FS_Singleton
  <2>2. guesses[s] <= MAX_CANCEL_ATTEMPTS
    <3>1. /\ Counted(v, s) = 0 \/ (Counted(v, s) = 1 /\ Cancelling(v, s))
          /\ Pending(v, s) \in 0..1
          BY DEF Counted, Pending
    <3>. QED BY <1>3, <3>1, PinTypes, AttemptsAssumption DEF PinsOfOne
  <2>. QED BY <2>1, <2>2
<1>4. ASSUME NEW v \in Workers, NEW x \in Workers, v # x, Workers = {v, x},
             PinsOfTwo(v, x, s)
      PROVE  guesses[s] <= IF Cardinality(Workers) = 1
                           THEN MAX_CANCEL_ATTEMPTS ELSE Stretched
  <2>1. Cardinality(Workers) # 1
    <3>1. ~\E y : Workers = {y}
          BY <1>4
    <3>. QED BY <3>1, FS_Singleton
  <2>2. 2 * (guesses[s] + Pending(v, s) + Pending(x, s))
          <= Spent(MAX_CANCEL_ATTEMPTS)
        BY <1>4, AllOfTwo
  <2>3. guesses[s] \in Nat /\ Pending(v, s) \in 0..1 /\ Pending(x, s) \in 0..1
        BY PinTypes DEF Pending
  <2>4. 2 * guesses[s] <= Spent(MAX_CANCEL_ATTEMPTS)
    <3>1. Spent(MAX_CANCEL_ATTEMPTS) \in Nat
          BY AttemptsAssumption, SpentNat
    <3>. QED BY <2>2, <2>3, <3>1
  <2>5. guesses[s] <= Stretched
        BY <2>3, <2>4, SpentStretched
  <2>. QED BY <2>1, <2>5
<1>. QED BY <1>1, <1>2, <1>3, <1>4 DEF PinsAt

\* "Max 3 attempts.": whatever the limit, one cancel at a time compares no more
\* PINs than that for an event, and two that overlap no more than Stretched.
THEOREM PinsCompared == ASSUME IsFiniteSet(Workers)
                        PROVE  Spec => []PinsBounded
<1>1. Init => PinsHold
      BY PinsInit
<1>2. IInv /\ IInv' /\ [Next]_vars /\ PinsHold => PinsHold'
      BY PinsNext
<1>3. IInv /\ PinsHold => PinsBounded
      BY PinsEnough
<1>. QED BY <1>1, <1>2, <1>3, Invariance, PTL DEF Spec

-----------------------------------------------------------------------------
(* The audit trail.                                                        *)

\* Each row is written with the change it tells of, in the same statement.
LogAt(s) ==
  /\ <<"sos.triggered", s>> \in log <=> sos[s].status # "absent"
  /\ <<"sos.recipients_notified", s>> \in log <=> sos[s].told
  /\ (<<"sos.cancelled", s>> \in log \/ <<"sos.resolved", s>> \in log)
       <=> sos[s].status \in Closed
  /\ sos[s].told => sos[s].status # "absent"
LogTells == \A s \in SosIds : LogAt(s)

\* A row about s, written with a change of s.
LEMMA LogOf ==
  ASSUME IInv, LogTells, NEW s \in SosIds, NEW act, Audit(act, s),
         \A r \in SosIds \ {s} : sos'[r] = sos[r],
         LogAt(s) => LogAt(s)'
  PROVE  LogTells'
<1>. SUFFICES ASSUME NEW r \in SosIds \ {s} PROVE LogAt(r)'
     BY DEF LogTells
<1>1. LogAt(r) /\ sos'[r] = sos[r]
      BY DEF LogTells
<1>2. \A a : <<a, r>> \in log' <=> <<a, r>> \in log
      BY DEF Audit
<1>. QED BY <1>1, <1>2 DEF LogAt

LEMMA LogNext ==
  ASSUME IInv, FansHold, LogTells, [Next]_vars
  PROVE  LogTells'
<1>1. ASSUME log' = log, sos' = sos PROVE LogTells'
      BY <1>1 DEF LogTells, LogAt
<1>2. ASSUME NEW w \in Workers, NEW s \in SosIds, TriggerInsert(w, s)
      PROVE  LogTells'
  <2>1. /\ sos[s].status = "absent"
        /\ sos'[s].status = "active" /\ sos'[s].told = FALSE
        /\ \A r \in SosIds \ {s} : sos'[r] = sos[r]
        BY <1>2 DEF TriggerInsert, NoSos, IInv, TypeOK
  <2>2. LogAt(s) => LogAt(s)'
        BY <1>2, <2>1 DEF TriggerInsert, Audit, LogAt, Closed
  <2>. QED BY <1>2, <2>1, <2>2, LogOf DEF TriggerInsert
<1>3. ASSUME NEW w \in Workers,
             CancelWrong(w) \/ CancelClose(w) \/ ResolveUpdate(w)
      PROVE  LogTells'
  <2>1. PICK t \in SosIds : t = req[w].sos /\ sos[t].status # "absent"
        BY <1>3 DEF CancelWrong, CancelClose, ResolveUpdate, At, IInv,
                    LocalsHold, RequestHolds
  <2>2. sos[t] \in SosRow
        BY DEF IInv, TypeOK
  <2>3. CASE CancelWrong(w)
    <3>1. /\ sos'[t].status = sos[t].status /\ sos'[t].told = sos[t].told
          /\ \A r \in SosIds \ {t} : sos'[r] = sos[r]
          BY <2>1, <2>2, <2>3 DEF CancelWrong, SosRow, IInv, TypeOK
    <3>2. Audit("sos.cancel.wrong_pin", t)
          BY <2>1, <2>3 DEF CancelWrong
    <3>3. LogAt(t) => LogAt(t)'
          BY <3>1, <3>2 DEF Audit, LogAt
    <3>. QED BY <3>1, <3>2, <3>3, LogOf
  <2>4. CASE CancelClose(w) \/ ResolveUpdate(w)
    <3>1. /\ sos'[t].status \in Closed /\ sos'[t].told = sos[t].told
          /\ \A r \in SosIds \ {t} : sos'[r] = sos[r]
          BY <2>1, <2>2, <2>4
             DEF CancelClose, ResolveUpdate, SosRow, Closed, IInv, TypeOK
    <3>2. PICK act \in {"sos.cancelled", "sos.resolved"} : Audit(act, t)
          BY <2>1, <2>4 DEF CancelClose, ResolveUpdate
    <3>3. LogAt(t) => LogAt(t)'
          BY <2>1, <3>1, <3>2 DEF Audit, LogAt, Closed
    <3>. QED BY <3>1, <3>2, <3>3, LogOf
  <2>. QED BY <1>3, <2>3, <2>4
<1>4. ASSUME NEW s \in SosIds, FanWrite(s)
      PROVE  LogTells'
  <2>1. sos[s] \in SosRow /\ sos[s].status # "absent"
        BY <1>4 DEF FanWrite, FansHold, FanHolds, NoFan, IInv, TypeOK
  <2>2. /\ sos'[s].status = sos[s].status /\ sos'[s].told = TRUE
        /\ \A r \in SosIds \ {s} : sos'[r] = sos[r]
        BY <1>4, <2>1 DEF FanWrite, SosRow, IInv, TypeOK
  <2>3. LogAt(s) => LogAt(s)'
        BY <1>4, <2>1, <2>2 DEF FanWrite, Audit, LogAt
  <2>. QED BY <1>4, <2>2, <2>3, LogOf DEF FanWrite
<1>5. ASSUME NEW w \in Workers, Arrive(w) \/ Proceed(w) PROVE LogTells'
      BY <1>1, <1>2, <1>3, <1>5 DEF Arrive, Proceed, TriggerLock,
           CancelSelect, ResolveSelect, TriggerSelect, TriggerInsertRejected,
           CancelPin
<1>6. ASSUME NEW s \in SosIds,
             FanStep(s) \/ \E c \in Contacts : SmsAccepted(s, c)
      PROVE  LogTells'
      BY <1>1, <1>4, <1>6 DEF FanStep, FanContacts, SmsAnswered, SmsAccepted
<1>7. CASE Environment \/ UNCHANGED vars
      BY <1>1, <1>7 DEF Environment, LockExpires, SetSosPin, Fail, FailFan,
                        Crash, vars
<1>. QED BY <1>5, <1>6, <1>7 DEF Next

\* The audit trail tells which events were raised, whose recipients were
\* recorded and which were closed, although users and the fan-out overlap.
THEOREM TrailComplete == Spec => []AuditComplete
<1>1. Init => LogTells
  <2>. SUFFICES ASSUME Init, NEW s \in SosIds PROVE LogAt(s)
       BY DEF LogTells
  <2>1. log = {} /\ sos[s].status = "absent" /\ sos[s].told = FALSE
        BY DEF Init, NoSos
  <2>. QED BY <2>1 DEF LogAt, Closed
<1>2. IInv /\ FansHold /\ LogTells /\ [Next]_vars => LogTells'
      BY LogNext
<1>3. LogTells => AuditComplete
  <2>. SUFFICES ASSUME LogTells PROVE AuditComplete
       OBVIOUS
  <2>1. \A s \in SosIds : LogAt(s)
        BY DEF LogTells
  <2>2. /\ Logged("sos.triggered") = {s \in SosIds : sos[s].status # "absent"}
        /\ Logged("sos.recipients_notified") = {s \in SosIds : sos[s].told}
        /\ Logged("sos.cancelled") \cup Logged("sos.resolved")
             = {s \in SosIds : sos[s].status \in Closed}
        BY <2>1 DEF LogAt, Logged
  <2>. QED BY <2>2 DEF AuditComplete
<1>. QED BY <1>1, <1>2, <1>3, Invariance, InitFans, NextFans, PTL DEF Spec

-----------------------------------------------------------------------------
(* Texts.                                                                  *)

\* What was carried out was sent: nothing acts on a call that was refused, and
\* a request that is done stays done for good.
Traced(c) ==
  /\ call[c].pc = "idle" => c \notin acted
  /\ call[c].pc = "done" => c \in acted
  /\ call[c].answer = "CIRCUIT_OPEN" => call[c].pc = "idle"
  /\ call[c].answer = "ok" => c \in acted

\* The inductive invariant.
HttpInv == HttpTypeOK /\ ProbeUnderWay /\ \A c \in Calls : Traced(c)

-----------------------------------------------------------------------------
(* Lemmas on the parts steps are made of.                                  *)

LEMMA UnusedIsCall == Unused \in Call
BY RetriesAssumption DEF Unused, Call

\* The end of a call is a call, and no other call is touched.
LEMMA OverCall ==
  ASSUME HttpTypeOK, NEW c \in Calls, NEW answer \in Answers, Over(c, answer)
  PROVE  /\ call' \in [Calls -> Call]
         /\ call'[c].pc = "over"
         /\ call'[c].answer = IF Waiting(c) THEN answer ELSE call[c].answer
         /\ \A d \in Calls : d # c => call'[d] = call[d]
<1>1. call[c] \in Call
      BY DEF HttpTypeOK
<1>2. [pc |-> "over", retries |-> 0,
       answer |-> IF Waiting(c) THEN answer ELSE call[c].answer] \in Call
      BY <1>1, RetriesAssumption DEF Call
<1>. QED BY <1>2 DEF Over, HttpTypeOK

\* Counting a failure keeps the window, and the breaker lets nothing through
\* because of it.
LEMMA FailureKeeps ==
  ASSUME HttpTypeOK, Failure
  PROVE  /\ window' \in [1..Buckets -> Bucket]
         /\ breaker' \in {"closed", "open", "halfOpen", "probing"}
         /\ breaker' # "probing"
<1>1. window' \in [1..Buckets -> Bucket]
      BY BucketsAssumption DEF Failure, HttpTypeOK, Bucket
<1>. QED BY <1>1 DEF Failure, Trip, HttpTypeOK

-----------------------------------------------------------------------------
(* Each step preserves the invariant.                                      *)

\* Calls are fired: those the breaker lets through wait, the probe among them.
LEMMA FireStep ==
  ASSUME HttpInv, NEW batch \in SUBSET Calls, IsFiniteSet(Calls),
         NEW through \in SUBSET batch, Fire(batch, through)
  PROVE  HttpInv'
<1>. USE DEF HttpInv
<1>1. Cardinality(batch) \in Nat
  <2>1. IsFiniteSet(batch)
        BY FS_Subset
  <2>. QED BY <2>1, FS_CardinalityType
<1>2. \A c \in Calls :
        /\ call'[c] \in Call
        /\ c \in through => /\ call'[c].pc = "sent"
                            /\ call'[c].answer = "waiting"
        /\ c \in batch \ through => /\ call'[c].pc = "idle"
                                    /\ call'[c].answer = "CIRCUIT_OPEN"
        /\ c \notin batch => call'[c] = call[c]
  <2>. TAKE c \in Calls
  <2>1. /\ [Unused EXCEPT !.pc = "sent", !.answer = "waiting"] \in Call
        /\ [Unused EXCEPT !.answer = "CIRCUIT_OPEN"] \in Call
        BY UnusedIsCall DEF Call, Answers
  <2>2. call[c] \in Call
        BY DEF HttpTypeOK
  <2>. QED BY <2>1, <2>2 DEF Fire, Unused
<1>3. HttpTypeOK'
  <2>1. window' \in [1..Buckets -> Bucket]
        BY <1>1, BucketsAssumption DEF Fire, HttpTypeOK, Bucket
  <2>2. call' \in [Calls -> Call]
        BY <1>2 DEF Fire
  <2>. QED BY <2>1, <2>2 DEF Fire, HttpTypeOK
<1>4. ProbeUnderWay'
  <2>. SUFFICES ASSUME breaker' = "probing" PROVE \E c \in Calls : Waiting(c)'
       BY DEF ProbeUnderWay
  <2>1. CASE breaker = "halfOpen" /\ batch # {}
    <3>1. PICK c \in batch : through = {c}
          BY <2>1 DEF Fire, Through
    <3>. QED BY <1>2, <3>1 DEF Waiting
  <2>2. CASE ~(breaker = "halfOpen" /\ batch # {})
    <3>1. PICK c \in Calls : Waiting(c)
          BY <2>2 DEF Fire, ProbeUnderWay
    <3>2. c \notin batch
          BY <3>1 DEF Fire, Waiting, Unused
    <3>. QED BY <1>2, <3>1, <3>2 DEF Waiting
  <2>. QED BY <2>1, <2>2
<1>5. ASSUME NEW c \in Calls PROVE Traced(c)'
  <2>1. c \in batch => c \notin acted
        BY <1>5 DEF Fire, Traced, Unused
  <2>. QED BY <1>2, <1>5, <2>1 DEF Fire, Traced
<1>. QED BY <1>3, <1>4, <1>5

\* A call ends with an answer that is true.
LEMMA SucceedStep ==
  ASSUME HttpInv, NEW c \in Calls, Respond(c)
  PROVE  HttpInv'
<1>. USE DEF HttpInv
<1>1. PICK answer \in {"ok", "empty"} :
        /\ Succeed(c, answer)
        /\ answer = "ok" => call[c].pc = "done"
      BY DEF Respond
<1>2. /\ call' \in [Calls -> Call]
      /\ call'[c].pc = "over"
      /\ call'[c].answer = IF Waiting(c) THEN answer ELSE call[c].answer
      /\ \A d \in Calls : d # c => call'[d] = call[d]
  <2>1. answer \in Answers
        BY DEF Answers
  <2>. QED BY <1>1, <2>1, OverCall DEF Succeed
<1>3. HttpTypeOK'
      BY <1>1, <1>2 DEF HttpTypeOK, Succeed, Respond
<1>4. ProbeUnderWay'
  <2>. SUFFICES ASSUME breaker' = "probing" PROVE \E d \in Calls : Waiting(d)'
       BY DEF ProbeUnderWay
  <2>1. breaker = "probing" /\ ~Waiting(c)
        BY <1>1 DEF Succeed
  <2>2. PICK d \in Calls : Waiting(d) /\ d # c
        BY <2>1 DEF ProbeUnderWay
  <2>. QED BY <1>2, <2>2 DEF Waiting
<1>5. ASSUME NEW d \in Calls PROVE Traced(d)'
      BY <1>1, <1>2, <1>5 DEF Traced, Respond, InFlight
<1>. QED BY <1>3, <1>4, <1>5

\* A call fails, or its caller is told that it did.
LEMMA FailStep ==
  ASSUME HttpInv, NEW c \in Calls, GiveUp(c) \/ BreakerTimeout(c)
  PROVE  HttpInv'
<1>. USE DEF HttpInv
<1>1. /\ call' \in [Calls -> Call]
      /\ call'[c].pc \in {"over", call[c].pc}
      /\ call'[c].answer = IF Waiting(c) THEN "failed" ELSE call[c].answer
      /\ \A d \in Calls : d # c => call'[d] = call[d]
  <2>1. CASE GiveUp(c)
        BY <2>1, OverCall DEF GiveUp, Answers
  <2>2. CASE BreakerTimeout(c)
    <3>1. [call[c] EXCEPT !.answer = "failed"] \in Call
          BY DEF HttpTypeOK, Call, Answers
    <3>. QED BY <2>2, <3>1 DEF BreakerTimeout, HttpTypeOK, Call
  <2>. QED BY <2>1, <2>2
<1>2. acted' = acted
      BY DEF GiveUp, BreakerTimeout
<1>3. CASE Waiting(c)
  <2>1. Failure
        BY <1>3 DEF GiveUp, BreakerTimeout
  <2>2. HttpTypeOK' /\ ProbeUnderWay'
        BY <1>1, <1>2, <2>1, FailureKeeps DEF HttpTypeOK, ProbeUnderWay
  <2>3. ASSUME NEW d \in Calls PROVE Traced(d)'
        BY <1>1, <1>2, <1>3, <2>3 DEF Traced, Waiting
  <2>. QED BY <2>2, <2>3
<1>4. CASE ~Waiting(c)
  <2>1. GiveUp(c) /\ UNCHANGED <<breaker, window>>
        BY <1>4 DEF GiveUp, BreakerTimeout
  <2>2. HttpTypeOK'
        BY <1>1, <1>2, <2>1 DEF HttpTypeOK
  <2>3. ProbeUnderWay'
        BY <1>1, <1>4, <2>1 DEF ProbeUnderWay, Waiting
  <2>4. ASSUME NEW d \in Calls PROVE Traced(d)'
        BY <1>1, <1>2, <1>4, <2>1, <2>4 DEF Traced, GiveUp, InFlight
  <2>. QED BY <2>2, <2>3, <2>4
<1>. QED BY <1>3, <1>4

\* The request goes on, or is sent again.
LEMMA GoOnStep ==
  ASSUME HttpInv, NEW c \in Calls, Act(c) \/ Retry(c)
  PROVE  HttpInv'
<1>. USE DEF HttpInv
<1>1. /\ call' \in [Calls -> Call]
      /\ \A d \in Calls : call'[d].answer = call[d].answer
      /\ \A d \in Calls : d # c => call'[d] = call[d]
  <2>1. call[c] \in Call
        BY DEF HttpTypeOK
  <2>2. CASE Act(c)
    <3>1. [call[c] EXCEPT !.pc = "done"] \in Call
          BY <2>1 DEF Call
    <3>. QED BY <2>1, <2>2, <3>1 DEF Act, HttpTypeOK, Call
  <2>3. CASE Retry(c)
    <3>t. call[c].retries + 1 \in 0..MaxRetries
          BY <2>1, <2>3, RetriesAssumption DEF Call, Retry
    <3>1. [call[c] EXCEPT !.pc = "sent", !.retries = @ + 1] \in Call
          BY <2>1, <3>t DEF Call
    <3>. QED BY <2>1, <2>3, <3>1 DEF Retry, HttpTypeOK, Call
  <2>. QED BY <2>2, <2>3
<1>2. HttpTypeOK' /\ ProbeUnderWay'
      BY <1>1 DEF Act, Retry, HttpTypeOK, ProbeUnderWay, Waiting
<1>3. ASSUME NEW d \in Calls PROVE Traced(d)'
  <2>1. call[c] \in Call
        BY DEF HttpTypeOK
  <2>2. CASE Act(c)
        BY <1>1, <1>3, <2>1, <2>2 DEF Act, Traced, HttpTypeOK, Call
  <2>3. CASE Retry(c)
        BY <1>1, <1>3, <2>1, <2>3 DEF Retry, Traced, HttpTypeOK, Call, InFlight
  <2>. QED BY <2>2, <2>3
<1>. QED BY <1>2, <1>3

\* The timers of the breaker, and the end of the process.
LEMMA ClockStep ==
  ASSUME HttpInv, ResetTimeout \/ Rotate \/ Die
  PROVE  HttpInv'
<1>. USE DEF HttpInv
<1>1. NoCounts \in Bucket
      BY DEF NoCounts, Bucket
<1>2. CASE ResetTimeout
      BY <1>2 DEF ResetTimeout, HttpTypeOK, ProbeUnderWay, Traced
<1>3. CASE Rotate
  <2>1. window' \in [1..Buckets -> Bucket]
        BY <1>1, <1>3, BucketsAssumption DEF Rotate, HttpTypeOK
  <2>. QED BY <1>3, <2>1 DEF Rotate, HttpTypeOK, ProbeUnderWay, Waiting, Traced
<1>4. CASE Die
  <2>1. \A c \in Calls : /\ call'[c] \in Call
                         /\ call'[c].pc = call[c].pc
                         /\ call'[c].answer \in {"lost", call[c].answer}
        BY <1>4 DEF Die, HttpTypeOK, Call
  <2>2. HttpTypeOK' /\ ProbeUnderWay'
        BY <1>1, <1>4, <2>1 DEF Die, HttpTypeOK, ProbeUnderWay
  <2>3. ASSUME NEW c \in Calls PROVE Traced(c)'
        BY <1>4, <2>1, <2>3 DEF Die, Traced
  <2>. QED BY <2>2, <2>3
<1>. QED BY <1>2, <1>3, <1>4

-----------------------------------------------------------------------------
(* Results.                                                                *)

\* The invariant holds initially and is kept by every step.
LEMMA HttpInitInv == HttpInit => HttpInv
<1>1. NoCounts \in Bucket
      BY DEF NoCounts, Bucket
<1>. QED BY <1>1, UnusedIsCall
         DEF HttpInit, HttpInv, HttpTypeOK, ProbeUnderWay, Traced, Unused

LEMMA HttpNextInv ==
  ASSUME IsFiniteSet(Calls)
  PROVE  HttpInv /\ [HttpNext]_httpVars => HttpInv'
<1>. SUFFICES ASSUME HttpInv, [HttpNext]_httpVars PROVE HttpInv'
     OBVIOUS
<1>1. ASSUME NEW batch \in SUBSET Calls, NEW through \in Through(batch),
             Fire(batch, through)
      PROVE  HttpInv'
  <2>1. through \in SUBSET batch
        BY <1>1 DEF Through
  <2>. QED BY <1>1, <2>1, FireStep
<1>2. ASSUME NEW c \in Calls,
             \/ Act(c) \/ Respond(c) \/ Retry(c) \/ GiveUp(c)
             \/ BreakerTimeout(c)
      PROVE  HttpInv'
      BY <1>2, GoOnStep, SucceedStep, FailStep
<1>3. CASE UNCHANGED httpVars
      BY <1>3 DEF httpVars, HttpInv, HttpTypeOK, ProbeUnderWay, Waiting, Traced
<1>. QED BY <1>1, <1>2, <1>3, ClockStep DEF HttpNext

\* The invariant holds of any client that is used through its operations.
THEOREM HttpInvariance ==
  ASSUME IsFiniteSet(Calls) PROVE HttpSpec => []HttpInv
<1>1. HttpInv /\ [HttpNext]_httpVars => HttpInv'
      BY HttpNextInv
<1>. QED BY <1>1, HttpInitInv, PTL DEF HttpSpec

\* The breaker never refuses calls for a probe nobody waits for any more.
THEOREM NeverStuck ==
  ASSUME IsFiniteSet(Calls) PROVE HttpSpec => []ProbeUnderWay
<1>1. HttpInv => ProbeUnderWay
      BY DEF HttpInv
<1>. QED BY <1>1, HttpInvariance, PTL

\* A refused call is never carried out, and an answered one was.
THEOREM AnswersReal ==
  ASSUME IsFiniteSet(Calls) PROVE HttpSpec => []AnswersTrue
<1>1. HttpInv => AnswersTrue
      BY DEF HttpInv, AnswersTrue, Traced
<1>. QED BY <1>1, HttpInvariance, PTL

-----------------------------------------------------------------------------
(* The fan-out over the client.                                            *)

SentFor(s) ==
  /\ \A c \in Contacts :
       /\ c \notin fan[s].people => call[<<s, c>>] = Unused
       /\ <<s, c>> \in acted => <<s, c>> \in texted
       /\ s \in calm /\ c \in fan[s].people => call[<<s, c>>].pc # "idle"
  /\ s \in calm => fan[s].pc \in {"sms", "done"}

Related == calm \subseteq SosIds /\ \A s \in SosIds : SentFor(s)

\* The inductive invariant: those of the parts, and what relates them.
TextsInv == IInv /\ FansHold /\ HttpInv /\ Related

\* What the texts of event s rely on in a step.
FanOnward(s) ==
  /\ fan[s].people \subseteq fan'[s].people
  /\ fan[s].pc \in {"sms", "done"} => /\ fan'[s].pc \in {"sms", "done"}
                                      /\ fan'[s].people = fan[s].people
CallOnward(t) ==
  /\ call[t] = Unused => call'[t] = Unused
  /\ call[t].pc # "idle" => call'[t].pc # "idle"

LEMMA TextIsCall == ASSUME NEW s \in SosIds, NEW c \in Contacts
                    PROVE  <<s, c>> \in Calls /\ <<s, c>> \notin OtpTexts
BY CallsAssumption

-----------------------------------------------------------------------------
(* The service, and the client, go on.                                     *)

\* Once contacts are selected they stay, whatever step of Sos comes next.
LEMMA ServiceOnward ==
  ASSUME IInv, FansHold, [Next]_vars
  PROVE  texted \subseteq texted' /\ \A s \in SosIds : FanOnward(s)
<1>. USE DEF IInv, TypeOK
<1>1. CASE UNCHANGED <<fan, texted>>
      BY <1>1 DEF FanOnward
<1>2. ASSUME NEW w \in Workers, Arrive(w) \/ Proceed(w),
             ~ \E s \in SosIds : TriggerInsert(w, s)
      PROVE  UNCHANGED <<fan, texted>>
      BY <1>2 DEF Arrive, Proceed, TriggerLock, CancelSelect, ResolveSelect,
                  TriggerSelect, TriggerInsertRejected, CancelPin, CancelWrong,
                  CancelClose, ResolveUpdate
<1>3. ASSUME NEW w \in Workers, NEW e \in SosIds, TriggerInsert(w, e)
      PROVE  texted' = texted /\ \A s \in SosIds : FanOnward(s)
  <2>1. fan[e].pc = "idle"
        BY <1>3 DEF TriggerInsert, FansHold, FanHolds, NoFan
  <2>. QED BY <1>3, <2>1 DEF TriggerInsert, FanOnward, Fan
<1>4. ASSUME NEW e \in SosIds, FanStep(e) \/ \E c \in Contacts : SmsAccepted(e, c)
      PROVE  texted \subseteq texted' /\ \A s \in SosIds : FanOnward(s)
  <2>1. \A s \in SosIds : s # e => fan'[s] = fan[s]
        BY <1>4 DEF FanStep, FanContacts, SmsAnswered, FanWrite, SmsAccepted
  <2>2. fan[e] \in Fan /\ FanHolds(e)
        BY DEF FansHold
  <2>3. FanOnward(e)
    <3>1. ASSUME NEW people \in SUBSET Contacts, FanContacts(e, people)
          PROVE  FanOnward(e)
          BY <2>2, <3>1 DEF FanContacts, FanOnward, FanHolds
    <3>2. ASSUME NEW c \in Contacts, NEW ok \in BOOLEAN, SmsAnswered(e, c, ok)
          PROVE  FanOnward(e)
          BY <2>2, <3>2 DEF SmsAnswered, FanOnward, Fan
    <3>3. CASE FanWrite(e)
          BY <2>2, <3>3 DEF FanWrite, FanOnward, Fan
    <3>4. CASE \E c \in Contacts : SmsAccepted(e, c)
          BY <3>4 DEF SmsAccepted, FanOnward
    <3>. QED BY <1>4, <3>1, <3>2, <3>3, <3>4 DEF FanStep
  <2>4. texted \subseteq texted'
        BY <1>4 DEF FanStep, FanContacts, SmsAnswered, FanWrite, SmsAccepted
  <2>. QED BY <2>1, <2>3, <2>4 DEF FanOnward
<1>5. ASSUME (\E s \in SosIds : FailFan(s)) \/ Crash
      PROVE  texted' = texted /\ \A s \in SosIds : FanOnward(s)
  <2>1. \A s \in SosIds : fan'[s] \in {fan[s], Stopped(fan[s])}
        BY <1>5 DEF FailFan, Crash
  <2>2. \A s \in SosIds : /\ fan[s] \in Fan
                          /\ Stopped(fan[s]).pc = "done"
                          /\ Stopped(fan[s]).people = fan[s].people
        BY DEF Stopped, Fan
  <2>. QED BY <1>5, <2>1, <2>2 DEF FailFan, Crash, FanOnward
<1>6. CASE Environment
      BY <1>1, <1>5, <1>6 DEF Environment, LockExpires, SetSosPin, Fail
<1>. QED BY <1>1, <1>2, <1>3, <1>4, <1>6 DEF Next, Proceed, vars

\* A call that was made stays made; without Fire none is made, without Act
\* nothing is carried out.
LEMMA ClientOnward ==
  ASSUME HttpInv,
         \/ \E t \in Calls :
              Respond(t) \/ Retry(t) \/ GiveUp(t) \/ BreakerTimeout(t)
         \/ ResetTimeout \/ Rotate \/ Die
  PROVE  acted' = acted /\ \A t \in Calls : CallOnward(t)
<1>1. \A t \in Calls : call[t] \in Call
      BY DEF HttpInv, HttpTypeOK
<1>2. CASE ResetTimeout \/ Rotate \/ Die
      BY <1>1, <1>2 DEF ResetTimeout, Rotate, Die, CallOnward, Waiting, Unused,
                        Call
<1>3. ASSUME NEW t \in Calls,
             Respond(t) \/ Retry(t) \/ GiveUp(t) \/ BreakerTimeout(t)
      PROVE  acted' = acted /\ \A d \in Calls : CallOnward(d)
  <2>1. acted' = acted /\ \A d \in Calls : d # t => call'[d] = call[d]
        BY <1>3 DEF Respond, Retry, GiveUp, BreakerTimeout, Succeed, Over,
                    HttpInv, HttpTypeOK
  <2>2. call[t] # Unused
        BY <1>3 DEF Respond, Retry, GiveUp, BreakerTimeout, InFlight, Waiting,
                    Unused
  <2>3. call[t].pc # "idle" => call'[t].pc # "idle"
        BY <1>1, <1>3 DEF Respond, Retry, GiveUp, BreakerTimeout, Succeed, Over,
                          HttpInv, HttpTypeOK, Call
  <2>. QED BY <2>1, <2>2, <2>3 DEF CallOnward
<1>. QED BY <1>2, <1>3

\* If both go on, the texts stay related to the fan-outs.
LEMMA Onward ==
  ASSUME Related, \A s \in SosIds : FanOnward(s),
         \A t \in Calls : CallOnward(t), texted \subseteq texted',
         acted' = acted, calm' = calm
  PROVE  Related'
<1>. SUFFICES ASSUME NEW s \in SosIds PROVE SentFor(s)'
     BY DEF Related
<1>1. \A c \in Contacts : CallOnward(<<s, c>>)
      BY TextIsCall
<1>. QED BY <1>1 DEF Related, SentFor, FanOnward, CallOnward

-----------------------------------------------------------------------------
(* Each step is one of the service, one of the client, or both.            *)

\* Texts are fired: of selected contacts, and all of them if the breaker is
\* closed.
LEMMA SendStep ==
  ASSUME TextsInv, NEW e \in SosIds, NEW through, SendTexts(e, through)
  PROVE  [Next]_vars /\ [HttpNext]_httpVars /\ Related'
<1>1. Batch(e) \in SUBSET Calls /\ Batch(e) \subseteq {e} \X fan[e].people
  <2>1. /\ fan[e].todo \subseteq fan[e].people
        /\ fan[e].people \subseteq Contacts
        BY DEF TextsInv, FansHold, FanHolds, IInv, TypeOK, Fan
  <2>2. Batch(e) \subseteq {e} \X fan[e].people
    <3>1. \A t \in Batch(e) : \E c \in fan[e].todo : t = <<e, c>>
          BY DEF Batch, Unsent
    <3>. QED BY <2>1, <3>1
  <2>3. {e} \X fan[e].people \subseteq Calls
        BY <2>1, CallsAssumption
  <2>. QED BY <2>2, <2>3
<1>2. UNCHANGED vars /\ HttpNext
      BY <1>1 DEF SendTexts, HttpNext, Fire
<1>3. /\ \A t \in Calls \ Batch(e) : call'[t] = call[t]
      /\ \A t \in Batch(e) : call[t] = Unused
      /\ \A t \in through : t \in Calls => call'[t].pc = "sent"
      /\ fan' = fan /\ texted' = texted /\ acted' = acted
  <2>1. through \subseteq Batch(e)
        BY DEF SendTexts, Fire, Through
  <2>. QED BY <2>1 DEF SendTexts, Fire, vars, Unused
<1>4. ASSUME NEW s \in SosIds PROVE SentFor(s)'
  <2>1. SentFor(s)
        BY DEF TextsInv, Related
  <2>2. \A c \in Contacts \ fan[s].people : call'[<<s, c>>] = call[<<s, c>>]
        BY <1>1, <1>3, TextIsCall
  <2>3. \A c \in Contacts : call[<<s, c>>].pc # "idle"
                              => call'[<<s, c>>].pc # "idle"
        BY <1>3, TextIsCall DEF Unused
  <2>4. fan[s].people \subseteq Contacts
        BY DEF TextsInv, IInv, TypeOK, Fan
  <2>5. CASE s \in calm
        BY <1>3, <2>1, <2>2, <2>3, <2>4, <2>5 DEF SentFor
  <2>6. CASE s \in calm' \ calm
    <3>1. s = e /\ breaker = "closed" /\ Batch(e) = {e} \X fan[e].people
          BY <2>6 DEF SendTexts, Batch
    <3>2. through = {e} \X fan[e].people
          BY <3>1 DEF SendTexts, Fire, Through
    <3>3. \A c \in fan[s].people : call'[<<s, c>>].pc = "sent"
          BY <1>3, <2>4, <3>1, <3>2, TextIsCall
    <3>4. fan[s].pc = "sms"
          BY <3>1 DEF SendTexts
    <3>. QED BY <1>3, <2>1, <2>2, <3>3, <3>4 DEF SentFor
  <2>7. CASE s \notin calm'
        BY <1>3, <2>1, <2>2, <2>7 DEF SentFor
  <2>. QED BY <2>5, <2>6, <2>7
<1>5. calm' \subseteq SosIds
      BY DEF SendTexts, TextsInv, Related
<1>. QED BY <1>2, <1>4, <1>5 DEF Related

\* The text of a one-time code takes part in the client only.
LEMMA OtpStep ==
  ASSUME TextsInv, NEW o \in OtpTexts, NEW through, SendOtp(o, through)
  PROVE  [Next]_vars /\ [HttpNext]_httpVars /\ Related'
<1>1. {o} \in SUBSET Calls
      BY CallsAssumption
<1>2. UNCHANGED vars /\ HttpNext
      BY <1>1 DEF SendOtp, HttpNext, Fire
<1>3. /\ \A t \in Calls \ {o} : call'[t] = call[t]
      /\ fan' = fan /\ texted' = texted /\ acted' = acted /\ calm' = calm
  <2>1. through \subseteq {o}
        BY DEF SendOtp, Fire, Through
  <2>. QED BY <2>1 DEF SendOtp, Fire, vars
<1>4. ASSUME NEW s \in SosIds PROVE SentFor(s)'
  <2>1. \A c \in Contacts : call'[<<s, c>>] = call[<<s, c>>]
        BY <1>3, TextIsCall
  <2>2. fan[s].people \subseteq Contacts
        BY DEF TextsInv, IInv, TypeOK, Fan
  <2>. QED BY <1>3, <2>1, <2>2 DEF TextsInv, Related, SentFor
<1>. QED BY <1>2, <1>3, <1>4 DEF TextsInv, Related

\* An answer is only taken for ok if the provider has accepted the text.
LEMMA SettleStep ==
  ASSUME TextsInv, NEW e \in SosIds, NEW c \in Contacts, Settle(e, c)
  PROVE  [Next]_vars /\ [HttpNext]_httpVars /\ Related'
<1>1. TakesForOk(<<e, c>>) => <<e, c>> \in texted
  <2>1. <<e, c>> \in Calls
        BY TextIsCall
  <2>2. TakesForOk(<<e, c>>) => <<e, c>> \in acted
        BY <2>1 DEF TakesForOk, TextsInv, HttpInv, Traced
  <2>. QED BY <2>2 DEF TextsInv, Related, SentFor
<1>2. SmsAnswered(e, c, TRUE) \/ SmsAnswered(e, c, FALSE)
  <2>1. CASE TakesForOk(<<e, c>>)
        BY <1>1, <2>1 DEF Settle, SmsAnswered
  <2>2. CASE ~TakesForOk(<<e, c>>)
        BY <2>2 DEF Settle, SmsAnswered
  <2>. QED BY <2>1, <2>2
<1>3. Next
      BY <1>2 DEF Next, FanStep
<1>4. \A s \in SosIds : FanOnward(s)
      BY <1>3, ServiceOnward DEF TextsInv
<1>5. UNCHANGED httpVars /\ texted' = texted /\ calm' = calm
      BY DEF Settle
<1>6. \A t \in Calls : CallOnward(t)
      BY <1>5 DEF httpVars, CallOnward
<1>. QED BY <1>3, <1>4, <1>5, <1>6, Onward DEF TextsInv, httpVars

\* A text the provider sends is one of a selected contact.
LEMMA DeliverStep ==
  ASSUME TextsInv, NEW t \in Calls, Deliver(t)
  PROVE  [Next]_vars /\ [HttpNext]_httpVars /\ Related'
<1>1. HttpNext
      BY DEF Deliver, HttpNext
<1>2. /\ fan' = fan /\ calm' = calm /\ texted \subseteq texted'
      /\ acted' = acted \cup {t} /\ call[t].pc = "sent" /\ call'[t].pc # "idle"
      /\ \A d \in Calls : d # t => call'[d] = call[d]
      BY DEF Deliver, Act, TextsInv, HttpInv, HttpTypeOK, Call
<1>3. [Next]_vars
  <2>1. CASE t \in OtpTexts
        BY <2>1 DEF Deliver, vars
  <2>2. CASE t \notin OtpTexts
    <3>1. PICK s \in SosIds, c \in Contacts : t = <<s, c>>
          BY <2>2, CallsAssumption
    <3>2. c \in fan[s].people
          BY <1>2, <3>1 DEF TextsInv, Related, SentFor, Unused
    <3>3. SmsAccepted(s, c)
          BY <2>2, <3>1, <3>2 DEF Deliver, SmsAccepted
    <3>. QED BY <3>3 DEF Next
  <2>. QED BY <2>1, <2>2
<1>4. ASSUME NEW s \in SosIds PROVE SentFor(s)'
  <2>1. SentFor(s) /\ fan[s].people \subseteq Contacts
        BY DEF TextsInv, Related, IInv, TypeOK, Fan
  <2>2. \A c \in Contacts : call[<<s, c>>] = Unused => call'[<<s, c>>] = Unused
        BY <1>2, TextIsCall DEF Unused
  <2>3. \A c \in Contacts : call[<<s, c>>].pc # "idle"
                              => call'[<<s, c>>].pc # "idle"
        BY <1>2, TextIsCall
  <2>4. \A c \in Contacts : <<s, c>> \in acted' => <<s, c>> \in texted'
        BY <1>2, <2>1, TextIsCall DEF Deliver, SentFor
  <2>. QED BY <1>2, <2>1, <2>2, <2>3, <2>4 DEF SentFor
<1>. QED BY <1>1, <1>2, <1>3, <1>4 DEF TextsInv, Related

\* Steps of the service or of the client alone, and the end of the process.
LEMMA LoneStep ==
  ASSUME TextsInv, ServiceStep \/ ClientStep \/ ProcessDies \/ UNCHANGED textsVars
  PROVE  [Next]_vars /\ [HttpNext]_httpVars /\ Related'
<1>1. [Next]_vars
      BY DEF ServiceStep, ClientStep, ProcessDies, textsVars, Next, FanStep,
             Environment
<1>2. [HttpNext]_httpVars
      BY DEF ServiceStep, ClientStep, ProcessDies, textsVars, HttpNext
<1>3. texted \subseteq texted' /\ \A s \in SosIds : FanOnward(s)
      BY <1>1, ServiceOnward DEF TextsInv
<1>4. acted' = acted /\ \A t \in Calls : CallOnward(t)
  <2>1. CASE UNCHANGED httpVars
        BY <2>1 DEF httpVars, CallOnward
  <2>2. CASE ClientStep \/ ProcessDies
        BY <2>2, ClientOnward DEF ClientStep, ProcessDies, TextsInv
  <2>. QED BY <2>1, <2>2 DEF ServiceStep, textsVars
<1>5. calm' = calm
      BY DEF ServiceStep, ClientStep, ProcessDies, textsVars
<1>. QED BY <1>1, <1>2, <1>3, <1>4, <1>5, Onward DEF TextsInv

-----------------------------------------------------------------------------
(* Results.                                                                *)

LEMMA TextsInitInv == TextsInit => TextsInv /\ Init
<1>. SUFFICES ASSUME TextsInit PROVE Related
     BY InitIInv, InitFans, HttpInitInv DEF TextsInit, TextsInv
<1>. QED BY TextIsCall DEF TextsInit, HttpInit, Init, Related, SentFor

LEMMA TextsNextInv ==
  ASSUME IsFiniteSet(Calls)
  PROVE  TextsInv /\ [TextsNext]_textsVars => TextsInv' /\ [Next]_vars
<1>. SUFFICES ASSUME TextsInv, [TextsNext]_textsVars
              PROVE  TextsInv' /\ [Next]_vars
     OBVIOUS
<1>1. [Next]_vars /\ [HttpNext]_httpVars /\ Related'
      BY SendStep, OtpStep, SettleStep, DeliverStep, LoneStep DEF TextsNext
<1>2. IInv' /\ FansHold'
      BY <1>1, NextIInv, NextFans DEF TextsInv
<1>3. HttpInv'
      BY <1>1, HttpNextInv DEF TextsInv
<1>. QED BY <1>1, <1>2, <1>3 DEF TextsInv

THEOREM TextsInvariance == ASSUME IsFiniteSet(Calls)
                           PROVE  TextsSpec => []TextsInv
<1>1. TextsInv /\ [TextsNext]_textsVars => TextsInv'
      BY TextsNextInv
<1>. QED BY <1>1, TextsInitInv, PTL DEF TextsSpec

\* Whatever provider, retries, timeouts and breaker do to the texts, the service
\* sees what Sos allows: what is proved of Sos holds here.
THEOREM TextsImplementSos == ASSUME IsFiniteSet(Calls)
                             PROVE  TextsSpec => ImplementsSos
<1>1. TextsInv /\ [TextsNext]_textsVars => [Next]_vars
      BY TextsNextInv
<1>. QED BY <1>1, TextsInitInv, TextsInvariance, PTL
         DEF TextsSpec, ImplementsSos, Spec

\* Texts that go out with the breaker closed are not refused, however many of
\* their event fail.
THEOREM TextsIsolated == ASSUME IsFiniteSet(Calls)
                         PROVE  TextsSpec => []FailuresIsolated
<1>1. TextsInv => FailuresIsolated
  <2>. SUFFICES ASSUME TextsInv, NEW s \in calm, NEW c \in Contacts
                PROVE  call[<<s, c>>].answer # "CIRCUIT_OPEN"
       BY DEF FailuresIsolated, Texts
  <2>. s \in SosIds
       BY DEF TextsInv, Related
  <2>1. CASE c \in fan[s].people
        BY <2>1, TextIsCall DEF TextsInv, Related, SentFor, HttpInv, Traced
  <2>2. CASE c \notin fan[s].people
        BY <2>2 DEF TextsInv, Related, SentFor, Unused
  <2>. QED BY <2>1, <2>2
<1>. QED BY <1>1, TextsInvariance, PTL

\* The breaker all texts share does not refuse them for a probe nobody waits for.
THEOREM TextsNeverStuck == ASSUME IsFiniteSet(Calls)
                           PROVE  TextsSpec => []ProbeUnderWay
<1>1. TextsInv => ProbeUnderWay
      BY DEF TextsInv, HttpInv
<1>. QED BY <1>1, TextsInvariance, PTL
=============================================================================
