---------------------------- MODULE TokensProofs ----------------------------
(***************************************************************************)
(* What RefreshTokens keeps for any number of users, tokens and requests   *)
(* in flight.  The strengthening says what a handler knows of the token it *)
(* was given: past its update the token is dead, and since a dead token is *)
(* never selected again, the requests that may still add a successor only  *)
(* become fewer.  At the end, that all this amounts to Sessions: owners    *)
(* stay, and a successor has the owner of the token it was exchanged for.  *)
(***************************************************************************)
EXTENDS RefreshTokens, FiniteSetTheorems, TLAPS

Dead == {"revoked", "deleted"}

\* What a handler knows of the token it was given.
Knows(w) ==
  /\ req[w].pc \in {"revoke", "user", "logout"} => req[w].token \in TokenIds
  /\ req[w].pc \in {"revoke", "logout"} => row[req[w].token].state # "absent"
  /\ req[w].pc \in {"user", "insert"} /\ req[w].token # None
       => row[req[w].token].state \in Dead

RequestsHold == \A w \in Workers : Knows(w)

\* Only a token that was handed out grows old; one with a logout that went
\* through is dead.
RowsHold ==
  /\ \A t \in TokenIds : row[t].expired => row[t].state # "absent"
  /\ \A t \in loggedOut \ swallowed : row[t].state \in Dead

TInv == TypeOK /\ RequestsHold /\ RowsHold /\ ExchangedIsDead

\* A row that is there stays there, the same one; a dead one stays dead.
RowsKept ==
  \A t \in TokenIds :
    /\ row'[t].state = "absent" <=> row[t].state = "absent"
    /\ row'[t].parent = row[t].parent
    /\ row[t].state \in Dead => row'[t].state \in Dead
    /\ row'[t].expired => row'[t].state # "absent"

-----------------------------------------------------------------------------
(* Rows.                                                                   *)

\* The update of revoked_at, the passing of time and the nightly job.
LEMMA RevokedRow ==
  ASSUME TypeOK, RowsHold, NEW t \in TokenIds, row' = Revoked(t)
  PROVE  /\ row' \in [TokenIds -> Row] /\ RowsKept
         /\ row[t].state # "absent" => row'[t].state \in Dead
         /\ \A x \in TokenIds : x # t => row'[x] = row[x]
<1>1. /\ row'[t] = [row[t] EXCEPT !.state = IF row[t].state = "valid"
                                           THEN "revoked" ELSE row[t].state]
      /\ \A x \in TokenIds : x # t => row'[x] = row[x]
      /\ row' \in [TokenIds -> Row]
      BY DEF TypeOK, Revoked, Row
<1>2. /\ row'[t].state = IF row[t].state = "valid" THEN "revoked"
                                                   ELSE row[t].state
      /\ row'[t].parent = row[t].parent
      /\ row'[t].expired = row[t].expired
      BY <1>1 DEF TypeOK, Row
<1>3. row[t].state \in {"absent", "valid", "revoked", "deleted"}
      BY DEF TypeOK, Row
<1>. QED BY <1>1, <1>2, <1>3 DEF RowsKept, RowsHold, Dead

LEMMA AgedRow ==
  ASSUME TypeOK, RowsHold, Cleanup \/ \E t \in TokenIds : Expire(t)
  PROVE  row' \in [TokenIds -> Row] /\ RowsKept
<1>1. CASE Cleanup
  <2>1. ASSUME NEW x \in TokenIds
        PROVE  /\ row'[x] \in Row /\ row'[x].parent = row[x].parent
               /\ \/ row'[x] = row[x]
                  \/ row[x].expired /\ row'[x].state = "deleted"
        BY <1>1 DEF TypeOK, Cleanup, Row
  <2>2. row' \in [TokenIds -> Row]
        BY <1>1, <2>1 DEF Cleanup
  <2>. QED BY <2>1, <2>2 DEF RowsKept, RowsHold, Dead
<1>2. ASSUME NEW t \in TokenIds, Expire(t)
      PROVE  row' \in [TokenIds -> Row] /\ RowsKept
      BY <1>2 DEF TypeOK, Expire, Row, RowsKept, RowsHold
<1>. QED BY <1>1, <1>2

-----------------------------------------------------------------------------
(* The invariant.                                                          *)

\* Requests that go on, begin or end around rows that are kept.
LEMMA KeptStep ==
  ASSUME TInv, RowsKept, row' \in [TokenIds -> Row],
         req' \in [Workers -> Request], faults' \in 0..MaxFaults,
         loggedOut' \subseteq TokenIds, swallowed' \subseteq loggedOut',
         \A t \in loggedOut' \ swallowed' :
           t \in loggedOut \ swallowed \/ row'[t].state \in Dead,
         \A x \in Workers : req'[x] = req[x] \/ req'[x] = Idle \/ Knows(x)'
  PROVE  TInv' /\ \A t \in TokenIds : Children(t)' = Children(t)
<1>. USE DEF TInv
<1>1. RequestsHold'
  <2>1. ASSUME NEW x \in Workers, req'[x] = Idle PROVE Knows(x)'
        BY <2>1 DEF Knows, Idle
  <2>2. ASSUME NEW x \in Workers, req'[x] = req[x] PROVE Knows(x)'
    <3>1. Knows(x) /\ req[x].token \in TokenIds \cup {None}
          BY DEF RequestsHold, TypeOK, Request
    <3>. QED BY <2>2, <3>1 DEF Knows, RowsKept
  <2>. QED BY <2>1, <2>2 DEF RequestsHold
<1>2. RowsHold'
      BY DEF RowsHold, RowsKept, TypeOK
<1>3. \A t \in TokenIds : Children(t)' = Children(t)
      BY DEF RowsKept, Children
<1>4. ExchangedIsDead'
      BY <1>3 DEF ExchangedIsDead, RowsKept, Dead
<1>. QED BY <1>1, <1>2, <1>3, <1>4 DEF TypeOK

\* Every step but the insert is of that kind.
LEMMA NoInsertStep ==
  ASSUME TInv, [Next]_vars,
         ~\E w \in Workers, t \in TokenIds : IssueInsert(w, t)
  PROVE  TInv' /\ \A t \in TokenIds : Children(t)' = Children(t)
<1>. DEFINE Goal == TInv' /\ \A t \in TokenIds : Children(t)' = Children(t)
<1>0. /\ row \in [TokenIds -> Row] /\ req \in [Workers -> Request]
      /\ loggedOut \subseteq TokenIds /\ swallowed \subseteq loggedOut
      /\ faults \in 0..MaxFaults
      BY DEF TInv, TypeOK
<1>a. row' = row => RowsKept
      BY DEF RowsKept, TInv, RowsHold
<1>b. ASSUME NEW w \in Workers, NEW q \in Request, Accept(w, q),
             UNCHANGED <<row, loggedOut, swallowed, faults>>, Knows(w)'
      PROVE  Goal
  <2>1. req' \in [Workers -> Request] /\ \A x \in Workers : x # w => req'[x] = req[x]
        BY <1>0, <1>b DEF Accept
  <2>. QED BY <1>0, <1>a, <1>b, <2>1, KeptStep
<1>c. ASSUME NEW w \in Workers, Done(w)
      PROVE  /\ req' \in [Workers -> Request]
             /\ \A x \in Workers : req'[x] = req[x] \/ req'[x] = Idle
      BY <1>0, <1>c DEF Done, Idle, Request, Steps
<1>d. ASSUME NEW w \in Workers, NEW pc \in Steps, Goto(w, pc)
      PROVE  /\ req' \in [Workers -> Request]
             /\ req'[w].pc = pc /\ req'[w].token = req[w].token
             /\ \A x \in Workers : x # w => req'[x] = req[x]
      BY <1>0, <1>d DEF Goto, Request
<1>1. ASSUME NEW w \in Workers, NEW u \in Users, Login(w, u)
      PROVE  Goal
  <2>. DEFINE q == [pc |-> "insert", user |-> u, token |-> None]
  <2>1. q \in Request /\ Accept(w, q) /\ UNCHANGED <<row, loggedOut, swallowed, faults>>
        BY <1>1 DEF Login, Request, Steps
  <2>2. req'[w] = q
        BY <1>0, <2>1 DEF Accept
  <2>3. Knows(w)'
        BY <2>2 DEF Knows
  <2>. QED BY <1>b, <2>1, <2>3
<1>2. ASSUME NEW w \in Workers, NEW u \in Users, NEW t \in TokenIds,
             LogoutArrive(w, u, t)
      PROVE  Goal
  <2>. DEFINE q == [pc |-> "logout", user |-> u, token |-> t]
  <2>1. /\ q \in Request /\ Accept(w, q) /\ UNCHANGED <<row, loggedOut, swallowed, faults>>
        /\ row[t].state # "absent"
        BY <1>2 DEF LogoutArrive, Request, Steps
  <2>2. req'[w] = q
        BY <1>0, <2>1 DEF Accept
  <2>3. Knows(w)'
        BY <2>1, <2>2 DEF Knows
  <2>. QED BY <1>b, <2>1, <2>3
<1>3. ASSUME NEW w \in Workers, NEW t \in TokenIds, RefreshSelect(w, t)
      PROVE  Goal
  <2>. DEFINE q == [pc |-> "revoke", user |-> row[t].user, token |-> t]
  <2>1. /\ q \in Request /\ Accept(w, q) /\ UNCHANGED <<row, loggedOut, swallowed, faults>>
        /\ row[t].state # "absent"
        BY <1>0, <1>3 DEF RefreshSelect, Request, Steps, Row
  <2>2. req'[w] = q
        BY <1>0, <2>1 DEF Accept
  <2>3. Knows(w)'
        BY <2>1, <2>2 DEF Knows
  <2>. QED BY <1>b, <2>1, <2>3
<1>4. ASSUME NEW w \in Workers, RefreshRevoke(w)
      PROVE  Goal
  <2>. DEFINE t == req[w].token
  <2>1. /\ t \in TokenIds /\ row[t].state # "absent" /\ row' = Revoked(t)
        /\ Goto(w, "user") /\ UNCHANGED <<loggedOut, swallowed, faults>>
        BY <1>4 DEF RefreshRevoke, At, TInv, RequestsHold, Knows
  <2>2. RowsKept /\ row' \in [TokenIds -> Row] /\ row'[t].state \in Dead
        BY <2>1, RevokedRow DEF TInv
  <2>3. /\ req' \in [Workers -> Request]
        /\ req'[w].pc = "user" /\ req'[w].token = t
        /\ \A x \in Workers : x # w => req'[x] = req[x]
        BY <1>d, <2>1 DEF Steps
  <2>4. Knows(w)'
        BY <2>1, <2>2, <2>3 DEF Knows
  <2>. QED BY <1>0, <2>1, <2>2, <2>3, <2>4, KeptStep
<1>5. ASSUME NEW w \in Workers, RefreshUser(w)
      PROVE  Goal
  <2>1. /\ req[w].pc = "user" /\ Goto(w, "insert")
        /\ UNCHANGED <<row, loggedOut, swallowed, faults>>
        BY <1>5 DEF RefreshUser, At
  <2>2. /\ req' \in [Workers -> Request]
        /\ req'[w].pc = "insert" /\ req'[w].token = req[w].token
        /\ \A x \in Workers : x # w => req'[x] = req[x]
        BY <1>d, <2>1 DEF Steps
  <2>3. Knows(w)'
        BY <2>1, <2>2 DEF Knows, TInv, RequestsHold
  <2>. QED BY <1>0, <1>a, <2>1, <2>2, <2>3, KeptStep
<1>6. ASSUME NEW w \in Workers, LogoutUpdate(w)
      PROVE  Goal
  <2>. DEFINE t == req[w].token
  <2>1. /\ t \in TokenIds /\ row[t].state # "absent"
        /\ Done(w) /\ UNCHANGED faults
        BY <1>6 DEF LogoutUpdate, At, TInv, RequestsHold, Knows
  <2>2. CASE Answered(w) # {}
    <3>1. /\ row' = Revoked(t)
          /\ loggedOut' = loggedOut \cup {t} /\ swallowed' = swallowed \ {t}
          BY <1>6, <2>2 DEF LogoutUpdate, Answered
    <3>2. RowsKept /\ row' \in [TokenIds -> Row] /\ row'[t].state \in Dead
          BY <2>1, <3>1, RevokedRow DEF TInv
    <3>. QED BY <1>0, <1>c, <2>1, <3>1, <3>2, KeptStep
  <2>3. CASE Answered(w) = {}
    <3>1. UNCHANGED <<row, loggedOut, swallowed>>
          BY <1>6, <2>3 DEF LogoutUpdate
    <3>. QED BY <1>0, <1>a, <1>c, <2>1, <3>1, KeptStep
  <2>. QED BY <2>2, <2>3
<1>10. ASSUME NEW w \in Workers, LogoutSwallowed(w)
       PROVE  Goal
  <2>1. req[w].token \in TokenIds
        BY <1>10 DEF LogoutSwallowed, At, TInv, RequestsHold, Knows
  <2>2. /\ Done(w) /\ row' = row /\ faults' \in 0..MaxFaults
        BY <1>0, <1>10, FaultsAssumption DEF LogoutSwallowed
  <2>3. /\ loggedOut' \subseteq TokenIds /\ swallowed' \subseteq loggedOut'
        /\ loggedOut' \ swallowed' = loggedOut \ swallowed
        BY <1>0, <1>10, <2>1 DEF LogoutSwallowed, Answered
  <2>. QED BY <1>0, <1>a, <1>c, <2>2, <2>3, KeptStep
<1>7. ASSUME NEW w \in Workers, Fail(w)
      PROVE  Goal
  <2>1. /\ Done(w) /\ UNCHANGED <<row, loggedOut, swallowed>>
        /\ faults' \in 0..MaxFaults
        BY <1>0, <1>7, FaultsAssumption DEF Fail
  <2>. QED BY <1>0, <1>a, <1>c, <2>1, KeptStep
<1>8. CASE Cleanup \/ \E t \in TokenIds : Expire(t)
  <2>1. RowsKept /\ row' \in [TokenIds -> Row]
        BY <1>8, AgedRow DEF TInv
  <2>2. UNCHANGED <<loggedOut, swallowed, req, faults>>
        BY <1>8 DEF Cleanup, Expire
  <2>. QED BY <1>0, <2>1, <2>2, KeptStep
<1>9. CASE UNCHANGED vars
      BY <1>0, <1>a, <1>9, KeptStep DEF vars
<1>. QED BY <1>1, <1>2, <1>3, <1>4, <1>5, <1>6, <1>7, <1>8, <1>9, <1>10
         DEF Next

\* The insert adds one successor to a token that is dead already.
LEMMA InsertStep ==
  ASSUME TInv, NEW w \in Workers, NEW c \in TokenIds, IssueInsert(w, c)
  PROVE  /\ TInv'
         /\ \A t \in TokenIds :
              Children(t)' = IF t = req[w].token THEN Children(t) \cup {c}
                                                 ELSE Children(t)
<1>. USE DEF TInv
<1>. DEFINE new == [user |-> req[w].user, parent |-> req[w].token,
                    state |-> "valid", expired |-> FALSE]
<1>1. /\ req[w].pc = "insert" /\ row[c].state = "absent"
      /\ row' = [row EXCEPT ![c] = new] /\ Done(w)
      /\ UNCHANGED <<loggedOut, swallowed, faults>>
      BY DEF IssueInsert, At
<1>2. new \in Row
      BY DEF TypeOK, Request, Row
<1>3. /\ row' \in [TokenIds -> Row] /\ row'[c] = new
      /\ \A x \in TokenIds : x # c => row'[x] = row[x]
      BY <1>1, <1>2 DEF TypeOK
<1>4. /\ req' \in [Workers -> Request]
      /\ \A x \in Workers : req'[x] = req[x] \/ req'[x] = Idle
      BY <1>1 DEF TypeOK, Done, Idle, Request, Steps
<1>5. req[w].token # None => /\ req[w].token \in TokenIds
                             /\ row[req[w].token].state \in Dead
      BY <1>1 DEF RequestsHold, Knows, TypeOK, Request
<1>6. \A t \in TokenIds :
        Children(t)' = IF t = req[w].token THEN Children(t) \cup {c}
                                           ELSE Children(t)
      BY <1>1, <1>3 DEF Children
<1>7. RequestsHold'
  <2>1. ASSUME NEW x \in Workers, req'[x] = Idle PROVE Knows(x)'
        BY <2>1 DEF Knows, Idle
  <2>2. ASSUME NEW x \in Workers, req'[x] = req[x] PROVE Knows(x)'
    <3>1. Knows(x) /\ req[x].token \in TokenIds \cup {None}
          BY DEF RequestsHold, TypeOK, Request
    <3>. QED BY <1>1, <1>3, <2>2, <3>1 DEF Knows, Dead
  <2>. QED BY <1>4, <2>1, <2>2 DEF RequestsHold
<1>8. RowsHold'
      BY <1>1, <1>3 DEF RowsHold, TypeOK, Dead
<1>9. ExchangedIsDead'
  <2>1. ASSUME NEW t \in TokenIds, Children(t)' # {}
        PROVE  row[t].state \in Dead
        BY <1>5, <1>6, <2>1, NoneAssumption DEF ExchangedIsDead, Dead
  <2>2. \A t \in TokenIds : row[t].state \in Dead => row'[t].state \in Dead
        BY <1>1, <1>3 DEF Dead
  <2>. QED BY <2>1, <2>2 DEF ExchangedIsDead, Dead
<1>. QED BY <1>1, <1>3, <1>4, <1>6, <1>7, <1>8, <1>9 DEF TypeOK

LEMMA InitTInv == Init => TInv
BY FaultsAssumption
   DEF Init, TInv, TypeOK, RequestsHold, Knows, RowsHold, ExchangedIsDead,
       Children, NoRow, Idle, Row, Request, Steps

LEMMA NextTInv == TInv /\ [Next]_vars => TInv'
BY NoInsertStep, InsertStep

\* The types and what the handlers know of their tokens.
THEOREM TokensInvariance == Spec => []TInv
BY InitTInv, NextTInv, PTL DEF Spec

\* A token whose successor exists can never be exchanged again.
THEOREM ExchangedForGood == Spec => []ExchangedIsDead
BY TokensInvariance, PTL DEF TInv

-----------------------------------------------------------------------------
(* How many requests may still add a successor.                            *)

Refreshers(t) == {w \in Workers : /\ req[w].token = t
                                  /\ req[w].pc \in {"revoke", "user", "insert"}}

\* The requests that may add a successor of a token become fewer, unless one
\* has just selected it: the token was valid then.
LEMMA RefreshersStep ==
  ASSUME TInv, [Next]_vars, NEW t \in TokenIds
  PROVE  \/ Refreshers(t)' \subseteq Refreshers(t)
         \/ row[t].state = "valid" /\ Children(t)' = Children(t)
<1>0. /\ req \in [Workers -> Request] /\ t # None
      BY NoneAssumption DEF TInv, TypeOK
<1>1. ASSUME NEW w \in Workers, NEW u \in Users, Login(w, u)
      PROVE  Refreshers(t)' \subseteq Refreshers(t)
      BY <1>0, <1>1 DEF Login, Accept, Refreshers
<1>2. ASSUME NEW w \in Workers, NEW u \in Users, NEW x \in TokenIds,
             LogoutArrive(w, u, x)
      PROVE  Refreshers(t)' \subseteq Refreshers(t)
      BY <1>0, <1>2 DEF LogoutArrive, Accept, Refreshers
<1>3. ASSUME NEW w \in Workers, NEW x \in TokenIds, RefreshSelect(w, x)
      PROVE  \/ Refreshers(t)' \subseteq Refreshers(t)
             \/ row[t].state = "valid" /\ Children(t)' = Children(t)
  <2>1. CASE x = t
        BY <1>3, <2>1 DEF RefreshSelect, Children
  <2>2. CASE x # t
        BY <1>0, <1>3, <2>2 DEF RefreshSelect, Accept, Refreshers
  <2>. QED BY <2>1, <2>2
<1>4. ASSUME NEW w \in Workers, NEW x \in TokenIds, IssueInsert(w, x)
      PROVE  Refreshers(t)' \subseteq Refreshers(t)
      BY <1>0, <1>4 DEF IssueInsert, Done, Idle, Refreshers
<1>5. ASSUME NEW w \in Workers, RefreshRevoke(w)
      PROVE  Refreshers(t)' \subseteq Refreshers(t)
      BY <1>0, <1>5 DEF RefreshRevoke, At, Goto, Refreshers, Request
<1>6. ASSUME NEW w \in Workers, RefreshUser(w)
      PROVE  Refreshers(t)' \subseteq Refreshers(t)
      BY <1>0, <1>6 DEF RefreshUser, At, Goto, Refreshers, Request
<1>7. ASSUME NEW w \in Workers,
             LogoutUpdate(w) \/ LogoutSwallowed(w) \/ Fail(w)
      PROVE  Refreshers(t)' \subseteq Refreshers(t)
      BY <1>0, <1>7 DEF LogoutUpdate, LogoutSwallowed, Fail, Done, Idle,
                        Refreshers
<1>8. CASE Cleanup \/ (\E x \in TokenIds : Expire(x)) \/ UNCHANGED vars
      BY <1>8 DEF Cleanup, Expire, vars, Refreshers
<1>. QED BY <1>1, <1>2, <1>3, <1>4, <1>5, <1>6, <1>7, <1>8 DEF Next

\* Successors there are, and successors there may yet be.
SuccessorsHold ==
  \A t \in TokenIds :
    /\ IsFiniteSet(Children(t))
    /\ Cardinality(Children(t)) + Cardinality(Refreshers(t))
         <= Cardinality(Workers)

LEMMA RefreshersFinite ==
  ASSUME IsFiniteSet(Workers), NEW S, S \subseteq Workers
  PROVE  /\ IsFiniteSet(S)
         /\ Cardinality(S) \in Nat /\ Cardinality(Workers) \in Nat
         /\ Cardinality(S) <= Cardinality(Workers)
BY FS_Subset, FS_CardinalityType

LEMMA SuccessorsStep ==
  ASSUME IsFiniteSet(Workers), TInv, SuccessorsHold, [Next]_vars
  PROVE  SuccessorsHold'
<1>. SUFFICES ASSUME NEW t \in TokenIds
     PROVE  /\ IsFiniteSet(Children(t)')
            /\ Cardinality(Children(t)') + Cardinality(Refreshers(t)')
                 <= Cardinality(Workers)
     BY DEF SuccessorsHold
<1>0. /\ IsFiniteSet(Children(t)) /\ Cardinality(Children(t)) \in Nat
      /\ Cardinality(Children(t)) + Cardinality(Refreshers(t))
           <= Cardinality(Workers)
      BY FS_CardinalityType DEF SuccessorsHold
<1>1. /\ Refreshers(t) \subseteq Workers /\ Refreshers(t)' \subseteq Workers
      BY DEF Refreshers
<1>2. /\ IsFiniteSet(Refreshers(t)) /\ Cardinality(Refreshers(t)) \in Nat
      /\ Cardinality(Refreshers(t)') \in Nat /\ Cardinality(Workers) \in Nat
      /\ Cardinality(Refreshers(t)') <= Cardinality(Workers)
      BY <1>1, RefreshersFinite
<1>3. Refreshers(t)' \subseteq Refreshers(t)
        => Cardinality(Refreshers(t)') <= Cardinality(Refreshers(t))
      BY <1>2, FS_Subset
<1>4. CASE \E w \in Workers, c \in TokenIds : IssueInsert(w, c) /\ req[w].token = t
  <2>1. PICK w \in Workers, c \in TokenIds :
               IssueInsert(w, c) /\ req[w].token = t
        BY <1>4
  <2>2. Children(t)' = Children(t) \cup {c}
        BY <2>1, InsertStep
  <2>3. /\ w \in Refreshers(t)
        /\ Refreshers(t)' \subseteq Refreshers(t) \ {w}
    <3>1. w \in Refreshers(t)
          BY <2>1 DEF IssueInsert, At, Refreshers
    <3>2. /\ req'[w] = Idle
          /\ \A x \in Workers : x # w => req'[x] = req[x]
          BY <2>1 DEF IssueInsert, Done, TInv, TypeOK
    <3>. QED BY <3>1, <3>2 DEF Refreshers, Idle
  <2>4. /\ IsFiniteSet(Refreshers(t) \ {w})
        /\ Cardinality(Refreshers(t) \ {w}) = Cardinality(Refreshers(t)) - 1
        BY <1>2, <2>3, FS_RemoveElement
  <2>5. Cardinality(Refreshers(t)') <= Cardinality(Refreshers(t)) - 1
        BY <2>3, <2>4, FS_Subset
  <2>6. /\ IsFiniteSet(Children(t) \cup {c})
        /\ Cardinality(Children(t) \cup {c}) \in Nat
        /\ Cardinality(Children(t) \cup {c}) <= Cardinality(Children(t)) + 1
    <3>1. /\ IsFiniteSet(Children(t) \cup {c})
          /\ \/ Cardinality(Children(t) \cup {c}) = Cardinality(Children(t))
             \/ Cardinality(Children(t) \cup {c}) = Cardinality(Children(t)) + 1
          BY <1>0, FS_AddElement
    <3>. QED BY <1>0, <3>1
  <2>. QED BY <1>0, <1>2, <2>2, <2>5, <2>6
<1>5. CASE ~\E w \in Workers, c \in TokenIds :
              IssueInsert(w, c) /\ req[w].token = t
  <2>1. Children(t)' = Children(t)
        BY <1>5, InsertStep, NoInsertStep
  <2>2. CASE Refreshers(t)' \subseteq Refreshers(t)
        BY <1>0, <1>2, <1>3, <2>1, <2>2
  <2>3. CASE row[t].state = "valid"
    <3>1. Children(t) = {}
          BY <2>3 DEF TInv, ExchangedIsDead
    <3>2. Cardinality(Children(t)) = 0
          BY <3>1, FS_EmptySet
    <3>. QED BY <1>0, <1>2, <2>1, <3>2
  <2>. QED BY <2>2, <2>3, RefreshersStep
<1>. QED BY <1>4, <1>5

\* A token has no more successors than there are requests that may have selected
\* it before the first of them revoked it.
THEOREM BoundedSuccessors ==
  ASSUME IsFiniteSet(Workers)
  PROVE  Spec => []SuccessorsBounded
<1>1. ASSUME Init PROVE SuccessorsHold
  <2>1. \A t \in TokenIds : Children(t) = {} /\ Refreshers(t) = {}
        BY <1>1 DEF Init, Children, Refreshers, NoRow, Idle
  <2>2. Cardinality({}) = 0 /\ IsFiniteSet({}) /\ Cardinality(Workers) \in Nat
        BY FS_EmptySet, FS_CardinalityType
  <2>. QED BY <2>1, <2>2 DEF SuccessorsHold
<1>2. TInv /\ SuccessorsHold /\ [Next]_vars => SuccessorsHold'
      BY SuccessorsStep
<1>3. SuccessorsHold => SuccessorsBounded
  <2>1. ASSUME SuccessorsHold, NEW t \in TokenIds
        PROVE  Cardinality(Children(t)) <= Cardinality(Workers)
    <3>1. /\ Cardinality(Children(t)) \in Nat
          /\ Cardinality(Children(t)) + Cardinality(Refreshers(t))
               <= Cardinality(Workers)
          BY <2>1, FS_CardinalityType DEF SuccessorsHold
    <3>2. Cardinality(Refreshers(t)) \in Nat /\ Cardinality(Workers) \in Nat
          BY RefreshersFinite DEF Refreshers
    <3>. QED BY <3>1, <3>2
  <2>. QED BY <2>1 DEF SuccessorsBounded
<1>. QED BY <1>1, <1>2, <1>3, TokensInvariance, PTL DEF Spec

-----------------------------------------------------------------------------
(* Logout, and why tokens are revoked.                                     *)

LEMMA LogoutStep ==
  ASSUME TInv, [Next]_vars, NEW t \in loggedOut \ swallowed, ~Refreshing(t)
  PROVE  ~Refreshing(t)' /\ Children(t)' = Children(t)
<1>1. t \in TokenIds /\ row[t].state \in Dead
      BY DEF TInv, TypeOK, RowsHold
<1>2. Refreshers(t) = {}
      BY DEF Refreshing, Refreshers
<1>3. Refreshers(t)' = {}
      BY <1>1, <1>2, RefreshersStep DEF Dead
<1>4. ~Refreshing(t)'
      BY <1>3 DEF Refreshing, Refreshers
<1>5. ASSUME NEW w \in Workers, NEW c \in TokenIds, IssueInsert(w, c)
      PROVE  req[w].token # t
      BY <1>2, <1>5 DEF IssueInsert, At, Refreshers
<1>. QED BY <1>1, <1>4, <1>5, InsertStep, NoInsertStep

\* A token with a logout that went through brings forth no successor, once the
\* refreshes that had selected it are through.
THEOREM LoggedOutForGood == Spec => LogoutIsFinal
<1>1. TInv /\ [Next]_vars =>
        [\A t \in loggedOut \ swallowed : ~Refreshing(t) =>
           ~Refreshing(t)' /\ Children(t)' = Children(t)]_vars
      BY LogoutStep
<1>. QED BY <1>1, TokensInvariance, PTL DEF Spec, LogoutIsFinal

\* Why a token may be revoked, while nothing has failed: its user logged out, it
\* has a successor, or a request has just revoked it and goes on to add one.
Refresher(t) ==
  \E w \in Workers : req[w].token = t /\ req[w].pc \in {"user", "insert"}

ReasonsHold ==
  faults = 0 => \A t \in TokenIds : row[t].state = "revoked" =>
                  t \in loggedOut \/ Children(t) # {} \/ Refresher(t)

LEMMA ReasonsStep == TInv /\ ReasonsHold /\ [Next]_vars => ReasonsHold'
<1>. SUFFICES ASSUME TInv, ReasonsHold, [Next]_vars, faults' = 0,
                     NEW t \in TokenIds, row'[t].state = "revoked"
     PROVE  t \in loggedOut' \/ Children(t)' # {} \/ Refresher(t)'
     BY DEF ReasonsHold
<1>. DEFINE Goal == t \in loggedOut' \/ Children(t)' # {} \/ Refresher(t)'
            Was == t \in loggedOut \/ Children(t) # {} \/ Refresher(t)
<1>0. /\ req \in [Workers -> Request] /\ row \in [TokenIds -> Row]
      /\ t # None /\ faults \in Nat
      BY NoneAssumption, FaultsAssumption DEF TInv, TypeOK
<1>a. ASSUME faults = 0, row[t].state = "revoked" PROVE Was
      BY <1>a DEF ReasonsHold
\* Somebody else's request is under way as before.
<1>c. ASSUME NEW w \in Workers, \A x \in Workers : x # w => req'[x] = req[x],
             req[w].token = t => req[w].pc \notin {"user", "insert"}
      PROVE  Refresher(t) => Refresher(t)'
      BY <1>c DEF Refresher
<1>1. ASSUME NEW w \in Workers,
             \/ \E u \in Users : \/ Login(w, u)
                                 \/ \E x \in TokenIds : LogoutArrive(w, u, x)
             \/ \E x \in TokenIds : RefreshSelect(w, x)
      PROVE  Goal
  <2>1. /\ UNCHANGED <<row, loggedOut, swallowed, faults>> /\ req[w].pc = "idle"
        /\ \A x \in Workers : x # w => req'[x] = req[x]
        BY <1>0, <1>1 DEF Login, LogoutArrive, RefreshSelect, Accept
  <2>2. Children(t)' = Children(t)
        BY <2>1 DEF Children
  <2>. QED BY <1>a, <1>c, <2>1, <2>2
<1>2. ASSUME NEW w \in Workers, NEW c \in TokenIds, IssueInsert(w, c)
      PROVE  Goal
  <2>1. /\ UNCHANGED <<loggedOut, swallowed, faults>> /\ req[w].pc = "insert"
        /\ \A x \in Workers : x # w => req'[x] = req[x]
        /\ t # c /\ row'[t] = row[t]
        BY <1>0, <1>2 DEF IssueInsert, Done, At
  <2>2. req[w].token = t => Children(t)' # {}
        BY <1>2, InsertStep
  <2>3. req[w].token # t => Children(t)' = Children(t)
        BY <1>2, InsertStep
  <2>. QED BY <1>a, <1>c, <2>1, <2>2, <2>3
<1>3. ASSUME NEW w \in Workers, RefreshRevoke(w)
      PROVE  Goal
  <2>1. /\ UNCHANGED <<loggedOut, swallowed, faults>> /\ row' = Revoked(req[w].token)
        /\ req[w].pc = "revoke" /\ req'[w].pc = "user"
        /\ req'[w].token = req[w].token
        /\ \A x \in Workers : x # w => req'[x] = req[x]
        BY <1>0, <1>3 DEF RefreshRevoke, Goto, At, Request
  <2>2. CASE req[w].token = t
        BY <2>1, <2>2 DEF Refresher
  <2>3. CASE req[w].token # t
    <3>1. row'[t] = row[t]
          BY <1>0, <2>1, <2>3 DEF Revoked
    <3>2. Children(t)' = Children(t)
      <4>1. req[w].token \in TokenIds
            BY <2>1 DEF TInv, RequestsHold, Knows
      <4>. QED BY <2>1, <4>1, RevokedRow DEF TInv, RowsKept, Children
    <3>. QED BY <1>a, <1>c, <2>1, <3>1, <3>2
  <2>. QED BY <2>2, <2>3
<1>4. ASSUME NEW w \in Workers, RefreshUser(w)
      PROVE  Goal
  <2>1. /\ UNCHANGED <<row, loggedOut, swallowed, faults>> /\ req'[w].pc = "insert"
        /\ req'[w].token = req[w].token
        /\ \A x \in Workers : x # w => req'[x] = req[x]
        BY <1>0, <1>4 DEF RefreshUser, Goto, Request
  <2>2. Refresher(t) => Refresher(t)'
        BY <2>1 DEF Refresher
  <2>3. Children(t)' = Children(t)
        BY <2>1 DEF Children
  <2>. QED BY <1>a, <2>1, <2>2, <2>3
<1>5. ASSUME NEW w \in Workers, LogoutUpdate(w)
      PROVE  Goal
  <2>1. /\ req[w].pc = "logout" /\ UNCHANGED faults
        /\ \A x \in Workers : x # w => req'[x] = req[x]
        BY <1>0, <1>5 DEF LogoutUpdate, At, Done
  <2>2. \/ UNCHANGED <<row, loggedOut>>
        \/ /\ row' = Revoked(req[w].token)
           /\ loggedOut' = loggedOut \cup {req[w].token}
        BY <1>5 DEF LogoutUpdate, Answered
  <2>3. Children(t)' = Children(t)
    <3>1. req[w].token \in TokenIds
          BY <2>1 DEF TInv, RequestsHold, Knows
    <3>. QED BY <2>2, <3>1, RevokedRow DEF TInv, RowsKept, Children
  <2>4. t \in loggedOut' \/ (row'[t] = row[t] /\ loggedOut \subseteq loggedOut')
        BY <1>0, <2>2 DEF Revoked
  <2>. QED BY <1>a, <1>c, <2>1, <2>3, <2>4
<1>6. ASSUME NEW w \in Workers, Fail(w) \/ LogoutSwallowed(w) PROVE FALSE
      BY <1>0, <1>6 DEF Fail, LogoutSwallowed
<1>7. CASE Cleanup \/ (\E x \in TokenIds : Expire(x)) \/ UNCHANGED vars
  <2>1. UNCHANGED <<loggedOut, swallowed, req, faults>>
        BY <1>7 DEF Cleanup, Expire, vars
  <2>2. row[t].state = "revoked"
        BY <1>0, <1>7 DEF Cleanup, Expire, vars, Row
  <2>3. Children(t)' = Children(t)
    <3>1. RowsKept
          BY <1>7, AgedRow DEF TInv, vars, RowsKept, RowsHold
    <3>. QED BY <3>1 DEF RowsKept, Children
  <2>. QED BY <1>a, <2>1, <2>2, <2>3 DEF Refresher
<1>. QED BY <1>1, <1>2, <1>3, <1>4, <1>5, <1>6, <1>7 DEF Next

\* A refresh never loses the session: without failures a token is revoked only
\* because of a logout or because its successor was handed out.
THEOREM NoSessionLost == Spec => []RevokedForAReason
<1>1. Init => ReasonsHold
      BY DEF Init, ReasonsHold, NoRow
<1>2. ReasonsHold => RevokedForAReason
      BY DEF ReasonsHold, RevokedForAReason, Refresher
<1>. QED BY <1>1, <1>2, ReasonsStep, TokensInvariance, PTL DEF Spec

-----------------------------------------------------------------------------
(* The statements implement Sessions.                                      *)

\* A token has an owner once it is there, and a request on its way to a
\* successor goes on for the owner of the token it was given.
OwnersHold ==
  /\ \A t \in TokenIds : /\ row[t].state = "absent" <=> row[t].user = None
                         /\ row[t].state = "absent" => row[t].parent = None
  /\ \A w \in Workers : req[w].pc \in {"revoke", "user", "insert"} =>
       /\ req[w].user \in Users
       /\ req[w].token # None => row[req[w].token].user = req[w].user

\* The statements that write the table.
LEMMA RowWritten ==
  ASSUME TInv, [Next]_vars
  PROVE  \/ row' = row
         \/ \E t \in TokenIds : row' = Revoked(t)
         \/ Cleanup
         \/ \E t \in TokenIds : Expire(t)
         \/ \E w \in Workers, t \in TokenIds : IssueInsert(w, t)
<1>. DEFINE Goal == \/ row' = row
                    \/ \E t \in TokenIds : row' = Revoked(t)
                    \/ Cleanup
                    \/ \E t \in TokenIds : Expire(t)
                    \/ \E w \in Workers, t \in TokenIds : IssueInsert(w, t)
<1>1. ASSUME NEW w \in Workers, RefreshRevoke(w) \/ LogoutUpdate(w) PROVE Goal
  <2>1. req[w].token \in TokenIds
        BY <1>1 DEF RefreshRevoke, LogoutUpdate, At, TInv, RequestsHold, Knows
  <2>2. row' = row \/ row' = Revoked(req[w].token)
        BY <1>1 DEF RefreshRevoke, LogoutUpdate
  <2>. QED BY <2>1, <2>2
<1>2. ASSUME NEW w \in Workers,
             RefreshUser(w) \/ LogoutSwallowed(w) \/ Fail(w)
      PROVE  Goal
      BY <1>2 DEF RefreshUser, LogoutSwallowed, Fail
<1>3. ASSUME NEW w \in Workers,
             \/ \E u \in Users : \/ Login(w, u)
                                 \/ \E t \in TokenIds : LogoutArrive(w, u, t)
             \/ \E t \in TokenIds : RefreshSelect(w, t)
      PROVE  Goal
  <2>1. row' = row
        BY <1>3 DEF Login, LogoutArrive, RefreshSelect
  <2>. QED BY <2>1
<1>4. CASE UNCHANGED vars
      BY <1>4 DEF vars
<1>. QED BY <1>1, <1>2, <1>3, <1>4 DEF Next

\* But for the insert, a token keeps owner and parent, and at most one is live
\* no longer.
LEMMA SameSessions ==
  ASSUME TInv, [Next]_vars,
         ~\E w \in Workers, t \in TokenIds : IssueInsert(w, t)
  PROVE  /\ \A t \in TokenIds : /\ row'[t].user = row[t].user
                                /\ row'[t].parent = row[t].parent
         /\ Live' = Live \/ \E t \in Live : Live' = Live \ {t}
<1>. DEFINE Goal == /\ \A t \in TokenIds : /\ row'[t].user = row[t].user
                                           /\ row'[t].parent = row[t].parent
                    /\ Live' = Live \/ \E t \in Live : Live' = Live \ {t}
<1>0. row \in [TokenIds -> Row]
      BY DEF TInv, TypeOK
<1>1. CASE row' = row
      BY <1>1 DEF Live
\* One row is written, its owner and its parent are not.
<1>a. ASSUME NEW t \in TokenIds, \A x \in TokenIds : x # t => row'[x] = row[x],
             row'[t].user = row[t].user, row'[t].parent = row[t].parent,
             t \notin Live'
      PROVE  Goal
  <2>1. Live' = Live \ {t}
        BY <1>a DEF Live
  <2>2. t \notin Live => Live' = Live
        BY <2>1
  <2>3. Live' = Live \/ \E x \in Live : Live' = Live \ {x}
        BY <2>1, <2>2
  <2>. QED BY <1>a, <2>3
<1>2. ASSUME NEW t \in TokenIds, row' = Revoked(t) PROVE Goal
  <2>1. /\ \A x \in TokenIds : x # t => row'[x] = row[x]
        /\ row'[t].user = row[t].user /\ row'[t].parent = row[t].parent
        /\ row'[t].state # "valid"
        BY <1>0, <1>2 DEF Revoked, Row
  <2>2. t \notin Live'
        BY <2>1 DEF Live
  <2>. QED BY <1>a, <2>1, <2>2
<1>3. ASSUME NEW t \in TokenIds, Expire(t) PROVE Goal
  <2>1. /\ \A x \in TokenIds : x # t => row'[x] = row[x]
        /\ row'[t].user = row[t].user /\ row'[t].parent = row[t].parent
        /\ row'[t].expired
        BY <1>0, <1>3 DEF Expire, Row
  <2>2. t \notin Live'
        BY <2>1 DEF Live
  <2>. QED BY <1>a, <2>1, <2>2
<1>4. CASE Cleanup
  <2>1. \A t \in TokenIds :
          /\ row'[t].user = row[t].user /\ row'[t].parent = row[t].parent
          /\ row'[t].expired = row[t].expired
          /\ ~row[t].expired => row'[t].state = row[t].state
        BY <1>0, <1>4 DEF Cleanup, Row
  <2>2. Live' = Live
        BY <2>1 DEF Live
  <2>. QED BY <2>1, <2>2
<1>. QED BY <1>1, <1>2, <1>3, <1>4, RowWritten

\* A request that is on its way to a successor was so before, or has just begun.
LEMMA IssuersStep ==
  ASSUME TInv, [Next]_vars, NEW x \in Workers,
         req'[x].pc \in {"revoke", "user", "insert"}
  PROVE  \/ /\ req[x].pc \in {"revoke", "user", "insert"}
            /\ req'[x].user = req[x].user /\ req'[x].token = req[x].token
         \/ req'[x].user \in Users /\ req'[x].token = None
         \/ \E t \in TokenIds : /\ row[t].state = "valid" /\ row' = row
                                /\ req'[x].token = t
                                /\ req'[x].user = row[t].user
<1>. DEFINE Goal ==
       \/ /\ req[x].pc \in {"revoke", "user", "insert"}
          /\ req'[x].user = req[x].user /\ req'[x].token = req[x].token
       \/ req'[x].user \in Users /\ req'[x].token = None
       \/ \E t \in TokenIds : /\ row[t].state = "valid" /\ row' = row
                              /\ req'[x].token = t
                              /\ req'[x].user = row[t].user
<1>0. req \in [Workers -> Request]
      BY DEF TInv, TypeOK
<1>1. CASE req'[x] = req[x]
      BY <1>1
<1>2. ASSUME NEW w \in Workers, Done(w) PROVE Goal
      BY <1>0, <1>1, <1>2 DEF Done, Idle
<1>3. ASSUME NEW w \in Workers, RefreshRevoke(w) \/ RefreshUser(w) PROVE Goal
  <2>1. x # w => req'[x] = req[x]
        BY <1>0, <1>3 DEF RefreshRevoke, RefreshUser, Goto
  <2>2. /\ req[w].pc \in {"revoke", "user"}
        /\ req'[w].user = req[w].user /\ req'[w].token = req[w].token
        BY <1>0, <1>3 DEF RefreshRevoke, RefreshUser, At, Goto, Request
  <2>. QED BY <1>1, <2>1, <2>2
<1>4. ASSUME NEW w \in Workers, NEW u \in Users, Login(w, u) PROVE Goal
  <2>1. x # w => req'[x] = req[x]
        BY <1>0, <1>4 DEF Login, Accept
  <2>2. req'[w].user = u /\ req'[w].token = None
        BY <1>0, <1>4 DEF Login, Accept
  <2>. QED BY <1>1, <2>1, <2>2
<1>5. ASSUME NEW w \in Workers, NEW u \in Users, NEW t \in TokenIds,
             LogoutArrive(w, u, t)
      PROVE  Goal
  <2>1. IF x = w THEN req'[x].pc = "logout" ELSE req'[x] = req[x]
        BY <1>0, <1>5 DEF LogoutArrive, Accept
  <2>. QED BY <1>1, <2>1
<1>6. ASSUME NEW w \in Workers, NEW t \in TokenIds, RefreshSelect(w, t)
      PROVE  Goal
  <2>1. x # w => req'[x] = req[x]
        BY <1>0, <1>6 DEF RefreshSelect, Accept
  <2>2. /\ row[t].state = "valid" /\ row' = row
        /\ req'[w].token = t /\ req'[w].user = row[t].user
        BY <1>0, <1>6 DEF RefreshSelect, Accept
  <2>. QED BY <1>1, <2>1, <2>2
<1>7. ASSUME NEW w \in Workers,
             \/ \E t \in TokenIds : IssueInsert(w, t)
             \/ LogoutUpdate(w) \/ LogoutSwallowed(w) \/ Fail(w)
      PROVE  Goal
  <2>1. Done(w)
        BY <1>7 DEF IssueInsert, LogoutUpdate, LogoutSwallowed, Fail
  <2>. QED BY <1>2, <2>1
<1>8. CASE Cleanup \/ (\E t \in TokenIds : Expire(t)) \/ UNCHANGED vars
  <2>1. req' = req
        BY <1>8 DEF Cleanup, Expire, vars
  <2>. QED BY <1>1, <2>1
<1>. QED BY <1>3, <1>4, <1>5, <1>6, <1>7, <1>8 DEF Next

\* The row of an insert.
LEMMA InsertedRow ==
  ASSUME TInv, OwnersHold, NEW w \in Workers, NEW c \in TokenIds,
         IssueInsert(w, c)
  PROVE  /\ row[c].state = "absent" /\ row[c].user = None /\ row[c].parent = None
         /\ row'[c].state = "valid" /\ ~row'[c].expired
         /\ row'[c].user = req[w].user /\ row'[c].parent = req[w].token
         /\ \A t \in TokenIds : t # c => row'[t] = row[t]
         /\ req[w].user \in Users
         /\ req[w].token # None =>
              /\ req[w].token \in TokenIds
              /\ row[req[w].token].state \in Dead
              /\ row[req[w].token].user = req[w].user
<1>1. row \in [TokenIds -> Row] /\ req[w] \in Request /\ req[w].pc = "insert"
      BY DEF TInv, TypeOK, IssueInsert, At
<1>2. /\ row[c].state = "absent"
      /\ row' = [row EXCEPT ![c] = [user |-> req[w].user,
                                    parent |-> req[w].token,
                                    state |-> "valid", expired |-> FALSE]]
      BY DEF IssueInsert
<1>3. /\ row'[c].state = "valid" /\ ~row'[c].expired
      /\ row'[c].user = req[w].user /\ row'[c].parent = req[w].token
      /\ \A t \in TokenIds : t # c => row'[t] = row[t]
      BY <1>1, <1>2
<1>4. row[c].user = None /\ row[c].parent = None
      BY <1>2 DEF OwnersHold
<1>5. /\ req[w].user \in Users
      /\ req[w].token # None => row[req[w].token].user = req[w].user
      BY <1>1 DEF OwnersHold
<1>6. req[w].token # None => /\ req[w].token \in TokenIds
                             /\ row[req[w].token].state \in Dead
      BY <1>1 DEF TInv, RequestsHold, Knows, Request
<1>. QED BY <1>2, <1>3, <1>4, <1>5, <1>6

LEMMA OwnersStep == TInv /\ OwnersHold /\ [Next]_vars => OwnersHold'
<1>. SUFFICES ASSUME TInv, OwnersHold, [Next]_vars
              PROVE  OwnersHold'
     OBVIOUS
<1>0. None \notin Users /\ None \notin TokenIds
      BY NoneAssumption
\* Owners stay: a row has one as soon as it is there.
<1>1. \A t \in TokenIds :
        /\ row[t].user # None => row'[t].user = row[t].user
        /\ row'[t].state = "absent" <=> row'[t].user = None
        /\ row'[t].state = "absent" => row'[t].parent = None
  <2>1. ASSUME NEW w \in Workers, NEW c \in TokenIds, IssueInsert(w, c),
               NEW t \in TokenIds
        PROVE  /\ row[t].user # None => row'[t].user = row[t].user
               /\ row'[t].state = "absent" <=> row'[t].user = None
               /\ row'[t].state = "absent" => row'[t].parent = None
    <3>1. CASE t = c
          BY <1>0, <2>1, <3>1, InsertedRow
    <3>2. CASE t # c
          BY <2>1, <3>2, InsertedRow DEF OwnersHold
    <3>. QED BY <3>1, <3>2
  <2>2. ASSUME ~\E w \in Workers, c \in TokenIds : IssueInsert(w, c),
               NEW t \in TokenIds
        PROVE  /\ row[t].user # None => row'[t].user = row[t].user
               /\ row'[t].state = "absent" <=> row'[t].user = None
               /\ row'[t].state = "absent" => row'[t].parent = None
    <3>1. row'[t].user = row[t].user /\ row'[t].parent = row[t].parent
          BY <2>2, SameSessions
    <3>2. row'[t].state = "absent" <=> row[t].state = "absent"
      <4>1. CASE row' = row
            BY <4>1
      <4>2. ASSUME NEW x \in TokenIds, row' = Revoked(x)
            PROVE  row'[t].state = "absent" <=> row[t].state = "absent"
            BY <4>2, RevokedRow DEF TInv, RowsKept
      <4>3. CASE Cleanup \/ \E x \in TokenIds : Expire(x)
            BY <4>3, AgedRow DEF TInv, RowsKept
      <4>. QED BY <2>2, <4>1, <4>2, <4>3, RowWritten
    <3>. QED BY <3>1, <3>2 DEF OwnersHold
  <2>. QED BY <2>1, <2>2
<1>2. ASSUME NEW x \in Workers, req'[x].pc \in {"revoke", "user", "insert"}
      PROVE  /\ req'[x].user \in Users
             /\ req'[x].token # None => row'[req'[x].token].user = req'[x].user
  <2>1. CASE /\ req[x].pc \in {"revoke", "user", "insert"}
             /\ req'[x].user = req[x].user /\ req'[x].token = req[x].token
    <3>1. /\ req[x].user \in Users
          /\ req[x].token # None => row[req[x].token].user = req[x].user
          BY <2>1 DEF OwnersHold
    <3>2. req[x].token # None => req[x].token \in TokenIds
          BY DEF TInv, TypeOK, Request
    <3>. QED BY <1>0, <1>1, <2>1, <3>1, <3>2
  <2>2. CASE req'[x].user \in Users /\ req'[x].token = None
        BY <2>2
  <2>3. ASSUME NEW t \in TokenIds, row[t].state = "valid", row' = row,
               req'[x].token = t, req'[x].user = row[t].user
        PROVE  /\ req'[x].user \in Users
               /\ row'[req'[x].token].user = req'[x].user
    <3>1. row[t].user # None /\ row[t].user \in Users \cup {None}
          BY <2>3 DEF OwnersHold, TInv, TypeOK, Row
    <3>. QED BY <2>3, <3>1
  <2>. QED BY <1>2, <2>1, <2>2, <2>3, IssuersStep
<1>. QED BY <1>1, <1>2 DEF OwnersHold

\* Every step begins a session, rotates or retires a token, or cannot be seen.
LEMMA SessionStep ==
  ASSUME TInv, OwnersHold, [Next]_vars
  PROVE  [Session!Next]_(Session!vars)
<1>. DEFINE O == [t \in TokenIds |-> row[t].user]
            P == [t \in TokenIds |-> row[t].parent]
            Goal == [Session!Next]_(Session!vars)
<1>0. None \notin Users /\ None \notin TokenIds
      BY NoneAssumption
<1>1. ASSUME ~\E w \in Workers, c \in TokenIds : IssueInsert(w, c)
      PROVE  Goal
  <2>1. O' = O /\ P' = P
        BY <1>1, SameSessions
  <2>2. CASE Live' = Live
        BY <2>1, <2>2 DEF Session!vars
  <2>3. ASSUME NEW t \in Live, Live' = Live \ {t}
        PROVE  Goal
    <3>1. t \in TokenIds
          BY DEF Live
    <3>2. Session!Retire(t)
          BY <2>1, <2>3 DEF Session!Retire
    <3>. QED BY <3>1, <3>2 DEF Session!Next
  <2>. QED BY <1>1, <2>2, <2>3, SameSessions
<1>2. ASSUME NEW w \in Workers, NEW c \in TokenIds, IssueInsert(w, c)
      PROVE  Goal
  <2>1. /\ row[c].state = "absent" /\ row[c].user = None /\ row[c].parent = None
        /\ row'[c].state = "valid" /\ ~row'[c].expired
        /\ row'[c].user = req[w].user /\ row'[c].parent = req[w].token
        /\ \A t \in TokenIds : t # c => row'[t] = row[t]
        /\ req[w].user \in Users
        BY <1>2, InsertedRow
  <2>2. Live' = Live \cup {c}
        BY <2>1 DEF Live
  <2>3. O[c] = None /\ O' = [O EXCEPT ![c] = req[w].user]
        BY <2>1
  <2>4. P' = [P EXCEPT ![c] = req[w].token]
        BY <2>1
  <2>5. CASE req[w].token = None
    <3>1. P' = P
          BY <2>1, <2>5
    <3>2. Session!Begin(req[w].user, c)
          BY <2>2, <2>3, <3>1 DEF Session!Begin
    <3>. QED BY <2>1, <3>2 DEF Session!Next
  <2>6. CASE req[w].token # None
    <3>1. PICK t \in TokenIds : t = req[w].token /\ row[t].state \in Dead
                                /\ row[t].user = req[w].user
          BY <1>2, <2>6, InsertedRow
    <3>2. O[t] # None /\ O[t] = req[w].user /\ t \notin Live
          BY <1>0, <2>1, <3>1 DEF Live, Dead
    <3>3. Session!Rotate(t, c)
          BY <2>2, <2>3, <2>4, <3>1, <3>2 DEF Session!Rotate
    <3>. QED BY <3>1, <3>3 DEF Session!Next
  <2>. QED BY <2>5, <2>6
<1>. QED BY <1>1, <1>2

\* Refresh, logout and the nightly job implement Sessions for any number of
\* users, tokens, requests and failures.
THEOREM SessionsImplemented == Spec => ImplementsSessions
<1>1. Init => Session!Init /\ OwnersHold
      BY DEF Init, Session!Init, OwnersHold, Live, NoRow, Idle
<1>2. TInv /\ OwnersHold /\ [Next]_vars => [Session!Next]_(Session!vars)
      BY SessionStep
<1>. QED BY <1>1, <1>2, OwnersStep, TokensInvariance, PTL
         DEF Spec, ImplementsSessions, Session!Spec
=============================================================================
