--------------------------- MODULE RefreshTokens ---------------------------
(***************************************************************************)
(* AuthService.refresh, logout and issueTokens with the nightly job that   *)
(* deletes expired rows: a session is a chain of refresh tokens, each one  *)
(* exchanged for the next.  Access tokens are not stored and not modelled. *)
(***************************************************************************)
EXTENDS Integers, FiniteSets

CONSTANTS
  Users,
  TokenIds,   \* pool of fresh ids: the jti of issueTokens
  Workers,    \* requests that may be in flight together
  MaxFaults,  \* bound on failed statements and crashes
  None

ASSUME FaultsAssumption == MaxFaults \in Nat
ASSUME NoneAssumption == None \notin Users \cup TokenIds

VARIABLES
  row,        \* table refresh_tokens
  loggedOut,  \* tokens whose user got an answer to a logout (observed)
  swallowed,  \* those of them whose UPDATE failed every time (observed)
  req, faults

vars == <<row, loggedOut, swallowed, req, faults>>

\* parent (observed): the token this one was exchanged for; None after a login.
Row == [user : Users \cup {None}, parent : TokenIds \cup {None},
        state : {"absent", "valid", "revoked", "deleted"}, expired : BOOLEAN]
Steps == {"idle", "revoke", "user", "insert", "logout"}
Request == [pc : Steps, user : Users \cup {None}, token : TokenIds \cup {None}]

NoRow == [user |-> None, parent |-> None, state |-> "absent",
          expired |-> FALSE]
Idle == [pc |-> "idle", user |-> None, token |-> None]

Init ==
  /\ row = [t \in TokenIds |-> NoRow]
  /\ loggedOut = {}
  /\ swallowed = {}
  /\ req = [w \in Workers |-> Idle]
  /\ faults = 0

At(w, pc) == req[w].pc = pc
Goto(w, pc) == req' = [req EXCEPT ![w].pc = pc]
Done(w) == req' = [req EXCEPT ![w] = Idle]
Accept(w, request) == req[w].pc = "idle" /\ req' = [req EXCEPT ![w] = request]

\* UPDATE refresh_tokens SET revoked_at WHERE id = t
Revoked(t) ==
  [row EXCEPT ![t].state = IF @ = "valid" THEN "revoked" ELSE @]

-----------------------------------------------------------------------------
\* A login (Otp) or a change of role ends in issueTokens.
Login(w, u) ==
  /\ Accept(w, [pc |-> "insert", user |-> u, token |-> None])
  /\ UNCHANGED <<row, loggedOut, swallowed, faults>>

\* Mutant: revokedAt is not looked at.
RefreshSelectRevoked(w, t) ==
  /\ row[t].state \in {"valid", "revoked"}
  /\ ~row[t].expired
  /\ Accept(w, [pc |-> "revoke", user |-> row[t].user, token |-> t])
  /\ UNCHANGED <<row, loggedOut, swallowed, faults>>

\* The signature of the token is checked first, then the row of its jti.
RefreshSelect(w, t) ==
  /\ row[t].state = "valid"
  /\ ~row[t].expired
  /\ Accept(w, [pc |-> "revoke", user |-> row[t].user, token |-> t])
  /\ UNCHANGED <<row, loggedOut, swallowed, faults>>

\* Mutant: the old token stays valid.
RefreshRevokeSkipped(w) ==
  /\ At(w, "revoke")
  /\ Goto(w, "user")
  /\ UNCHANGED <<row, loggedOut, swallowed, faults>>

RefreshRevoke(w) ==
  /\ At(w, "revoke")
  /\ row' = Revoked(req[w].token)
  /\ Goto(w, "user")
  /\ UNCHANGED <<loggedOut, swallowed, faults>>

\* Mutant: the answer is sent without a new token.
RefreshUserForgets(w) ==
  /\ At(w, "user")
  /\ Done(w)
  /\ UNCHANGED <<row, loggedOut, swallowed, faults>>

\* The select of the user, who is never deleted.
RefreshUser(w) ==
  /\ At(w, "user")
  /\ Goto(w, "insert")
  /\ UNCHANGED <<row, loggedOut, swallowed, faults>>

\* Mutant: the row of the old token is written again for the new one.
IssueInsertInPlace(w, t) ==
  /\ At(w, "insert")
  /\ t = req[w].token \/ row[t].state = "absent"
  /\ row' = [row EXCEPT ![t] = [user |-> req[w].user, parent |-> req[w].token,
                                state |-> "valid", expired |-> FALSE]]
  /\ Done(w)
  /\ UNCHANGED <<loggedOut, swallowed, faults>>

\* issueTokens.
IssueInsert(w, t) ==
  /\ At(w, "insert")
  /\ row[t].state = "absent"
  /\ row' = [row EXCEPT ![t] = [user |-> req[w].user, parent |-> req[w].token,
                                state |-> "valid", expired |-> FALSE]]
  /\ Done(w)
  /\ UNCHANGED <<loggedOut, swallowed, faults>>

\* logout verifies the token before its only statement.
LogoutArrive(w, u, t) ==
  /\ row[t].state # "absent"
  /\ Accept(w, [pc |-> "logout", user |-> u, token |-> t])
  /\ UNCHANGED <<row, loggedOut, swallowed, faults>>

\* Whose logout the answer is about: a token of the caller.
Answered(w) ==
  IF row[req[w].token].user = req[w].user THEN {req[w].token} ELSE {}

\* UPDATE ... WHERE id = jti AND user_id = user.
LogoutUpdate(w) ==
  /\ At(w, "logout")
  /\ row' = IF Answered(w) = {} THEN row ELSE Revoked(req[w].token)
  /\ loggedOut' = loggedOut \cup Answered(w)
  /\ swallowed' = swallowed \ Answered(w)
  /\ Done(w)
  /\ UNCHANGED faults

\* The UPDATE fails: the catch ignores it, and the answer is the same.
LogoutSwallowed(w) ==
  /\ faults < MaxFaults
  /\ At(w, "logout")
  /\ loggedOut' = loggedOut \cup Answered(w)
  /\ swallowed' = swallowed \cup (Answered(w) \ loggedOut)
  /\ Done(w)
  /\ faults' = faults + 1
  /\ UNCHANGED row

-----------------------------------------------------------------------------
\* Thirty days pass.
Expire(t) ==
  /\ row[t].state \in {"valid", "revoked"} /\ ~row[t].expired
  /\ row' = [row EXCEPT ![t].expired = TRUE]
  /\ UNCHANGED <<loggedOut, swallowed, req, faults>>

\* cleanupExpiredRefreshTokens, one DELETE.
Cleanup ==
  /\ row' = [t \in TokenIds |-> IF row[t].expired
                                THEN [row[t] EXCEPT !.state = "deleted"]
                                ELSE row[t]]
  /\ UNCHANGED <<loggedOut, swallowed, req, faults>>

\* A statement of refresh or issueTokens fails, or the process dies: there is no
\* answer.
Fail(w) ==
  /\ faults < MaxFaults
  /\ req[w].pc # "idle"
  /\ Done(w)
  /\ faults' = faults + 1
  /\ UNCHANGED <<row, loggedOut, swallowed>>

Next ==
  \/ \E w \in Workers :
       \/ \E u \in Users : \/ Login(w, u)
                           \/ \E t \in TokenIds : LogoutArrive(w, u, t)
       \/ \E t \in TokenIds : RefreshSelect(w, t) \/ IssueInsert(w, t)
       \/ RefreshRevoke(w) \/ RefreshUser(w)
       \/ LogoutUpdate(w) \/ LogoutSwallowed(w) \/ Fail(w)
  \/ \E t \in TokenIds : Expire(t)
  \/ Cleanup

Spec == Init /\ [][Next]_vars

-----------------------------------------------------------------------------
(* Properties.                                                             *)

\* Rows and locals stay in their types.
TypeOK ==
  /\ row \in [TokenIds -> Row]
  /\ swallowed \subseteq loggedOut /\ loggedOut \subseteq TokenIds
  /\ req \in [Workers -> Request]
  /\ faults \in 0..MaxFaults

Children(t) == {c \in TokenIds : row[c].state # "absent" /\ row[c].parent = t}

\* A token that was exchanged can never be used again: by the time its
\* successor exists it is revoked, whatever fails in between.
ExchangedIsDead ==
  \A t \in TokenIds :
    Children(t) # {} => row[t].state \in {"revoked", "deleted"}

\* Without failures, once nothing is in flight, a token is revoked only
\* because its user logged out or because a successor was handed out: a
\* refresh never loses the session.
RevokedForAReason ==
  (faults = 0 /\ \A w \in Workers : req[w].pc = "idle") =>
    \A t \in TokenIds :
      row[t].state = "revoked" => t \in loggedOut \/ Children(t) # {}

\* "/auth/refresh ... rotates" (README.md:155): a token is exchanged by no more
\* than the requests that select it before the first of them revokes it; for
\* one request at a time that is one successor.
SuccessorsBounded ==
  \A t \in TokenIds : Cardinality(Children(t)) <= Cardinality(Workers)

Refreshing(t) ==
  \E w \in Workers :
    req[w].token = t /\ req[w].pc \in {"revoke", "user", "insert"}

\* "/auth/logout ... Revokes refresh" (README.md:156): once a logout was
\* answered, and the refreshes that had passed the check are through, its token
\* never brings forth a further one.  A logout whose UPDATE failed is answered
\* like any other (auth.service.ts:408-411) and leaves the token as it was: the
\* promise is for the tokens with a logout that went through.
LogoutIsFinal ==
  [][\A t \in loggedOut \ swallowed : ~Refreshing(t) =>
       ~Refreshing(t)' /\ Children(t)' = Children(t)]_vars

\* Seen from outside, a token is live as long as a refresh would accept it.
Live == {t \in TokenIds : row[t].state = "valid" /\ ~row[t].expired}
Session == INSTANCE Sessions WITH
  owner <- [t \in TokenIds |-> row[t].user],
  parent <- [t \in TokenIds |-> row[t].parent],
  live <- Live

\* The statements of refresh, logout and the nightly job, in whatever order and
\* wherever they fail, grow sessions: what brings forth a token is never live
\* again, and a session never passes to another user.
ImplementsSessions == Session!Spec
=============================================================================
