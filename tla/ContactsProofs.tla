--------------------------- MODULE ContactsProofs ---------------------------
(***************************************************************************)
(* For any number of users, contacts and requests in flight: racing        *)
(* additions pass the limit of contacts by one each, and only the owner of *)
(* a contact removes it.                                                   *)
(*                                                                         *)
(* The contacts of a user are counted together with the additions that are *)
(* past the count: an insert moves one from the second to the first.       *)
(***************************************************************************)
EXTENDS Contacts, FiniteSetTheorems, TLAPS

\* A request past its first statement knows its user; one that is about to
\* delete a contact found it to be its user's, and an id is used once.
Knows(w) ==
  /\ req[w].pc # "idle" => req[w].user \in Users
  /\ req[w].pc = "delete" => /\ req[w].id \in used
                             /\ owner[req[w].id] \in {req[w].user, None}

CInv == /\ TypeOK
        /\ \A c \in ContactIds : owner[c] # None => c \in used
        /\ \A w \in Workers : Knows(w)

-----------------------------------------------------------------------------
(* The invariant.                                                          *)

LEMMA ContactsInit == Init => CInv
<1>. SUFFICES ASSUME Init PROVE CInv
     OBVIOUS
<1>1. TypeOK
      BY LimitsAssumption DEF Init, TypeOK, Idle, Request
<1>. QED BY <1>1 DEF Init, CInv, Knows, Idle

\* Every step is one of these.
LEMMA StepTaken ==
  ASSUME Next
  PROVE  \E w \in Workers :
           \/ \E u \in Users : AddCount(w, u)
           \/ \E u \in Users, c \in ContactIds : RemoveSelect(w, u, c)
           \/ \E c \in ContactIds : AddInsert(w, c)
           \/ RemoveDelete(w) \/ Fail(w)
BY DEF Next

LEMMA AddCountTypes ==
  ASSUME CInv, NEW w \in Workers, NEW u \in Users, AddCount(w, u),
         IsFiniteSet(Of(u))
  PROVE  CInv'
<1>1. Cardinality(Of(u)) \in 0..(MAX_CONTACTS - 1)
  <2>1. Cardinality(Of(u)) \in Nat
        BY FS_CardinalityType
  <2>. QED BY <2>1, LimitsAssumption DEF AddCount
<1>. DEFINE q == [pc |-> "insert", user |-> u, id |-> None,
                  n |-> Cardinality(Of(u))]
<1>2. q \in Request /\ q.pc = "insert" /\ q.user = u
      BY <1>1 DEF Request
<1>3. req' = [req EXCEPT ![w] = q] /\ UNCHANGED <<owner, priority, used, faults>>
      BY DEF AddCount
<1>. HIDE DEF q
<1>4. TypeOK'
      BY <1>2, <1>3 DEF CInv, TypeOK
<1>5. \A x \in Workers : Knows(x)'
      BY <1>2, <1>3 DEF CInv, TypeOK, Knows
<1>. QED BY <1>3, <1>4, <1>5 DEF CInv

LEMMA RemoveSelectTypes ==
  ASSUME CInv, NEW w \in Workers, NEW u \in Users, NEW c \in ContactIds,
         RemoveSelect(w, u, c)
  PROVE  CInv'
<1>. DEFINE q == [pc |-> "delete", user |-> u, id |-> c, n |-> 0]
<1>1. q \in Request /\ q.pc = "delete" /\ q.user = u /\ q.id = c
      BY LimitsAssumption DEF Request
<1>2. c \in used /\ owner[c] = u
      BY NoneAssumption DEF RemoveSelect, CInv
<1>3. req' = [req EXCEPT ![w] = q] /\ UNCHANGED <<owner, priority, used, faults>>
      BY DEF RemoveSelect
<1>. HIDE DEF q
<1>4. TypeOK'
      BY <1>1, <1>3 DEF CInv, TypeOK
<1>5. \A x \in Workers : Knows(x)'
      BY <1>1, <1>2, <1>3 DEF CInv, TypeOK, Knows
<1>. QED BY <1>3, <1>4, <1>5 DEF CInv

LEMMA AddInsertTypes ==
  ASSUME CInv, NEW w \in Workers, NEW c \in ContactIds, AddInsert(w, c)
  PROVE  CInv'
<1>1. /\ req[w] \in Request /\ req[w].user \in Users
      /\ req[w].n + 1 \in 0..MAX_CONTACTS
      BY LimitsAssumption DEF CInv, TypeOK, Knows, AddInsert, Request
<1>2. Idle \in Request /\ Idle.pc = "idle"
      BY LimitsAssumption DEF Idle, Request
<1>3. /\ owner' = [owner EXCEPT ![c] = req[w].user]
      /\ priority' = [priority EXCEPT ![c] = req[w].n + 1]
      /\ used' = used \cup {c} /\ c \notin used
      /\ req' = [req EXCEPT ![w] = Idle] /\ faults' = faults
      BY DEF AddInsert, Done
<1>4. TypeOK'
      BY <1>1, <1>2, <1>3 DEF CInv, TypeOK
<1>5. \A x \in Workers : Knows(x)'
      BY <1>2, <1>3 DEF CInv, TypeOK, Knows
<1>6. \A k \in ContactIds : owner'[k] # None => k \in used'
      BY <1>3 DEF CInv, TypeOK
<1>. QED BY <1>4, <1>5, <1>6 DEF CInv

LEMMA RemoveDeleteTypes ==
  ASSUME CInv, NEW w \in Workers, RemoveDelete(w)
  PROVE  CInv'
<1>1. Idle \in Request /\ Idle.pc = "idle"
      BY LimitsAssumption DEF Idle, Request
<1>2. /\ owner' = [owner EXCEPT ![req[w].id] = None]
      /\ priority' = [priority EXCEPT ![req[w].id] = 0]
      /\ req' = [req EXCEPT ![w] = Idle] /\ UNCHANGED <<used, faults>>
      BY DEF RemoveDelete, Done
<1>3. TypeOK'
  <2>1. owner' \in [ContactIds -> Users \cup {None}]
        BY <1>2 DEF CInv, TypeOK
  <2>2. 0 \in 0..MAX_CONTACTS
        BY LimitsAssumption
  <2>3. priority' \in [ContactIds -> 0..MAX_CONTACTS]
        BY <1>2, <2>2 DEF CInv, TypeOK
  <2>4. req' \in [Workers -> Request]
        BY <1>1, <1>2 DEF CInv, TypeOK
  <2>. QED BY <1>2, <2>1, <2>3, <2>4 DEF CInv, TypeOK
<1>4. \A x \in Workers : Knows(x)'
      BY <1>1, <1>2 DEF CInv, TypeOK, Knows
<1>5. \A k \in ContactIds : owner'[k] # None => k \in used'
      BY <1>2 DEF CInv, TypeOK
<1>. QED BY <1>3, <1>4, <1>5 DEF CInv

LEMMA FailTypes ==
  ASSUME CInv, NEW w \in Workers, Fail(w)
  PROVE  CInv'
<1>1. Idle \in Request /\ Idle.pc = "idle"
      BY LimitsAssumption DEF Idle, Request
<1>2. /\ req' = [req EXCEPT ![w] = Idle] /\ UNCHANGED <<owner, priority, used>>
      /\ faults < MaxFaults /\ faults' = faults + 1
      BY DEF Fail, Done
<1>3. TypeOK'
      BY <1>1, <1>2, LimitsAssumption DEF CInv, TypeOK
<1>. QED BY <1>1, <1>2, <1>3 DEF CInv, TypeOK, Knows

-----------------------------------------------------------------------------
(* Contacts are removed by their owner.                                    *)

\* A step changes the owner of a contact by giving out a new id or by deleting
\* what the request found to be its user's.
LEMMA OwnersKept ==
  ASSUME CInv, [Next]_vars, NEW c \in ContactIds,
         owner[c] # None, owner'[c] # owner[c]
  PROVE  /\ owner'[c] = None
         /\ \E w \in Workers : req[w].user = owner[c] /\ req[w].id = c
<1>1. CASE UNCHANGED vars
      BY <1>1 DEF vars
<1>2. ASSUME NEW w \in Workers, NEW d \in ContactIds, AddInsert(w, d)
      PROVE  FALSE
      BY <1>2 DEF AddInsert, CInv, TypeOK
<1>3. ASSUME NEW w \in Workers, RemoveDelete(w)
      PROVE  /\ owner'[c] = None
             /\ req[w].user = owner[c] /\ req[w].id = c
  <2>1. owner' = [owner EXCEPT ![req[w].id] = None] /\ req[w].pc = "delete"
        BY <1>3 DEF RemoveDelete
  <2>2. req[w].id = c /\ owner'[c] = None
        BY <2>1 DEF CInv, TypeOK
  <2>. QED BY <2>1, <2>2 DEF CInv, Knows
<1>. QED BY <1>1, <1>2, <1>3
         DEF Next, AddCount, RemoveSelect, Fail

-----------------------------------------------------------------------------
(* The limit.                                                              *)

Adding(u) == {w \in Workers : req[w].pc = "insert" /\ req[w].user = u}

CountHolds(u) ==
  /\ IsFiniteSet(Of(u))
  /\ Cardinality(Of(u)) + Cardinality(Adding(u))
       <= MAX_CONTACTS + (Cardinality(Workers) - 1)

CountsHold == \A u \in Users : CountHolds(u)

LEMMA AddingFinite ==
  ASSUME IsFiniteSet(Workers), NEW u
  PROVE  /\ IsFiniteSet(Adding(u)) /\ Cardinality(Adding(u)) \in Nat
         /\ Cardinality(Adding(u)) <= Cardinality(Workers)
         /\ Cardinality(Workers) \in Nat
<1>1. Adding(u) \in SUBSET Workers
      BY DEF Adding
<1>. QED BY <1>1, FS_Subset, FS_CardinalityType

\* Neither contacts nor additions under way become more.
LEMMA NoMore ==
  ASSUME IsFiniteSet(Workers), NEW u \in Users, CountHolds(u),
         Of(u)' \subseteq Of(u), Adding(u)' \subseteq Adding(u)
  PROVE  CountHolds(u)'
<1>1. /\ IsFiniteSet(Adding(u)) /\ Cardinality(Adding(u)) \in Nat
      /\ Cardinality(Workers) \in Nat
      BY AddingFinite
<1>2. /\ IsFiniteSet(Of(u)) /\ Cardinality(Of(u)) \in Nat
      BY FS_CardinalityType DEF CountHolds
<1>. DEFINE O == Of(u)'
            A == Adding(u)'
<1>3. O \in SUBSET Of(u) /\ A \in SUBSET Adding(u)
      OBVIOUS
<1>. HIDE DEF O, A
<1>4. /\ IsFiniteSet(O) /\ Cardinality(O) <= Cardinality(Of(u))
      /\ Cardinality(O) \in Nat
      BY <1>2, <1>3, FS_Subset, FS_CardinalityType
<1>5. /\ Cardinality(A) <= Cardinality(Adding(u)) /\ Cardinality(A) \in Nat
      BY <1>1, <1>3, FS_Subset, FS_CardinalityType
<1>6. Cardinality(O) + Cardinality(A)
        <= MAX_CONTACTS + (Cardinality(Workers) - 1)
      BY <1>1, <1>2, <1>4, <1>5, LimitsAssumption DEF CountHolds
<1>. QED BY <1>4, <1>6 DEF O, A, CountHolds

\* An addition that is past the count takes the last place or an earlier one.
LEMMA CountAdds ==
  ASSUME IsFiniteSet(Workers), CInv, NEW u \in Users, CountHolds(u),
         NEW w \in Workers, AddCount(w, u)
  PROVE  CountHolds(u)'
<1>1. Of(u)' = Of(u) /\ Cardinality(Of(u)) < MAX_CONTACTS
      BY DEF AddCount, Of
<1>2. IsFiniteSet(Of(u)) /\ Cardinality(Of(u)) \in Nat
      BY FS_CardinalityType DEF CountHolds
<1>. DEFINE A == Adding(u)'
<1>3. A \in SUBSET Workers
      BY DEF Adding
<1>. HIDE DEF A
<1>4. /\ Cardinality(A) <= Cardinality(Workers)
      /\ Cardinality(A) \in Nat /\ Cardinality(Workers) \in Nat
      BY <1>3, FS_Subset, FS_CardinalityType
<1>5. Cardinality(Of(u)) + Cardinality(A)
        <= MAX_CONTACTS + (Cardinality(Workers) - 1)
      BY <1>1, <1>2, <1>4, LimitsAssumption
<1>. QED BY <1>1, <1>2, <1>5 DEF A, CountHolds

\* An insert turns an addition into a contact.
LEMMA CountInserts ==
  ASSUME IsFiniteSet(Workers), CInv, NEW u \in Users, CountHolds(u),
         NEW w \in Workers, NEW c \in ContactIds, AddInsert(w, c),
         req[w].user = u
  PROVE  CountHolds(u)'
<1>1. /\ owner' = [owner EXCEPT ![c] = u] /\ owner[c] = None
      /\ req' = [req EXCEPT ![w] = Idle] /\ req[w].pc = "insert"
      BY DEF AddInsert, Done, CInv
<1>2. Of(u)' = Of(u) \cup {c} /\ c \notin Of(u)
      BY <1>1, NoneAssumption DEF Of, CInv, TypeOK
<1>3. Adding(u)' = Adding(u) \ {w} /\ w \in Adding(u)
      BY <1>1 DEF Adding, Idle, CInv, TypeOK
<1>4. /\ IsFiniteSet(Adding(u)) /\ Cardinality(Adding(u)) \in Nat
      BY AddingFinite
<1>5. IsFiniteSet(Of(u)) /\ Cardinality(Of(u)) \in Nat
      BY FS_CardinalityType DEF CountHolds
<1>6. /\ IsFiniteSet(Of(u) \cup {c})
      /\ Cardinality(Of(u) \cup {c}) = Cardinality(Of(u)) + 1
      BY <1>2, <1>5, FS_AddElement
<1>7. Cardinality(Adding(u) \ {w}) = Cardinality(Adding(u)) - 1
      BY <1>3, <1>4, FS_RemoveElement
<1>8. Cardinality(Of(u) \cup {c}) + Cardinality(Adding(u) \ {w})
        <= MAX_CONTACTS + (Cardinality(Workers) - 1)
      BY <1>4, <1>5, <1>6, <1>7 DEF CountHolds
<1>. QED BY <1>2, <1>3, <1>6, <1>8 DEF CountHolds

LEMMA CountsNext ==
  ASSUME IsFiniteSet(Workers), CInv, CountsHold, [Next]_vars
  PROVE  CountsHold'
<1>. SUFFICES ASSUME NEW u \in Users PROVE CountHolds(u)'
     BY DEF CountsHold
<1>0. CountHolds(u)
      BY DEF CountsHold
<1>1. ASSUME owner' = owner, req' = req PROVE CountHolds(u)'
  <2>1. Of(u)' \subseteq Of(u) /\ Adding(u)' \subseteq Adding(u)
        BY <1>1 DEF Of, Adding
  <2>. QED BY <1>0, <2>1, NoMore
<1>2. ASSUME NEW w \in Workers, NEW q, req' = [req EXCEPT ![w] = q],
             q.pc # "insert" \/ q.user # u,
             \A c \in ContactIds : owner'[c] = u => owner[c] = u
      PROVE  CountHolds(u)'
  <2>1. Of(u)' \subseteq Of(u)
        BY <1>2 DEF Of
  <2>2. Adding(u)' \subseteq Adding(u)
        BY <1>2 DEF Adding, CInv, TypeOK
  <2>. QED BY <1>0, <2>1, <2>2, NoMore
<1>3. Idle.pc # "insert"
      BY DEF Idle
<1>4. ASSUME NEW w \in Workers, NEW x \in Users, AddCount(w, x)
      PROVE  CountHolds(u)'
  <2>. DEFINE q == [pc |-> "insert", user |-> x, id |-> None,
                    n |-> Cardinality(Of(x))]
  <2>1. req' = [req EXCEPT ![w] = q] /\ q.user = x /\ owner' = owner
        BY <1>4 DEF AddCount
  <2>. HIDE DEF q
  <2>2. CASE x = u
        BY <1>0, <1>4, <2>2, CountAdds
  <2>3. CASE x # u
        BY <1>2, <2>1, <2>3
  <2>. QED BY <2>2, <2>3
<1>5. ASSUME NEW w \in Workers, NEW c \in ContactIds, AddInsert(w, c)
      PROVE  CountHolds(u)'
  <2>1. CASE req[w].user = u
        BY <1>0, <1>5, <2>1, CountInserts
  <2>2. CASE req[w].user # u
    <3>1. /\ owner' = [owner EXCEPT ![c] = req[w].user]
          /\ req' = [req EXCEPT ![w] = Idle]
          BY <1>5 DEF AddInsert, Done
    <3>2. \A d \in ContactIds : owner'[d] = u => owner[d] = u
          BY <2>2, <3>1 DEF CInv, TypeOK
    <3>. QED BY <1>2, <1>3, <3>1, <3>2
  <2>. QED BY <2>1, <2>2
<1>6. ASSUME NEW w \in Workers, NEW x \in Users, NEW c \in ContactIds,
             RemoveSelect(w, x, c)
      PROVE  CountHolds(u)'
  <2>. DEFINE q == [pc |-> "delete", user |-> x, id |-> c, n |-> 0]
  <2>1. req' = [req EXCEPT ![w] = q] /\ q.pc = "delete" /\ owner' = owner
        BY <1>6 DEF RemoveSelect
  <2>. HIDE DEF q
  <2>. QED BY <1>2, <2>1
<1>7. ASSUME NEW w \in Workers, RemoveDelete(w) \/ Fail(w)
      PROVE  CountHolds(u)'
  <2>1. /\ req' = [req EXCEPT ![w] = Idle]
        /\ owner' = owner \/ owner' = [owner EXCEPT ![req[w].id] = None]
        BY <1>7 DEF RemoveDelete, Fail, Done
  <2>2. \A d \in ContactIds : owner'[d] = u => owner[d] = u
        BY <2>1, NoneAssumption DEF CInv, TypeOK
  <2>. QED BY <1>2, <1>3, <2>1, <2>2
<1>. QED BY <1>1, <1>4, <1>5, <1>6, <1>7 DEF Next, vars

LEMMA CountsInit == IsFiniteSet(Workers) /\ Workers # {} /\ Init => CountsHold
<1>. SUFFICES ASSUME IsFiniteSet(Workers), Workers # {}, Init, NEW u \in Users
              PROVE  CountHolds(u)
     BY DEF CountsHold
<1>1. Of(u) = {} /\ Adding(u) = {}
      BY NoneAssumption DEF Init, Of, Adding, Idle
<1>2. Cardinality(Workers) \in Nat /\ Cardinality(Workers) # 0
      BY FS_CardinalityType, FS_EmptySet
<1>. QED BY <1>1, <1>2, FS_EmptySet, LimitsAssumption DEF CountHolds

LEMMA CInvNext ==
  ASSUME CInv, CountsHold, [Next]_vars
  PROVE  CInv'
<1>1. CASE UNCHANGED vars
      BY <1>1 DEF vars, CInv, TypeOK, Knows
<1>2. \A u \in Users : IsFiniteSet(Of(u))
      BY DEF CountsHold, CountHolds
<1>. QED BY <1>1, <1>2, StepTaken, AddCountTypes, RemoveSelectTypes,
            AddInsertTypes, RemoveDeleteTypes, FailTypes

-----------------------------------------------------------------------------
(* Theorems.                                                               *)

THEOREM ContactsInvariance ==
  ASSUME IsFiniteSet(Workers), Workers # {}
  PROVE  Spec => [](CInv /\ CountsHold)
<1>1. CInv /\ CountsHold /\ [Next]_vars => CInv' /\ CountsHold'
      BY CInvNext, CountsNext
<1>2. Init => CInv /\ CountsHold
      BY ContactsInit, CountsInit
<1>. QED BY <1>1, <1>2, PTL DEF Spec

\* However many additions race, each is one contact beyond the limit at most.
THEOREM AdditionsBounded ==
  ASSUME IsFiniteSet(Workers), Workers # {}
  PROVE  Spec => []OverflowBounded
<1>1. CountsHold => OverflowBounded
  <2>. SUFFICES ASSUME CountsHold, NEW u \in Users
                PROVE  Cardinality(Of(u))
                         <= MAX_CONTACTS + (Cardinality(Workers) - 1)
       BY DEF OverflowBounded
  <2>1. Cardinality(Adding(u)) \in Nat /\ Cardinality(Workers) \in Nat
        BY AddingFinite
  <2>2. Cardinality(Of(u)) \in Nat
        BY FS_CardinalityType DEF CountsHold, CountHolds
  <2>. QED BY <2>1, <2>2, LimitsAssumption DEF CountsHold, CountHolds
<1>. QED BY <1>1, ContactsInvariance, PTL

\* A contact is removed by a request of its owner, although the request found
\* it a statement earlier.
THEOREM OwnersRemove ==
  ASSUME IsFiniteSet(Workers), Workers # {}
  PROVE  Spec => RemovedByOwner
<1>1. CInv /\ [Next]_vars =>
        [\A c \in ContactIds : (owner[c] # None /\ owner'[c] # owner[c]) =>
           /\ owner'[c] = None
           /\ \E w \in Workers : req[w].user = owner[c] /\ req[w].id = c]_vars
      BY OwnersKept
<1>. QED BY <1>1, ContactsInvariance, PTL DEF Spec, RemovedByOwner
=============================================================================
