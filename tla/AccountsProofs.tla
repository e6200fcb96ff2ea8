--------------------------- MODULE AccountsProofs ---------------------------
(***************************************************************************)
(* For any number of users, NINs and requests in flight: a NIN is shared   *)
(* by no more accounts than verifications may overlap, a driver has a row  *)
(* in drivers, and a name that was entered is not replaced by the name of  *)
(* the identity provider.                                                  *)
(*                                                                         *)
(* Accounts that have a NIN are counted together with those that are about *)
(* to get it.  Together they grow only when a verification finds the NIN   *)
(* free, and then they are no more than the requests.                      *)
(***************************************************************************)
EXTENDS Accounts, FiniteSetTheorems, FunctionTheorems, TLAPS

\* What a request remembers, by the statement it is about to run.
Knows(w) ==
  /\ req[w].pc # "idle" => req[w].user \in Users
  /\ req[w].pc = "role" => req[w].name \in Names
  /\ req[w].pc \in {"ninTaken", "identity", "ninUpdate"}
       => req[w].nin \in NinOwners

AInv == TypeOK /\ \A w \in Workers : Knows(w)

-----------------------------------------------------------------------------
(* The invariant.                                                          *)

LEMMA IdleIsRequest == Idle \in Request /\ Idle.pc = "idle" /\ Idle.user = None
BY DEF Idle, Request

LEMMA AccountsInit == Init => AInv
<1>. SUFFICES ASSUME Init PROVE AInv
     OBVIOUS
<1>1. TypeOK
      BY IdleIsRequest, FaultsAssumption DEF Init, TypeOK, Row
<1>. QED BY <1>1 DEF Init, AInv, Knows, Idle

\* Every step is one of these.
LEMMA StepTaken ==
  ASSUME Next
  PROVE  \E w \in Workers :
           \/ \E u \in Users, role \in {"rider", "driver"}, name \in Names :
                RoleArrive(w, u, role, name)
           \/ \E u \in Users, nin \in NinOwners : NinArrive(w, u, nin)
           \/ RoleUpdate(w) \/ DriverSelect(w) \/ DriverInsert(w)
           \/ NinTaken(w) \/ \E ok \in BOOLEAN : Identity(w, ok)
           \/ NinUpdate(w) \/ Fail(w)
BY DEF Next

\* A request begins with what its caller sent, and the name in the caller's row.
LEMMA ArriveTypes ==
  ASSUME AInv, NEW w \in Workers, NEW u \in Users,
         \/ \E role \in {"rider", "driver"}, name \in Names :
              RoleArrive(w, u, role, name)
         \/ \E nin \in NinOwners : NinArrive(w, u, nin)
  PROVE  AInv'
<1>1. ASSUME NEW role \in {"rider", "driver"}, NEW name \in Names,
             RoleArrive(w, u, role, name)
      PROVE  AInv'
  <2>. DEFINE q == [pc |-> "role", user |-> u, role |-> role, name |-> name,
                    nin |-> None]
  <2>1. q \in Request /\ q.pc = "role" /\ q.user = u /\ q.name = name
        BY DEF Request
  <2>2. req' = [req EXCEPT ![w] = q] /\ UNCHANGED <<user, driver, entered, faults>>
        BY <1>1 DEF RoleArrive, Accept
  <2>. HIDE DEF q
  <2>3. TypeOK'
        BY <2>1, <2>2 DEF AInv, TypeOK
  <2>. QED BY <2>1, <2>2, <2>3 DEF AInv, TypeOK, Knows
<1>2. ASSUME NEW nin \in NinOwners, NinArrive(w, u, nin)
      PROVE  AInv'
  <2>. DEFINE q == [pc |-> "ninTaken", user |-> u, role |-> "rider",
                    name |-> user[u].name, nin |-> nin]
  <2>1. user[u].name \in Names \cup NinOwners \cup {None}
        BY DEF AInv, TypeOK, Row
  <2>2. q \in Request /\ q.pc = "ninTaken" /\ q.user = u /\ q.nin = nin
        BY <2>1 DEF Request
  <2>3. req' = [req EXCEPT ![w] = q] /\ UNCHANGED <<user, driver, entered, faults>>
        BY <1>2 DEF NinArrive, Accept
  <2>. HIDE DEF q
  <2>4. TypeOK'
        BY <2>2, <2>3 DEF AInv, TypeOK
  <2>. QED BY <2>2, <2>3, <2>4 DEF AInv, TypeOK, Knows
<1>. QED BY <1>1, <1>2

\* Steps that only move their request on, or end it, keep what it knows.
LEMMA MoveTypes ==
  ASSUME AInv, NEW w \in Workers,
         \/ Done(w)
         \/ /\ At(w, "role") \/ At(w, "driverSelect")
            /\ Goto(w, "driverSelect") \/ Goto(w, "driverInsert")
         \/ At(w, "ninTaken") /\ Goto(w, "identity")
         \/ At(w, "identity") /\ Goto(w, "ninUpdate")
  PROVE  /\ req' \in [Workers -> Request]
         /\ \A x \in Workers : Knows(x)'
<1>1. req \in [Workers -> Request]
      BY DEF AInv, TypeOK
<1>2. CASE Done(w)
      BY <1>1, <1>2, IdleIsRequest DEF Done, AInv, Knows
<1>3. CASE /\ At(w, "role") \/ At(w, "driverSelect")
           /\ Goto(w, "driverSelect") \/ Goto(w, "driverInsert")
      BY <1>1, <1>3 DEF At, Goto, Request, AInv, Knows
<1>4. CASE At(w, "ninTaken") /\ Goto(w, "identity")
      BY <1>1, <1>4 DEF At, Goto, Request, AInv, Knows
<1>5. CASE At(w, "identity") /\ Goto(w, "ninUpdate")
      BY <1>1, <1>5 DEF At, Goto, Request, AInv, Knows
<1>. QED BY <1>2, <1>3, <1>4, <1>5

LEMMA AccountsNext ==
  ASSUME AInv, [Next]_vars
  PROVE  AInv'
<1>1. CASE UNCHANGED vars
      BY <1>1 DEF vars, AInv, TypeOK, Knows
<1>2. ASSUME NEW w \in Workers, RoleUpdate(w) PROVE AInv'
  <2>1. req[w].user \in Users /\ req[w].name \in Names /\ req[w] \in Request
        BY <1>2 DEF RoleUpdate, At, AInv, TypeOK, Knows
  <2>2. user' \in [Users -> Row]
    <3>1. req[w].role \in {"rider", "driver"}
          BY <2>1 DEF Request
    <3>2. user' = [user EXCEPT ![req[w].user].role = req[w].role,
                               ![req[w].user].name = req[w].name]
          BY <1>2 DEF RoleUpdate
    <3>. QED BY <2>1, <3>1, <3>2 DEF AInv, TypeOK, Row
  <2>3. entered' \in [Users -> Names \cup {None}]
        BY <1>2, <2>1 DEF RoleUpdate, AInv, TypeOK
  <2>4. req' \in [Workers -> Request] /\ \A x \in Workers : Knows(x)'
        BY <1>2, MoveTypes DEF RoleUpdate
  <2>. QED BY <1>2, <2>2, <2>3, <2>4 DEF RoleUpdate, AInv, TypeOK
<1>3. ASSUME NEW w \in Workers, DriverSelect(w) PROVE AInv'
  <2>1. req' \in [Workers -> Request] /\ \A x \in Workers : Knows(x)'
        BY <1>3, MoveTypes DEF DriverSelect
  <2>. QED BY <1>3, <2>1 DEF DriverSelect, AInv, TypeOK
<1>4. ASSUME NEW w \in Workers, DriverInsert(w) PROVE AInv'
  <2>1. req' \in [Workers -> Request] /\ \A x \in Workers : Knows(x)'
        BY <1>4, MoveTypes DEF DriverInsert
  <2>2. req[w].user \in Users
        BY <1>4 DEF DriverInsert, At, AInv, Knows
  <2>. QED BY <1>4, <2>1, <2>2 DEF DriverInsert, AInv, TypeOK
<1>5. ASSUME NEW w \in Workers, NinTaken(w) \/ \E ok \in BOOLEAN : Identity(w, ok)
      PROVE  AInv'
  <2>1. req' \in [Workers -> Request] /\ \A x \in Workers : Knows(x)'
        BY <1>5, MoveTypes DEF NinTaken, Identity
  <2>. QED BY <1>5, <2>1 DEF NinTaken, Identity, AInv, TypeOK
<1>6. ASSUME NEW w \in Workers, NinUpdate(w) PROVE AInv'
  <2>1. req' \in [Workers -> Request] /\ \A x \in Workers : Knows(x)'
        BY <1>6, MoveTypes DEF NinUpdate
  <2>2. /\ req[w].user \in Users /\ req[w].nin \in NinOwners
        /\ req[w].name \in Names \cup NinOwners \cup {None}
        BY <1>6 DEF NinUpdate, At, AInv, TypeOK, Request, Knows
  <2>3. user' \in [Users -> Row]
        BY <1>6, <2>2 DEF NinUpdate, AInv, TypeOK, Row
  <2>. QED BY <1>6, <2>1, <2>3 DEF NinUpdate, AInv, TypeOK
<1>7. ASSUME NEW w \in Workers, Fail(w) PROVE AInv'
  <2>1. req' \in [Workers -> Request] /\ \A x \in Workers : Knows(x)'
        BY <1>7, MoveTypes DEF Fail
  <2>2. faults' \in 0..MaxFaults
        BY <1>7, FaultsAssumption DEF Fail, AInv, TypeOK
  <2>. QED BY <1>7, <2>1, <2>2 DEF Fail, AInv, TypeOK
<1>. QED BY <1>1, <1>2, <1>3, <1>4, <1>5, <1>6, <1>7, StepTaken, ArriveTypes

\* The rows of users and what the requests remember keep their types.
THEOREM AccountsInvariance == Spec => []AInv
<1>1. AInv /\ [Next]_vars => AInv'
      BY AccountsNext
<1>. QED BY <1>1, AccountsInit, PTL DEF Spec

-----------------------------------------------------------------------------
(* Accounts of one NIN.                                                    *)

Holders(n) == {u \in Users : user[u].nin = n}
Past(n) == {w \in Workers : /\ req[w].pc \in {"identity", "ninUpdate"}
                            /\ req[w].nin = n}

\* Those who have the NIN, or may get it without looking again.
Party(n) == Holders(n) \cup {req[w].user : w \in Past(n)}

PartyHolds(n) == /\ IsFiniteSet(Party(n))
                 /\ Cardinality(Party(n)) <= Cardinality(Workers)

PartiesHold == \A n \in NinOwners : PartyHolds(n)

LEMMA PartyShrinks ==
  ASSUME NEW n, PartyHolds(n), Party(n)' \subseteq Party(n),
         IsFiniteSet(Workers)
  PROVE  PartyHolds(n)'
<1>. DEFINE P == Party(n)'
<1>1. /\ IsFiniteSet(P) /\ Cardinality(P) <= Cardinality(Party(n))
      /\ Cardinality(P) \in Nat /\ Cardinality(Party(n)) \in Nat
      /\ Cardinality(Workers) \in Nat
  <2>. HIDE DEF P
  <2>1. P \in SUBSET Party(n)
        BY DEF P
  <2>. QED BY <2>1, FS_Subset, FS_CardinalityType DEF PartyHolds
<1>. HIDE DEF P
<1>2. IsFiniteSet(P) /\ Cardinality(P) <= Cardinality(Workers)
      BY <1>1 DEF PartyHolds
<1>. QED BY <1>2 DEF PartyHolds, P

\* The users of requests are no more than the requests.
LEMMA UsersOfRequests ==
  ASSUME IsFiniteSet(Workers), NEW q, NEW P \in SUBSET {q[w].user : w \in Workers}
  PROVE  IsFiniteSet(P) /\ Cardinality(P) <= Cardinality(Workers)
<1>. DEFINE f == [w \in Workers |-> q[w].user]
            I == {q[w].user : w \in Workers}
<1>1. f \in [Workers -> I] /\ \A u \in I : \E w \in Workers : f[w] = u
      OBVIOUS
<1>. HIDE DEF f, I
<1>2. f \in Surjection(Workers, I)
      BY <1>1, Fun_IsSurj
<1>3. IsFiniteSet(I) /\ Cardinality(I) <= Cardinality(Workers)
      BY <1>2, FS_Surjection
<1>4. P \in SUBSET I
      BY DEF I
<1>5. /\ IsFiniteSet(P) /\ Cardinality(P) <= Cardinality(I)
      /\ Cardinality(P) \in Nat /\ Cardinality(I) \in Nat
      /\ Cardinality(Workers) \in Nat
      BY <1>3, <1>4, FS_Subset, FS_CardinalityType
<1>. QED BY <1>3, <1>5

\* A request that ends leaves the party no larger.
LEMMA PartyAfterDone ==
  ASSUME AInv, NEW w \in Workers, Done(w), user' = user, NEW n
  PROVE  Party(n)' \subseteq Party(n)
<1>1. /\ req'[w].pc = "idle"
      /\ \A x \in Workers : x # w => req'[x] = req[x]
      BY IdleIsRequest DEF AInv, TypeOK, Done
<1>. QED BY <1>1 DEF Party, Past, Holders

\* Only the check for collisions, when it finds nobody, lets a user in.
LEMMA PartiesNext ==
  ASSUME AInv, PartiesHold, [Next]_vars, IsFiniteSet(Workers)
  PROVE  PartiesHold'
<1>. SUFFICES ASSUME NEW n \in NinOwners PROVE PartyHolds(n)'
     BY DEF PartiesHold
<1>a. PartyHolds(n)
      BY DEF PartiesHold
<1>b. req \in [Workers -> Request] /\ user \in [Users -> Row]
      BY DEF AInv, TypeOK
<1>c. ASSUME NEW w \in Workers, Done(w), user' = user PROVE PartyHolds(n)'
      BY <1>a, <1>c, PartyAfterDone, PartyShrinks
<1>d. ASSUME NEW w \in Workers, user' = user,
             req'[w].pc \notin {"identity", "ninUpdate"},
             \A x \in Workers : x # w => req'[x] = req[x]
      PROVE  PartyHolds(n)'
  <2>1. Party(n)' \subseteq Party(n)
        BY <1>d DEF Party, Past, Holders
  <2>. QED BY <1>a, <2>1, PartyShrinks
<1>1. CASE UNCHANGED vars
  <2>1. Party(n)' \subseteq Party(n)
        BY <1>1 DEF vars, Party, Past, Holders
  <2>. QED BY <1>a, <2>1, PartyShrinks
<1>2. ASSUME NEW w \in Workers, NEW u \in Users,
             \/ \E role \in {"rider", "driver"}, name \in Names :
                  RoleArrive(w, u, role, name)
             \/ \E nin \in NinOwners : NinArrive(w, u, nin)
      PROVE  PartyHolds(n)'
      BY <1>2, <1>b, <1>d DEF RoleArrive, NinArrive, Accept
<1>3. ASSUME NEW w \in Workers, RoleUpdate(w) PROVE PartyHolds(n)'
  <2>1. \A u \in Users : user'[u].nin = user[u].nin
        BY <1>3, <1>b DEF RoleUpdate, Row
  <2>2. /\ req'[w].pc \notin {"identity", "ninUpdate"}
        /\ \A x \in Workers : x # w => req'[x] = req[x]
        BY <1>3, <1>b, IdleIsRequest DEF RoleUpdate, Goto, Done, Request
  <2>3. Party(n)' \subseteq Party(n)
        BY <2>1, <2>2 DEF Party, Past, Holders
  <2>. QED BY <1>a, <2>3, PartyShrinks
<1>4. ASSUME NEW w \in Workers, DriverSelect(w) \/ DriverInsert(w) \/ Fail(w)
      PROVE  PartyHolds(n)'
  <2>1. CASE Goto(w, "driverInsert") /\ user' = user
        BY <1>b, <1>d, <2>1 DEF Goto, Request
  <2>. QED BY <1>4, <1>c, <2>1 DEF DriverSelect, DriverInsert, Fail
<1>5. ASSUME NEW w \in Workers, NinTaken(w) PROVE PartyHolds(n)'
  <2>1. CASE Done(w)
        BY <1>5, <1>c, <2>1 DEF NinTaken
  <2>2. CASE Goto(w, "identity")
    <3>1. /\ req'[w].nin = req[w].nin /\ req'[w].user = req[w].user
          /\ \A x \in Workers : x # w => req'[x] = req[x]
          BY <1>b, <2>2 DEF Goto, Request
    <3>2. user' = user /\ (Holders(n))' = Holders(n)
          BY <1>5 DEF NinTaken, Holders
    <3>3. CASE req[w].nin # n
      <4>1. Party(n)' \subseteq Party(n)
            BY <3>1, <3>2, <3>3 DEF Party, Past
      <4>. QED BY <1>a, <4>1, PartyShrinks
    <3>4. CASE req[w].nin = n /\ req[w].user \in Holders(n)
      <4>1. Party(n)' \subseteq Party(n)
            BY <3>1, <3>2, <3>4 DEF Party, Past
      <4>. QED BY <1>a, <4>1, PartyShrinks
    <3>5. CASE req[w].nin = n /\ Holders(n) = {}
      <4>1. Party(n)' \in SUBSET {req'[x].user : x \in Workers}
            BY <3>2, <3>5 DEF Party, Past
      <4>. QED BY <4>1, UsersOfRequests DEF PartyHolds
    <3>6. CASE req[w].nin = n /\ Done(w)
          BY <1>c, <3>2, <3>6
    <3>. QED BY <1>5, <3>3, <3>4, <3>5, <3>6 DEF NinTaken, Holders
  <2>. QED BY <1>5, <2>1, <2>2 DEF NinTaken
<1>6. ASSUME NEW w \in Workers, NEW ok \in BOOLEAN, Identity(w, ok)
      PROVE  PartyHolds(n)'
  <2>1. CASE Goto(w, "ninUpdate")
    <3>1. /\ req'[w].nin = req[w].nin /\ req'[w].user = req[w].user
          /\ req[w].pc = "identity" /\ user' = user
          /\ \A x \in Workers : x # w => req'[x] = req[x]
          BY <1>6, <1>b, <2>1 DEF Identity, At, Goto, Request
    <3>2. Party(n)' \subseteq Party(n)
          BY <3>1 DEF Party, Past, Holders
    <3>. QED BY <1>a, <3>2, PartyShrinks
  <2>. QED BY <1>6, <1>c, <2>1 DEF Identity
<1>7. ASSUME NEW w \in Workers, NinUpdate(w) PROVE PartyHolds(n)'
  <2>1. /\ req'[w].pc = "idle" /\ req[w].pc = "ninUpdate"
        /\ \A x \in Workers : x # w => req'[x] = req[x]
        BY <1>7, <1>b, IdleIsRequest DEF NinUpdate, At, Done
  <2>2. \A u \in Users : user'[u].nin = IF u = req[w].user THEN req[w].nin
                                                         ELSE user[u].nin
        BY <1>7, <1>b DEF NinUpdate, Row
  <2>3. Party(n)' \subseteq Party(n)
        BY <2>1, <2>2 DEF Party, Past, Holders
  <2>. QED BY <1>a, <2>3, PartyShrinks
<1>. QED BY <1>1, <1>2, <1>3, <1>4, <1>5, <1>6, <1>7, StepTaken

LEMMA PartiesInit == ASSUME Init, IsFiniteSet(Workers) PROVE PartiesHold
<1>1. \A n \in NinOwners : Holders(n) = {}
      BY NoneAssumption DEF Init, Holders
<1>2. \A n \in NinOwners : Party(n) \in SUBSET {req[x].user : x \in Workers}
      BY <1>1 DEF Party, Past
<1>. QED BY <1>2, UsersOfRequests DEF PartiesHold, PartyHolds

\* However verifications race and fail, a NIN is the NIN of at most as many
\* accounts as there may be requests in flight.
THEOREM NinsBounded ==
  ASSUME IsFiniteSet(Workers)
  PROVE  Spec => []NinHoldersBounded
<1>1. AInv /\ PartiesHold /\ [Next]_vars => AInv' /\ PartiesHold'
      BY AccountsNext, PartiesNext
<1>2. Init => AInv /\ PartiesHold
      BY AccountsInit, PartiesInit
<1>3. PartiesHold => NinHoldersBounded
  <2>. SUFFICES ASSUME PartiesHold, NEW n \in NinOwners
                PROVE  Cardinality(Holders(n)) <= Cardinality(Workers)
       BY DEF NinHoldersBounded, Holders
  <2>1. PartyHolds(n) /\ Holders(n) \in SUBSET Party(n)
        BY DEF PartiesHold, Party
  <2>2. /\ Cardinality(Holders(n)) <= Cardinality(Party(n))
        /\ Cardinality(Holders(n)) \in Nat /\ Cardinality(Party(n)) \in Nat
        /\ Cardinality(Workers) \in Nat
        BY <2>1, FS_Subset, FS_CardinalityType DEF PartyHolds
  <2>. QED BY <2>1, <2>2 DEF PartyHolds
<1>. QED BY <1>1, <1>2, <1>3, PTL DEF Spec

-----------------------------------------------------------------------------
(* Drivers.                                                                *)

\* Whoever became a driver has a row, or a request that is about to look for it
\* and to insert it.
RowsComing ==
  faults = 0 =>
    \A u \in Users : user[u].role = "driver" =>
      \/ u \in driver
      \/ \E w \in Workers : /\ req[w].user = u
                            /\ req[w].pc \in {"driverSelect", "driverInsert"}

LEMMA RowsNext ==
  ASSUME AInv, RowsComing, [Next]_vars
  PROVE  RowsComing'
<1>. SUFFICES ASSUME faults' = 0, NEW u \in Users, user'[u].role = "driver",
                     u \notin driver'
              PROVE  \E w \in Workers :
                       /\ req'[w].user = u
                       /\ req'[w].pc \in {"driverSelect", "driverInsert"}
     BY DEF RowsComing
<1>a. req \in [Workers -> Request] /\ user \in [Users -> Row] /\ faults \in Nat
      BY FaultsAssumption DEF AInv, TypeOK
<1>b. ASSUME faults = 0, user'[u].role = user[u].role, driver' = driver
      PROVE  \E w \in Workers : /\ req[w].user = u
                                /\ req[w].pc \in {"driverSelect", "driverInsert"}
      BY <1>b DEF RowsComing
<1>c. ASSUME NEW w \in Workers, faults' = faults, driver' = driver,
             user'[u].role = user[u].role,
             req[w].pc \notin {"driverSelect", "driverInsert"},
             \A x \in Workers : x # w => req'[x] = req[x]
      PROVE  \E x \in Workers : /\ req'[x].user = u
                                /\ req'[x].pc \in {"driverSelect", "driverInsert"}
      BY <1>b, <1>c
<1>1. CASE UNCHANGED vars
      BY <1>1, <1>b DEF vars
<1>2. ASSUME NEW w \in Workers, NEW v \in Users,
             \/ \E role \in {"rider", "driver"}, name \in Names :
                  RoleArrive(w, v, role, name)
             \/ \E nin \in NinOwners : NinArrive(w, v, nin)
      PROVE  \E x \in Workers : /\ req'[x].user = u
                                /\ req'[x].pc \in {"driverSelect", "driverInsert"}
      BY <1>2, <1>a, <1>c DEF RoleArrive, NinArrive, Accept
<1>3. ASSUME NEW w \in Workers, RoleUpdate(w)
      PROVE  \E x \in Workers : /\ req'[x].user = u
                                /\ req'[x].pc \in {"driverSelect", "driverInsert"}
  <2>1. /\ req[w].pc = "role" /\ faults' = faults /\ driver' = driver
        /\ \A x \in Workers : x # w => req'[x] = req[x]
        BY <1>3, <1>a DEF RoleUpdate, At, Goto, Done
  <2>2. CASE u # req[w].user
    <3>1. user'[u].role = user[u].role
          BY <1>3, <1>a, <2>2 DEF RoleUpdate
    <3>. QED BY <1>c, <2>1, <3>1
  <2>3. CASE u = req[w].user
    <3>1. req[w].role = "driver"
          BY <1>3, <1>a, <2>3 DEF RoleUpdate, Row
    <3>2. req' = [req EXCEPT ![w].pc = "driverSelect"]
          BY <1>3, <3>1 DEF RoleUpdate, Goto
    <3>3. req'[w].pc = "driverSelect" /\ req'[w].user = u
          BY <1>a, <2>3, <3>2 DEF Request
    <3>. QED BY <3>3
  <2>. QED BY <2>2, <2>3
<1>4. ASSUME NEW w \in Workers, DriverSelect(w) \/ DriverInsert(w)
      PROVE  \E x \in Workers : /\ req'[x].user = u
                                /\ req'[x].pc \in {"driverSelect", "driverInsert"}
  <2>1. /\ user' = user /\ faults' = faults /\ driver \subseteq driver'
        /\ \A x \in Workers : x # w => req'[x] = req[x]
        BY <1>4, <1>a DEF DriverSelect, DriverInsert, Goto, Done
  <2>2. PICK x \in Workers : /\ req[x].user = u
                             /\ req[x].pc \in {"driverSelect", "driverInsert"}
        BY <2>1 DEF RowsComing
  <2>3. CASE x # w
        BY <2>1, <2>2, <2>3
  <2>4. CASE x = w
    <3>1. req' = [req EXCEPT ![w].pc = "driverInsert"]
          BY <1>4, <2>1, <2>2, <2>4 DEF DriverSelect, DriverInsert, Goto
    <3>2. req'[w].pc = "driverInsert" /\ req'[w].user = req[w].user
          BY <1>a, <3>1 DEF Request
    <3>. QED BY <2>2, <2>4, <3>2
  <2>. QED BY <2>3, <2>4
<1>5. ASSUME NEW w \in Workers, NinTaken(w) \/ \E ok \in BOOLEAN : Identity(w, ok)
      PROVE  \E x \in Workers : /\ req'[x].user = u
                                /\ req'[x].pc \in {"driverSelect", "driverInsert"}
      BY <1>5, <1>a, <1>c DEF NinTaken, Identity, At, Goto, Done
<1>6. ASSUME NEW w \in Workers, NinUpdate(w)
      PROVE  \E x \in Workers : /\ req'[x].user = u
                                /\ req'[x].pc \in {"driverSelect", "driverInsert"}
  <2>1. user'[u].role = user[u].role
        BY <1>6, <1>a DEF NinUpdate, Row
  <2>. QED BY <1>6, <1>a, <1>c, <2>1 DEF NinUpdate, At, Done
<1>7. ASSUME NEW w \in Workers, Fail(w) PROVE FALSE
      BY <1>7, <1>a DEF Fail
<1>. QED BY <1>1, <1>2, <1>3, <1>4, <1>5, <1>6, <1>7, StepTaken

\* A user whose role is driver has its row in drivers once its requests are
\* through, unless a statement failed.
THEOREM DriversHaveRows == Spec => []DriverHasRow
<1>1. AInv /\ RowsComing /\ [Next]_vars => AInv' /\ RowsComing'
      BY AccountsNext, RowsNext
<1>2. Init => AInv /\ RowsComing
      BY AccountsInit DEF Init, RowsComing
<1>3. RowsComing => DriverHasRow
      BY DEF RowsComing, DriverHasRow
<1>. QED BY <1>1, <1>2, <1>3, PTL DEF Spec

-----------------------------------------------------------------------------
(* Names.                                                                  *)

LEMMA NameKept ==
  ASSUME AInv, [Next]_vars, NEW u \in Users, entered[u] # None,
         user[u].name = entered[u], ~Outdated(u)
  PROVE  user'[u].name = entered'[u]
<1>a. user \in [Users -> Row] /\ entered \in [Users -> Names \cup {None}]
      BY DEF AInv, TypeOK
<1>1. CASE user' = user /\ entered' = entered
      BY <1>1
<1>2. ASSUME NEW w \in Workers, RoleUpdate(w) PROVE user'[u].name = entered'[u]
      BY <1>2, <1>a DEF RoleUpdate, Row
<1>3. ASSUME NEW w \in Workers, NinUpdate(w) PROVE user'[u].name = entered'[u]
  <2>1. CASE u # req[w].user
        BY <1>3, <1>a, <2>1 DEF NinUpdate
  <2>2. CASE u = req[w].user
    <3>1. req[w].name = user[u].name /\ req[w].name # None
          BY <1>3, <2>2 DEF NinUpdate, At, Outdated
    <3>. QED BY <1>3, <1>a, <2>2, <3>1 DEF NinUpdate, Row
  <2>. QED BY <2>1, <2>2
<1>. QED BY <1>1, <1>2, <1>3
         DEF vars, Next, RoleArrive, NinArrive, DriverSelect, DriverInsert,
             NinTaken, Identity, Fail

\* The verified name never replaces a name the user entered before the
\* verification began.
THEOREM EnteredNamesKept == Spec => EnteredNameKept
<1>1. AInv /\ [Next]_vars =>
        [\A u \in Users :
           (entered[u] # None /\ user[u].name = entered[u] /\ ~Outdated(u))
             => user'[u].name = entered'[u]]_vars
      BY NameKept
<1>. QED BY <1>1, AccountsInvariance, PTL DEF Spec, EnteredNameKept
=============================================================================
