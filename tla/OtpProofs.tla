----------------------------- MODULE OtpProofs -----------------------------
(***************************************************************************)
(* What holds of one-time codes for any number of phones, codes, limits,   *)
(* failures and requests in flight: how often a code can be guessed at and *)
(* used, and that its keys are forgotten.                                  *)
(*                                                                         *)
(* A wrong guess is compared before it is counted.  What was compared is   *)
(* therefore bounded by what is counted, what is about to be counted and   *)
(* what failures lost; and as a code that left Redis never comes back, the *)
(* requests that read it in time are all that can ever use it.             *)
(***************************************************************************)
EXTENDS Otp, FiniteSetTheorems, TLAPS

Request == [pc : Steps, phone : Phones \cup {"none"}, code : {0} \cup Codes]

\* What a request knows: a code it read was issued for its phone.
Knows(w) ==
  /\ req[w].pc # "idle" => req[w].phone \in Phones
  /\ req[w].code # 0 => /\ req[w].phone \in Phones
                        /\ req[w].code <= issued[req[w].phone]
  /\ req[w].pc \in {"incr", "del", "delLocked"} => req[w].code \in Codes

\* Nothing is known of codes that were not issued yet.
Fresh(p) ==
  /\ otp[p].code <= issued[p]
  /\ \A c \in Codes : c > issued[p] => compared[p][c] = 0 /\ logins[p][c] = 0

OtpInv == /\ TypeOK
          /\ \A w \in Workers : Knows(w)
          /\ \A p \in Phones : Fresh(p)

-----------------------------------------------------------------------------
(* The invariant.                                                          *)

LEMMA OtpInit == Init => OtpInv
<1>. SUFFICES ASSUME Init PROVE OtpInv
     OBVIOUS
<1>1. TypeOK
      BY LimitsAssumption DEF Init, TypeOK, NoOtp, NoRate, Idle, Steps, Codes
<1>2. \A w \in Workers : Knows(w)
      BY DEF Init, Knows, Idle
<1>3. \A p \in Phones : Fresh(p)
      BY LimitsAssumption DEF Init, Fresh, NoOtp, Codes
<1>. QED BY <1>1, <1>2, <1>3 DEF OtpInv

\* A request other than the one that moves knows what it knew.
LEMMA OthersKnow ==
  ASSUME OtpInv, NEW w \in Workers, NEW q, req' = [req EXCEPT ![w] = q],
         \A p \in Phones : issued'[p] \in Nat /\ issued'[p] >= issued[p],
         Knows(w)'
  PROVE  \A x \in Workers : Knows(x)'
<1>. TAKE x \in Workers
<1>1. CASE x = w
      BY <1>1
<1>2. CASE x # w
  <2>1. req'[x] = req[x] /\ Knows(x) /\ req[x].code \in {0} \cup Codes
        BY <1>2 DEF OtpInv, TypeOK
  <2>2. \A p \in Phones : issued[p] \in Nat
        BY LimitsAssumption DEF OtpInv, TypeOK
  <2>. QED BY <2>1, <2>2, LimitsAssumption DEF Knows, Codes
<1>. QED BY <1>1, <1>2

\* Steps of a handler that leave the codes that were issued alone.
LEMMA RequestTypes ==
  ASSUME OtpInv, NEW w \in Workers,
         \/ \E p \in Phones : RequestIncr(w, p) \/ VerifyTestCode(w, p)
         \/ RequestRateTtl(w) \/ RequestOtpTtl(w) \/ RequestSms(w)
         \/ VerifyFind(w) \/ VerifyCreate(w) \/ Fail(w)
  PROVE  OtpInv'
<1>. USE DEF OtpInv
<1>1. /\ UNCHANGED <<issued, compared, logins>>
      /\ \A p \in Phones : otp'[p].code = otp[p].code
      /\ otp' \in [Phones -> [code : {0} \cup Codes, attempts : Nat,
                              ttl : BOOLEAN]]
  <2>1. CASE RequestOtpTtl(w)
    <3>. DEFINE p == req[w].phone
    <3>1. otp' = [otp EXCEPT ![p].ttl = @ \/ otp[p] # NoOtp] /\ p \in Phones
          BY <2>1 DEF RequestOtpTtl, At, Knows
    <3>. DEFINE b == otp[p].ttl \/ otp[p] # NoOtp
                row == [otp[p] EXCEPT !.ttl = b]
    <3>2. b \in BOOLEAN
          BY <3>1 DEF TypeOK
    <3>. HIDE DEF b
    <3>3. /\ row \in [code : {0} \cup Codes, attempts : Nat, ttl : BOOLEAN]
          /\ row.code = otp[p].code
          BY <3>1, <3>2 DEF TypeOK
    <3>4. otp' = [otp EXCEPT ![p] = row]
          BY <3>1 DEF b
    <3>. HIDE DEF row, p
    <3>5. \A r \in Phones : otp'[r].code = otp[r].code
          BY <3>1, <3>3, <3>4 DEF TypeOK
    <3>6. otp' \in [Phones -> [code : {0} \cup Codes, attempts : Nat,
                              ttl : BOOLEAN]]
          BY <3>1, <3>3, <3>4 DEF TypeOK
    <3>. QED BY <2>1, <3>5, <3>6 DEF RequestOtpTtl
  <2>2. CASE ~RequestOtpTtl(w)
        BY <2>2 DEF RequestIncr, VerifyTestCode, RequestRateTtl, RequestSms,
                    VerifyFind, VerifyCreate, Fail, TypeOK
  <2>. QED BY <2>1, <2>2
<1>2. /\ rate' \in [Phones -> [n : 0..(MaxPerHour + 1), ttl : BOOLEAN]]
      /\ accounts' \subseteq Phones
      /\ faults' \in 0..MaxFaults
  <2>1. ASSUME NEW p \in Phones, RequestIncr(w, p)
        PROVE  rate' \in [Phones -> [n : 0..(MaxPerHour + 1), ttl : BOOLEAN]]
    <3>1. Incr(rate[p].n) \in 0..(MaxPerHour + 1)
          BY LimitsAssumption DEF Incr, TypeOK
    <3>. QED BY <2>1, <3>1 DEF RequestIncr, TypeOK
  <2>2. CASE RequestRateTtl(w)
        BY <2>2 DEF RequestRateTtl, TypeOK
  <2>3. rate' \in [Phones -> [n : 0..(MaxPerHour + 1), ttl : BOOLEAN]]
        BY <2>1, <2>2 DEF VerifyTestCode, RequestOtpTtl, RequestSms,
                          VerifyFind, VerifyCreate, Fail, TypeOK
  <2>4. accounts' \subseteq Phones
    <3>1. CASE VerifyCreate(w)
          BY <3>1 DEF VerifyCreate, At, Knows, TypeOK
    <3>2. CASE ~VerifyCreate(w)
          BY <3>2 DEF RequestIncr, VerifyTestCode, RequestRateTtl,
                 RequestOtpTtl, RequestSms, VerifyFind, Fail, TypeOK
    <3>. QED BY <3>1, <3>2
  <2>5. faults' \in 0..MaxFaults
    <3>1. faults' = faults \/ (faults < MaxFaults /\ faults' = faults + 1)
          BY DEF RequestIncr, VerifyTestCode, RequestRateTtl, RequestOtpTtl,
                 RequestSms, VerifyFind, VerifyCreate, Fail
    <3>. QED BY <3>1, LimitsAssumption DEF TypeOK
  <2>. QED BY <2>3, <2>4, <2>5
<1>3. PICK q \in Request :
        /\ req' = [req EXCEPT ![w] = q]
        /\ q.pc \notin {"incr", "del", "delLocked"}
        /\ q.pc # "idle" => q.phone \in Phones
        /\ q.code = 0 \/ (q.code = req[w].code /\ q.phone = req[w].phone)
  <2>1. ASSUME NEW p \in Phones, RequestIncr(w, p) \/ VerifyTestCode(w, p)
        PROVE  \E q \in Request :
                 /\ req' = [req EXCEPT ![w] = q]
                 /\ q.pc \notin {"incr", "del", "delLocked"}
                 /\ q.pc # "idle" => q.phone \in Phones
                 /\ q.code = 0
    <3>1. PICK q : /\ req' = [req EXCEPT ![w] = q]
                   /\ \/ q = Idle
                      \/ \E pc \in {"rateTtl", "hset", "find"} :
                           q = [pc |-> pc, phone |-> p, code |-> 0]
          BY <2>1 DEF RequestIncr, VerifyTestCode, Accept
    <3>2. /\ q \in Request /\ q.pc \notin {"incr", "del", "delLocked"}
          /\ q.pc # "idle" => q.phone \in Phones
          /\ q.code = 0
          BY <3>1 DEF Idle, Request, Steps
    <3>. QED BY <3>1, <3>2
  <2>2. ASSUME NEW pc \in Steps \ {"incr", "del", "delLocked"}, Goto(w, pc),
               req[w].pc # "idle"
        PROVE  \E q \in Request :
                 /\ req' = [req EXCEPT ![w] = q]
                 /\ q.pc \notin {"incr", "del", "delLocked"}
                 /\ q.pc # "idle" => q.phone \in Phones
                 /\ q.code = req[w].code /\ q.phone = req[w].phone
    <3>1. req[w] \in Request /\ req[w].phone \in Phones
          BY <2>2 DEF TypeOK, Knows, Request
    <3>. DEFINE q == [req[w] EXCEPT !.pc = pc]
    <3>2. /\ q \in Request /\ q.pc = pc
          /\ q.code = req[w].code /\ q.phone = req[w].phone
          BY <3>1 DEF Request
    <3>3. req' = [req EXCEPT ![w] = q]
          BY <2>2 DEF Goto
    <3>. HIDE DEF q
    <3>. QED BY <2>2, <3>1, <3>2, <3>3
  <2>3. \/ \E p \in Phones : RequestIncr(w, p) \/ VerifyTestCode(w, p)
        \/ Done(w)
        \/ \E pc \in Steps \ {"incr", "del", "delLocked"} :
             Goto(w, pc) /\ req[w].pc # "idle"
        BY DEF RequestRateTtl, RequestOtpTtl, RequestSms, VerifyFind,
               VerifyCreate, Fail, At, Steps
  <2>4. Idle \in Request /\ Idle.code = 0 /\ Idle.pc = "idle"
        BY DEF Idle, Request, Steps
  <2>. QED BY <2>1, <2>2, <2>3, <2>4 DEF Done
<1>4. req' \in [Workers -> [pc : Steps, phone : Phones \cup {"none"},
                            code : {0} \cup Codes]]
      BY <1>3 DEF TypeOK, Request
<1>5. TypeOK'
      BY <1>1, <1>2, <1>4 DEF TypeOK
<1>6. Knows(w)'
      BY <1>1, <1>3 DEF Knows, TypeOK
<1>7. \A p \in Phones : issued'[p] \in Nat /\ issued'[p] >= issued[p]
      BY <1>1, LimitsAssumption DEF TypeOK
<1>8. \A x \in Workers : Knows(x)'
      BY <1>3, <1>6, <1>7, OthersKnow
<1>9. \A p \in Phones : Fresh(p)'
      BY <1>1 DEF Fresh
<1>. QED BY <1>5, <1>8, <1>9

LEMMA HsetTypes ==
  ASSUME OtpInv, NEW w \in Workers, RequestHset(w)
  PROVE  /\ OtpInv'
         /\ otp'[req[w].phone].code = issued[req[w].phone] + 1
<1>. USE DEF OtpInv
<1>. DEFINE p == req[w].phone
            n == issued[p] + 1
<1>1. /\ p \in Phones /\ req[w] \in Request /\ req[w].pc = "hset"
      /\ n \in Codes /\ issued' = [issued EXCEPT ![p] = n]
      /\ Goto(w, "otpTtl")
      /\ UNCHANGED <<rate, accounts, compared, logins, faults>>
      BY LimitsAssumption DEF RequestHset, At, Knows, TypeOK, Request, Codes
<1>2. /\ otp' \in [Phones -> [code : {0} \cup Codes, attempts : Nat,
                              ttl : BOOLEAN]]
      /\ otp'[p].code = n
      /\ \A r \in Phones \ {p} : otp'[r] = otp[r]
  <2>. DEFINE row == [otp[p] EXCEPT !.code = n, !.attempts = 0]
  <2>1. /\ row \in [code : {0} \cup Codes, attempts : Nat, ttl : BOOLEAN]
        /\ row.code = n
        BY <1>1 DEF TypeOK
  <2>2. otp' = [otp EXCEPT ![p] = row]
        BY DEF RequestHset
  <2>. HIDE DEF row, p, n
  <2>. QED BY <1>1, <2>1, <2>2 DEF TypeOK
<1>3. PICK q \in Request : /\ req' = [req EXCEPT ![w] = q]
                           /\ q.pc = "otpTtl" /\ q.phone = p
                           /\ q.code = req[w].code
  <2>. DEFINE q == [req[w] EXCEPT !.pc = "otpTtl"]
  <2>1. /\ q \in Request /\ q.pc = "otpTtl" /\ q.phone = p
        /\ q.code = req[w].code
        BY <1>1 DEF Request, Steps
  <2>2. req' = [req EXCEPT ![w] = q]
        BY <1>1 DEF Goto
  <2>. HIDE DEF q
  <2>. QED BY <2>1, <2>2
<1>. HIDE DEF n
<1>4. /\ issued' \in [Phones -> 0..MaxCodes]
      /\ \A r \in Phones \ {p} : issued'[r] = issued[r]
      /\ issued'[p] = n
      BY <1>1, LimitsAssumption DEF TypeOK, Codes
<1>5. TypeOK'
      BY <1>1, <1>2, <1>3, <1>4 DEF TypeOK, Request
<1>6. n = issued[p] + 1 /\ \A r \in Phones : issued[r] \in Nat
      BY <1>1, LimitsAssumption DEF n, TypeOK
<1>7. \A r \in Phones : issued'[r] \in Nat /\ issued'[r] >= issued[r]
      BY <1>1, <1>4, <1>6, LimitsAssumption DEF TypeOK
<1>8. Knows(w)'
  <2>1. req'[w] = q /\ Knows(w) /\ req[w].code \in {0} \cup Codes
        BY <1>3 DEF TypeOK
  <2>2. req[w].code # 0 => req[w].code <= issued[p]
        BY <2>1 DEF Knows
  <2>. HIDE DEF p
  <2>3. req[w].code # 0 => req[w].code <= issued'[p]
        BY <1>1, <1>6, <1>7, <2>1, <2>2, LimitsAssumption DEF Codes
  <2>. QED BY <1>1, <1>3, <2>1, <2>3 DEF Knows
<1>9. \A x \in Workers : Knows(x)'
      BY <1>3, <1>7, <1>8, OthersKnow
<1>10. ASSUME NEW r \in Phones PROVE Fresh(r)'
  <2>1. CASE r = p
    <3>. HIDE DEF p
    <3>1. \A c \in Codes : c > n => c > issued[p]
          BY <1>1, <1>6, LimitsAssumption DEF Codes
    <3>2. Fresh(p)
          BY <1>1
    <3>3. n <= n
          BY <1>1, LimitsAssumption DEF Codes
    <3>. QED BY <1>1, <1>2, <1>4, <2>1, <3>1, <3>2, <3>3 DEF Fresh
  <2>2. CASE r # p
        BY <1>1, <1>2, <1>4, <1>10, <2>2 DEF Fresh
  <2>. QED BY <2>1, <2>2
<1>. QED BY <1>2, <1>5, <1>6, <1>9, <1>10

\* Steps that may count what happens to a code, or take it away.
LEMMA VerifyTypes ==
  ASSUME OtpInv, NEW w \in Workers,
         \/ \E p \in Phones, guess \in {0} \cup Codes : VerifyGet(w, p, guess)
         \/ VerifyDelLocked(w) \/ VerifyIncr(w) \/ VerifyDel(w)
         \/ VerifyToken(w)
  PROVE  OtpInv'
<1>. USE DEF OtpInv
<1>1. UNCHANGED <<rate, issued, accounts, faults>>
      BY DEF VerifyGet, VerifyDelLocked, VerifyIncr, VerifyDel, VerifyToken
<1>2. /\ otp' \in [Phones -> [code : {0} \cup Codes, attempts : Nat,
                              ttl : BOOLEAN]]
      /\ \A p \in Phones : otp'[p].code \in {0, otp[p].code}
  <2>1. CASE VerifyIncr(w)
    <3>. DEFINE p == req[w].phone
                row == [otp[p] EXCEPT !.attempts = @ + 1]
    <3>1. p \in Phones
          BY <2>1 DEF VerifyIncr, At, Knows
    <3>t. /\ otp[p] \in [code : {0} \cup Codes, attempts : Nat, ttl : BOOLEAN]
          /\ otp[p].attempts + 1 \in Nat
          BY <3>1 DEF TypeOK
    <3>2. /\ row \in [code : {0} \cup Codes, attempts : Nat, ttl : BOOLEAN]
          /\ row.code = otp[p].code
          BY <3>t
    <3>3. otp' = [otp EXCEPT ![p] = row]
          BY <2>1 DEF VerifyIncr
    <3>. HIDE DEF p, row
    <3>. QED BY <3>1, <3>2, <3>3 DEF TypeOK
  <2>2. CASE VerifyDelLocked(w) \/ VerifyDel(w)
    <3>1. NoOtp \in [code : {0} \cup Codes, attempts : Nat, ttl : BOOLEAN]
          BY DEF NoOtp
    <3>2. otp' = [otp EXCEPT ![req[w].phone] = NoOtp]
          BY <2>2 DEF VerifyDelLocked, VerifyDel
    <3>. QED BY <3>1, <3>2 DEF TypeOK, NoOtp
  <2>3. CASE UNCHANGED otp
        BY <2>3 DEF TypeOK
  <2>. QED BY <2>1, <2>2, <2>3 DEF VerifyGet, VerifyToken
<1>3. /\ compared' \in [Phones -> [Codes -> Nat]]
      /\ logins' \in [Phones -> [Codes -> Nat]]
      /\ \A p \in Phones : \A c \in Codes :
           /\ compared'[p][c] # compared[p][c] => c = otp[p].code
           /\ logins'[p][c] # logins[p][c] => /\ p = req[w].phone
                                              /\ c = req[w].code
  <2>1. ASSUME NEW p \in Phones, NEW guess \in {0} \cup Codes,
               VerifyGet(w, p, guess)
        PROVE  /\ compared' \in [Phones -> [Codes -> Nat]]
               /\ logins' = logins
               /\ \A r \in Phones : \A c \in Codes :
                    compared'[r][c] # compared[r][c] => c = otp[r].code
    <3>1. \/ compared' = compared
          \/ compared' = [compared EXCEPT ![p][otp[p].code] = @ + 1]
          BY <2>1 DEF VerifyGet
    <3>2. otp[p].code \in Codes
          BY <2>1 DEF VerifyGet, TypeOK
    <3>. QED BY <2>1, <3>1, <3>2 DEF VerifyGet, TypeOK
  <2>2. CASE VerifyToken(w)
    <3>1. /\ req[w].phone \in Phones /\ compared' = compared
          /\ \/ logins' = logins
             \/ /\ req[w].code \in Codes
                /\ logins' = [logins EXCEPT ![req[w].phone][req[w].code] = @ + 1]
          BY <2>2 DEF VerifyToken, TypeOK, At, Knows
    <3>2. /\ compared \in [Phones -> [Codes -> Nat]]
          /\ logins \in [Phones -> [Codes -> Nat]]
          BY DEF TypeOK
    <3>3. PICK u \in Phones, k \in {0} \cup Codes :
            u = req[w].phone /\ k = req[w].code
          BY <3>1 DEF TypeOK
    <3>4. /\ logins' \in [Phones -> [Codes -> Nat]]
          /\ \A p \in Phones : \A c \in Codes :
               logins'[p][c] # logins[p][c] => p = u /\ c = k
      <4>1. CASE logins' = logins
            BY <3>2, <4>1
      <4>2. CASE k \in Codes /\ logins' = [logins EXCEPT ![u][k] = @ + 1]
            BY <3>2, <4>2
      <4>. QED BY <3>1, <3>3, <4>1, <4>2
    <3>. QED BY <3>1, <3>2, <3>3, <3>4
  <2>3. CASE UNCHANGED <<compared, logins>>
        BY <2>3 DEF TypeOK
  <2>. QED BY <2>1, <2>2, <2>3 DEF VerifyDelLocked, VerifyIncr, VerifyDel, TypeOK
<1>4. PICK q \in Request :
        /\ req' = [req EXCEPT ![w] = q]
        /\ q.pc # "idle" => q.phone \in Phones
        /\ q.pc \in {"incr", "del", "delLocked"} => q.code \in Codes
        /\ q.code # 0 => q.phone \in Phones /\ q.code <= issued[q.phone]
  <2>1. ASSUME NEW p \in Phones, NEW guess \in {0} \cup Codes,
               VerifyGet(w, p, guess)
        PROVE  \E q \in Request :
                 /\ req' = [req EXCEPT ![w] = q]
                 /\ q.phone = p /\ q.code = otp[p].code /\ q.code \in Codes
    <3>1. PICK pc \in Steps :
            req' = [req EXCEPT ![w] =
                      [phone |-> p, code |-> otp[p].code, pc |-> pc]]
          BY <2>1 DEF VerifyGet, Accept, Steps
    <3>2. otp[p].code \in Codes
          BY <2>1 DEF VerifyGet, TypeOK
    <3>. DEFINE q == [phone |-> p, code |-> otp[p].code, pc |-> pc]
    <3>3. q \in Request /\ q.phone = p /\ q.code = otp[p].code
          BY <3>2 DEF Request
    <3>. HIDE DEF q
    <3>. QED BY <3>1, <3>2, <3>3 DEF q
  <2>2. CASE VerifyDel(w)
    <3>. DEFINE q == [req[w] EXCEPT !.pc = "find"]
    <3>1. /\ req[w] \in Request /\ req[w].phone \in Phones
          /\ req' = [req EXCEPT ![w] = q]
          BY <2>2 DEF VerifyDel, At, Goto, Knows, TypeOK, Request
    <3>2. /\ q \in Request /\ q.pc = "find"
          /\ q.code = req[w].code /\ q.phone = req[w].phone
          BY <3>1 DEF Request, Steps
    <3>. HIDE DEF q
    <3>. QED BY <3>1, <3>2 DEF Knows
  <2>3. CASE Done(w)
    <3>1. Idle \in Request /\ Idle.code = 0 /\ Idle.pc = "idle"
          BY DEF Idle, Request, Steps
    <3>. QED BY <2>3, <3>1 DEF Done
  <2>. QED BY <2>1, <2>2, <2>3
           DEF VerifyDelLocked, VerifyIncr, VerifyToken, Fresh
<1>5. TypeOK'
      BY <1>1, <1>2, <1>3, <1>4 DEF TypeOK, Request
<1>6. Knows(w)'
      BY <1>1, <1>4 DEF Knows, TypeOK
<1>7. \A r \in Phones : issued'[r] \in Nat /\ issued'[r] >= issued[r]
      BY <1>1, LimitsAssumption DEF TypeOK
<1>8. \A x \in Workers : Knows(x)'
      BY <1>4, <1>6, <1>7, OthersKnow
<1>9. ASSUME NEW p \in Phones PROVE Fresh(p)'
  <2>1. otp'[p].code <= issued[p]
        BY <1>2, <1>7, <1>1 DEF Fresh
  <2>2. ASSUME NEW c \in Codes, c > issued[p]
        PROVE  compared'[p][c] = 0 /\ logins'[p][c] = 0
    <3>a. /\ otp[p].code \in {0} \cup Codes /\ req[w].code \in {0} \cup Codes
          /\ issued[p] \in 0..MaxCodes
          BY <1>9 DEF TypeOK
    <3>t. /\ c \in Nat /\ issued[p] \in Nat /\ otp[p].code \in Nat
          /\ req[w].code \in Nat /\ c # 0
          BY <3>a, LimitsAssumption DEF Codes
    <3>1. c # otp[p].code
          BY <1>9, <2>2, <3>t DEF Fresh
    <3>2. ~(p = req[w].phone /\ c = req[w].code)
          BY <2>2, <3>t DEF Knows
    <3>. QED BY <1>3, <1>9, <2>2, <3>1, <3>2 DEF Fresh
  <2>. QED BY <1>1, <2>1, <2>2 DEF Fresh
<1>. QED BY <1>5, <1>8, <1>9

LEMMA ExpiryTypes ==
  ASSUME OtpInv, NEW p \in Phones, OtpExpires(p) \/ RateExpires(p)
  PROVE  OtpInv'
<1>. USE DEF OtpInv
<1>1. UNCHANGED <<issued, accounts, compared, logins, req, faults>>
      BY DEF OtpExpires, RateExpires
<1>2. /\ otp' \in [Phones -> [code : {0} \cup Codes, attempts : Nat,
                              ttl : BOOLEAN]]
      /\ \A r \in Phones : otp'[r].code \in {0, otp[r].code}
  <2>1. NoOtp \in [code : {0} \cup Codes, attempts : Nat, ttl : BOOLEAN]
        BY DEF NoOtp
  <2>2. otp' = otp \/ otp' = [otp EXCEPT ![p] = NoOtp]
        BY DEF OtpExpires, RateExpires
  <2>3. NoOtp.code = 0
        BY DEF NoOtp
  <2>4. otp \in [Phones -> [code : {0} \cup Codes, attempts : Nat,
                           ttl : BOOLEAN]]
        BY DEF TypeOK
  <2>. QED BY <2>1, <2>2, <2>3, <2>4
<1>3. rate' \in [Phones -> [n : 0..(MaxPerHour + 1), ttl : BOOLEAN]]
  <2>1. NoRate \in [n : 0..(MaxPerHour + 1), ttl : BOOLEAN]
        BY LimitsAssumption DEF NoRate
  <2>. QED BY <2>1 DEF OtpExpires, RateExpires, TypeOK
<1>4. TypeOK' /\ \A w \in Workers : Knows(w)'
      BY <1>1, <1>2, <1>3 DEF TypeOK, Knows
<1>5. ASSUME NEW r \in Phones PROVE Fresh(r)'
  <2>1. issued[r] \in Nat
        BY LimitsAssumption DEF TypeOK
  <2>. QED BY <1>1, <1>2, <2>1 DEF Fresh
<1>. QED BY <1>4, <1>5

LEMMA OtpNext ==
  ASSUME OtpInv, [Next]_vars
  PROVE  OtpInv'
<1>1. CASE UNCHANGED vars
      BY <1>1 DEF vars, OtpInv, TypeOK, Knows, Fresh
<1>2. CASE Next
      BY <1>2, RequestTypes, HsetTypes, VerifyTypes, ExpiryTypes DEF Next
<1>. QED BY <1>1, <1>2

THEOREM OtpInvariance == Spec => []OtpInv
<1>1. OtpInv /\ [Next]_vars => OtpInv'
      BY OtpNext
<1>. QED BY <1>1, OtpInit, PTL DEF Spec

-----------------------------------------------------------------------------
(* Keys are forgotten.                                                     *)

\* Some request of phone p is about to run EXPIRE.
About(p, pc) == \E w \in Workers : req[w].pc = pc /\ req[w].phone = p

KeysHold ==
  faults = 0 => \A p \in Phones :
    /\ otp[p].code # 0 => otp[p].ttl \/ About(p, "otpTtl")
    /\ rate[p].n # 0 => rate[p].ttl \/ About(p, "rateTtl")

\* A request that was not about to run EXPIRE does not take anybody's place.
LEMMA AboutStays ==
  ASSUME OtpInv, NEW w \in Workers, NEW q, req' = [req EXCEPT ![w] = q],
         NEW p, NEW pc, req[w].pc # pc, About(p, pc)
  PROVE  About(p, pc)'
<1>1. PICK x \in Workers : req[x].pc = pc /\ req[x].phone = p
      BY DEF About
<1>2. req'[x] = req[x]
      BY <1>1 DEF OtpInv, TypeOK
<1>. QED BY <1>1, <1>2 DEF About

LEMMA KeysNext ==
  ASSUME OtpInv, OtpInv', KeysHold, [Next]_vars
  PROVE  KeysHold'
<1>. SUFFICES ASSUME faults' = 0, NEW p \in Phones
              PROVE  /\ otp'[p].code # 0 => otp'[p].ttl \/ About(p, "otpTtl")'
                     /\ rate'[p].n # 0 => rate'[p].ttl \/ About(p, "rateTtl")'
     BY DEF KeysHold
<1>. DEFINE Kept == /\ otp'[p].code # 0 => otp'[p].ttl \/ About(p, "otpTtl")'
                    /\ rate'[p].n # 0 => rate'[p].ttl \/ About(p, "rateTtl")'
<1>1. \/ faults = 0
      \/ \E w \in Workers : Fail(w)
      BY DEF Next, vars, RequestIncr, VerifyTestCode, VerifyGet,
             RequestRateTtl, RequestHset, RequestOtpTtl, RequestSms,
             VerifyDelLocked, VerifyIncr, VerifyDel, VerifyFind, VerifyCreate,
             VerifyToken, OtpExpires, RateExpires
<1>2. /\ faults = 0
      /\ otp[p].code # 0 => otp[p].ttl \/ About(p, "otpTtl")
      /\ rate[p].n # 0 => rate[p].ttl \/ About(p, "rateTtl")
  <2>1. faults \in Nat
        BY LimitsAssumption DEF OtpInv, TypeOK
  <2>2. faults = 0
        BY <1>1, <2>1 DEF Fail
  <2>. QED BY <2>2 DEF KeysHold
<1>3. ASSUME NEW w \in Workers, NEW q, req' = [req EXCEPT ![w] = q],
             req[w].pc \notin {"otpTtl", "rateTtl"}
      PROVE  /\ About(p, "otpTtl") => About(p, "otpTtl")'
             /\ About(p, "rateTtl") => About(p, "rateTtl")'
      BY <1>3, AboutStays
<1>4. ASSUME NEW w \in Workers, NEW r \in Phones, RequestIncr(w, r) PROVE Kept
  <2>1. PICK q : req' = [req EXCEPT ![w] = q]
        BY <1>4 DEF RequestIncr, Accept
  <2>2. req[w].pc = "idle" /\ otp' = otp
        BY <1>4 DEF RequestIncr, Accept
  <2>3. CASE rate[r].n = 0 /\ r = p
    <3>1. req'[w] = [pc |-> "rateTtl", phone |-> p, code |-> 0]
          BY <1>4, <2>3 DEF RequestIncr, Accept, OtpInv, TypeOK
    <3>2. About(p, "rateTtl")'
          BY <3>1 DEF About
    <3>. QED BY <1>2, <1>3, <2>1, <2>2, <3>2
  <2>4. CASE ~(rate[r].n = 0 /\ r = p)
    <3>1. rate'[p].ttl = rate[p].ttl /\ (rate[p].n = 0 => rate'[p].n = 0)
          BY <1>4, <2>4 DEF RequestIncr, OtpInv, TypeOK
    <3>. QED BY <1>2, <1>3, <2>1, <2>2, <3>1
  <2>. QED BY <2>3, <2>4
<1>5. ASSUME NEW w \in Workers, RequestRateTtl(w) PROVE Kept
  <2>. DEFINE q == [req[w] EXCEPT !.pc = "hset"]
  <2>1. req' = [req EXCEPT ![w] = q] /\ req[w].pc = "rateTtl" /\ otp' = otp
        BY <1>5 DEF RequestRateTtl, Goto, At
  <2>. HIDE DEF q
  <2>2. About(p, "otpTtl") => About(p, "otpTtl")'
        BY <2>1, AboutStays
  <2>3. CASE req[w].phone = p
    <3>1. rate'[p].ttl = TRUE
          BY <1>5, <2>3 DEF RequestRateTtl, OtpInv, TypeOK
    <3>. QED BY <1>2, <2>1, <2>2, <3>1
  <2>4. CASE req[w].phone # p
    <3>1. rate'[p] = rate[p]
          BY <1>5, <2>4 DEF RequestRateTtl, OtpInv, TypeOK
    <3>2. About(p, "rateTtl") => About(p, "rateTtl")'
          BY <2>1, <2>4 DEF About, OtpInv, TypeOK
    <3>. QED BY <1>2, <2>1, <2>2, <3>1, <3>2
  <2>. QED BY <2>3, <2>4
<1>6. ASSUME NEW w \in Workers, RequestOtpTtl(w) PROVE Kept
  <2>. DEFINE q == [req[w] EXCEPT !.pc = "sms"]
  <2>1. req' = [req EXCEPT ![w] = q] /\ req[w].pc = "otpTtl" /\ rate' = rate
        BY <1>6 DEF RequestOtpTtl, Goto, At
  <2>. HIDE DEF q
  <2>2. About(p, "rateTtl") => About(p, "rateTtl")'
        BY <2>1, AboutStays
  <2>3. CASE req[w].phone = p
    <3>1. otp[p] # NoOtp => otp'[p].ttl = TRUE
          BY <1>6, <2>3 DEF RequestOtpTtl, OtpInv, TypeOK
    <3>2. otp'[p].code = otp[p].code /\ (otp[p].code # 0 => otp[p] # NoOtp)
          BY <1>6, <2>3 DEF RequestOtpTtl, NoOtp, OtpInv, TypeOK
    <3>. QED BY <1>2, <2>1, <2>2, <3>1, <3>2
  <2>4. CASE req[w].phone # p
    <3>1. otp'[p] = otp[p]
          BY <1>6, <2>4 DEF RequestOtpTtl, OtpInv, TypeOK
    <3>2. About(p, "otpTtl") => About(p, "otpTtl")'
          BY <2>1, <2>4 DEF About, OtpInv, TypeOK
    <3>. QED BY <1>2, <2>1, <2>2, <3>1, <3>2
  <2>. QED BY <2>3, <2>4
<1>7. ASSUME NEW w \in Workers, RequestHset(w) PROVE Kept
  <2>. DEFINE q == [req[w] EXCEPT !.pc = "otpTtl"]
  <2>1. req' = [req EXCEPT ![w] = q] /\ req[w].pc = "hset" /\ rate' = rate
        BY <1>7 DEF RequestHset, Goto, At
  <2>2. CASE req[w].phone = p
    <3>1. req'[w].pc = "otpTtl" /\ req'[w].phone = p
          BY <2>1, <2>2 DEF OtpInv, TypeOK
    <3>. HIDE DEF q
    <3>. QED BY <1>2, <1>3, <2>1, <3>1 DEF About
  <2>. HIDE DEF q
  <2>3. CASE req[w].phone # p
    <3>1. otp'[p] = otp[p]
          BY <1>7, <2>3 DEF RequestHset, OtpInv, TypeOK
    <3>. QED BY <1>2, <1>3, <2>1, <3>1
  <2>. QED BY <2>2, <2>3
<1>8. ASSUME NEW w \in Workers,
             \/ \E r \in Phones : \/ VerifyTestCode(w, r)
                                  \/ \E g \in {0} \cup Codes : VerifyGet(w, r, g)
             \/ RequestSms(w) \/ VerifyDelLocked(w) \/ VerifyIncr(w)
             \/ VerifyDel(w) \/ VerifyFind(w) \/ VerifyCreate(w)
             \/ VerifyToken(w)
      PROVE  Kept
  <2>1. /\ rate' = rate
        /\ req[w].pc \notin {"otpTtl", "rateTtl"}
        /\ \E q : req' = [req EXCEPT ![w] = q]
        BY <1>8 DEF VerifyTestCode, VerifyGet, RequestSms, VerifyDelLocked,
             VerifyIncr, VerifyDel, VerifyFind, VerifyCreate, VerifyToken,
             Accept, At, Goto, Done
  <2>2. otp'[p].code = 0 \/ (/\ otp'[p].code = otp[p].code
                             /\ otp'[p].ttl = otp[p].ttl)
    <3>1. CASE VerifyIncr(w)
      <4>1. otp' = [otp EXCEPT ![req[w].phone].attempts = @ + 1]
            BY <3>1 DEF VerifyIncr
      <4>. QED BY <4>1 DEF OtpInv, TypeOK
    <3>2. CASE otp' = [otp EXCEPT ![req[w].phone] = NoOtp]
          BY <3>2 DEF NoOtp, OtpInv, TypeOK
    <3>3. CASE otp' = otp
          BY <3>3
    <3>. QED BY <1>8, <3>1, <3>2, <3>3 DEF VerifyTestCode, VerifyGet,
             RequestSms, VerifyDelLocked, VerifyDel, VerifyFind,
             VerifyCreate, VerifyToken
  <2>. QED BY <1>2, <1>3, <2>1, <2>2
<1>9. ASSUME NEW w \in Workers, Fail(w) PROVE Kept
      BY <1>2, <1>9 DEF Fail
<1>10. ASSUME NEW r \in Phones, OtpExpires(r) \/ RateExpires(r) PROVE Kept
  <2>1. /\ req' = req
        /\ otp'[p].code = 0 \/ otp'[p] = otp[p]
        /\ rate'[p].n = 0 \/ rate'[p] = rate[p]
        BY <1>10 DEF OtpExpires, RateExpires, NoOtp, NoRate, OtpInv, TypeOK
  <2>. QED BY <1>2, <2>1 DEF About
<1>11. CASE UNCHANGED vars
       BY <1>2, <1>11 DEF vars, About
<1>. QED BY <1>4, <1>5, <1>6, <1>7, <1>8, <1>9, <1>10, <1>11 DEF Next

LEMMA KeysInit == Init => KeysHold
BY DEF Init, KeysHold, NoOtp, NoRate

\* Without failures a code that nobody is working on has its time to live.
THEOREM CodesExpire == Spec => []CodeExpires
<1>1. OtpInv /\ OtpInv' /\ KeysHold /\ [Next]_vars => KeysHold'
      BY KeysNext
<1>2. OtpInv /\ KeysHold => CodeExpires
      BY DEF KeysHold, CodeExpires, Quiet, About
<1>. QED BY <1>1, <1>2, KeysInit, OtpInvariance, PTL DEF Spec

\* So has the counter of requests: nobody is locked out for good.
THEOREM WindowsEnd == Spec => []RateWindowEnds
<1>1. OtpInv /\ OtpInv' /\ KeysHold /\ [Next]_vars => KeysHold'
      BY KeysNext
<1>2. OtpInv /\ KeysHold => RateWindowEnds
      BY DEF KeysHold, RateWindowEnds, Quiet, About
<1>. QED BY <1>1, <1>2, KeysInit, OtpInvariance, PTL DEF Spec

-----------------------------------------------------------------------------
(* How many requests are at work on a code.                                *)

In(r, p, c, pcs) ==
  IF r.phone = p /\ r.code = c /\ r.pc \in pcs THEN 1 ELSE 0

Busy(r, p, c, pcs) == {w \in Workers : In(r[w], p, c, pcs) = 1}

LEMMA BusyBounded ==
  ASSUME IsFiniteSet(Workers), NEW r, NEW p, NEW c, NEW pcs
  PROVE  /\ IsFiniteSet(Busy(r, p, c, pcs))
         /\ Cardinality(Workers) \in Nat
         /\ Cardinality(Busy(r, p, c, pcs)) \in 0..Cardinality(Workers)
<1>1. Busy(r, p, c, pcs) \in SUBSET Workers
      BY DEF Busy
<1>. HIDE DEF Busy
<1>2. /\ IsFiniteSet(Busy(r, p, c, pcs))
      /\ Cardinality(Busy(r, p, c, pcs)) <= Cardinality(Workers)
      BY <1>1, FS_Subset
<1>. QED BY <1>2, FS_CardinalityType

\* A request that does not count leaves room for itself.
LEMMA BusyLeavesRoom ==
  ASSUME IsFiniteSet(Workers), NEW w \in Workers, NEW p, NEW c, NEW pcs,
         In(req[w], p, c, pcs) = 0
  PROVE  Cardinality(Busy(req, p, c, pcs)) + 1 <= Cardinality(Workers)
<1>1. Busy(req, p, c, pcs) \in SUBSET Workers /\ w \notin Busy(req, p, c, pcs)
      BY DEF Busy
<1>. HIDE DEF Busy
<1>2. Busy(req, p, c, pcs) \in SUBSET (Workers \ {w})
      BY <1>1
<1>3. /\ IsFiniteSet(Workers \ {w})
      /\ Cardinality(Workers \ {w}) = Cardinality(Workers) - 1
      BY FS_RemoveElement
<1>4. Cardinality(Busy(req, p, c, pcs)) <= Cardinality(Workers \ {w})
      BY <1>2, <1>3, FS_Subset
<1>5. Cardinality(Workers) \in Nat /\ Cardinality(Busy(req, p, c, pcs)) \in Nat
      BY BusyBounded
<1>. QED BY <1>3, <1>4, <1>5

LEMMA BusyMoves ==
  ASSUME IsFiniteSet(Workers), OtpInv, NEW w \in Workers, NEW q,
         req' = [req EXCEPT ![w] = q]
  PROVE  \A p, c, pcs :
           Cardinality(Busy(req', p, c, pcs)) =
             Cardinality(Busy(req, p, c, pcs)) - In(req[w], p, c, pcs)
               + In(q, p, c, pcs)
<1>. TAKE p, c, pcs
<1>. DEFINE B == Busy(req, p, c, pcs)
            C == Busy(req', p, c, pcs)
<1>1. /\ w \in B <=> In(req[w], p, c, pcs) = 1
      /\ w \in C <=> In(q, p, c, pcs) = 1
      /\ C \ {w} = B \ {w}
      BY DEF Busy, OtpInv, TypeOK
<1>2. C \in SUBSET Workers
      BY DEF Busy
<1>3. IsFiniteSet(B) /\ Cardinality(B) \in Nat
      BY BusyBounded
<1>4. /\ In(req[w], p, c, pcs) \in {0, 1} /\ In(q, p, c, pcs) \in {0, 1}
      BY DEF In
<1>5. Cardinality(Busy(req', p, c, pcs)) = Cardinality(C)
      OBVIOUS
<1>. HIDE DEF B, C
<1>6. IsFiniteSet(C) /\ Cardinality(C) \in Nat
      BY <1>2, FS_Subset, FS_CardinalityType
<1>7. Cardinality(C \ {w}) = IF w \in C THEN Cardinality(C) - 1
                             ELSE Cardinality(C)
      BY <1>6, FS_RemoveElement
<1>8. Cardinality(B \ {w}) = IF w \in B THEN Cardinality(B) - 1
                             ELSE Cardinality(B)
      BY <1>3, FS_RemoveElement
<1>9. Cardinality(C) = Cardinality(B) - In(req[w], p, c, pcs)
                         + In(q, p, c, pcs)
      BY <1>1, <1>3, <1>4, <1>6, <1>7, <1>8
<1>. QED BY <1>5, <1>9 DEF B

-----------------------------------------------------------------------------
(* How often a code opens a session.                                       *)

Uses == {"del", "find", "create", "token"}

\* Whoever read the code may still use it; while Redis holds it, nobody has
\* come further than deleting it.
LoginHolds(p, c) ==
  /\ logins[p][c] + Cardinality(Busy(req, p, c, Uses)) <= Cardinality(Workers)
  /\ otp[p].code = c =>
       /\ logins[p][c] = 0
       /\ \A w \in Workers : In(req[w], p, c, Uses \ {"del"}) = 0

LoginsHold == \A p \in Phones : \A c \in Codes : LoginHolds(p, c)

\* Uses are handed on, or begin while the code was never used.
LEMMA LoginKept ==
  ASSUME IsFiniteSet(Workers), OtpInv, OtpInv', NEW w \in Workers, NEW q,
         req' = [req EXCEPT ![w] = q], NEW p \in Phones, NEW c \in Codes,
         LoginHolds(p, c),
         \/ logins'[p][c] + In(q, p, c, Uses)
              <= logins[p][c] + In(req[w], p, c, Uses)
         \/ logins'[p][c] = 0,
         otp'[p].code = c =>
           /\ logins'[p][c] = 0
           /\ In(q, p, c, Uses \ {"del"}) = 0
           /\ \/ otp[p].code = c
              \/ \A x \in Workers : In(req[x], p, c, Uses) = 0
  PROVE  LoginHolds(p, c)'
<1>1. /\ logins[p][c] \in Nat /\ logins'[p][c] \in Nat
      BY DEF OtpInv, TypeOK
<1>2. /\ In(req[w], p, c, Uses) \in {0, 1} /\ In(q, p, c, Uses) \in {0, 1}
      BY DEF In
<1>3. /\ Cardinality(Workers) \in Nat
      /\ Cardinality(Busy(req, p, c, Uses)) \in Nat
      BY BusyBounded
<1>4. Cardinality(Busy(req', p, c, Uses)) = Cardinality(Busy(req, p, c, Uses))
        - In(req[w], p, c, Uses) + In(q, p, c, Uses)
  <2>1. \A a, b, d : Cardinality(Busy(req', a, b, d)) =
          Cardinality(Busy(req, a, b, d)) - In(req[w], a, b, d) + In(q, a, b, d)
        BY BusyMoves
  <2>. QED BY <2>1
<1>5. Cardinality(Busy(req', p, c, Uses)) <= Cardinality(Workers)
  <2>1. Busy(req', p, c, Uses) \in SUBSET Workers
        BY DEF Busy
  <2>. QED BY <2>1, FS_Subset
<1>6. logins'[p][c] + Cardinality(Busy(req', p, c, Uses)) <= Cardinality(Workers)
  <2>1. logins[p][c] + Cardinality(Busy(req, p, c, Uses)) <= Cardinality(Workers)
        BY DEF LoginHolds
  <2>2. CASE logins'[p][c] = 0
        BY <1>2, <1>3, <1>4, <1>5, <2>2
  <2>3. CASE logins'[p][c] + In(q, p, c, Uses)
               <= logins[p][c] + In(req[w], p, c, Uses)
        BY <1>1, <1>2, <1>3, <1>4, <2>1, <2>3
  <2>. QED BY <2>2, <2>3
<1>7. ASSUME otp'[p].code = c, NEW x \in Workers
      PROVE  In(req'[x], p, c, Uses \ {"del"}) = 0
  <2>1. In(req[x], p, c, Uses \ {"del"}) = 0
        BY <1>7 DEF LoginHolds, In
  <2>2. req'[x] = IF x = w THEN q ELSE req[x]
        BY DEF OtpInv, TypeOK
  <2>. QED BY <1>7, <2>1, <2>2
<1>. QED BY <1>6, <1>7 DEF LoginHolds

\* No request knows a code that was not issued yet.
LEMMA Unissued ==
  ASSUME OtpInv, NEW p \in Phones, NEW c \in Codes, c > issued[p],
         NEW x \in Workers, NEW pcs
  PROVE  In(req[x], p, c, pcs) = 0
<1>1. /\ c \in Nat \ {0} /\ issued[p] \in Nat
      /\ req[x].code \in Nat
      BY LimitsAssumption DEF OtpInv, TypeOK, Codes
<1>2. ~(req[x].phone = p /\ req[x].code = c)
      BY <1>1 DEF OtpInv, Knows
<1>. QED BY <1>2 DEF In

LEMMA LoginsNext ==
  ASSUME IsFiniteSet(Workers), OtpInv, OtpInv', LoginsHold, [Next]_vars
  PROVE  LoginsHold'
<1>. SUFFICES ASSUME NEW p \in Phones, NEW c \in Codes
              PROVE  LoginHolds(p, c)'
     BY DEF LoginsHold
<1>0. /\ LoginHolds(p, c) /\ c # 0
      /\ logins[p][c] \in Nat /\ issued[p] \in Nat
      BY LimitsAssumption DEF LoginsHold, OtpInv, TypeOK, Codes
<1>1. ASSUME NEW w \in Workers,
             \/ \E r \in Phones : RequestIncr(w, r) \/ VerifyTestCode(w, r)
             \/ RequestRateTtl(w) \/ RequestOtpTtl(w) \/ RequestSms(w)
             \/ VerifyDelLocked(w) \/ VerifyIncr(w) \/ Fail(w)
      PROVE  LoginHolds(p, c)'
  <2>1. PICK q : /\ req' = [req EXCEPT ![w] = q]
                 /\ q.code = 0 \/ q.pc \notin Uses
    <3>1. ASSUME NEW pc \in Steps \ Uses, Goto(w, pc)
          PROVE  \E q : req' = [req EXCEPT ![w] = q] /\ q.pc \notin Uses
      <4>. DEFINE q == [req[w] EXCEPT !.pc = pc]
      <4>1. q.pc = pc /\ req' = [req EXCEPT ![w] = q]
            BY <3>1 DEF Goto, OtpInv, TypeOK
      <4>. HIDE DEF q
      <4>. QED BY <3>1, <4>1
    <3>2. ASSUME NEW r \in Phones, RequestIncr(w, r) \/ VerifyTestCode(w, r)
          PROVE  \E q : req' = [req EXCEPT ![w] = q] /\ q.code = 0
      <4>1. PICK q : /\ req' = [req EXCEPT ![w] = q]
                     /\ \/ q = Idle
                        \/ \E pc \in {"rateTtl", "hset", "find"} :
                             q = [pc |-> pc, phone |-> r, code |-> 0]
            BY <3>2 DEF RequestIncr, VerifyTestCode, Accept
      <4>2. q.code = 0
            BY <4>1 DEF Idle
      <4>. QED BY <4>1, <4>2
    <3>3. ASSUME Done(w)
          PROVE  \E q : req' = [req EXCEPT ![w] = q] /\ q.code = 0
      <4>1. Idle.code = 0
            BY DEF Idle
      <4>. QED BY <3>3, <4>1 DEF Done
    <3>4. {"hset", "sms"} \subseteq Steps \ Uses
          BY DEF Steps, Uses
    <3>. QED BY <1>1, <3>1, <3>2, <3>3, <3>4 DEF RequestRateTtl,
             RequestOtpTtl, RequestSms, VerifyDelLocked, VerifyIncr, Fail
  <2>2. In(q, p, c, Uses) = 0 /\ In(q, p, c, Uses \ {"del"}) = 0
        BY <1>0, <2>1 DEF In
  <2>3. logins' = logins
        BY <1>1 DEF RequestIncr, VerifyTestCode, RequestRateTtl,
             RequestOtpTtl, RequestSms, VerifyDelLocked, VerifyIncr, Fail
  <2>4. otp'[p].code \in {0, otp[p].code}
    <3>1. CASE RequestOtpTtl(w)
          BY <3>1 DEF RequestOtpTtl, OtpInv, TypeOK
    <3>2. CASE VerifyIncr(w)
      <4>1. otp' = [otp EXCEPT ![req[w].phone].attempts = @ + 1]
            BY <3>2 DEF VerifyIncr
      <4>. QED BY <4>1 DEF OtpInv, TypeOK
    <3>3. CASE otp' = [otp EXCEPT ![req[w].phone] = NoOtp]
          BY <3>3 DEF NoOtp, OtpInv, TypeOK
    <3>4. CASE otp' = otp
          BY <3>4
    <3>. QED BY <1>1, <3>1, <3>2, <3>3, <3>4 DEF RequestIncr,
             VerifyTestCode, RequestRateTtl, RequestSms, VerifyDelLocked, Fail
  <2>5. otp'[p].code = c => otp[p].code = c /\ logins'[p][c] = 0
        BY <1>0, <2>3, <2>4 DEF LoginHolds
  <2>6. In(req[w], p, c, Uses) \in {0, 1}
        BY DEF In
  <2>7. logins'[p][c] + In(q, p, c, Uses)
          <= logins[p][c] + In(req[w], p, c, Uses)
        BY <1>0, <2>2, <2>3, <2>6
  <2>. QED BY <1>0, <2>1, <2>2, <2>5, <2>7, LoginKept
<1>2. ASSUME NEW w \in Workers, RequestHset(w) PROVE LoginHolds(p, c)'
  <2>. DEFINE q == [req[w] EXCEPT !.pc = "otpTtl"]
  <2>1. req' = [req EXCEPT ![w] = q] /\ q.pc = "otpTtl"
        BY <1>2 DEF RequestHset, Goto, OtpInv, TypeOK
  <2>. HIDE DEF q
  <2>2. In(q, p, c, Uses) = 0 /\ In(q, p, c, Uses \ {"del"}) = 0
        BY <2>1 DEF In, Uses
  <2>3. logins' = logins
        BY <1>2 DEF RequestHset
  <2>4. ASSUME otp'[p].code = c
        PROVE  /\ logins'[p][c] = 0
               /\ \/ otp[p].code = c
                  \/ \A x \in Workers : In(req[x], p, c, Uses) = 0
    <3>1. CASE req[w].phone = p
      <4>1. c = issued[p] + 1
            BY <1>2, <2>4, <3>1, HsetTypes
      <4>2. c > issued[p]
            BY <1>0, <4>1
      <4>3. logins[p][c] = 0
            BY <4>2 DEF OtpInv, Fresh
      <4>. QED BY <2>3, <4>2, <4>3, Unissued
    <3>2. CASE req[w].phone # p
      <4>1. otp'[p] = otp[p]
            BY <1>2, <3>2 DEF RequestHset, OtpInv, TypeOK
      <4>. QED BY <1>0, <2>3, <2>4, <4>1 DEF LoginHolds
    <3>. QED BY <3>1, <3>2
  <2>5. In(req[w], p, c, Uses) \in {0, 1}
        BY DEF In
  <2>6. logins'[p][c] + In(q, p, c, Uses)
          <= logins[p][c] + In(req[w], p, c, Uses)
        BY <1>0, <2>2, <2>3, <2>5
  <2>. QED BY <1>0, <2>1, <2>2, <2>4, <2>6, LoginKept
<1>3. ASSUME NEW w \in Workers, NEW r \in Phones, NEW g \in {0} \cup Codes,
             VerifyGet(w, r, g)
      PROVE  LoginHolds(p, c)'
  <2>1. PICK q : /\ req' = [req EXCEPT ![w] = q]
                 /\ q.phone = r /\ q.code = otp[r].code
                 /\ q.pc \in {"delLocked", "incr", "del"}
    <3>1. PICK pc \in {"delLocked", "incr", "del"} :
            req' = [req EXCEPT ![w] =
                      [phone |-> r, code |-> otp[r].code, pc |-> pc]]
          BY <1>3 DEF VerifyGet, Accept
    <3>. DEFINE q == [phone |-> r, code |-> otp[r].code, pc |-> pc]
    <3>2. q.phone = r /\ q.code = otp[r].code /\ q.pc = pc
          OBVIOUS
    <3>. HIDE DEF q
    <3>. QED BY <3>1, <3>2 DEF q
  <2>2. otp' = otp /\ logins' = logins
        BY <1>3 DEF VerifyGet
  <2>3. In(q, p, c, Uses \ {"del"}) = 0
        BY <2>1 DEF In, Uses
  <2>4. CASE otp[p].code = c
    <3>1. logins'[p][c] = 0
          BY <1>0, <2>2, <2>4 DEF LoginHolds
    <3>. QED BY <1>0, <2>1, <2>2, <2>3, <2>4, <3>1, LoginKept
  <2>5. CASE otp[p].code # c
    <3>1. In(q, p, c, Uses) = 0 /\ In(req[w], p, c, Uses) \in {0, 1}
          BY <2>1, <2>5 DEF In
    <3>2. logins'[p][c] + In(q, p, c, Uses)
            <= logins[p][c] + In(req[w], p, c, Uses)
          BY <1>0, <2>2, <3>1
    <3>. QED BY <1>0, <2>1, <2>2, <2>5, <3>2, LoginKept
  <2>. QED BY <2>4, <2>5
<1>4. ASSUME NEW w \in Workers, VerifyDel(w) PROVE LoginHolds(p, c)'
  <2>. DEFINE q == [req[w] EXCEPT !.pc = "find"]
  <2>1. /\ req' = [req EXCEPT ![w] = q] /\ q.pc = "find" /\ req[w].pc = "del"
        /\ q.code = req[w].code /\ q.phone = req[w].phone
        BY <1>4 DEF VerifyDel, Goto, At, OtpInv, TypeOK
  <2>. HIDE DEF q
  <2>2. In(q, p, c, Uses) = In(req[w], p, c, Uses)
        BY <2>1 DEF In, Uses
  <2>3. logins' = logins /\ otp' = [otp EXCEPT ![req[w].phone] = NoOtp]
        BY <1>4 DEF VerifyDel
  <2>4. ASSUME otp'[p].code = c
        PROVE  /\ logins'[p][c] = 0 /\ otp[p].code = c
               /\ In(q, p, c, Uses \ {"del"}) = 0
    <3>1. req[w].phone # p /\ otp'[p] = otp[p]
          BY <1>0, <2>3, <2>4 DEF NoOtp, OtpInv, TypeOK
    <3>. QED BY <1>0, <2>1, <2>3, <2>4, <3>1 DEF LoginHolds, In
  <2>5. In(req[w], p, c, Uses) \in {0, 1}
        BY DEF In
  <2>6. logins'[p][c] + In(q, p, c, Uses)
          <= logins[p][c] + In(req[w], p, c, Uses)
        BY <1>0, <2>2, <2>3, <2>5
  <2>. QED BY <1>0, <2>1, <2>4, <2>6, LoginKept
<1>5. ASSUME NEW w \in Workers,
             VerifyFind(w) \/ VerifyCreate(w) \/ VerifyToken(w)
      PROVE  LoginHolds(p, c)'
  <2>. DEFINE mine == req[w].phone = p /\ req[w].code = c
  <2>1. PICK q : /\ req' = [req EXCEPT ![w] = q]
                 /\ \/ q = Idle
                    \/ /\ q.code = req[w].code /\ q.phone = req[w].phone
                       /\ ~VerifyToken(w)
    <3>1. ASSUME NEW pc, Goto(w, pc)
          PROVE  \E q : /\ req' = [req EXCEPT ![w] = q]
                        /\ q.code = req[w].code /\ q.phone = req[w].phone
      <4>. DEFINE q == [req[w] EXCEPT !.pc = pc]
      <4>1. /\ q.code = req[w].code /\ q.phone = req[w].phone
            /\ req' = [req EXCEPT ![w] = q]
            BY <3>1 DEF Goto, OtpInv, TypeOK
      <4>. HIDE DEF q
      <4>. QED BY <4>1
    <3>2. CASE VerifyToken(w)
          BY <3>2 DEF VerifyToken, Done
    <3>3. CASE ~VerifyToken(w)
          BY <1>5, <3>1, <3>3 DEF VerifyFind, VerifyCreate, Done
    <3>. QED BY <3>2, <3>3
  <2>2. otp' = otp /\ req[w].pc \in Uses \ {"del"} /\ req[w].pc \in Uses
        BY <1>5 DEF VerifyFind, VerifyCreate, VerifyToken, At, Uses
  <2>3. Idle.code = 0
        BY DEF Idle
  <2>4. CASE ~mine
    <3>1. logins'[p][c] = logins[p][c]
      <4>1. \/ logins' = logins
            \/ logins' = [logins EXCEPT ![req[w].phone][req[w].code] = @ + 1]
            BY <1>5 DEF VerifyFind, VerifyCreate, VerifyToken
      <4>. QED BY <2>4, <4>1 DEF OtpInv, TypeOK
    <3>2. /\ In(q, p, c, Uses) = 0 /\ In(q, p, c, Uses \ {"del"}) = 0
          /\ In(req[w], p, c, Uses) = 0
          BY <1>0, <2>1, <2>3, <2>4 DEF In
    <3>3. logins'[p][c] + In(q, p, c, Uses)
            <= logins[p][c] + In(req[w], p, c, Uses)
          BY <1>0, <3>1, <3>2
    <3>4. otp'[p].code = c => otp[p].code = c /\ logins'[p][c] = 0
          BY <1>0, <2>2, <3>1 DEF LoginHolds
    <3>. QED BY <1>0, <2>1, <3>2, <3>3, <3>4, LoginKept
  <2>5. CASE mine
    <3>1. otp'[p].code # c
          BY <1>0, <2>2, <2>5 DEF LoginHolds, In
    <3>2. In(req[w], p, c, Uses) = 1 /\ In(q, p, c, Uses) \in {0, 1}
          BY <2>2, <2>5 DEF In
    <3>3. CASE VerifyToken(w)
      <4>1. In(q, p, c, Uses) = 0
            BY <1>0, <2>1, <2>3, <3>3 DEF In
      <4>2. logins' = [logins EXCEPT ![p][c] = @ + 1]
            BY <1>0, <2>5, <3>3 DEF VerifyToken
      <4>3. logins'[p][c] = logins[p][c] + 1
            BY <4>2 DEF OtpInv, TypeOK
      <4>4. logins'[p][c] + In(q, p, c, Uses)
              <= logins[p][c] + In(req[w], p, c, Uses)
            BY <1>0, <3>2, <4>1, <4>3
      <4>. QED BY <1>0, <2>1, <3>1, <4>4, LoginKept
    <3>4. CASE ~VerifyToken(w)
      <4>1. logins' = logins
            BY <1>5, <3>4 DEF VerifyFind, VerifyCreate
      <4>2. logins'[p][c] + In(q, p, c, Uses)
              <= logins[p][c] + In(req[w], p, c, Uses)
            BY <1>0, <3>2, <4>1
      <4>. QED BY <1>0, <2>1, <3>1, <4>2, LoginKept
    <3>. QED BY <3>3, <3>4
  <2>. QED BY <2>4, <2>5
<1>6. ASSUME req' = req, logins' = logins,
             otp'[p].code \in {0, otp[p].code}
      PROVE  LoginHolds(p, c)'
  <2>1. Busy(req', p, c, Uses) = Busy(req, p, c, Uses)
        BY <1>6 DEF Busy, Uses
  <2>. QED BY <1>0, <1>6, <2>1 DEF LoginHolds
<1>7. ASSUME NEW r \in Phones, OtpExpires(r) \/ RateExpires(r)
      PROVE  LoginHolds(p, c)'
  <2>1. /\ req' = req /\ logins' = logins
        /\ otp' = otp \/ otp' = [otp EXCEPT ![r] = NoOtp]
        BY <1>7 DEF OtpExpires, RateExpires
  <2>2. otp'[p].code \in {0, otp[p].code}
        BY <2>1 DEF NoOtp, OtpInv, TypeOK
  <2>. QED BY <1>6, <2>1, <2>2
<1>8. CASE UNCHANGED vars
      BY <1>6, <1>8 DEF vars
<1>. QED BY <1>1, <1>2, <1>3, <1>4, <1>5, <1>7, <1>8 DEF Next

LEMMA LoginsInit == IsFiniteSet(Workers) /\ Init => LoginsHold
<1>. SUFFICES ASSUME IsFiniteSet(Workers), Init,
                     NEW p \in Phones, NEW c \in Codes
              PROVE  LoginHolds(p, c)
     BY DEF LoginsHold
<1>1. c # 0 /\ logins[p][c] = 0 /\ otp[p].code = 0
      BY LimitsAssumption DEF Init, NoOtp, Codes
<1>2. /\ Cardinality(Workers) \in Nat
      /\ Cardinality(Busy(req, p, c, Uses)) \in 0..Cardinality(Workers)
      BY BusyBounded
<1>. QED BY <1>1, <1>2 DEF LoginHolds

\* A code opens at most as many sessions as requests can be in flight,
\* whatever fails.
THEOREM UsesBounded ==
  ASSUME IsFiniteSet(Workers)
  PROVE  Spec => []ReplayBounded
<1>1. OtpInv /\ OtpInv' /\ LoginsHold /\ [Next]_vars => LoginsHold'
      BY LoginsNext
<1>2. Init => LoginsHold
      BY LoginsInit
<1>3. OtpInv /\ LoginsHold => ReplayBounded
  <2>. SUFFICES ASSUME OtpInv, LoginsHold, NEW p \in Phones, NEW c \in Codes
                PROVE  logins[p][c] <= Cardinality(Workers)
       BY DEF ReplayBounded
  <2>1. /\ Cardinality(Workers) \in Nat
        /\ Cardinality(Busy(req, p, c, Uses)) \in 0..Cardinality(Workers)
        BY BusyBounded
  <2>2. logins[p][c] \in Nat
        BY DEF OtpInv, TypeOK
  <2>3. logins[p][c] + Cardinality(Busy(req, p, c, Uses)) <= Cardinality(Workers)
        BY DEF LoginsHold, LoginHolds
  <2>. QED BY <2>1, <2>2, <2>3
<1>. QED BY <1>1, <1>2, <1>3, OtpInvariance, PTL DEF Spec

-----------------------------------------------------------------------------
(* How often a code is guessed at.                                         *)

\* A wrong guess is counted, about to be counted, or lost by a failure.
GuessHolds(p, c) ==
  /\ compared[p][c] <= MaxAttempts + (Cardinality(Workers) - 1) + faults
  /\ otp[p].code = c =>
       compared[p][c] <= otp[p].attempts
                           + Cardinality(Busy(req, p, c, {"incr"})) + faults

GuessesHold == \A p \in Phones : \A c \in Codes : GuessHolds(p, c)

LEMMA GuessTypes ==
  ASSUME IsFiniteSet(Workers), OtpInv, NEW p \in Phones, NEW c \in Codes
  PROVE  /\ compared[p][c] \in Nat /\ otp[p].attempts \in Nat
         /\ faults \in Nat /\ MaxAttempts \in Nat
         /\ Cardinality(Workers) \in Nat
         /\ Cardinality(Busy(req, p, c, {"incr"})) \in Nat
<1>1. /\ Cardinality(Workers) \in Nat
      /\ Cardinality(Busy(req, p, c, {"incr"})) \in Nat
      BY BusyBounded
<1>. QED BY <1>1, LimitsAssumption DEF OtpInv, TypeOK

\* A step that compares nothing keeps the count as long as it does not lose
\* track of a guess.
LEMMA GuessKept ==
  ASSUME IsFiniteSet(Workers), OtpInv, OtpInv', NEW w \in Workers, NEW q,
         req' = [req EXCEPT ![w] = q], NEW p \in Phones, NEW c \in Codes,
         GuessHolds(p, c),
         compared' = compared, faults' >= faults,
         otp'[p].code = c =>
           \/ compared[p][c] = 0
           \/ /\ otp[p].code = c
              /\ otp[p].attempts + faults + In(req[w], p, c, {"incr"})
                   <= otp'[p].attempts + faults' + In(q, p, c, {"incr"})
  PROVE  GuessHolds(p, c)'
<1>1. /\ compared[p][c] \in Nat /\ otp[p].attempts \in Nat
      /\ faults \in Nat /\ MaxAttempts \in Nat
      /\ Cardinality(Workers) \in Nat
      /\ Cardinality(Busy(req, p, c, {"incr"})) \in Nat
      BY GuessTypes
<1>2. /\ otp'[p].attempts \in Nat /\ faults' \in Nat
      BY LimitsAssumption DEF OtpInv, TypeOK
<1>3. Cardinality(Busy(req', p, c, {"incr"})) \in Nat
      BY BusyBounded
<1>4. Cardinality(Busy(req', p, c, {"incr"})) =
        Cardinality(Busy(req, p, c, {"incr"}))
          - In(req[w], p, c, {"incr"}) + In(q, p, c, {"incr"})
  <2>1. \A a, b, d : Cardinality(Busy(req', a, b, d)) =
          Cardinality(Busy(req, a, b, d)) - In(req[w], a, b, d) + In(q, a, b, d)
        BY BusyMoves
  <2>. QED BY <2>1
<1>5. /\ In(req[w], p, c, {"incr"}) \in {0, 1}
      /\ In(q, p, c, {"incr"}) \in {0, 1}
      BY DEF In
<1>6. compared[p][c] <= MaxAttempts + (Cardinality(Workers) - 1) + faults'
  <2>1. compared[p][c] <= MaxAttempts + (Cardinality(Workers) - 1) + faults
        BY DEF GuessHolds
  <2>. QED BY <1>1, <1>2, <2>1
<1>7. ASSUME otp'[p].code = c
      PROVE  compared[p][c] <= otp'[p].attempts
                 + Cardinality(Busy(req', p, c, {"incr"})) + faults'
  <2>1. CASE compared[p][c] = 0
        BY <1>2, <1>3, <2>1
  <2>2. CASE /\ otp[p].code = c
             /\ otp[p].attempts + faults + In(req[w], p, c, {"incr"})
                  <= otp'[p].attempts + faults' + In(q, p, c, {"incr"})
    <3>1. compared[p][c] <= otp[p].attempts
            + Cardinality(Busy(req, p, c, {"incr"})) + faults
          BY <2>2 DEF GuessHolds
    <3>. QED BY <1>1, <1>2, <1>3, <1>4, <1>5, <2>2, <3>1
  <2>. QED BY <1>7, <2>1, <2>2
<1>. QED BY <1>6, <1>7 DEF GuessHolds

LEMMA GuessesNext ==
  ASSUME IsFiniteSet(Workers), OtpInv, OtpInv', GuessesHold, [Next]_vars
  PROVE  GuessesHold'
<1>. SUFFICES ASSUME NEW p \in Phones, NEW c \in Codes
              PROVE  GuessHolds(p, c)'
     BY DEF GuessesHold
<1>0. /\ GuessHolds(p, c) /\ c # 0
      /\ compared[p][c] \in Nat /\ otp[p].attempts \in Nat
      /\ faults \in Nat /\ issued[p] \in Nat
  <2>1. compared[p][c] \in Nat /\ otp[p].attempts \in Nat /\ faults \in Nat
        BY GuessTypes
  <2>. QED BY <2>1, LimitsAssumption DEF GuessesHold, OtpInv, TypeOK, Codes
<1>1. ASSUME NEW w \in Workers, NEW q, req' = [req EXCEPT ![w] = q],
             In(q, p, c, {"incr"}) = 0, In(req[w], p, c, {"incr"}) = 0,
             compared' = compared, faults' >= faults,
             otp'[p].code # c \/ (/\ otp'[p].code = otp[p].code
                                  /\ otp'[p].attempts >= otp[p].attempts)
      PROVE  GuessHolds(p, c)'
  <2>1. /\ otp'[p].attempts \in Nat /\ faults' \in Nat
        BY LimitsAssumption DEF OtpInv, TypeOK
  <2>2. otp'[p].code = c =>
          /\ otp[p].code = c
          /\ otp[p].attempts + faults + In(req[w], p, c, {"incr"})
               <= otp'[p].attempts + faults' + In(q, p, c, {"incr"})
        BY <1>0, <1>1, <2>1
  <2>. QED BY <1>0, <1>1, <2>2, GuessKept
<1>2. ASSUME NEW w \in Workers,
             \/ \E r \in Phones : RequestIncr(w, r) \/ VerifyTestCode(w, r)
             \/ RequestRateTtl(w) \/ RequestOtpTtl(w) \/ RequestSms(w)
             \/ VerifyDelLocked(w) \/ VerifyDel(w) \/ VerifyFind(w)
             \/ VerifyCreate(w) \/ VerifyToken(w)
      PROVE  GuessHolds(p, c)'
  <2>1. PICK q : /\ req' = [req EXCEPT ![w] = q]
                 /\ q.pc # "incr" \/ q.code = 0
    <3>1. ASSUME NEW pc \in Steps \ {"incr"}, Goto(w, pc)
          PROVE  \E q : req' = [req EXCEPT ![w] = q] /\ q.pc # "incr"
      <4>. DEFINE q == [req[w] EXCEPT !.pc = pc]
      <4>1. q.pc = pc /\ req' = [req EXCEPT ![w] = q]
            BY <3>1 DEF Goto, OtpInv, TypeOK
      <4>. HIDE DEF q
      <4>. QED BY <3>1, <4>1
    <3>2. ASSUME NEW r \in Phones, RequestIncr(w, r) \/ VerifyTestCode(w, r)
          PROVE  \E q : req' = [req EXCEPT ![w] = q] /\ q.code = 0
      <4>1. PICK q : /\ req' = [req EXCEPT ![w] = q]
                     /\ \/ q = Idle
                        \/ \E pc \in {"rateTtl", "hset", "find"} :
                             q = [pc |-> pc, phone |-> r, code |-> 0]
            BY <3>2 DEF RequestIncr, VerifyTestCode, Accept
      <4>2. q.code = 0
            BY <4>1 DEF Idle
      <4>. QED BY <4>1, <4>2
    <3>3. ASSUME Done(w)
          PROVE  \E q : req' = [req EXCEPT ![w] = q] /\ q.code = 0
      <4>1. Idle.code = 0
            BY DEF Idle
      <4>. QED BY <3>3, <4>1 DEF Done
    <3>4. {"hset", "sms", "find", "token", "create"} \subseteq Steps \ {"incr"}
          BY DEF Steps
    <3>. QED BY <1>2, <3>1, <3>2, <3>3, <3>4 DEF RequestRateTtl,
             RequestOtpTtl, RequestSms, VerifyDelLocked, VerifyDel,
             VerifyFind, VerifyCreate, VerifyToken
  <2>2. req[w].pc # "incr"
        BY <1>2 DEF RequestIncr, VerifyTestCode, RequestRateTtl,
             RequestOtpTtl, RequestSms, VerifyDelLocked, VerifyDel,
             VerifyFind, VerifyCreate, VerifyToken, Accept, At
  <2>3. In(q, p, c, {"incr"}) = 0 /\ In(req[w], p, c, {"incr"}) = 0
        BY <1>0, <2>1, <2>2 DEF In
  <2>4. compared' = compared /\ faults' = faults
        BY <1>2 DEF RequestIncr, VerifyTestCode, RequestRateTtl,
             RequestOtpTtl, RequestSms, VerifyDelLocked, VerifyDel,
             VerifyFind, VerifyCreate, VerifyToken
  <2>5. otp'[p].code # c \/ (/\ otp'[p].code = otp[p].code
                             /\ otp'[p].attempts = otp[p].attempts)
    <3>1. CASE RequestOtpTtl(w)
          BY <3>1 DEF RequestOtpTtl, OtpInv, TypeOK
    <3>2. CASE otp' = [otp EXCEPT ![req[w].phone] = NoOtp]
          BY <1>0, <3>2 DEF NoOtp, OtpInv, TypeOK
    <3>3. CASE otp' = otp
          BY <3>3
    <3>. QED BY <1>2, <3>1, <3>2, <3>3 DEF RequestIncr, VerifyTestCode,
             RequestRateTtl, RequestSms, VerifyDelLocked, VerifyDel,
             VerifyFind, VerifyCreate, VerifyToken
  <2>6. /\ faults' >= faults
        /\ otp'[p].code # c \/ (/\ otp'[p].code = otp[p].code
                                /\ otp'[p].attempts >= otp[p].attempts)
        BY <1>0, <2>4, <2>5
  <2>. QED BY <1>1, <2>1, <2>3, <2>4, <2>6
<1>3. ASSUME NEW w \in Workers, RequestHset(w) PROVE GuessHolds(p, c)'
  <2>. DEFINE q == [req[w] EXCEPT !.pc = "otpTtl"]
  <2>1. /\ req' = [req EXCEPT ![w] = q] /\ q.pc = "otpTtl"
        /\ req[w].pc = "hset"
        BY <1>3 DEF RequestHset, Goto, At, OtpInv, TypeOK
  <2>. HIDE DEF q
  <2>2. In(q, p, c, {"incr"}) = 0 /\ In(req[w], p, c, {"incr"}) = 0
        BY <2>1 DEF In
  <2>3. compared' = compared /\ faults' = faults
        BY <1>3 DEF RequestHset
  <2>4. CASE req[w].phone = p
    <3>1. otp'[p].code = c => c > issued[p]
          BY <1>0, <1>3, <2>4, HsetTypes
    <3>2. otp'[p].code = c => compared[p][c] = 0
          BY <3>1 DEF OtpInv, Fresh
    <3>3. faults' >= faults
          BY <1>0, <2>3
    <3>. QED BY <1>0, <2>1, <2>3, <3>2, <3>3, GuessKept
  <2>5. CASE req[w].phone # p
    <3>1. otp'[p] = otp[p]
          BY <1>3, <2>5 DEF RequestHset, OtpInv, TypeOK
    <3>2. /\ faults' >= faults
          /\ otp'[p].code = otp[p].code
          /\ otp'[p].attempts >= otp[p].attempts
          BY <1>0, <2>3, <3>1
    <3>. QED BY <1>1, <2>1, <2>2, <2>3, <3>2
  <2>. QED BY <2>4, <2>5
<1>4. ASSUME NEW w \in Workers, NEW r \in Phones, NEW g \in {0} \cup Codes,
             VerifyGet(w, r, g)
      PROVE  GuessHolds(p, c)'
  <2>1. PICK q : /\ req' = [req EXCEPT ![w] = q]
                 /\ q.phone = r /\ q.code = otp[r].code
                 /\ q.pc = IF otp[r].attempts >= MaxAttempts THEN "delLocked"
                           ELSE IF g # otp[r].code THEN "incr" ELSE "del"
    <3>1. PICK pc :
            /\ req' = [req EXCEPT ![w] =
                         [phone |-> r, code |-> otp[r].code, pc |-> pc]]
            /\ pc = IF otp[r].attempts >= MaxAttempts THEN "delLocked"
                    ELSE IF g # otp[r].code THEN "incr" ELSE "del"
      <4>1. otp[r].attempts \in Nat /\ MaxAttempts \in Nat
            BY LimitsAssumption DEF OtpInv, TypeOK
      <4>2. CASE otp[r].attempts >= MaxAttempts
            BY <1>4, <4>1, <4>2 DEF VerifyGet, Accept
      <4>3. CASE otp[r].attempts < MaxAttempts /\ g # otp[r].code
            BY <1>4, <4>1, <4>3 DEF VerifyGet, Accept
      <4>4. CASE otp[r].attempts < MaxAttempts /\ g = otp[r].code
            BY <1>4, <4>1, <4>4 DEF VerifyGet, Accept
      <4>. QED BY <4>1, <4>2, <4>3, <4>4
    <3>. DEFINE q == [phone |-> r, code |-> otp[r].code, pc |-> pc]
    <3>2. q.phone = r /\ q.code = otp[r].code /\ q.pc = pc
          OBVIOUS
    <3>. HIDE DEF q
    <3>. QED BY <3>1, <3>2 DEF q
  <2>2. /\ otp' = otp /\ faults' = faults /\ req[w].pc = "idle"
        /\ otp[r].code \in Codes
        BY <1>4 DEF VerifyGet, Accept, OtpInv, TypeOK
  <2>3. In(req[w], p, c, {"incr"}) = 0
        BY <2>2 DEF In
  <2>t. /\ otp[r].attempts \in Nat /\ MaxAttempts \in Nat
        BY LimitsAssumption DEF OtpInv, TypeOK
  <2>4. CASE q.pc # "incr"
    <3>1. compared' = compared
          BY <1>4, <2>1, <2>4, <2>t DEF VerifyGet
    <3>2. In(q, p, c, {"incr"}) = 0
          BY <2>4 DEF In
    <3>3. /\ faults' >= faults
          /\ otp'[p].code = otp[p].code
          /\ otp'[p].attempts >= otp[p].attempts
          BY <1>0, <2>2
    <3>. QED BY <1>1, <2>1, <2>3, <3>1, <3>2, <3>3
  <2>5. CASE q.pc = "incr"
    <3>1. /\ otp[r].attempts < MaxAttempts
          /\ compared' = [compared EXCEPT ![r][otp[r].code] = @ + 1]
          BY <1>4, <2>1, <2>5, <2>t DEF VerifyGet
    <3>2. CASE r = p /\ otp[p].code = c
      <4>1. compared'[p][c] = compared[p][c] + 1
            BY <3>1, <3>2 DEF OtpInv, TypeOK
      <4>2. In(q, p, c, {"incr"}) = 1
            BY <2>1, <2>5, <3>2 DEF In
      <4>3. Cardinality(Busy(req', p, c, {"incr"}))
              = Cardinality(Busy(req, p, c, {"incr"})) + 1
        <5>1. \A a, b, d : Cardinality(Busy(req', a, b, d)) =
                Cardinality(Busy(req, a, b, d)) - In(req[w], a, b, d)
                  + In(q, a, b, d)
              BY <2>1, BusyMoves
        <5>2. Cardinality(Busy(req, p, c, {"incr"})) \in Nat
              BY BusyBounded
        <5>. QED BY <2>3, <4>2, <5>1, <5>2
      <4>4. Cardinality(Busy(req, p, c, {"incr"})) + 1
              <= Cardinality(Workers)
            BY <2>3, BusyLeavesRoom
      <4>5. compared[p][c] <= otp[p].attempts
              + Cardinality(Busy(req, p, c, {"incr"})) + faults
            BY <1>0, <3>2 DEF GuessHolds
      <4>6. /\ compared[p][c] \in Nat /\ otp[p].attempts \in Nat
            /\ faults \in Nat /\ MaxAttempts \in Nat
            /\ Cardinality(Workers) \in Nat
            /\ Cardinality(Busy(req, p, c, {"incr"})) \in Nat
            BY GuessTypes
      <4>7. /\ compared[p][c] + 1
                 <= MaxAttempts + (Cardinality(Workers) - 1) + faults
            /\ compared[p][c] + 1 <= otp[p].attempts
                 + (Cardinality(Busy(req, p, c, {"incr"})) + 1) + faults
            BY <3>1, <3>2, <4>4, <4>5, <4>6
      <4>. QED BY <2>2, <4>1, <4>3, <4>7 DEF GuessHolds
    <3>3. CASE ~(r = p /\ otp[p].code = c)
      <4>1. compared'[p][c] = compared[p][c]
            BY <2>2, <3>1, <3>3 DEF OtpInv, TypeOK
      <4>2. In(q, p, c, {"incr"}) = 0
            BY <2>1, <3>3 DEF In
      <4>3. Cardinality(Busy(req', p, c, {"incr"}))
              = Cardinality(Busy(req, p, c, {"incr"}))
        <5>1. \A a, b, d : Cardinality(Busy(req', a, b, d)) =
                Cardinality(Busy(req, a, b, d)) - In(req[w], a, b, d)
                  + In(q, a, b, d)
              BY <2>1, BusyMoves
        <5>2. Cardinality(Busy(req, p, c, {"incr"})) \in Nat
              BY BusyBounded
        <5>. QED BY <2>3, <4>2, <5>1, <5>2
      <4>. QED BY <1>0, <2>2, <4>1, <4>3 DEF GuessHolds
    <3>. QED BY <3>2, <3>3
  <2>. QED BY <2>4, <2>5
<1>5. ASSUME NEW w \in Workers, VerifyIncr(w) PROVE GuessHolds(p, c)'
  <2>. DEFINE u == req[w].phone
              row == [otp[u] EXCEPT !.attempts = @ + 1]
  <2>1. /\ req' = [req EXCEPT ![w] = Idle] /\ otp' = [otp EXCEPT ![u] = row]
        /\ compared' = compared /\ faults' = faults /\ u \in Phones
        BY <1>5 DEF VerifyIncr, Done, At, OtpInv, Knows
  <2>2. /\ row.code = otp[u].code /\ row.attempts = otp[u].attempts + 1
        BY <2>1 DEF OtpInv, TypeOK
  <2>3. In(Idle, p, c, {"incr"}) = 0 /\ In(req[w], p, c, {"incr"}) \in {0, 1}
        BY <1>0 DEF Idle, In
  <2>4. u # p => In(req[w], p, c, {"incr"}) = 0
        BY DEF In
  <2>5. otp \in [Phones -> [code : {0} \cup Codes, attempts : Nat,
                            ttl : BOOLEAN]]
        BY DEF OtpInv, TypeOK
  <2>. HIDE DEF row, u
  <2>6. /\ otp'[p].code = otp[p].code
        /\ otp[p].attempts + In(req[w], p, c, {"incr"}) <= otp'[p].attempts
    <3>1. CASE u = p
          BY <1>0, <2>1, <2>2, <2>3, <2>5, <3>1
    <3>2. CASE u # p
          BY <1>0, <2>1, <2>4, <2>5, <3>2
    <3>. QED BY <3>1, <3>2
  <2>7. otp'[p].attempts \in Nat
        BY DEF OtpInv, TypeOK
  <2>8. /\ faults' >= faults
        /\ otp[p].attempts + faults + In(req[w], p, c, {"incr"})
             <= otp'[p].attempts + faults' + In(Idle, p, c, {"incr"})
        BY <1>0, <2>1, <2>3, <2>6, <2>7
  <2>. QED BY <1>0, <2>1, <2>6, <2>8, GuessKept
<1>6. ASSUME NEW w \in Workers, Fail(w) PROVE GuessHolds(p, c)'
  <2>1. /\ req' = [req EXCEPT ![w] = Idle] /\ otp' = otp
        /\ compared' = compared /\ faults' = faults + 1
        BY <1>6 DEF Fail, Done
  <2>2. In(Idle, p, c, {"incr"}) = 0 /\ In(req[w], p, c, {"incr"}) \in {0, 1}
        BY <1>0 DEF Idle, In
  <2>3. /\ faults' >= faults
        /\ otp[p].attempts + faults + In(req[w], p, c, {"incr"})
             <= otp'[p].attempts + faults' + In(Idle, p, c, {"incr"})
        BY <1>0, <2>1, <2>2
  <2>. QED BY <1>0, <2>1, <2>3, GuessKept
<1>7. ASSUME req' = req, compared' = compared, faults' = faults,
             otp'[p].code # c \/ otp'[p] = otp[p]
      PROVE  GuessHolds(p, c)'
      BY <1>0, <1>7 DEF GuessHolds
<1>8. ASSUME NEW r \in Phones, OtpExpires(r) \/ RateExpires(r)
      PROVE  GuessHolds(p, c)'
  <2>1. /\ req' = req /\ compared' = compared /\ faults' = faults
        /\ otp' = otp \/ otp' = [otp EXCEPT ![r] = NoOtp]
        BY <1>8 DEF OtpExpires, RateExpires
  <2>2. otp'[p].code # c \/ otp'[p] = otp[p]
        BY <1>0, <2>1 DEF NoOtp, OtpInv, TypeOK
  <2>. QED BY <1>7, <2>1, <2>2
<1>9. CASE UNCHANGED vars
      BY <1>7, <1>9 DEF vars
<1>. QED BY <1>2, <1>3, <1>4, <1>5, <1>6, <1>8, <1>9 DEF Next

LEMMA GuessesInit ==
  IsFiniteSet(Workers) /\ Workers # {} /\ Init => GuessesHold
<1>. SUFFICES ASSUME IsFiniteSet(Workers), Workers # {}, Init,
                     NEW p \in Phones, NEW c \in Codes
              PROVE  GuessHolds(p, c)
     BY DEF GuessesHold
<1>1. /\ compared[p][c] = 0 /\ otp[p].attempts = 0 /\ faults = 0
      BY DEF Init, NoOtp
<1>2. /\ Cardinality(Workers) \in Nat
      /\ Cardinality(Busy(req, p, c, {"incr"})) \in 0..Cardinality(Workers)
      BY BusyBounded
<1>3. Cardinality(Workers) # 0
      BY FS_EmptySet
<1>. QED BY <1>1, <1>2, <1>3, LimitsAssumption DEF GuessHolds

\* Racing requests and failures stretch the limit by one guess each, whatever
\* the limit is.
THEOREM GuessesBounded ==
  ASSUME IsFiniteSet(Workers), Workers # {}
  PROVE  Spec => []WrongGuessesBounded
<1>1. OtpInv /\ OtpInv' /\ GuessesHold /\ [Next]_vars => GuessesHold'
      BY GuessesNext
<1>2. Init => GuessesHold
      BY GuessesInit
<1>3. GuessesHold => WrongGuessesBounded
      BY DEF GuessesHold, GuessHolds, WrongGuessesBounded
<1>. QED BY <1>1, <1>2, <1>3, OtpInvariance, PTL DEF Spec
=============================================================================
