-------------------------------- MODULE Otp --------------------------------
(***************************************************************************)
(* AuthService.requestOtp and verifyOtp: one-time codes in Redis, the      *)
(* hourly counter of requests, and the account a first login creates.      *)
(* The codes of a phone are numbered in the order they are generated; two  *)
(* codes are never equal and 0 stands for any digits that match no code.   *)
(***************************************************************************)
EXTENDS Integers, FiniteSets

CONSTANTS
  Phones,
  Workers,      \* requests that may be in flight together
  Ops,          \* operations that happen in this instance
  MaxAttempts,  \* MAX_OTP_ATTEMPTS, 5 in the code
  MaxPerHour,   \* MAX_OTPS_PER_PHONE_PER_HOUR, 6 in the code
  MaxCodes,     \* bound on the codes generated for a phone
  MaxFaults     \* bound on failed statements and crashes

ASSUME LimitsAssumption ==
  MaxAttempts \in Nat /\ MaxPerHour \in Nat /\ MaxCodes \in Nat
    /\ MaxFaults \in Nat

VARIABLES
  otp,       \* Redis hash otp:<phone>; code 0: no field codeHash
  rate,      \* Redis counter ratelimit:otp:<phone>; n = 0: no key
  issued,    \* how many codes were generated
  accounts,  \* phones with a row in users
  compared,  \* wrong guesses compared with a code (observed)
  logins,    \* sessions opened with a code (observed)
  req, faults

vars == <<otp, rate, issued, accounts, compared, logins, req, faults>>

Codes == 1..MaxCodes
NoOtp == [code |-> 0, attempts |-> 0, ttl |-> FALSE]
NoRate == [n |-> 0, ttl |-> FALSE]
Idle == [pc |-> "idle", phone |-> "none", code |-> 0]

Steps == {"idle", "rateTtl", "hset", "otpTtl", "sms", "delLocked", "incr",
          "del", "find", "create", "token"}

Init ==
  /\ otp = [p \in Phones |-> NoOtp]
  /\ rate = [p \in Phones |-> NoRate]
  /\ issued = [p \in Phones |-> 0]
  /\ accounts = {}
  /\ compared = [p \in Phones |-> [c \in Codes |-> 0]]
  /\ logins = [p \in Phones |-> [c \in Codes |-> 0]]
  /\ req = [w \in Workers |-> Idle]
  /\ faults = 0

At(w, pc) == req[w].pc = pc
Goto(w, pc) == req' = [req EXCEPT ![w].pc = pc]
Done(w) == req' = [req EXCEPT ![w] = Idle]
Accept(w, op, request) == op \in Ops /\ req[w].pc = "idle"
                          /\ req' = [req EXCEPT ![w] = request]

-----------------------------------------------------------------------------
(* requestOtp                                                              *)

\* Bound: counts beyond the limit are all MaxPerHour + 1.
Incr(n) == IF n > MaxPerHour THEN n ELSE n + 1

\* Mutant: the window is not started for the first request.
RequestIncrNoWindow(w, p) ==
  /\ issued[p] < MaxCodes
  /\ rate' = [rate EXCEPT ![p].n = Incr(@)]
  /\ Accept(w, "request",
       IF rate[p].n + 1 > MaxPerHour THEN Idle
       ELSE [pc |-> "hset", phone |-> p, code |-> 0])
  /\ UNCHANGED <<otp, issued, accounts, compared, logins, faults>>

\* INCR; only the request that creates the counter gives it its hour.
RequestIncr(w, p) ==
  /\ issued[p] < MaxCodes
  /\ rate' = [rate EXCEPT ![p].n = Incr(@)]
  /\ Accept(w, "request",
       IF rate[p].n = 0 THEN [pc |-> "rateTtl", phone |-> p, code |-> 0]
       ELSE IF rate[p].n + 1 > MaxPerHour THEN Idle
       ELSE [pc |-> "hset", phone |-> p, code |-> 0])
  /\ UNCHANGED <<otp, issued, accounts, compared, logins, faults>>

RequestRateTtl(w) ==
  /\ At(w, "rateTtl")
  /\ rate' = [rate EXCEPT ![req[w].phone].ttl = TRUE]
  /\ Goto(w, "hset")
  /\ UNCHANGED <<otp, issued, accounts, compared, logins, faults>>

\* HSET leaves the time to live of an existing key as it is.
RequestHset(w) ==
  LET p == req[w].phone IN
  /\ At(w, "hset")
  /\ issued[p] < MaxCodes
  /\ issued' = [issued EXCEPT ![p] = @ + 1]
  /\ otp' = [otp EXCEPT ![p].code = issued[p] + 1, ![p].attempts = 0]
  /\ Goto(w, "otpTtl")
  /\ UNCHANGED <<rate, accounts, compared, logins, faults>>

\* Mutant: EXPIRE only for the first code of a phone.
RequestOtpTtlFirst(w) ==
  LET p == req[w].phone IN
  /\ At(w, "otpTtl")
  /\ otp' = [otp EXCEPT ![p].ttl = @ \/ otp[p].code = 1]
  /\ Goto(w, "sms")
  /\ UNCHANGED <<rate, issued, accounts, compared, logins, faults>>

\* EXPIRE has no effect on a key that is gone.
RequestOtpTtl(w) ==
  LET p == req[w].phone IN
  /\ At(w, "otpTtl")
  /\ otp' = [otp EXCEPT ![p].ttl = @ \/ otp[p] # NoOtp]
  /\ Goto(w, "sms")
  /\ UNCHANGED <<rate, issued, accounts, compared, logins, faults>>

\* sendSms never throws: the answer is "sent" whether the SMS went out or not.
RequestSms(w) ==
  /\ At(w, "sms")
  /\ Done(w)
  /\ UNCHANGED <<otp, rate, issued, accounts, compared, logins, faults>>

-----------------------------------------------------------------------------
(* verifyOtp                                                               *)

\* Mutant: one attempt too many.
VerifyGetOffByOne(w, p, guess) ==
  /\ otp[p].code # 0
  /\ guess <= issued[p]
  /\ LET wrong == guess # otp[p].code /\ otp[p].attempts <= MaxAttempts
     IN  /\ Accept(w, "verify",
              [phone |-> p, code |-> otp[p].code,
               pc |-> IF otp[p].attempts > MaxAttempts THEN "delLocked"
                      ELSE IF wrong THEN "incr" ELSE "del"])
         /\ compared' = IF ~wrong THEN compared
                        ELSE [compared EXCEPT ![p][otp[p].code] = @ + 1]
  /\ UNCHANGED <<otp, rate, issued, accounts, logins, faults>>

\* HGETALL, the limit and the comparison with the hash just read; without a
\* hash the answer is OTP_EXPIRED and nothing happens.
VerifyGet(w, p, guess) ==
  /\ otp[p].code # 0
  /\ guess <= issued[p]
  /\ LET wrong == guess # otp[p].code /\ otp[p].attempts < MaxAttempts
     IN  /\ Accept(w, "verify",
              [phone |-> p, code |-> otp[p].code,
               pc |-> IF otp[p].attempts >= MaxAttempts THEN "delLocked"
                      ELSE IF wrong THEN "incr" ELSE "del"])
         /\ compared' = IF ~wrong THEN compared
                        ELSE [compared EXCEPT ![p][otp[p].code] = @ + 1]
  /\ UNCHANGED <<otp, rate, issued, accounts, logins, faults>>

\* Too many wrong codes: DEL, then OTP_TOO_MANY_ATTEMPTS.
VerifyDelLocked(w) ==
  /\ At(w, "delLocked")
  /\ otp' = [otp EXCEPT ![req[w].phone] = NoOtp]
  /\ Done(w)
  /\ UNCHANGED <<rate, issued, accounts, compared, logins, faults>>

\* HINCRBY creates the hash, without a code or a time to live, when it is gone.
VerifyIncr(w) ==
  /\ At(w, "incr")
  /\ otp' = [otp EXCEPT ![req[w].phone].attempts = @ + 1]
  /\ Done(w)
  /\ UNCHANGED <<rate, issued, accounts, compared, logins, faults>>

\* Mutant: a code that was accepted stays.
VerifyDelKeeps(w) ==
  /\ At(w, "del")
  /\ Goto(w, "find")
  /\ UNCHANGED <<otp, rate, issued, accounts, compared, logins, faults>>

VerifyDel(w) ==
  /\ At(w, "del")
  /\ otp' = [otp EXCEPT ![req[w].phone] = NoOtp]
  /\ Goto(w, "find")
  /\ UNCHANGED <<rate, issued, accounts, compared, logins, faults>>

\* The fixed test code skips Redis.
VerifyTestCode(w, p) ==
  /\ Accept(w, "testCode", [pc |-> "find", phone |-> p, code |-> 0])
  /\ UNCHANGED <<otp, rate, issued, accounts, compared, logins, faults>>

VerifyFind(w) ==
  /\ At(w, "find")
  /\ Goto(w, IF req[w].phone \in accounts THEN "token" ELSE "create")
  /\ UNCHANGED <<otp, rate, issued, accounts, compared, logins, faults>>

\* users.phone is unique: the insert of the slower of two first logins fails.
VerifyCreate(w) ==
  /\ At(w, "create")
  /\ accounts' = accounts \cup {req[w].phone}
  /\ IF req[w].phone \in accounts THEN Done(w) ELSE Goto(w, "token")
  /\ UNCHANGED <<otp, rate, issued, compared, logins, faults>>

\* lastLoginAt, the audit row and the refresh token of issueTokens.
VerifyToken(w) ==
  LET p == req[w].phone  c == req[w].code IN
  /\ At(w, "token")
  /\ logins' = IF c = 0 THEN logins ELSE [logins EXCEPT ![p][c] = @ + 1]
  /\ Done(w)
  /\ UNCHANGED <<otp, rate, issued, accounts, compared, faults>>

-----------------------------------------------------------------------------
(* Redis drops keys whose time is up; statements fail; the process dies.   *)

OtpExpires(p) ==
  /\ otp[p].ttl
  /\ otp' = [otp EXCEPT ![p] = NoOtp]
  /\ UNCHANGED <<rate, issued, accounts, compared, logins, req, faults>>

RateExpires(p) ==
  /\ rate[p].ttl
  /\ rate' = [rate EXCEPT ![p] = NoRate]
  /\ UNCHANGED <<otp, issued, accounts, compared, logins, req, faults>>

Fail(w) ==
  /\ faults < MaxFaults
  /\ req[w].pc # "idle"
  /\ Done(w)
  /\ faults' = faults + 1
  /\ UNCHANGED <<otp, rate, issued, accounts, compared, logins>>

Next ==
  \/ \E w \in Workers :
       \/ \E p \in Phones :
            \/ RequestIncr(w, p)
            \/ VerifyTestCode(w, p)
            \/ \E guess \in {0} \cup Codes : VerifyGet(w, p, guess)
       \/ RequestRateTtl(w) \/ RequestHset(w) \/ RequestOtpTtl(w)
       \/ RequestSms(w)
       \/ VerifyDelLocked(w) \/ VerifyIncr(w) \/ VerifyDel(w)
       \/ VerifyFind(w) \/ VerifyCreate(w) \/ VerifyToken(w)
       \/ Fail(w)
  \/ \E p \in Phones : OtpExpires(p) \/ RateExpires(p)

Spec == Init /\ [][Next]_vars
-----------------------------------------------------------------------------
(* Properties.                                                             *)

\* Keys, counters and locals stay in their types; the count of requests stays
\* within its bound.
TypeOK ==
  /\ otp \in [Phones -> [code : {0} \cup Codes, attempts : Nat, ttl : BOOLEAN]]
  /\ rate \in [Phones -> [n : 0..(MaxPerHour + 1), ttl : BOOLEAN]]
  /\ issued \in [Phones -> 0..MaxCodes]
  /\ accounts \subseteq Phones
  /\ compared \in [Phones -> [Codes -> Nat]]
  /\ logins \in [Phones -> [Codes -> Nat]]
  /\ req \in [Workers -> [pc : Steps, phone : Phones \cup {"none"},
                          code : {0} \cup Codes]]
  /\ faults \in 0..MaxFaults

\* The limit of MAX_OTP_ATTEMPTS is read before and counted after the
\* comparison, so racing requests and failures stretch it, but each by one
\* wrong guess only: a code is never compared with more than that many.
WrongGuessesBounded ==
  \A p \in Phones : \A c \in Codes :
    compared[p][c] <= MaxAttempts + (Cardinality(Workers) - 1) + faults

\* "remove it from Redis so it cannot be replayed" (auth.service.ts:139): only
\* the requests that read the code before the first of them deletes it open a
\* session with it; for one request at a time that is a single session.
ReplayBounded ==
  \A p \in Phones : \A c \in Codes : logins[p][c] <= Cardinality(Workers)

Quiet == \A w \in Workers : req[w].pc = "idle"

\* "Store active OTP state in Redis with automatic expiration"
\* (auth.service.ts:62): without failures a code that nobody is working on will
\* expire, although requests, verifications and expiries overlap.
CodeExpires ==
  (faults = 0 /\ Quiet) => \A p \in Phones : otp[p].code # 0 => otp[p].ttl

\* "1-hour rolling window" (auth.service.ts:47): without failures a counter that
\* nobody is working on will be forgotten, so nobody is locked out for good.
RateWindowEnds ==
  (faults = 0 /\ Quiet) => \A p \in Phones : rate[p].n # 0 => rate[p].ttl

=============================================================================
