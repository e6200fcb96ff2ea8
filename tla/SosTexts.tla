------------------------------ MODULE SosTexts ------------------------------
(***************************************************************************)
(* The fan-out of SosService over NotificationsService and its one client  *)
(* of the SMS provider, "termii", which the texts of SOS events share with *)
(* those of AuthService.requestOtp.  Sos leaves open whether a text gets   *)
(* through and what its sender hears; here retries, timeouts and the       *)
(* breaker decide.                                                         *)
(***************************************************************************)
EXTENDS Sos, ResilientHttp

CONSTANT OtpTexts  \* the texts of one-time codes

Texts(s) == {s} \X Contacts
ASSUME CallsAssumption ==
  /\ Calls = (SosIds \X Contacts) \cup OtpTexts
  /\ OtpTexts \cap (SosIds \X Contacts) = {}

VARIABLE calm  \* events whose texts were sent with the breaker closed (observed)

textsVars == <<vars, httpVars, calm>>

TextsInit == Init /\ HttpInit /\ calm = {}

-----------------------------------------------------------------------------
(* sendManySms, sendSms.                                                   *)

Unsent(s) == {<<s, c>> : c \in {d \in fan[s].todo : call[<<s, d>>] = Unused}}

\* Mutant: one text after the other, each awaited.
BatchOneByOne(s) ==
  IF \E t \in Texts(s) : Waiting(t) \/ Unsent(s) = {}
  THEN {} ELSE {CHOOSE t \in Unsent(s) : TRUE}

\* Promise.all over map: every text is fired before any is answered.
Batch(s) == Unsent(s)

SendTexts(s, through) ==
  /\ fan[s].pc = "sms"
  /\ Batch(s) # {}
  /\ Fire(Batch(s), through)
  /\ calm' = IF breaker = "closed" /\ Unsent(s) = {s} \X fan[s].people
             THEN calm \cup {s} ELSE calm
  /\ UNCHANGED vars

\* AuthService.requestOtp asks for one text and does not look at the result.
SendOtp(o, through) ==
  /\ call[o] = Unused
  /\ Fire({o}, through)
  /\ UNCHANGED <<vars, calm>>

\* Mutant: ok when nothing was thrown.
TakesForOkNoError(t) == call[t].answer \in {"ok", "empty"}

\* ok: !!response.message_id; whatever was thrown is caught.
TakesForOk(t) == call[t].answer = "ok"

Settle(s, c) ==
  /\ fan[s].pc = "sms"
  /\ c \in fan[s].todo
  /\ call[<<s, c>>].answer \in Answers
  /\ fan' = [fan EXCEPT ![s].todo = @ \ {c},
                        ![s].ok = IF TakesForOk(<<s, c>>) THEN @ \cup {c}
                                                          ELSE @]
  /\ UNCHANGED <<sos, texted, lock, slow, pin, guesses, log, req, faults>>
  /\ UNCHANGED <<httpVars, calm>>

\* The provider sends the text.
Deliver(t) ==
  /\ Act(t)
  /\ texted' = texted \cup ({t} \ OtpTexts)
  /\ UNCHANGED <<sos, fan, lock, slow, pin, guesses, log, req, faults>>
  /\ UNCHANGED calm

-----------------------------------------------------------------------------
(* Everything else belongs to the service, to the client, or to both.      *)

ServiceStep ==
  /\ \/ \E w \in Workers : Arrive(w) \/ Proceed(w)
     \/ \E s \in SosIds : \/ \E people \in SUBSET Contacts : FanContacts(s, people)
                          \/ FanWrite(s) \/ FailFan(s)
     \/ \E u \in Users : LockExpires(u) \/ \E p \in Pins : SetSosPin(u, p)
     \/ \E w \in Workers : Fail(w)
  /\ UNCHANGED <<httpVars, calm>>

ClientStep ==
  /\ \/ \E t \in Calls :
          Respond(t) \/ Retry(t) \/ GiveUp(t) \/ BreakerTimeout(t)
     \/ ResetTimeout \/ Rotate
  /\ UNCHANGED <<vars, calm>>

ProcessDies == Crash /\ Die /\ UNCHANGED calm

TextsNext ==
  \/ \E s \in SosIds : \/ \E through \in SUBSET Texts(s) : SendTexts(s, through)
                       \/ \E c \in Contacts : Settle(s, c)
  \/ \E o \in OtpTexts : \E through \in SUBSET {o} : SendOtp(o, through)
  \/ \E t \in Calls : Deliver(t)
  \/ ServiceStep \/ ClientStep \/ ProcessDies

TextsSpec == TextsInit /\ [][TextsNext]_textsVars

\* What the process owes the fan-out of event s.
FanGoesOn(s) ==
  \/ \E people \in SUBSET Contacts : FanContacts(s, people) /\ UNCHANGED <<httpVars, calm>>
  \/ \E through \in SUBSET Texts(s) : SendTexts(s, through)
  \/ \E c \in Contacts : Settle(s, c)
  \/ FanWrite(s) /\ UNCHANGED <<httpVars, calm>>
TimerFires(t) == BreakerTimeout(t) /\ UNCHANGED <<vars, calm>>

EventLoop == (\E s \in SosIds : FanGoesOn(s)) \/ (\E t \in Calls : TimerFires(t))

\* The event loop runs what is ready, a breaker's timer that is due included,
\* in whatever order.  Nothing is assumed of the provider: it may never answer.
TextsFairSpec == TextsSpec /\ WF_textsVars(EventLoop)

-----------------------------------------------------------------------------
(* Properties; OkMeansTexted, AuditComplete, AlarmRecorded and those of     *)
(* ResilientHttp are checked here, too.                                    *)

\* "safer to isolate failures per recipient" (notifications.service.ts:42):
\* when texts go out with the breaker closed, none is refused because another
\* failed.
FailuresIsolated ==
  \A s \in calm : \A t \in Texts(s) : call[t].answer # "CIRCUIT_OPEN"

\* Retries, late answers, timeouts and the breaker stay within what Sos assumes
\* of texts: the provider has accepted what is recorded as ok.
ImplementsSos == Spec
=============================================================================
