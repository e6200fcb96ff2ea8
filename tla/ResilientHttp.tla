--------------------------- MODULE ResilientHttp ---------------------------
(***************************************************************************)
(* ResilientHttp as it is configured: axios with a timeout, axios-retry    *)
(* inside an opossum circuit breaker.  One client serves every caller of a *)
(* provider.  The breaker stops waiting for a request after its own        *)
(* timeout; the request itself, retries included, goes on.                 *)
(***************************************************************************)
EXTENDS Integers, FiniteSets, Sequences

CONSTANTS
  Calls,       \* calls of request(), each made once
  MaxRetries,  \* 2 in the code
  Buckets      \* rollingCountBuckets, 10 in the code

ASSUME RetriesAssumption == MaxRetries \in Nat
ASSUME BucketsAssumption == Buckets \in Nat \ {0}

VARIABLES
  breaker,  \* "halfOpen" waits for a probe, "probing" has let one through
  window,   \* the rolling statistics, the newest bucket first
  call,     \* the calls: the axios request and what its caller was told
  acted     \* the calls whose request the provider has carried out (observed)

httpVars == <<breaker, window, call, acted>>

\* "failed" stands for EXTERNAL_PROVIDER_TIMEOUT and EXTERNAL_PROVIDER_ERROR.
Answers == {"ok", "empty", "CIRCUIT_OPEN", "failed"}

\* pc of the request: on its way, done by the provider, over.
Call == [pc : {"idle", "sent", "done", "over"}, retries : 0..MaxRetries,
         answer : {"none", "waiting", "lost"} \cup Answers]
Unused == [pc |-> "idle", retries |-> 0, answer |-> "none"]
Bucket == [fires : Nat, failures : Nat]
NoCounts == [fires |-> 0, failures |-> 0]

HttpInit ==
  /\ breaker = "closed"
  /\ window = [b \in 1..Buckets |-> NoCounts]
  /\ call = [c \in Calls |-> Unused]
  /\ acted = {}

Total[b \in 0..Buckets] ==
  IF b = 0 THEN NoCounts
  ELSE [fires |-> Total[b - 1].fires + window[b].fires,
        failures |-> Total[b - 1].failures + window[b].failures]

Waiting(c) == call[c].answer = "waiting"
InFlight(c) == call[c].pc \in {"sent", "done"}

-----------------------------------------------------------------------------
(* request(): breaker.fire, one call after the other without a pause.      *)

\* The calls of a batch the breaker may let through.
Through(batch) ==
  IF breaker = "closed" THEN {batch}
  ELSE IF breaker = "halfOpen" /\ batch # {} THEN {{c} : c \in batch}
  ELSE {{}}

\* fires counts the calls that are refused, too.
Fire(batch, through) ==
  /\ \A c \in batch : call[c] = Unused
  /\ through \in Through(batch)
  /\ breaker' = IF breaker = "halfOpen" /\ batch # {} THEN "probing"
                                                      ELSE breaker
  /\ window' = [window EXCEPT ![1].fires = @ + Cardinality(batch)]
  /\ call' = [c \in Calls |->
       IF c \in through THEN [Unused EXCEPT !.pc = "sent", !.answer = "waiting"]
       ELSE IF c \in batch THEN [Unused EXCEPT !.answer = "CIRCUIT_OPEN"]
       ELSE call[c]]
  /\ UNCHANGED acted

-----------------------------------------------------------------------------
(* How a call ends.  When the breaker has given up on it before, nobody    *)
(* hears and nothing is counted.                                           *)

Over(c, answer) ==
  call' = [call EXCEPT ![c] =
             [pc |-> "over", retries |-> 0,
              answer |-> IF Waiting(c) THEN answer ELSE @.answer]]

Succeed(c, answer) ==
  /\ Over(c, answer)
  /\ breaker' = IF Waiting(c) /\ breaker \in {"halfOpen", "probing"}
                THEN "closed" ELSE breaker
  /\ UNCHANGED window

\* More than half of the calls of the window failed, this one included.
RateTooHigh ==
  2 * (Total[Buckets].failures + 1) > Total[Buckets].fires

\* Mutant: a probe that fails counts like any other call.
TripRateOnly == breaker' = IF RateTooHigh THEN "open" ELSE breaker

\* A failure in the half-open state opens the breaker at once.
Trip == breaker' = IF RateTooHigh \/ breaker \in {"halfOpen", "probing"}
                   THEN "open" ELSE breaker

Failure ==
  /\ Trip
  /\ window' = [window EXCEPT ![1].failures = @ + 1]

-----------------------------------------------------------------------------
(* The provider and the network.                                           *)

Act(c) ==
  /\ call[c].pc = "sent"
  /\ call' = [call EXCEPT ![c].pc = "done"]
  /\ acted' = acted \cup {c}
  /\ UNCHANGED <<breaker, window>>

\* A 2xx answer; without having done what was asked it is an empty one
\* (no message_id, no entity).
Respond(c) ==
  /\ InFlight(c)
  /\ Succeed(c, IF call[c].pc = "done" THEN "ok" ELSE "empty")
  /\ UNCHANGED acted

\* A 5xx answer or a broken connection is tried again, whether the provider
\* has acted or not, also when the breaker does not wait any more.
Retry(c) ==
  /\ InFlight(c)
  /\ call[c].answer # "lost"
  /\ call[c].retries < MaxRetries
  /\ call' = [call EXCEPT ![c].pc = "sent", ![c].retries = @ + 1]
  /\ UNCHANGED <<breaker, window, acted>>

\* A 4xx answer, the timeout of axios (not retried), or retries or time used
\* up.
GiveUp(c) ==
  /\ InFlight(c)
  /\ Over(c, "failed")
  /\ IF Waiting(c) THEN Failure ELSE UNCHANGED <<breaker, window>>
  /\ UNCHANGED acted

-----------------------------------------------------------------------------
(* The timers of the breaker, and the end of the process.                  *)

\* Mutant: the timer trips the breaker and leaves the caller waiting.
BreakerTimeoutSilent(c) ==
  /\ Waiting(c)
  /\ breaker' = "open"
  /\ UNCHANGED <<window, call, acted>>

\* timeoutMs + 2000 are over: the caller is told, the request goes on.
BreakerTimeout(c) ==
  /\ Waiting(c)
  /\ call' = [call EXCEPT ![c].answer = "failed"]
  /\ Failure
  /\ UNCHANGED acted

\* resetTimeout, 20 s.
ResetTimeout ==
  /\ breaker = "open"
  /\ breaker' = "halfOpen"
  /\ UNCHANGED <<window, call, acted>>

\* Every rollingCountTimeout / rollingCountBuckets the oldest bucket goes.
Rotate ==
  /\ window' = [b \in 1..Buckets |-> IF b = 1 THEN NoCounts ELSE window[b - 1]]
  /\ UNCHANGED <<breaker, call, acted>>

\* The client lives in the process; what is on its way may still arrive.
Die ==
  /\ breaker' = "closed"
  /\ window' = [b \in 1..Buckets |-> NoCounts]
  /\ call' = [c \in Calls |-> IF Waiting(c)
                              THEN [call[c] EXCEPT !.answer = "lost"]
                              ELSE call[c]]
  /\ UNCHANGED acted

HttpNext ==
  \/ \E batch \in SUBSET Calls : \E through \in Through(batch) :
       Fire(batch, through)
  \/ \E c \in Calls :
       \/ Act(c) \/ Respond(c) \/ Retry(c) \/ GiveUp(c)
       \/ BreakerTimeout(c)
  \/ ResetTimeout \/ Rotate \/ Die

HttpSpec == HttpInit /\ [][HttpNext]_httpVars

-----------------------------------------------------------------------------
(* Properties.                                                             *)

\* The statistics and the calls stay in their types: a request is sent at most
\* MaxRetries times again.
HttpTypeOK ==
  /\ breaker \in {"closed", "open", "halfOpen", "probing"}
  /\ window \in [1..Buckets -> Bucket]
  /\ call \in [Calls -> Call]
  /\ acted \subseteq Calls

\* The breaker is never stuck: while it refuses everything because a probe is
\* under way, some caller waits for an answer, and any answer, late or not, and
\* the timeout make it leave that state.
ProbeUnderWay ==
  breaker = "probing" => \E c \in Calls : Waiting(c)

\* "If the breaker is open we fail fast" (resilient-http.ts:17): what a caller is
\* told of a call is so.  A refused call never reaches the provider, not even
\* later, and one that is answered was carried out; of one that failed the
\* caller knows nothing.
AnswersTrue ==
  \A c \in Calls : /\ call[c].answer = "CIRCUIT_OPEN" => c \notin acted
                   /\ call[c].answer = "ok" => c \in acted
=============================================================================
