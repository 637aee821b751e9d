------------------------------ MODULE Breaker ------------------------------
(***************************************************************************)
(* A circuit breaker around one provider, and the goroutines that call     *)
(* through it.  The service gives each breaker one caller, the consume     *)
(* loop of its queue; the package promises the same to several.            *)
(***************************************************************************)
EXTENDS BreakerOps, FiniteSets

CONSTANTS
  Callers,    \* goroutines that call Execute
  MaxOutages  \* bound: how often the provider goes down

ASSUME CallersAssumption ==
  /\ IsFiniteSet(Callers) /\ Callers # {}
  /\ MaxOutages \in Nat

VARIABLES
  breaker, \* the breaker's state
  call,    \* each caller: idle, in a call of this generation, or of an old one
  answer,  \* what Execute last returned to each caller
  healthy, \* whether the provider answers
  outages, \* outages so far
  streak   \* history: calls made since one succeeded or the timeout elapsed

vars == <<breaker, call, answer, healthy, outages, streak>>

Answers == {"none", "success", "failure", "ErrOpenState", "ErrTooManyRequests"}

TypeOK ==
  /\ breaker \in BreakerStates
  /\ breaker.state = "closed" =>
       breaker.failures = 0 \/ breaker.failures < ConsecutiveFailures
  /\ breaker.state # "closed" => breaker.failures = 0
  /\ breaker.state # "half-open" => breaker.trials = 0 /\ breaker.successes = 0
  /\ breaker.rested => breaker.state = "open"
  /\ call \in [Callers -> {"idle", "counted", "late"}]
  /\ answer \in [Callers -> Answers]
  /\ healthy \in BOOLEAN
  /\ outages \in 0..MaxOutages
  /\ streak \in Nat

Init ==
  /\ breaker = New
  /\ call = [c \in Callers |-> "idle"]
  /\ answer = [c \in Callers |-> "none"]
  /\ healthy = TRUE
  /\ outages = 0
  /\ streak = 0

\* When the breaker becomes b in a new state, calls under way belong to the
\* generation before.
Outdated(b, calls) ==
  [c \in Callers |-> IF calls[c] = "counted" /\ b.state # breaker.state
                     THEN "late" ELSE calls[c]]

\* Execute refuses.
Refuse(c) ==
  /\ call[c] = "idle"
  /\ Refusal(breaker) # ""
  /\ answer' = [answer EXCEPT ![c] = Refusal(breaker)]
  /\ UNCHANGED <<breaker, call, healthy, outages, streak>>

\* Execute counts the call, then makes it.
Execute(c) ==
  /\ call[c] = "idle"
  /\ Refusal(breaker) = ""
  /\ breaker' = Admit(breaker)
  /\ call' = [Outdated(breaker', call) EXCEPT ![c] = "counted"]
  /\ streak' = streak + 1
  /\ UNCHANGED <<answer, healthy, outages>>

\* The call returns: an old one is not reported, but looks at the clock.
Return(c, success) ==
  /\ call[c] # "idle"
  /\ success = healthy
  /\ breaker' = IF call[c] = "counted"
                THEN Report(breaker, success) ELSE currentState(breaker)
  /\ call' = Outdated(breaker', [call EXCEPT ![c] = "idle"])
  /\ answer' = [answer EXCEPT ![c] = IF success THEN "success" ELSE "failure"]
  /\ streak' = IF success THEN 0 ELSE streak
  /\ UNCHANGED <<healthy, outages>>

OpenTimeout ==
  /\ breaker.state = "open"
  /\ ~breaker.rested
  /\ breaker' = [breaker EXCEPT !.rested = TRUE]
  /\ streak' = 0
  /\ UNCHANGED <<call, answer, healthy, outages>>

Outage ==
  /\ healthy
  /\ outages < MaxOutages
  /\ healthy' = FALSE
  /\ outages' = outages + 1
  /\ UNCHANGED <<breaker, call, answer, streak>>

Recover ==
  /\ ~healthy
  /\ healthy' = TRUE
  /\ UNCHANGED <<breaker, call, answer, outages, streak>>

Next ==
  \/ \E c \in Callers :
       Refuse(c) \/ Execute(c) \/ \E success \in BOOLEAN : Return(c, success)
  \/ OpenTimeout
  \/ Outage
  \/ Recover

Spec == Init /\ [][Next]_vars

\* Calls return, the clock advances, and messages keep some caller busy.
Fairness ==
  /\ \A c \in Callers : WF_vars(\E success \in BOOLEAN : Return(c, success))
  /\ WF_vars(\E c \in Callers : Execute(c))
  /\ WF_vars(OpenTimeout)

FairSpec == Spec /\ Fairness

-----------------------------------------------------------------------------
(***************************************************************************)
(* A provider outage fails fast (ADR-0006 33): between two successes, or   *)
(* two timeouts, the provider is called at most ConsecutiveFailures times  *)
(* (HalfOpenMaxRequests of them if more), plus the calls the other         *)
(* callers already had under way.                                          *)
(***************************************************************************)
FailFast ==
  streak <= (IF ConsecutiveFailures >= maxRequests
             THEN ConsecutiveFailures ELSE maxRequests)
            + Cardinality(Callers) - 1

(***************************************************************************)
(* The quota of trials never wedges the breaker: a half-open breaker       *)
(* without a call of its own under way has trials left, whatever mixture   *)
(* of old and new calls returned.                                          *)
(***************************************************************************)
QuotaFreeWhenIdle ==
  breaker.state = "half-open" /\ (\A c \in Callers : call[c] # "counted")
    => breaker.trials < maxRequests

(***************************************************************************)
(* Once the provider stays up, and while messages keep coming, the breaker *)
(* closes and stays closed (breaker.go 24-28).                             *)
(***************************************************************************)
RecoversWithProvider == <>[]healthy => <>[](breaker.state = "closed")

=============================================================================
