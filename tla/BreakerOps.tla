----------------------------- MODULE BreakerOps -----------------------------
(***************************************************************************)
(* The circuit breaker resilience.New builds (internal/resilience/         *)
(* breaker.go), as operators on its state.  What New configures is in the  *)
(* repository; what sony/gobreaker v2 does with it is the library's, as    *)
(* its callers in src/internal/service rely on it.                         *)
(*                                                                         *)
(* The library numbers the generations of its counters, one per change of  *)
(* state, so that the result of a call of an earlier generation is         *)
(* ignored.  Callers of these operators compare states instead.            *)
(***************************************************************************)
EXTENDS Integers

CONSTANTS
  ConsecutiveFailures, \* failures in a row that open a closed breaker
  HalfOpenMaxRequests  \* trial calls of a half-open breaker

ASSUME BreakerAssumption ==
  /\ ConsecutiveFailures \in Nat
  /\ HalfOpenMaxRequests \in Nat

\* The library reads an unset MaxRequests as 1.
maxRequests == IF HalfOpenMaxRequests = 0 THEN 1 ELSE HalfOpenMaxRequests

\* rested: OpenTimeout has elapsed since the breaker opened.  trials counts
\* the requests of a half-open breaker, the only ones the library looks at.
BreakerStates == [state : {"closed", "open", "half-open"},
                  trials : Nat, successes : Nat, failures : Nat,
                  rested : BOOLEAN]

\* Entering a state clears the counters.
In(s) == [state |-> s, trials |-> 0, successes |-> 0, failures |-> 0,
          rested |-> FALSE]

New == In("closed")

\* Mutant: the timeout is never noticed.
currentState_NeverRests(b) == b

\* An open breaker whose timeout elapsed turns half-open when next looked at.
currentState(b) ==
  IF b.state = "open" /\ b.rested THEN In("half-open") ELSE b

\* Mutant: one failure too many.
ReadyToTrip_OffByOne(failures) == failures > ConsecutiveFailures

ReadyToTrip(failures) == failures >= ConsecutiveFailures

\* The answer of Execute before any call is made; "" lets the call through.
Refusal(b) ==
  LET now == currentState(b) IN
    CASE now.state = "open" -> "ErrOpenState"
      [] now.state = "half-open" /\ now.trials >= maxRequests -> "ErrTooManyRequests"
      [] OTHER -> ""

Admit(b) ==
  LET now == currentState(b) IN
    IF now.state = "half-open" THEN [now EXCEPT !.trials = @ + 1] ELSE now

\* Mutant: closing needs one success more than there are trials.
onSuccess_OffByOne(b) ==
  CASE b.state = "closed" -> [b EXCEPT !.failures = 0]
    [] b.state = "half-open" ->
         IF b.successes >= maxRequests
         THEN In("closed")
         ELSE [b EXCEPT !.successes = @ + 1]
    [] OTHER -> b

\* Mutant: closing keeps the counters.
onSuccess_KeepsCounts(b) ==
  CASE b.state = "closed" -> [b EXCEPT !.failures = 0]
    [] b.state = "half-open" ->
         IF b.successes + 1 >= maxRequests
         THEN [b EXCEPT !.state = "closed"]
         ELSE [b EXCEPT !.successes = @ + 1]
    [] OTHER -> b

onSuccess(b) ==
  CASE b.state = "closed" -> [b EXCEPT !.failures = 0]
    [] b.state = "half-open" ->
         IF b.successes + 1 >= maxRequests
         THEN In("closed")
         ELSE [b EXCEPT !.successes = @ + 1]
    [] OTHER -> b

onFailure(b) ==
  CASE b.state = "closed" ->
         IF ReadyToTrip(b.failures + 1)
         THEN In("open")
         ELSE [b EXCEPT !.failures = @ + 1]
    [] b.state = "half-open" -> In("open")
    [] OTHER -> b

\* The result of a call of the current generation.
Report(b, success) == IF success THEN onSuccess(b) ELSE onFailure(b)

\* resilience.Open: the breaker refused the call, the provider was not asked.
Open(err) == err \in {"ErrOpenState", "ErrTooManyRequests"}
=============================================================================
