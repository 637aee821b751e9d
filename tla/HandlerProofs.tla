--------------------------- MODULE HandlerProofs ---------------------------
(***************************************************************************)
(* What the proofs about the push and the email handler share: what a step *)
(* of the loop with a handler inside leaves alone, that it keeps the types *)
(* of Handler, and the trials of a breaker with one caller.                *)
(***************************************************************************)
EXTENDS Handler, ConsumerProofs

\* The handler's return is the loop's.
LEMMA RespondReturns ==
  ASSUME NEW c \in Consumers, NEW err \in {"nil", "error"}, Respond(c, err)
  PROVE  Next
BY DEF Respond, Next, Loop

LEMMA AroundLoops == Around => Next
BY DEF Around, Settle, Next, Loop, Failure

-----------------------------------------------------------------------------
(* What a step leaves alone.                                               *)

\* A step of c in its handler, into it or out of it.
Own(c) ==
  /\ \A d \in Consumers \ {c} :
       pc'[d] = pc[d] /\ cur'[d] = cur[d] /\ step'[d] = step[d]
  /\ done' = done /\ parked' = parked

LEMMA EnterOwn ==
  ASSUME NEW S, HandlerTypeOK(S), NEW c \in Consumers, NEW d \in inbox[c],
         NEW first, Enter(c, d, first)
  PROVE  /\ Own(c) /\ cur'[c] = d /\ step' = [step EXCEPT ![c] = first]
         /\ step[c] = "none" /\ step'[c] = first /\ pc'[c] = "handling"
         /\ faults' = faults
<1>1. Receive(c, d) /\ step' = [step EXCEPT ![c] = first]
  BY DEF Enter
<1>2. /\ pc[c] = "idle" /\ pc'[c] = "handling" /\ cur'[c] = d
      /\ \A e \in Consumers \ {c} : pc'[e] = pc[e] /\ cur'[e] = cur[e]
      /\ done' = done /\ parked' = parked /\ faults' = faults
  BY <1>1 DEF Receive, HandlerTypeOK, TypeOK, brokerVars
<1>3. /\ step[c] = "none" /\ step'[c] = first
      /\ \A e \in Consumers \ {c} : step'[e] = step[e]
  BY <1>1, <1>2 DEF HandlerTypeOK
<1>4. QED
  BY <1>1, <1>2, <1>3 DEF Own

LEMMA ContinueOwn ==
  ASSUME NEW S, HandlerTypeOK(S), NEW c \in Consumers, step[c] # "none",
         NEW next, Continue(c, next)
  PROVE  /\ Own(c) /\ cur' = cur /\ step' = [step EXCEPT ![c] = next]
         /\ pc[c] = "handling" /\ pc'[c] = "handling" /\ step'[c] = next
         /\ faults' = faults /\ crashes' = crashes
<1>1. /\ UNCHANGED <<pc, cur, done, parked, faults, crashes>>
      /\ step' = [step EXCEPT ![c] = next]
  BY DEF Continue, vars, brokerVars, replicaVars, ghostVars
<1>2. pc[c] = "handling" /\ step'[c] = next
  BY <1>1 DEF HandlerTypeOK
<1>3. \A d \in Consumers \ {c} : step'[d] = step[d]
  BY <1>1 DEF HandlerTypeOK
<1>4. QED
  BY <1>1, <1>2, <1>3 DEF Own

LEMMA RespondOwn ==
  ASSUME NEW S, HandlerTypeOK(S), NEW c \in Consumers, NEW err, Respond(c, err)
  PROVE  /\ Own(c) /\ cur' = cur /\ step' = [step EXCEPT ![c] = "none"]
         /\ step'[c] = "none" /\ pc[c] = "handling"
         /\ err = "nil" => pc'[c] = "succeeded"
         /\ err # "nil" => pc'[c] = "failed"
         /\ faults' = faults /\ crashes' = crashes
<1>1. /\ UNCHANGED <<cur, done, parked, faults, crashes>>
      /\ step' = [step EXCEPT ![c] = "none"] /\ pc[c] = "handling"
      /\ pc' = [pc EXCEPT ![c] = IF err = "nil" THEN "succeeded" ELSE "failed"]
  BY DEF Respond, HandlerReturns, brokerVars, ghostVars
<1>2. QED
  BY <1>1 DEF Own, HandlerTypeOK, TypeOK

LEMMA CrashOwn ==
  ASSUME NEW S, HandlerTypeOK(S), NEW c \in Consumers, CrashReplica(c)
  PROVE  /\ Own(c) /\ step' = [step EXCEPT ![c] = "none"]
         /\ step'[c] = "none" /\ pc'[c] = "down"
         /\ faults' = faults + 1 /\ crashes' = crashes + 1
<1>1. /\ pc' = [pc EXCEPT ![c] = "down"] /\ cur' = [cur EXCEPT ![c] = None]
      /\ step' = [step EXCEPT ![c] = "none"]
      /\ done' = done /\ parked' = parked
      /\ faults' = faults + 1 /\ crashes' = crashes + 1
  BY DEF CrashReplica, Crash, Fault
<1>2. QED
  BY <1>1 DEF Own, HandlerTypeOK, TypeOK

\* The steps of the loop and the broker leave those who handle a message
\* alone, and acknowledge a success or park a failure when they do.
LEMMA AroundEffect ==
  ASSUME TypeOK, Around
  PROVE  /\ UNCHANGED handlerVars
         /\ \A d \in Consumers :
              /\ pc'[d] = "handling" <=> pc[d] = "handling"
              /\ pc'[d] \in {"handling", "succeeded", "failed"} =>
                   pc'[d] = pc[d] /\ cur'[d] = cur[d]
         /\ \A m \in done' \ done :
              \E c \in Consumers : pc[c] = "succeeded" /\ cur[c].msg = m
         /\ \A m \in Messages : parked'[m] > 0 =>
              \/ parked[m] > 0
              \/ \E c \in Consumers : pc[c] = "failed" /\ cur[c].msg = m
         /\ faults' \in {faults, faults + 1}
<1> DEFINE Alone(d) ==
             /\ pc'[d] = "handling" <=> pc[d] = "handling"
             /\ pc'[d] \in {"handling", "succeeded", "failed"} =>
                  pc'[d] = pc[d] /\ cur'[d] = cur[d]
           Same == done' = done /\ parked' = parked /\ faults' \in {faults, faults + 1}
<1> USE DEF brokerVars, replicaVars, ghostVars
<1>1. ASSUME NEW c \in Consumers, Settle(c), NEW d \in Consumers PROVE Alone(d)
  BY <1>1 DEF Settle, AckSuccess, Reject, Park, ParkFails, AckParked, Nack,
    Finish, ConsumerStops, TypeOK
<1>2. ASSUME NEW c \in Consumers, Start(c)
      PROVE  Same /\ \A d \in Consumers : Alone(d)
  BY <1>2 DEF Start, DeclareRetryTopology, Subscribe, SubscribeFails, Fault, TypeOK
<1>3. ASSUME NEW c \in Consumers, ChannelLost(c) \/ ConnectionLost(c)
      PROVE  Same /\ \A d \in Consumers : Alone(d)
  BY <1>3 DEF ChannelLost, ConnectionLost, Fault
<1>4. CASE Queue
  <2>1. Same /\ \A d \in Consumers : Alone(d)
    BY <1>4 DEF Queue, Publish, RetryExpires, Deliver
  <2>2. QED
    BY <2>1, <1>4 DEF Around
<1>5. ASSUME BrokerRestart
      PROVE  /\ done' = done /\ faults' = faults + 1
             /\ \A m \in Messages : parked'[m] = 0
             /\ \A d \in Consumers : Alone(d)
  BY <1>5 DEF BrokerRestart, Fault
<1>6. ASSUME NEW c \in Consumers, Settle(c)
      PROVE  /\ faults' \in {faults, faults + 1}
             /\ \A m \in done' \ done : pc[c] = "succeeded" /\ cur[c].msg = m
             /\ \A m \in Messages : parked'[m] > 0 =>
                  \/ parked[m] > 0
                  \/ pc[c] = "failed" /\ cur[c].msg = m
  <2>1. CASE AckSuccess(c)
    BY <2>1 DEF AckSuccess
  <2>2. CASE Park(c)
    BY <2>2 DEF Park, TypeOK
  <2>3. CASE Reject(c) \/ ParkFails(c) \/ AckParked(c) \/ ConsumerStops(c)
    BY <2>3 DEF Reject, ParkFails, AckParked, ConsumerStops, Nack, Fault
  <2>4. QED
    BY <1>6, <2>1, <2>2, <2>3 DEF Settle
<1>7. UNCHANGED handlerVars
  BY DEF Around
<1>8. CASE \E c \in Consumers : Settle(c)
  BY <1>1, <1>6, <1>7, <1>8
<1>9. CASE \E c \in Consumers : Start(c) \/ ChannelLost(c) \/ ConnectionLost(c)
  BY <1>2, <1>3, <1>7, <1>9
<1>10. CASE BrokerRestart
  <2>1. \A m \in Messages : ~(parked'[m] > 0)
    BY <1>5, <1>10
  <2>2. QED
    BY <1>5, <1>7, <1>10, <2>1
<1>11. QED
  BY <1>4, <1>8, <1>9, <1>10 DEF Around

-----------------------------------------------------------------------------
(* Type correctness.                                                       *)

\* A step that keeps handler and loop in step with each other.
LEMMA HandlerFrame ==
  ASSUME NEW S, HandlerTypeOK(S), TypeOK',
         step' \in [Consumers -> S \union {"none"}],
         breaker' \in [Consumers -> BreakerStates],
         crashes' = crashes, faults' \in {faults, faults + 1},
         handlerFaults' \in 0..MaxHandlerFaults,
         \A d \in Consumers : step'[d] # "none" <=> pc'[d] = "handling"
  PROVE  HandlerTypeOK(S)'
<1>1. crashes' \in 0..faults'
  BY DEF HandlerTypeOK, TypeOK
<1>2. QED
  BY <1>1 DEF HandlerTypeOK

LEMMA EnterType ==
  ASSUME NEW S, HandlerTypeOK(S), NEW c \in Consumers, NEW d \in inbox[c],
         NEW first \in S \ {"none"}, Enter(c, d, first)
  PROVE  HandlerTypeOK(S)'
<1>1. TypeOK'
  BY TypeStep DEF HandlerTypeOK, Enter, Next, Loop
<1>2. UNCHANGED <<breaker, crashes, handlerFaults>>
  BY DEF Enter
<1>3. \A e \in Consumers : step'[e] # "none" <=> pc'[e] = "handling"
  BY EnterOwn DEF Own, HandlerTypeOK
<1>4. step' \in [Consumers -> S \union {"none"}]
  BY EnterOwn DEF HandlerTypeOK
<1>5. QED
  BY <1>1, <1>2, <1>3, <1>4, EnterOwn, HandlerFrame DEF HandlerTypeOK

LEMMA ContinueType ==
  ASSUME NEW S, HandlerTypeOK(S), NEW c \in Consumers, step[c] # "none",
         NEW next \in S \ {"none"}, Continue(c, next),
         breaker' \in [Consumers -> BreakerStates],
         handlerFaults' \in 0..MaxHandlerFaults
  PROVE  HandlerTypeOK(S)'
<1>1. TypeOK'
  BY TypeStep DEF HandlerTypeOK, Continue
<1>2. \A e \in Consumers : step'[e] # "none" <=> pc'[e] = "handling"
  BY ContinueOwn DEF Own, HandlerTypeOK
<1>3. step' \in [Consumers -> S \union {"none"}]
  BY ContinueOwn DEF HandlerTypeOK
<1>4. QED
  BY <1>1, <1>2, <1>3, ContinueOwn, HandlerFrame

LEMMA RespondType ==
  ASSUME NEW S, HandlerTypeOK(S), NEW c \in Consumers,
         NEW err \in {"nil", "error"}, Respond(c, err), breaker' = breaker,
         handlerFaults' \in 0..MaxHandlerFaults
  PROVE  HandlerTypeOK(S)'
<1>1. TypeOK'
  BY TypeStep, RespondReturns DEF HandlerTypeOK
<1>2. \A e \in Consumers : step'[e] # "none" <=> pc'[e] = "handling"
  BY RespondOwn DEF Own, HandlerTypeOK
<1>3. step' \in [Consumers -> S \union {"none"}]
  BY RespondOwn DEF HandlerTypeOK
<1>4. QED
  BY <1>1, <1>2, <1>3, RespondOwn, HandlerFrame DEF HandlerTypeOK

LEMMA NewType == New \in BreakerStates
BY DEF New, In, BreakerStates

LEMMA CrashType ==
  ASSUME NEW S, HandlerTypeOK(S), NEW c \in Consumers, CrashReplica(c)
  PROVE  HandlerTypeOK(S)'
<1>1. TypeOK'
  BY TypeStep DEF HandlerTypeOK, CrashReplica, Next, Failure
<1>2. \A e \in Consumers : step'[e] # "none" <=> pc'[e] = "handling"
  BY CrashOwn DEF Own, HandlerTypeOK
<1>3. step' \in [Consumers -> S \union {"none"}]
  BY CrashOwn DEF HandlerTypeOK
<1>4. breaker' \in [Consumers -> BreakerStates] /\ handlerFaults' = handlerFaults
  BY NewType DEF CrashReplica, HandlerTypeOK
<1>5. crashes' \in 0..faults'
  BY CrashOwn DEF HandlerTypeOK, TypeOK
<1>6. QED
  BY <1>1, <1>2, <1>3, <1>4, <1>5 DEF HandlerTypeOK

LEMMA RestsType ==
  ASSUME NEW S, HandlerTypeOK(S), NEW c \in Consumers, BreakerRests(c)
  PROVE  HandlerTypeOK(S)'
<1>1. TypeOK'
  BY TypeStep DEF HandlerTypeOK, BreakerRests
<1>2. breaker' \in [Consumers -> BreakerStates]
  BY DEF BreakerRests, HandlerTypeOK, BreakerStates
<1>3. UNCHANGED <<step, pc, faults, crashes, handlerFaults>>
  BY DEF BreakerRests, vars, replicaVars, ghostVars
<1>4. QED
  BY <1>1, <1>2, <1>3 DEF HandlerTypeOK

LEMMA AroundType ==
  ASSUME NEW S, HandlerTypeOK(S), Around
  PROVE  HandlerTypeOK(S)'
<1>1. TypeOK'
  BY TypeStep, AroundLoops DEF HandlerTypeOK
<1>2. UNCHANGED handlerVars /\ faults' \in {faults, faults + 1}
  BY AroundEffect DEF HandlerTypeOK
<1>3. \A e \in Consumers : step'[e] # "none" <=> pc'[e] = "handling"
  BY <1>2, AroundEffect DEF HandlerTypeOK, handlerVars
<1>4. QED
  BY <1>1, <1>2, <1>3, HandlerFrame DEF HandlerTypeOK, handlerVars

LEMMA HandlerTypeInit ==
  ASSUME NEW S, HandlerInit
  PROVE  HandlerTypeOK(S)
<1>1. TypeOK /\ faults = 0 /\ pc = [c \in Consumers |-> "down"]
  BY TypeInit DEF HandlerInit, Init
<1>2. QED
  BY <1>1, NewType, HandlerAssumption DEF HandlerInit, HandlerTypeOK

-----------------------------------------------------------------------------
(* A breaker with one caller.                                              *)

\* Execute lets a call through.
Admits(b) == ~Open(Refusal(b))

\* Of the trials of a half-open breaker all succeeded but for the one under
\* way, if any; and no call is under way through an open one.
Tried(b, calling) ==
  /\ calling => b.state # "open"
  /\ b.state = "half-open" =>
       /\ b.successes < maxRequests
       /\ calling => b.trials = b.successes + 1
       /\ ~calling => b.trials = b.successes

LEMMA MaxRequestsType == maxRequests \in Nat \ {0}
BY BreakerAssumption DEF maxRequests

LEMMA InTried ==
  ASSUME NEW s \in {"closed", "open", "half-open"}
  PROVE  /\ In(s) \in BreakerStates /\ In(s).state = s
         /\ In(s).trials = 0 /\ In(s).successes = 0
         /\ Tried(In(s), FALSE)
<1>1. /\ In(s) \in BreakerStates /\ In(s).state = s
      /\ In(s).trials = 0 /\ In(s).successes = 0
  BY DEF In, BreakerStates
<1>2. 0 < maxRequests
  BY MaxRequestsType
<1>3. QED
  BY <1>1, <1>2 DEF Tried

LEMMA CurrentTried ==
  ASSUME NEW b \in BreakerStates, Tried(b, FALSE)
  PROVE  currentState(b) \in BreakerStates /\ Tried(currentState(b), FALSE)
BY InTried DEF currentState

\* A half-open breaker without a call under way has a trial left.
LEMMA TrialLeft ==
  ASSUME NEW b \in BreakerStates, Tried(b, FALSE), b.state = "half-open"
  PROVE  b.trials < maxRequests
BY DEF Tried

LEMMA AdmitType ==
  ASSUME NEW b \in BreakerStates
  PROVE  Admit(b) \in BreakerStates
<1>1. currentState(b) \in BreakerStates
  BY InTried DEF currentState
<1>2. QED
  BY <1>1 DEF Admit, BreakerStates

LEMMA AdmitTried ==
  ASSUME NEW b \in BreakerStates, Tried(b, FALSE), Admits(b)
  PROVE  Tried(Admit(b), TRUE)
<1> DEFINE now == currentState(b)
<1>1. now \in BreakerStates /\ Tried(now, FALSE)
  BY CurrentTried
<1>2. CASE now.state = "half-open"
  <2>1. Admit(b) = [now EXCEPT !.trials = @ + 1]
    BY <1>2 DEF Admit
  <2>2. Admit(b).trials = now.trials + 1
    BY <1>1, <2>1 DEF BreakerStates
  <2>3. Admit(b).successes = now.successes /\ Admit(b).state = "half-open"
    BY <1>1, <1>2, <2>1 DEF BreakerStates
  <2>4. now.trials = now.successes /\ now.successes < maxRequests
    BY <1>1, <1>2 DEF Tried
  <2>5. QED
    BY <2>2, <2>3, <2>4 DEF Tried
<1>3. CASE now.state # "half-open"
  <2>1. Admit(b) = now
    BY <1>3 DEF Admit
  <2>2. now.state # "open"
    BY DEF Admits, Open, Refusal
  <2>3. QED
    BY <1>1, <1>3, <2>1, <2>2 DEF Tried
<1>4. QED
  BY <1>2, <1>3

\* A success, then a failure, of the call under way.
LEMMA SuccessTried ==
  ASSUME NEW b \in BreakerStates
  PROVE  /\ onSuccess(b) \in BreakerStates
         /\ Tried(b, TRUE) => Tried(onSuccess(b), FALSE)
<1>1. b.state \in {"closed", "open", "half-open"} /\ b.successes \in Nat
  BY DEF BreakerStates
<1>2. CASE b.state = "closed"
  <2>1. onSuccess(b) = [b EXCEPT !.failures = 0]
    BY <1>2 DEF onSuccess
  <2>2. QED
    BY <1>2, <2>1 DEF Tried, BreakerStates
<1>3. CASE b.state = "half-open" /\ b.successes + 1 >= maxRequests
  BY <1>3, InTried DEF onSuccess
<1>4. CASE b.state = "half-open" /\ ~(b.successes + 1 >= maxRequests)
  <2>1. onSuccess(b) = [b EXCEPT !.successes = @ + 1]
    BY <1>4 DEF onSuccess
  <2>2. onSuccess(b) \in BreakerStates
    BY <2>1 DEF BreakerStates
  <2>3. onSuccess(b).successes = b.successes + 1
    BY <2>1 DEF BreakerStates
  <2>4. onSuccess(b).trials = b.trials /\ onSuccess(b).state = b.state
    BY <2>1 DEF BreakerStates
  <2>5. QED
    BY <1>1, <1>4, <2>2, <2>3, <2>4, MaxRequestsType DEF Tried
<1>5. CASE b.state = "open"
  BY <1>5 DEF onSuccess, Tried
<1>6. QED
  BY <1>1, <1>2, <1>3, <1>4, <1>5

LEMMA FailureTried ==
  ASSUME NEW b \in BreakerStates
  PROVE  /\ onFailure(b) \in BreakerStates
         /\ Tried(b, TRUE) => Tried(onFailure(b), FALSE)
<1>1. b.state \in {"closed", "open", "half-open"} /\ b.failures \in Nat
  BY DEF BreakerStates
<1>2. CASE b.state = "closed" /\ ~ReadyToTrip(b.failures + 1)
  <2>1. onFailure(b) = [b EXCEPT !.failures = @ + 1]
    BY <1>2 DEF onFailure
  <2>2. onFailure(b) \in BreakerStates
    BY <2>1 DEF BreakerStates
  <2>3. onFailure(b).state = "closed"
    BY <1>2, <2>1 DEF BreakerStates
  <2>4. QED
    BY <2>2, <2>3 DEF Tried
<1>3. CASE b.state = "half-open" \/ (b.state = "closed" /\ ReadyToTrip(b.failures + 1))
  <2>1. onFailure(b) = In("open")
    BY <1>3 DEF onFailure
  <2>2. QED
    BY <2>1, InTried
<1>4. CASE b.state = "open"
  BY <1>4 DEF onFailure, Tried
<1>5. QED
  BY <1>1, <1>2, <1>3, <1>4

LEMMA ReportTried ==
  ASSUME NEW b \in BreakerStates, NEW success \in BOOLEAN
  PROVE  /\ Report(b, success) \in BreakerStates
         /\ Tried(b, TRUE) => Tried(Report(b, success), FALSE)
BY SuccessTried, FailureTried DEF Report

=============================================================================
