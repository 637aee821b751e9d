---------------------------- MODULE BreakerProofs ----------------------------
(***************************************************************************)
(* What holds of a breaker for every number of callers, every threshold    *)
(* and every quota of trials.                                              *)
(***************************************************************************)
EXTENDS Breaker, FiniteSetTheorems, TLAPS

\* The calls under way that the breaker will hear of.
Counted == {c \in Callers : call[c] = "counted"}

\* The larger of the two thresholds, which bounds the calls of a streak that
\* have failed.
Limit == IF ConsecutiveFailures >= maxRequests
         THEN ConsecutiveFailures ELSE maxRequests

\* What became of the calls of a streak.  Those of a closed breaker failed
\* or are under way.  Those of a half-open one are trials, and a trial
\* succeeded or is under way.  An open breaker hears of no call, and the end
\* of its timeout ends the streak.
Account ==
  /\ breaker.state = "closed" => streak <= breaker.failures + Cardinality(Counted)
  /\ breaker.state = "half-open" =>
       /\ breaker.trials = breaker.successes + Cardinality(Counted)
       /\ breaker.successes < maxRequests
       /\ breaker.trials <= maxRequests
       /\ streak <= breaker.trials
  /\ breaker.state = "open" =>
       /\ Counted = {}
       /\ breaker.rested => streak = 0
       /\ FailFast

IInv == TypeOK /\ Account

-----------------------------------------------------------------------------
(* The operators on the breaker.                                           *)

\* What TypeOK says of the breaker.
Sound(b) ==
  /\ b \in BreakerStates
  /\ b.state = "closed" => b.failures = 0 \/ b.failures < ConsecutiveFailures
  /\ b.state # "closed" => b.failures = 0
  /\ b.state # "half-open" => b.trials = 0 /\ b.successes = 0
  /\ b.rested => b.state = "open"

LEMMA MaxRequestsType == maxRequests \in Nat \ {0}
BY BreakerAssumption DEF maxRequests

LEMMA InSound ==
  ASSUME NEW s \in {"closed", "open", "half-open"}
  PROVE  Sound(In(s)) /\ In(s).state = s /\ ~In(s).rested
BY DEF Sound, In, BreakerStates

LEMMA CurrentSound ==
  ASSUME NEW b, Sound(b)
  PROVE  /\ Sound(currentState(b))
         /\ currentState(b) = b
              \/ (b.state = "open" /\ b.rested /\ currentState(b) = In("half-open"))
BY InSound DEF currentState

\* One more trial.
LEMMA TrialSound ==
  ASSUME NEW b \in BreakerStates, Sound(b), b.state = "half-open"
  PROVE  LET more == [b EXCEPT !.trials = @ + 1] IN
         /\ more \in BreakerStates /\ Sound(more)
         /\ more.state = "half-open" /\ more.successes = b.successes
         /\ more.trials = b.trials + 1
<1> DEFINE more == [b EXCEPT !.trials = @ + 1]
<1>1. more \in BreakerStates
  BY DEF BreakerStates
<1>2. more.trials = b.trials + 1
  BY DEF BreakerStates
<1>3. /\ more.state = b.state /\ more.successes = b.successes
      /\ more.failures = b.failures /\ more.rested = b.rested
  BY DEF BreakerStates
<1>4. Sound(more)
  BY <1>1, <1>3 DEF Sound
<1>5. QED
  BY <1>1, <1>2, <1>3, <1>4

\* Execute lets a call through.
Admits(b) == Refusal(b) = ""

\* A call is let through: counted as a trial by a half-open breaker, and
\* of no effect on a closed one.
LEMMA AdmitSound ==
  ASSUME NEW b, Sound(b), Admits(b)
  PROVE  /\ Sound(Admit(b))
         /\ \/ b.state = "closed" /\ Admit(b) = b
            \/ /\ Admit(b).state = "half-open"
               /\ Admit(b).successes = currentState(b).successes
               /\ Admit(b).trials = currentState(b).trials + 1
               /\ currentState(b).state = "half-open"
               /\ currentState(b).trials < maxRequests
<1> DEFINE now == currentState(b)
<1>1. now \in BreakerStates /\ Sound(now)
  BY CurrentSound DEF Sound
<1>2. now.state # "open" /\ ~(now.state = "half-open" /\ now.trials >= maxRequests)
  BY DEF Admits, Refusal
<1>3. now.trials \in Nat /\ now.state \in {"closed", "open", "half-open"}
  BY <1>1 DEF BreakerStates
<1>4. ASSUME now.state = "half-open" PROVE now.trials < maxRequests
  BY <1>2, <1>3, <1>4, MaxRequestsType
<1>5. CASE now.state = "half-open"
  <2>1. Admit(b) = [now EXCEPT !.trials = @ + 1]
    BY <1>5 DEF Admit
  <2>2. QED
    BY <1>1, <1>4, <1>5, <2>1, TrialSound
<1>6. CASE now.state = "closed"
  BY <1>1, <1>6, CurrentSound, InSound DEF Admit
<1>7. QED
  BY <1>2, <1>3, <1>5, <1>6

\* A success resets a closed breaker, and closes a half-open one when it is
\* the last that was asked for.
LEMMA SuccessSound ==
  ASSUME NEW b, Sound(b)
  PROVE  /\ Sound(onSuccess(b))
         /\ \/ onSuccess(b).state = "closed"
            \/ b.state = "open" /\ onSuccess(b) = b
            \/ /\ b.state = "half-open" /\ onSuccess(b).state = "half-open"
               /\ onSuccess(b).trials = b.trials
               /\ onSuccess(b).successes = b.successes + 1
               /\ b.successes + 1 < maxRequests
<1>1. b.state \in {"closed", "open", "half-open"} /\ b.successes \in Nat
  BY DEF Sound, BreakerStates
<1>2. CASE b.state = "closed"
  <2>1. onSuccess(b) = [b EXCEPT !.failures = 0]
    BY <1>2 DEF onSuccess
  <2>2. QED
    BY <1>2, <2>1 DEF Sound, BreakerStates
<1>3. CASE b.state = "half-open" /\ b.successes + 1 >= maxRequests
  BY <1>3, InSound DEF onSuccess
<1>4. CASE b.state = "half-open" /\ ~(b.successes + 1 >= maxRequests)
  <2>1. onSuccess(b) = [b EXCEPT !.successes = @ + 1]
    BY <1>4 DEF onSuccess
  <2>2. QED
    BY <1>1, <1>4, <2>1, MaxRequestsType DEF Sound, BreakerStates
<1>5. CASE b.state = "open"
  BY <1>5 DEF onSuccess
<1>6. QED
  BY <1>1, <1>2, <1>3, <1>4, <1>5

\* A failure opens a half-open breaker, and a closed one when it was one too
\* many.
LEMMA FailureSound ==
  ASSUME NEW b, Sound(b)
  PROVE  /\ Sound(onFailure(b))
         /\ \/ b.state = "open" /\ onFailure(b) = b
            \/ onFailure(b).state = "open" /\ ~onFailure(b).rested
            \/ /\ b.state = "closed" /\ onFailure(b).state = "closed"
               /\ onFailure(b).failures = b.failures + 1
<1>1. b.state \in {"closed", "open", "half-open"} /\ b.failures \in Nat
  BY DEF Sound, BreakerStates
<1>2. CASE b.state = "closed" /\ ReadyToTrip(b.failures + 1)
  BY <1>2, InSound DEF onFailure
<1>3. CASE b.state = "closed" /\ ~ReadyToTrip(b.failures + 1)
  <2>1. onFailure(b) = [b EXCEPT !.failures = @ + 1]
    BY <1>3 DEF onFailure
  <2>2. b.failures + 1 < ConsecutiveFailures
    BY <1>1, <1>3, BreakerAssumption DEF ReadyToTrip
  <2>3. QED
    BY <1>1, <1>3, <2>1, <2>2 DEF Sound, BreakerStates
<1>4. CASE b.state = "half-open"
  BY <1>4, InSound DEF onFailure
<1>5. CASE b.state = "open"
  BY <1>5 DEF onFailure
<1>6. QED
  BY <1>1, <1>2, <1>3, <1>4, <1>5

-----------------------------------------------------------------------------
(* Type correctness.                                                       *)

LEMMA TypeIsSound == TypeOK => Sound(breaker)
BY DEF TypeOK, Sound

\* A step keeps the types when it keeps those of the calls and the breaker.
LEMMA TypeFrame ==
  ASSUME TypeOK, Sound(breaker'), call' \in [Callers -> {"idle", "counted", "late"}],
         answer' \in [Callers -> Answers], healthy' \in BOOLEAN,
         outages' \in 0..MaxOutages, streak' \in Nat
  PROVE  TypeOK'
BY DEF TypeOK, Sound

LEMMA OutdatedType ==
  ASSUME NEW b, NEW calls \in [Callers -> {"idle", "counted", "late"}]
  PROVE  Outdated(b, calls) \in [Callers -> {"idle", "counted", "late"}]
BY DEF Outdated

LEMMA RefusalType == ASSUME NEW b PROVE Refusal(b) # "" => Refusal(b) \in Answers
BY DEF Refusal, Answers

\* The breaker after a call returned.
Heard(c, success) == IF call[c] = "counted"
                     THEN Report(breaker, success) ELSE currentState(breaker)

LEMMA HeardSound ==
  ASSUME TypeOK, NEW c \in Callers, NEW success \in BOOLEAN
  PROVE  Sound(Heard(c, success))
BY TypeIsSound, CurrentSound, SuccessSound, FailureSound DEF Heard, Report

LEMMA TypeStep == TypeOK /\ [Next]_vars => TypeOK'
<1> SUFFICES ASSUME TypeOK, [Next]_vars PROVE TypeOK'
  OBVIOUS
<1>0. /\ Sound(breaker) /\ call \in [Callers -> {"idle", "counted", "late"}]
      /\ answer \in [Callers -> Answers] /\ healthy \in BOOLEAN
      /\ outages \in 0..MaxOutages /\ streak \in Nat /\ MaxOutages \in Nat
  BY TypeIsSound, CallersAssumption DEF TypeOK
<1>1. ASSUME NEW c \in Callers, Refuse(c) PROVE TypeOK'
  <2>1. answer' \in [Callers -> Answers]
    BY <1>0, <1>1, RefusalType DEF Refuse
  <2>2. QED
    BY <1>0, <1>1, <2>1, TypeFrame DEF Refuse
<1>2. ASSUME NEW c \in Callers, Execute(c) PROVE TypeOK'
  <2>1. Sound(breaker')
    BY <1>0, <1>2, AdmitSound DEF Execute, Admits
  <2>2. /\ call' = [Outdated(breaker', call) EXCEPT ![c] = "counted"]
        /\ streak' = streak + 1 /\ UNCHANGED <<answer, healthy, outages>>
    BY <1>2 DEF Execute
  <2>3. call' \in [Callers -> {"idle", "counted", "late"}]
    BY <1>0, <2>2, OutdatedType
  <2>4. QED
    BY <1>0, <2>1, <2>2, <2>3, TypeFrame
<1>3. ASSUME NEW c \in Callers, NEW success \in BOOLEAN, Return(c, success)
      PROVE  TypeOK'
  <2>1. Sound(breaker')
    BY <1>3, HeardSound DEF Return, Heard
  <2>2. call' \in [Callers -> {"idle", "counted", "late"}]
    BY <1>0, <1>3, OutdatedType DEF Return
  <2>3. answer' \in [Callers -> Answers]
    BY <1>0, <1>3 DEF Return, Answers
  <2>4. QED
    BY <1>0, <1>3, <2>1, <2>2, <2>3, TypeFrame DEF Return
<1>4. CASE OpenTimeout
  <2>1. Sound(breaker')
    BY <1>0, <1>4 DEF OpenTimeout, Sound, BreakerStates
  <2>2. QED
    BY <1>0, <1>4, <2>1, TypeFrame DEF OpenTimeout
<1>5. CASE Outage
  <2>1. outages' \in 0..MaxOutages
    BY <1>0, <1>5 DEF Outage
  <2>2. /\ healthy' \in BOOLEAN
        /\ UNCHANGED <<breaker, call, answer, streak>>
    BY <1>5 DEF Outage
  <2>3. QED
    BY <1>0, <2>1, <2>2, TypeFrame
<1>6. CASE Recover
  BY <1>0, <1>6, TypeFrame DEF Recover
<1>7. CASE UNCHANGED vars
  BY <1>0, <1>7, TypeFrame DEF vars
<1>8. QED
  BY <1>1, <1>2, <1>3, <1>4, <1>5, <1>6, <1>7 DEF Next

LEMMA TypeInit == Init => TypeOK
BY CallersAssumption, InSound DEF Init, TypeOK, New, Sound, Answers

-----------------------------------------------------------------------------
(* The account.                                                            *)

LEMMA CountedType ==
  ASSUME TypeOK
  PROVE  /\ IsFiniteSet(Counted) /\ Cardinality(Counted) \in Nat
         /\ Cardinality(Counted) <= Cardinality(Callers)
         /\ Cardinality(Callers) \in Nat \ {0}
<1>1. IsFiniteSet(Callers) /\ Callers # {} /\ Counted \in SUBSET Callers
  BY CallersAssumption DEF Counted
<1>2. Cardinality(Callers) \in Nat /\ Cardinality(Callers) # 0
  BY <1>1, FS_CardinalityType, FS_EmptySet
<1>3. QED
  BY <1>1, <1>2, FS_Subset, FS_CardinalityType

\* A call that returns leaves those under way, and all do when the breaker
\* changes its state.
LEMMA CountedReturns ==
  ASSUME TypeOK, NEW c \in Callers,
         call' = Outdated(breaker', [call EXCEPT ![c] = "idle"])
  PROVE  /\ breaker'.state # breaker.state => Counted' = {}
         /\ breaker'.state = breaker.state => Counted' = Counted \ {c}
BY DEF TypeOK, Counted, Outdated

\* A call that is made joins those of the same state.
LEMMA CountedExecutes ==
  ASSUME TypeOK, NEW c \in Callers,
         call' = [Outdated(breaker', call) EXCEPT ![c] = "counted"]
  PROVE  /\ breaker'.state # breaker.state => Counted' = {c}
         /\ breaker'.state = breaker.state => Counted' = Counted \union {c}
BY DEF TypeOK, Counted, Outdated

LEMMA LimitType == Limit \in Nat \ {0} /\ ConsecutiveFailures <= Limit /\ maxRequests <= Limit
BY BreakerAssumption, MaxRequestsType DEF Limit

\* The account bounds the streak in every state.
LEMMA AccountBounds == TypeOK /\ Account => FailFast
<1> SUFFICES ASSUME TypeOK, Account
             PROVE  streak <= Limit + Cardinality(Callers) - 1
  BY DEF FailFast, Limit
<1>1. /\ breaker.state \in {"closed", "half-open", "open"}
      /\ breaker.failures \in Nat /\ breaker.trials \in Nat /\ streak \in Nat
      /\ ConsecutiveFailures \in Nat /\ maxRequests \in Nat /\ Limit \in Nat \ {0}
  BY LimitType, MaxRequestsType, BreakerAssumption DEF TypeOK, BreakerStates
<1>2. CASE breaker.state = "closed"
  <2>1. streak <= breaker.failures + Cardinality(Counted)
    BY <1>2 DEF Account
  <2>2. breaker.failures <= Limit - 1
    BY <1>1, <1>2, LimitType DEF TypeOK
  <2>3. QED
    BY <1>1, <2>1, <2>2, CountedType
<1>3. CASE breaker.state = "half-open"
  <2>1. streak <= breaker.trials /\ breaker.trials <= maxRequests
    BY <1>3 DEF Account
  <2>2. QED
    BY <1>1, <2>1, LimitType, CountedType
<1>4. CASE breaker.state = "open"
  BY <1>4 DEF Account, FailFast, Limit
<1>5. QED
  BY <1>1, <1>2, <1>3, <1>4

\* A call that is made.
LEMMA AccountExecutes ==
  ASSUME TypeOK, TypeOK', Account, NEW c \in Callers, Execute(c)
  PROVE  Account'
<1>1. /\ call[c] = "idle" /\ breaker' = Admit(breaker) /\ streak' = streak + 1
      /\ call' = [Outdated(breaker', call) EXCEPT ![c] = "counted"]
      /\ Admits(breaker)
  BY DEF Execute, Admits
<1>2. c \notin Counted
  BY <1>1 DEF Counted
<1>3. /\ Sound(breaker) /\ streak \in Nat /\ breaker.failures \in Nat
      /\ breaker.trials \in Nat /\ maxRequests \in Nat \ {0}
  BY TypeIsSound, MaxRequestsType DEF TypeOK, BreakerStates
<1>4. CASE breaker.state = "closed" /\ breaker' = breaker
  <2>1. Counted' = Counted \union {c}
    BY <1>1, <1>4, CountedExecutes
  <2>2. Cardinality(Counted)' = Cardinality(Counted) + 1
    BY <1>2, <2>1, CountedType, FS_AddElement
  <2>3. streak <= breaker.failures + Cardinality(Counted)
    BY <1>4 DEF Account
  <2>4. streak' <= breaker'.failures + Cardinality(Counted)'
    BY <1>1, <1>3, <1>4, <2>2, <2>3, CountedType
  <2>5. QED
    BY <1>4, <2>4 DEF Account
<1>5. CASE /\ breaker'.state = "half-open" /\ currentState(breaker).state = "half-open"
           /\ breaker'.successes = currentState(breaker).successes
           /\ breaker'.trials = currentState(breaker).trials + 1
           /\ currentState(breaker).trials < maxRequests
  <2>1. CASE currentState(breaker) = breaker
    <3>1. Cardinality(Counted)' = Cardinality(Counted) + 1
      <4>1. Counted' = Counted \union {c}
        BY <1>1, <1>5, <2>1, CountedExecutes
      <4>2. QED
        BY <1>2, <4>1, CountedType, FS_AddElement
    <3>2. /\ breaker.trials = breaker.successes + Cardinality(Counted)
          /\ breaker.successes < maxRequests /\ streak <= breaker.trials
      BY <1>5, <2>1 DEF Account
    <3>3. breaker.successes \in Nat
      BY DEF TypeOK, BreakerStates
    <3>4. /\ breaker'.trials = breaker'.successes + Cardinality(Counted)'
          /\ breaker'.successes < maxRequests /\ breaker'.trials <= maxRequests
          /\ streak' <= breaker'.trials
      BY <1>1, <1>3, <1>5, <2>1, <3>1, <3>2, <3>3, CountedType
    <3>5. QED
      BY <1>5, <3>4 DEF Account
  <2>2. CASE breaker.state = "open" /\ breaker.rested /\ currentState(breaker) = In("half-open")
    <3>1. Counted' = {c}
      BY <1>1, <1>5, <2>2, CountedExecutes
    <3>2. Cardinality(Counted)' = 1
      BY <3>1, FS_Singleton
    <3>3. streak = 0
      BY <2>2 DEF Account
    <3>4. breaker'.trials = 1 /\ breaker'.successes = 0
      BY <1>5, <2>2 DEF In
    <3>5. QED
      BY <1>1, <1>3, <1>5, <3>2, <3>3, <3>4 DEF Account
  <2>3. QED
    BY <1>3, <2>1, <2>2, CurrentSound
<1>6. QED
  BY <1>1, <1>3, <1>4, <1>5, AdmitSound

\* An old call that returns.
LEMMA AccountReturnsLate ==
  ASSUME TypeOK, TypeOK', Account, NEW c \in Callers, NEW success \in BOOLEAN,
         Return(c, success), call[c] # "counted"
  PROVE  Account'
<1>1. /\ breaker' = currentState(breaker) /\ streak' \in {0, streak}
      /\ call' = Outdated(breaker', [call EXCEPT ![c] = "idle"])
  BY DEF Return
<1>2. c \notin Counted /\ Sound(breaker) /\ streak \in Nat
  BY TypeIsSound DEF Counted, TypeOK
<1>3. CASE breaker' = breaker
  <2>1. Counted' = Counted
    BY <1>1, <1>2, <1>3, CountedReturns
  <2>2. streak' <= streak
    BY <1>1, <1>2
  <2>3. breaker.trials \in Nat /\ breaker.failures \in Nat
    BY DEF TypeOK, BreakerStates
  <2>4. breaker.state = "closed" => streak' <= breaker.failures + Cardinality(Counted)
    BY <1>1, <1>2, <2>3, CountedType DEF Account
  <2>5. breaker.state = "half-open" => streak' <= breaker.trials
    BY <1>1, <1>2, <2>3 DEF Account
  <2>6. (breaker.state = "open" /\ breaker.rested => streak = 0) => streak' = 0
           \/ ~(breaker.state = "open" /\ breaker.rested)
    BY <1>1
  <2>7. breaker.state = "open" => FailFast'
    <3>1. FailFast
      BY AccountBounds
    <3>2. streak <= Limit + Cardinality(Callers) - 1
      BY <3>1 DEF FailFast, Limit
    <3>3. streak' <= Limit + Cardinality(Callers) - 1
      BY <1>2, <2>2, <3>2, LimitType, CountedType, <1>1
    <3>4. QED
      BY <3>3 DEF FailFast, Limit
  <2>8. QED
    BY <1>3, <2>1, <2>4, <2>5, <2>6, <2>7 DEF Account
<1>4. CASE breaker.state = "open" /\ breaker.rested /\ breaker' = In("half-open")
  <2>1. Counted' = {}
    BY <1>1, <1>4, CountedReturns, InSound
  <2>2. Cardinality(Counted)' = 0
    BY <2>1, FS_EmptySet
  <2>3. streak' = 0
    BY <1>1, <1>4 DEF Account
  <2>4. /\ breaker'.state = "half-open" /\ breaker'.trials = 0
        /\ breaker'.successes = 0
    BY <1>4 DEF In
  <2>5. QED
    BY <2>2, <2>3, <2>4, MaxRequestsType DEF Account
<1>5. QED
  BY <1>1, <1>2, <1>3, <1>4, CurrentSound

\* A call of the breaker's generation that succeeds.
LEMMA AccountSucceeds ==
  ASSUME TypeOK, TypeOK', Account, NEW c \in Callers,
         Return(c, TRUE), call[c] = "counted"
  PROVE  Account'
<1>1. /\ breaker' = onSuccess(breaker) /\ streak' = 0
      /\ call' = Outdated(breaker', [call EXCEPT ![c] = "idle"])
  BY DEF Return, Report
<1>2. c \in Counted /\ Sound(breaker) /\ breaker.state # "open"
  BY TypeIsSound DEF Counted, Account
<1>3. CASE breaker'.state = "closed"
  <2>1. breaker'.failures \in Nat /\ Cardinality(Counted)' \in Nat
    <3>1. IsFiniteSet(Counted)'
      BY CallersAssumption, FS_Subset DEF Counted
    <3>2. QED
      BY <3>1, FS_CardinalityType DEF TypeOK, BreakerStates
  <2>2. streak' <= breaker'.failures + Cardinality(Counted)'
    BY <1>1, <2>1
  <2>3. QED
    BY <1>3, <2>2 DEF Account
<1>4. CASE /\ breaker.state = "half-open" /\ breaker'.state = "half-open"
           /\ breaker'.trials = breaker.trials
           /\ breaker'.successes = breaker.successes + 1
           /\ breaker.successes + 1 < maxRequests
  <2>1. Counted' = Counted \ {c}
    BY <1>1, <1>4, CountedReturns
  <2>2. Cardinality(Counted)' = Cardinality(Counted) - 1
    BY <1>2, <2>1, CountedType, FS_RemoveElement
  <2>3. /\ breaker.trials = breaker.successes + Cardinality(Counted)
        /\ breaker.trials <= maxRequests
        /\ breaker.successes \in Nat /\ breaker.trials \in Nat
    BY <1>4 DEF Account, TypeOK, BreakerStates
  <2>4. /\ breaker'.trials = breaker'.successes + Cardinality(Counted)'
        /\ breaker'.successes < maxRequests /\ breaker'.trials <= maxRequests
        /\ streak' <= breaker'.trials
    BY <1>1, <1>4, <2>2, <2>3, CountedType
  <2>5. QED
    BY <1>4, <2>4 DEF Account
<1>5. QED
  BY <1>1, <1>2, <1>3, <1>4, SuccessSound

\* A call of the breaker's generation that fails.
LEMMA AccountFails ==
  ASSUME TypeOK, TypeOK', Account, NEW c \in Callers,
         Return(c, FALSE), call[c] = "counted"
  PROVE  Account'
<1>1. /\ breaker' = onFailure(breaker) /\ streak' = streak
      /\ call' = Outdated(breaker', [call EXCEPT ![c] = "idle"])
  BY DEF Return, Report
<1>2. c \in Counted /\ Sound(breaker) /\ breaker.state # "open"
  BY TypeIsSound DEF Counted, Account
<1>3. CASE breaker'.state = "open" /\ ~breaker'.rested
  <2>1. Counted' = {}
    BY <1>1, <1>2, <1>3, CountedReturns
  <2>2. FailFast'
    BY <1>1, AccountBounds DEF FailFast
  <2>3. QED
    BY <1>3, <2>1, <2>2 DEF Account
<1>4. CASE /\ breaker.state = "closed" /\ breaker'.state = "closed"
           /\ breaker'.failures = breaker.failures + 1
  <2>1. Counted' = Counted \ {c}
    BY <1>1, <1>4, CountedReturns
  <2>2. Cardinality(Counted)' = Cardinality(Counted) - 1
    BY <1>2, <2>1, CountedType, FS_RemoveElement
  <2>3. /\ streak <= breaker.failures + Cardinality(Counted)
        /\ streak \in Nat /\ breaker.failures \in Nat
    BY <1>4 DEF Account, TypeOK, BreakerStates
  <2>4. streak' <= breaker'.failures + Cardinality(Counted)'
    BY <1>1, <1>4, <2>2, <2>3, CountedType
  <2>5. QED
    BY <1>4, <2>4 DEF Account
<1>5. QED
  BY <1>1, <1>2, <1>3, <1>4, FailureSound

\* A step that touches none of it.
LEMMA AccountFrame ==
  ASSUME Account, UNCHANGED <<breaker, call, streak>> PROVE Account'
BY DEF Account, Counted, FailFast

LEMMA AccountStep == IInv /\ [Next]_vars => IInv'
<1> SUFFICES ASSUME TypeOK, Account, [Next]_vars PROVE Account'
  BY TypeStep DEF IInv
<1>0. TypeOK'
  BY TypeStep
<1>1. ASSUME NEW c \in Callers, Execute(c) PROVE Account'
  BY <1>0, <1>1, AccountExecutes
<1>2. ASSUME NEW c \in Callers, NEW success \in BOOLEAN, Return(c, success)
      PROVE  Account'
  BY <1>0, <1>2, AccountReturnsLate, AccountSucceeds, AccountFails
<1>3. CASE OpenTimeout
  <2>1. /\ breaker.state = "open" /\ breaker'.state = "open" /\ streak' = 0
        /\ call' = call
    BY <1>3 DEF OpenTimeout, TypeOK, BreakerStates
  <2>2. FailFast'
    <3>1. streak' <= Limit + Cardinality(Callers) - 1
      BY <2>1, LimitType, CountedType
    <3>2. QED
      BY <3>1 DEF FailFast, Limit
  <2>3. QED
    BY <2>1, <2>2 DEF Account, Counted
<1>4. CASE Outage \/ Recover
  BY <1>4, AccountFrame DEF Outage, Recover
<1>5. CASE UNCHANGED vars
  BY <1>5, AccountFrame DEF vars
<1>6. ASSUME NEW c \in Callers, Refuse(c) PROVE Account'
  BY <1>6, AccountFrame DEF Refuse
<1>7. QED
  BY <1>1, <1>2, <1>3, <1>4, <1>5, <1>6 DEF Next

LEMMA AccountInit == Init => IInv
<1> SUFFICES ASSUME Init PROVE Account
  BY TypeInit DEF IInv
<1>1. breaker.state = "closed" /\ breaker.failures = 0 /\ streak = 0
  BY DEF Init, New, In
<1>2. Cardinality(Counted) = 0
  <2>1. Counted = {}
    BY DEF Init, Counted
  <2>2. QED
    BY <2>1, FS_EmptySet
<1>3. QED
  BY <1>1, <1>2 DEF Account

-----------------------------------------------------------------------------
(* Theorems.                                                               *)

LEMMA Invariance == Spec => []IInv
BY AccountInit, AccountStep, PTL DEF Spec

(***************************************************************************)
(* Type correctness of the breaker: its counters belong to the state it is *)
(* in, and a closed one has failures left, whatever results of old calls   *)
(* arrive when (breaker.go 20-39).                                         *)
(***************************************************************************)
THEOREM BreakerTypeCorrect == Spec => []TypeOK
BY Invariance, PTL DEF IInv

(***************************************************************************)
(* A provider that is down is left alone: the bound on the calls of a      *)
(* streak holds for every number of callers, threshold and quota.          *)
(***************************************************************************)
THEOREM FailFastAlways == Spec => []FailFast
<1>1. IInv => FailFast
  BY AccountBounds DEF IInv
<1>2. QED
  BY <1>1, Invariance, PTL

(***************************************************************************)
(* A half-open breaker without a trial under way has one left: trials that *)
(* ended are successes, too few of them to close it.                       *)
(***************************************************************************)
THEOREM QuotaFreeWhenIdleAlways == Spec => []QuotaFreeWhenIdle
<1>1. ASSUME IInv, breaker.state = "half-open",
             \A c \in Callers : call[c] # "counted"
      PROVE  breaker.trials < maxRequests
  <2>1. Counted = {}
    BY <1>1 DEF Counted
  <2>2. Cardinality(Counted) = 0
    BY <2>1, FS_EmptySet
  <2>3. /\ breaker.trials = breaker.successes + Cardinality(Counted)
        /\ breaker.successes < maxRequests /\ breaker.successes \in Nat
    BY <1>1 DEF IInv, Account, TypeOK, BreakerStates
  <2>4. QED
    BY <2>2, <2>3, MaxRequestsType
<1>2. IInv => QuotaFreeWhenIdle
  BY <1>1 DEF QuotaFreeWhenIdle
<1>3. QED
  BY <1>2, Invariance, PTL

=============================================================================
