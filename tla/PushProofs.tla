----------------------------- MODULE PushProofs -----------------------------
(***************************************************************************)
(* The push handler inside the consume loop.  It is one of the handlers    *)
(* Consumer allows, so that what is proved of the loop holds with it; and  *)
(* what the row of a request and the breaker say of it holds for every     *)
(* number of messages, requests, retries and faults.                       *)
(***************************************************************************)
EXTENDS PushDelivery, HandlerProofs

\* The breaker of each replica has one caller.
TrialsInv == \A c \in Consumers : Tried(breaker[c], step[c] = "call")

\* A notification, and one its row can hold.
Recordable(n) == n # None /\ Storable(n)

\* As long as the database and OneSignal did not fail, a failure of the
\* handler has left a row, unless the message was refused as malformed or no
\* row can hold it.
Recorded ==
  /\ handlerFaults = 0 => \A c \in Consumers :
       /\ result[c] # "unstorable"
       /\ pc[c] = "failed" /\ Recordable(Notification(c)) => row[Request(c)] # "absent"
  /\ ParkedIsRecorded

\* One process runs the loop of this queue.
OneReplica == \E c \in Consumers : Consumers = {c}

\* The attempts of the replica that are past the duplicate check.
Sending == {"prepare", "call", "persist"}

\* An accepted push whose row is about to say so.
Pending(r) == \E c \in Consumers : result[c] = "sent" /\ Request(c) = r

\* With one replica: an attempt goes on only with a notification and while the
\* row allows it, the row is true, and what OneSignal accepted is in the row,
\* about to be, or paid for by a crash or a fault, if the row can hold it.
Ledger ==
  /\ \A c \in Consumers :
       /\ step[c] \in Sending => row[Request(c)] # "sent" /\ Notification(c) # None
       /\ pc[c] = "succeeded" => row[Request(c)] = "sent"
       /\ result[c] = "sent" => sends[Request(c)] >= 1
  /\ \A m \in done : row[RequestOf[m]] = "sent"
  /\ \A r \in Requests :
       /\ row[r] = "sent" => sends[r] >= 1
       /\ StorableRequest(r) =>
            /\ sends[r] <= 1 + crashes + handlerFaults
            /\ row[r] # "sent" /\ ~Pending(r) => sends[r] <= crashes + handlerFaults

-----------------------------------------------------------------------------
(* Every step is a step of the loop, or none of its variables changes.     *)

\* The steps of the handler.
LEMMA HandleStep ==
  ASSUME NEW c \in Consumers, Handle(c) PROVE [Next]_vars
<1>1. CASE \E d \in inbox[c] : ReceivePush(c, d)
  BY <1>1 DEF ReceivePush, Enter, Next, Loop
<1>2. CASE RefuseMessage(c)
  BY <1>2, RespondReturns DEF RefuseMessage
<1>3. CASE CheckDuplicate(c) \/ CheckFails(c)
  BY <1>3, RespondReturns DEF CheckDuplicate, CheckFails, Continue
<1>4. CASE RefusePayload(c)
  BY <1>4, RespondReturns DEF RefusePayload
<1>5. CASE AskBreaker(c)
  BY <1>5 DEF AskBreaker, Continue
<1>6. CASE CallSucceeds(c) \/ CallFails(c) \/ ReplyLost(c) \/ ReplyGarbled(c)
  BY <1>6 DEF CallSucceeds, CallFails, ReplyLost, ReplyGarbled, CallReturns,
    Continue
<1>7. CASE Persist(c)
  BY <1>7, RespondReturns DEF Persist
<1>8. QED
  BY <1>1, <1>2, <1>3, <1>4, <1>5, <1>6, <1>7 DEF Handle, Send

\* The steps of the rest.
LEMMA PushStep == [PushNext]_allVars => [Next]_vars
<1> SUFFICES ASSUME [PushNext]_allVars PROVE [Next]_vars
  OBVIOUS
<1>1. ASSUME NEW c \in Consumers, CrashPush(c) PROVE [Next]_vars
  BY <1>1 DEF CrashPush, CrashReplica, Next, Failure
<1>2. ASSUME NEW c \in Consumers, BreakerRests(c) PROVE [Next]_vars
  BY <1>2 DEF BreakerRests
<1>3. ASSUME NEW m \in Messages, SendAfterPasses(m) PROVE [Next]_vars
  BY <1>3 DEF SendAfterPasses
<1>4. CASE Around
  BY <1>4, AroundLoops
<1>5. CASE UNCHANGED allVars
  BY <1>5 DEF allVars
<1>6. QED
  BY <1>1, <1>2, <1>3, <1>4, <1>5, HandleStep DEF PushNext

-----------------------------------------------------------------------------
(* Type correctness.                                                       *)

\* Who handles a message handles one with a request.
LEMMA RequestType ==
  ASSUME PushTypeOK, NEW c \in Consumers, pc[c] \in Holding
  PROVE  cur[c].msg \in Messages /\ Request(c) \in Requests
<1>1. cur[c].msg \in Messages
  BY ConsumerAssumption DEF PushTypeOK, HandlerTypeOK, TypeOK, Delivery
<1>2. QED
  BY <1>1, PushAssumption DEF Request

LEMMA PushFrame ==
  ASSUME PushTypeOK, HandlerTypeOK(Steps)', NEW c \in Consumers,
         \A d \in Consumers \ {c} : step'[d] = step[d],
         NEW x \in Statuses \union {"none", "unstorable"},
         result' = [result EXCEPT ![c] = x],
         step'[c] = "persist" <=> x # "none",
         row' \in [Requests -> Statuses \union {"absent"}],
         sends' \in [Requests -> Nat], overdue' = overdue
  PROVE  PushTypeOK'
<1>1. \A d \in Consumers : step'[d] = "persist" <=> result'[d] # "none"
  BY DEF PushTypeOK
<1>2. result' \in [Consumers -> Statuses \union {"none", "unstorable"}]
  BY DEF PushTypeOK
<1>3. QED
  BY <1>1, <1>2 DEF PushTypeOK

\* The handler of c returns, or goes on to another step, and its outcome is
\* there when it is at the step that persists it.
LEMMA PushReturnsType ==
  ASSUME PushTypeOK, NEW c \in Consumers, NEW err \in {"nil", "error"},
         Respond(c, err), result' = [result EXCEPT ![c] = "none"],
         breaker' = breaker, handlerFaults' \in 0..MaxHandlerFaults,
         row' \in [Requests -> Statuses \union {"absent"}],
         sends' = sends, overdue' = overdue
  PROVE  PushTypeOK'
<1>1. HandlerTypeOK(Steps)
  BY DEF PushTypeOK
<1>2. HandlerTypeOK(Steps)'
  BY <1>1, RespondType
<1>3. step'[c] = "none" /\ \A d \in Consumers \ {c} : step'[d] = step[d]
  BY <1>1, RespondOwn DEF Own
<1>4. QED
  BY <1>2, <1>3, PushFrame DEF PushTypeOK

LEMMA PushContinuesType ==
  ASSUME PushTypeOK, NEW c \in Consumers, step[c] # "none",
         NEW next \in Steps, Continue(c, next),
         NEW x \in Statuses \union {"none", "unstorable"},
         result' = [result EXCEPT ![c] = x], next = "persist" <=> x # "none",
         breaker' \in [Consumers -> BreakerStates],
         handlerFaults' \in 0..MaxHandlerFaults,
         row' = row, sends' \in [Requests -> Nat], overdue' = overdue
  PROVE  PushTypeOK'
<1>1. HandlerTypeOK(Steps) /\ next \in Steps \ {"none"}
  BY DEF PushTypeOK, Steps
<1>2. HandlerTypeOK(Steps)'
  BY <1>1, ContinueType
<1>3. step'[c] = next /\ \A d \in Consumers \ {c} : step'[d] = step[d]
  BY <1>1, ContinueOwn DEF Own
<1>4. QED
  BY <1>2, <1>3, PushFrame DEF PushTypeOK

\* Between steps without an outcome nothing is left behind.
LEMMA NoResult ==
  ASSUME PushTypeOK, NEW c \in Consumers
  PROVE  /\ step[c] # "persist" => result[c] = "none"
         /\ result[c] = "none" => [result EXCEPT ![c] = "none"] = result
BY DEF PushTypeOK

\* A fault of the handler is counted.
LEMMA FaultCounted ==
  ASSUME PushTypeOK, NEW kind, HandlerFault(kind)
  PROVE  /\ handlerFaults' = handlerFaults + 1 /\ handlerFaults \in Nat
         /\ handlerFaults' \in 0..MaxHandlerFaults
BY HandlerAssumption DEF PushTypeOK, HandlerTypeOK, HandlerFault

\* An upsert that fails leaves the row as it was or replaces it.
LEMMA FailsType ==
  ASSUME PushTypeOK, NEW c \in Consumers, NEW status \in Statuses,
         persistFails(c, status)
  PROVE  /\ row' \in [Requests -> Statuses \union {"absent"}]
         /\ handlerFaults' \in 0..MaxHandlerFaults
BY FaultCounted DEF persistFails, UpsertNotification, PushTypeOK, HandlerTypeOK

LEMMA HandleType ==
  ASSUME PushTypeOK, NEW c \in Consumers, Handle(c) PROVE PushTypeOK'
<1>0. /\ overdue' = overdue /\ handlerFaults \in 0..MaxHandlerFaults
      /\ HandlerTypeOK(Steps)
      /\ row \in [Requests -> Statuses \union {"absent"}]
      /\ sends \in [Requests -> Nat]
      /\ breaker \in [Consumers -> BreakerStates]
      /\ step[c] # "none" => Request(c) \in Requests
  BY RequestType DEF Handle, PushTypeOK, HandlerTypeOK, Holding
<1>1. ASSUME NEW d \in inbox[c], ReceivePush(c, d) PROVE PushTypeOK'
  <2>1. Enter(c, d, "decode") /\ UNCHANGED pushVars /\ "decode" \in Steps \ {"none"}
    BY <1>1 DEF ReceivePush, Steps
  <2>2. HandlerTypeOK(Steps)'
    BY <1>0, <2>1, EnterType
  <2>3. step[c] = "none" /\ step'[c] = "decode"
        /\ \A e \in Consumers \ {c} : step'[e] = step[e]
    BY <1>0, <2>1, EnterOwn DEF Own
  <2>4. result' = [result EXCEPT ![c] = "none"]
    BY <2>1, <2>3, NoResult DEF pushVars
  <2>5. QED
    BY <1>0, <2>1, <2>2, <2>3, <2>4, PushFrame DEF pushVars
<1>2. CASE RefuseMessage(c)
  BY <1>0, <1>2, PushReturnsType, NoResult DEF RefuseMessage
<1>3. CASE CheckDuplicate(c)
  BY <1>0, <1>3, PushReturnsType, PushContinuesType, NoResult
  DEF CheckDuplicate, Steps
<1>4. CASE CheckFails(c)
  BY <1>0, <1>4, PushReturnsType, NoResult, FaultCounted DEF CheckFails
<1>5. CASE RefusePayload(c)
  <2>1. /\ row' \in [Requests -> Statuses \union {"absent"}]
        /\ handlerFaults' \in 0..MaxHandlerFaults
    BY <1>0, <1>5, FailsType
    DEF RefusePayload, persistOutcome, UpsertNotification, Statuses
  <2>2. QED
    BY <1>0, <1>5, <2>1, PushReturnsType, NoResult DEF RefusePayload
<1>6. CASE AskBreaker(c)
  <2>1. breaker' \in [Consumers -> BreakerStates]
    BY <1>0, <1>6, AdmitType DEF AskBreaker
  <2>2. QED
    BY <1>0, <1>6, <2>1, PushContinuesType, NoResult DEF AskBreaker, Steps, Statuses
<1>7. ASSUME NEW x \in {"sent", "failed", "unstorable"}, NEW success \in BOOLEAN,
             CallReturns(c, x, success), Accepted(c) \/ sends' = sends,
             handlerFaults' \in 0..MaxHandlerFaults
      PROVE  PushTypeOK'
  <2>1. breaker' \in [Consumers -> BreakerStates]
    BY <1>0, <1>7, ReportTried DEF CallReturns
  <2>2. sends' \in [Requests -> Nat]
    BY <1>0, <1>7 DEF Accepted
  <2>3. QED
    BY <1>0, <1>7, <2>1, <2>2, PushContinuesType DEF CallReturns, Steps, Statuses
<1>8. CASE CallSucceeds(c) \/ CallFails(c) \/ ReplyLost(c) \/ ReplyGarbled(c)
  BY <1>0, <1>7, <1>8, FaultCounted
  DEF CallSucceeds, CallFails, ReplyLost, ReplyGarbled
<1>9. CASE Persist(c)
  <2>1. result[c] # "unstorable" => result[c] \in Statuses
    BY <1>9 DEF Persist, PushTypeOK
  <2>2. /\ row' \in [Requests -> Statuses \union {"absent"}]
        /\ handlerFaults' \in 0..MaxHandlerFaults
    BY <1>0, <1>9, <2>1, FailsType DEF Persist, persistOutcome, UpsertNotification
  <2>3. QED
    BY <1>0, <1>9, <2>2, PushReturnsType DEF Persist
<1>10. QED
  BY <1>1, <1>2, <1>3, <1>4, <1>5, <1>6, <1>8, <1>9 DEF Handle, Send

LEMMA PushTypeStep == PushTypeOK /\ [PushNext]_allVars => PushTypeOK'
<1> SUFFICES ASSUME PushTypeOK, [PushNext]_allVars PROVE PushTypeOK'
  OBVIOUS
<1>0. HandlerTypeOK(Steps)
  BY DEF PushTypeOK
<1>1. ASSUME NEW c \in Consumers, CrashPush(c) PROVE PushTypeOK'
  <2>1. HandlerTypeOK(Steps)'
    BY <1>0, <1>1, CrashType DEF CrashPush
  <2>2. step'[c] = "none" /\ \A d \in Consumers \ {c} : step'[d] = step[d]
    BY <1>0, <1>1, CrashOwn DEF CrashPush, Own
  <2>3. QED
    BY <1>1, <2>1, <2>2, PushFrame DEF CrashPush, PushTypeOK
<1>2. ASSUME HandlerTypeOK(Steps)', UNCHANGED <<step, row, result, sends>>,
             overdue' \subseteq {m \in Messages : Scheduled(m)}
      PROVE  PushTypeOK'
  BY <1>2 DEF PushTypeOK
<1>3. ASSUME NEW c \in Consumers, BreakerRests(c), UNCHANGED pushVars
      PROVE  PushTypeOK'
  BY <1>0, <1>2, <1>3, RestsType DEF BreakerRests, pushVars, PushTypeOK
<1>4. ASSUME NEW m \in Messages, SendAfterPasses(m) PROVE PushTypeOK'
  <2>1. HandlerTypeOK(Steps)'
    BY <1>0, <1>4, TypeStep DEF SendAfterPasses, handlerVars, HandlerTypeOK,
      vars, replicaVars, ghostVars
  <2>2. QED
    BY <1>2, <1>4, <2>1 DEF SendAfterPasses, handlerVars, PushTypeOK
<1>5. CASE Around /\ UNCHANGED pushVars
  BY <1>0, <1>2, <1>5, AroundType DEF Around, handlerVars, pushVars, PushTypeOK
<1>6. CASE UNCHANGED allVars
  <2>1. HandlerTypeOK(Steps)'
    BY <1>0, <1>6, TypeStep DEF allVars, handlerVars, HandlerTypeOK, vars,
      replicaVars, ghostVars
  <2>2. QED
    BY <1>2, <1>6, <2>1 DEF allVars, handlerVars, pushVars, PushTypeOK
<1>7. QED
  BY <1>1, <1>3, <1>4, <1>5, <1>6, HandleType DEF PushNext

LEMMA PushTypeInit == PushInit => PushTypeOK
<1> SUFFICES ASSUME PushInit PROVE PushTypeOK
  OBVIOUS
<1>1. HandlerTypeOK(Steps)
  BY HandlerTypeInit DEF PushInit
<1>2. QED
  BY <1>1 DEF PushInit, HandlerInit, PushTypeOK

-----------------------------------------------------------------------------
(* The breaker.                                                            *)

LEMMA TrialsFrame ==
  ASSUME TrialsInv, NEW c \in Consumers,
         \A d \in Consumers \ {c} :
           breaker'[d] = breaker[d] /\ step'[d] = step[d],
         Tried(breaker'[c], step'[c] = "call")
  PROVE  TrialsInv'
<1>1. ASSUME NEW d \in Consumers PROVE Tried(breaker'[d], step'[d] = "call")
  BY DEF TrialsInv
<1>2. QED
  BY <1>1 DEF TrialsInv

\* Nothing is asked of the breaker.
LEMMA TrialsSame ==
  ASSUME TrialsInv, breaker' = breaker,
         \A d \in Consumers : step'[d] = "call" <=> step[d] = "call"
  PROVE  TrialsInv'
<1>1. ASSUME NEW d \in Consumers PROVE Tried(breaker'[d], step'[d] = "call")
  BY DEF TrialsInv, Tried
<1>2. QED
  BY <1>1 DEF TrialsInv

LEMMA HandleTrials ==
  ASSUME PushTypeOK, TrialsInv, NEW c \in Consumers, Handle(c) PROVE TrialsInv'
<1>0. /\ HandlerTypeOK(Steps)
      /\ breaker[c] \in BreakerStates /\ breaker \in [Consumers -> BreakerStates]
      /\ Tried(breaker[c], step[c] = "call")
  BY DEF PushTypeOK, HandlerTypeOK, TrialsInv
<1>1. ASSUME NEW err, Respond(c, err), breaker' = breaker, step[c] # "call"
      PROVE  TrialsInv'
  <2>1. step'[c] = "none" /\ \A d \in Consumers \ {c} : step'[d] = step[d]
    BY <1>0, <1>1, RespondOwn DEF Own
  <2>2. QED
    BY <1>1, <2>1, TrialsSame
<1>2. ASSUME NEW d \in inbox[c], ReceivePush(c, d) PROVE TrialsInv'
  <2>1. /\ step[c] = "none" /\ step'[c] = "decode"
        /\ \A e \in Consumers \ {c} : step'[e] = step[e]
    BY <1>0, <1>2, EnterOwn DEF ReceivePush, Own
  <2>2. QED
    BY <1>2, <2>1, TrialsSame DEF ReceivePush, Enter
<1>3. CASE RefuseMessage(c) \/ CheckFails(c) \/ RefusePayload(c) \/ Persist(c)
  BY <1>1, <1>3 DEF RefuseMessage, CheckFails, RefusePayload, Persist
<1>4. CASE CheckDuplicate(c)
  <2>1. CASE Respond(c, "nil")
    BY <1>1, <1>4, <2>1 DEF CheckDuplicate
  <2>2. CASE Continue(c, "prepare")
    <3>1. step'[c] = "prepare" /\ \A d \in Consumers \ {c} : step'[d] = step[d]
      BY <1>0, <1>4, <2>2, ContinueOwn DEF CheckDuplicate, Own
    <3>2. QED
      BY <1>4, <3>1, TrialsSame DEF CheckDuplicate
  <2>3. QED
    BY <1>4, <2>1, <2>2 DEF CheckDuplicate
<1>5. CASE AskBreaker(c)
  <2>1. step[c] = "prepare" /\ \A d \in Consumers \ {c} : step'[d] = step[d]
    BY <1>0, <1>5, ContinueOwn DEF AskBreaker, Own
  <2>2. CASE Continue(c, "persist") /\ breaker' = breaker
    <3>1. step'[c] = "persist"
      BY <1>0, <2>1, <2>2, ContinueOwn
    <3>2. QED
      BY <2>1, <2>2, <3>1, TrialsSame
  <2>3. CASE /\ Admits(breaker[c]) /\ Continue(c, "call")
             /\ breaker' = [breaker EXCEPT ![c] = Admit(@)]
    <3>1. step'[c] = "call"
      BY <1>0, <2>1, <2>3, ContinueOwn
    <3>2. Tried(breaker[c], FALSE)
      BY <1>0, <2>1 DEF Tried
    <3>3. Tried(Admit(breaker[c]), TRUE)
      BY <1>0, <2>3, <3>2, AdmitTried
    <3>4. breaker'[c] = Admit(breaker[c])
      BY <1>0, <2>3
    <3>5. \A d \in Consumers \ {c} : breaker'[d] = breaker[d]
      BY <1>0, <2>3
    <3>6. Tried(breaker'[c], step'[c] = "call")
      BY <3>1, <3>3, <3>4 DEF Tried
    <3>7. QED
      BY <2>1, <3>5, <3>6, TrialsFrame
  <2>4. QED
    BY <1>5, <2>2, <2>3 DEF AskBreaker, Admits
<1>6. ASSUME NEW x, NEW success \in BOOLEAN, CallReturns(c, x, success)
      PROVE  TrialsInv'
  <2>1. /\ step[c] = "call" /\ step'[c] = "persist"
        /\ \A d \in Consumers \ {c} : step'[d] = step[d]
    BY <1>0, <1>6, ContinueOwn DEF CallReturns, Own
  <2>2. /\ breaker'[c] = Report(breaker[c], success)
        /\ \A d \in Consumers \ {c} : breaker'[d] = breaker[d]
    BY <1>0, <1>6 DEF CallReturns
  <2>3. Tried(breaker[c], TRUE)
    BY <1>0, <2>1 DEF Tried
  <2>4. Tried(Report(breaker[c], success), FALSE)
    BY <1>0, <2>3, ReportTried
  <2>5. Tried(breaker'[c], step'[c] = "call")
    BY <2>1, <2>2, <2>4 DEF Tried
  <2>6. QED
    BY <2>1, <2>2, <2>5, TrialsFrame
<1>7. CASE CallSucceeds(c) \/ CallFails(c) \/ ReplyLost(c) \/ ReplyGarbled(c)
  BY <1>6, <1>7 DEF CallSucceeds, CallFails, ReplyLost, ReplyGarbled
<1>8. QED
  BY <1>2, <1>3, <1>4, <1>5, <1>7 DEF Handle, Send

LEMMA TrialsStep == PushTypeOK /\ TrialsInv /\ [PushNext]_allVars => TrialsInv'
<1> SUFFICES ASSUME PushTypeOK, TrialsInv, [PushNext]_allVars PROVE TrialsInv'
  OBVIOUS
<1>0. /\ HandlerTypeOK(Steps) /\ breaker \in [Consumers -> BreakerStates]
  BY DEF PushTypeOK, HandlerTypeOK
<1>1. ASSUME NEW c \in Consumers, CrashPush(c) PROVE TrialsInv'
  <2>1. step'[c] = "none" /\ \A d \in Consumers \ {c} : step'[d] = step[d]
    BY <1>0, <1>1, CrashOwn DEF CrashPush, Own
  <2>2. breaker'[c] = New /\ \A d \in Consumers \ {c} : breaker'[d] = breaker[d]
    BY <1>0, <1>1 DEF CrashPush, CrashReplica
  <2>3. Tried(breaker'[c], step'[c] = "call")
    BY <2>1, <2>2, InTried DEF New, Tried
  <2>4. QED
    BY <2>1, <2>2, <2>3, TrialsFrame
<1>2. ASSUME NEW c \in Consumers, BreakerRests(c) PROVE TrialsInv'
  <2>1. /\ step' = step /\ breaker[c].state = "open"
        /\ breaker'[c] = [breaker[c] EXCEPT !.rested = TRUE]
        /\ \A d \in Consumers \ {c} : breaker'[d] = breaker[d]
    BY <1>0, <1>2 DEF BreakerRests
  <2>2. breaker'[c].state = "open" /\ step[c] # "call"
    BY <1>0, <2>1 DEF BreakerStates, TrialsInv, Tried
  <2>3. Tried(breaker'[c], step'[c] = "call")
    BY <2>1, <2>2 DEF Tried
  <2>4. QED
    BY <2>1, <2>3, TrialsFrame
<1>3. CASE (\E m \in Messages : SendAfterPasses(m)) \/ Around \/ UNCHANGED allVars
  BY <1>3, TrialsSame DEF SendAfterPasses, Around, allVars, handlerVars
<1>4. QED
  BY <1>1, <1>2, <1>3, HandleTrials DEF PushNext

LEMMA TrialsInit == PushInit => TrialsInv
BY InTried DEF PushInit, HandlerInit, TrialsInv, New, Tried

\* Between calls a half-open breaker has as many trials as successes, and
\* not yet as many as it needs.
LEMMA TrialsBound == PushTypeOK /\ TrialsInv => TrialAvailable
<1> SUFFICES ASSUME PushTypeOK, TrialsInv, NEW c \in Consumers,
                    breaker[c].state = "half-open", step[c] # "call"
             PROVE  breaker[c].trials < maxRequests
  BY DEF TrialAvailable
<1>1. Tried(breaker[c], FALSE) /\ breaker[c] \in BreakerStates
  BY DEF TrialsInv, Tried, PushTypeOK, HandlerTypeOK
<1>2. QED
  BY <1>1, TrialLeft

-----------------------------------------------------------------------------
(* The row of a failed push.                                               *)

LEMMA RecordedInit == PushInit => Recorded
BY DEF PushInit, HandlerInit, Init, Recorded, ParkedIsRecorded, ParkedMessages

\* A step of c that leaves an outcome or a failure only where a row is, and
\* removes no row.
LEMMA RecordedFrame ==
  ASSUME PushTypeOK, Recorded, NEW c \in Consumers, Own(c),
         handlerFaults' = 0 => handlerFaults = 0,
         \A r \in Requests : row[r] # "absent" => row'[r] # "absent",
         \A d \in Consumers \ {c} : result'[d] = result[d],
         handlerFaults' = 0 =>
           /\ result'[c] # "unstorable"
           /\ pc'[c] = "failed" /\ Recordable(Notification(c))' =>
                row'[Request(c)'] # "absent"
  PROVE  Recorded'
<1>1. ASSUME handlerFaults' = 0, NEW d \in Consumers
      PROVE  /\ result'[d] # "unstorable"
             /\ pc'[d] = "failed" /\ Recordable(Notification(d))' =>
                  row'[Request(d)'] # "absent"
  <2>1. CASE d = c
    BY <1>1, <2>1
  <2>2. CASE d # c
    <3>1. /\ result'[d] = result[d] /\ pc'[d] = pc[d]
          /\ Notification(d)' = Notification(d) /\ Request(d)' = Request(d)
      BY <2>2 DEF Own, Notification, Request
    <3>2. pc[d] = "failed" => Request(d) \in Requests
      BY RequestType DEF Holding
    <3>3. QED
      BY <1>1, <3>1, <3>2 DEF Recorded, Recordable
  <2>3. QED
    BY <2>1, <2>2
<1>2. ASSUME handlerFaults' = 0, NEW m \in ParkedMessages',
             Recordable(NotificationOf[m])
      PROVE  row'[RequestOf[m]] # "absent"
  <2>1. m \in ParkedMessages /\ m \in Messages
    BY <1>2 DEF ParkedMessages, Own
  <2>2. QED
    BY <1>2, <2>1, PushAssumption DEF Recorded, ParkedIsRecorded, Recordable
<1>3. ParkedIsRecorded'
  BY <1>2 DEF ParkedIsRecorded, Recordable
<1>4. QED
  BY <1>1, <1>3 DEF Recorded

\* A recorded outcome is a row.
LEMMA RecordsRow ==
  ASSUME PushTypeOK, NEW r \in Requests, NEW status \in Statuses,
         UpsertNotification(r, status)
  PROVE  /\ row'[r] = status /\ status # "absent"
         /\ \A q \in Requests \ {r} : row'[q] = row[q]
         /\ \A q \in Requests : row[q] # "absent" => row'[q] # "absent"
BY DEF PushTypeOK, UpsertNotification, Statuses

LEMMA HandleRecorded ==
  ASSUME PushTypeOK, Recorded, NEW c \in Consumers, Handle(c) PROVE Recorded'
<1>0. /\ HandlerTypeOK(Steps) /\ handlerFaults \in Nat
      /\ step[c] # "none" => Request(c) \in Requests
      /\ handlerFaults = 0 => result[c] # "unstorable"
      /\ result \in [Consumers -> Statuses \union {"none", "unstorable"}]
  BY RequestType DEF PushTypeOK, HandlerTypeOK, Holding, Recorded
<1>1. ASSUME NEW d \in inbox[c], ReceivePush(c, d) PROVE Recorded'
  <2>1. Own(c) /\ pc'[c] = "handling"
    BY <1>0, <1>1, EnterOwn DEF ReceivePush
  <2>2. UNCHANGED <<row, result, handlerFaults>>
    BY <1>1 DEF ReceivePush, Enter, pushVars
  <2>3. QED
    BY <1>0, <2>1, <2>2, RecordedFrame
\* A fault of the database or of the answer is an excuse.
<1>2. ASSUME NEW err, Respond(c, err), handlerFaults' = handlerFaults + 1,
             row' = row, \A d \in Consumers \ {c} : result'[d] = result[d]
      PROVE  Recorded'
  BY <1>0, <1>2, RespondOwn, RecordedFrame
<1>3. ASSUME step[c] # "none", NEW next, Continue(c, next), row' = row,
             \A d \in Consumers \ {c} : result'[d] = result[d],
             \/ handlerFaults' = handlerFaults + 1
             \/ handlerFaults' = handlerFaults /\ result'[c] # "unstorable"
             \/ UNCHANGED <<handlerFaults, result>>
      PROVE  Recorded'
  BY <1>0, <1>3, ContinueOwn, RecordedFrame
<1>4. CASE RefuseMessage(c)
  <2>1. Own(c) /\ Notification(c)' = None
    BY <1>0, <1>4, RespondOwn DEF RefuseMessage, Notification
  <2>2. QED
    BY <1>0, <1>4, <2>1, RecordedFrame DEF RefuseMessage, Recordable
<1>5. CASE CheckDuplicate(c)
  <2>1. CASE Respond(c, "nil")
    <3>1. Own(c) /\ pc'[c] = "succeeded"
      BY <1>0, <2>1, RespondOwn
    <3>2. QED
      BY <1>0, <1>5, <3>1, RecordedFrame DEF CheckDuplicate
  <2>2. CASE Continue(c, "prepare")
    BY <1>3, <1>5, <2>2 DEF CheckDuplicate
  <2>3. QED
    BY <1>5, <2>1, <2>2 DEF CheckDuplicate
<1>6. CASE CheckFails(c)
  BY <1>2, <1>6, FaultCounted DEF CheckFails
\* The outcome is recorded.
<1>7. ASSUME step[c] # "none", NEW status \in Statuses, persistOutcome(c, status),
             NEW err, Respond(c, err), handlerFaults' = handlerFaults,
             \A d \in Consumers \ {c} : result'[d] = result[d],
             result'[c] = result[c] \/ result'[c] = "none"
      PROVE  Recorded'
  <2>1. Own(c) /\ Request(c)' = Request(c)
    BY <1>0, <1>7, RespondOwn DEF Request
  <2>2. /\ row'[Request(c)] # "absent"
        /\ \A q \in Requests : row[q] # "absent" => row'[q] # "absent"
    BY <1>0, <1>7, RecordsRow DEF persistOutcome
  <2>3. QED
    BY <1>0, <1>7, <2>1, <2>2, RecordedFrame
\* The outcome is not recorded, for a reason that excuses it.
<1>8. ASSUME step[c] # "none", NEW status \in Statuses, persistFails(c, status),
             NEW err, Respond(c, err),
             \A d \in Consumers \ {c} : result'[d] = result[d],
             result'[c] = result[c] \/ result'[c] = "none"
      PROVE  Recorded'
  <2>1. CASE Storable(Notification(c))
    <3>1. handlerFaults' = handlerFaults + 1
      BY <1>8, <2>1, FaultCounted DEF persistFails
    <3>2. \A q \in Requests : row[q] # "absent" => row'[q] # "absent"
      BY <1>0, <1>8, <2>1, RecordsRow DEF persistFails
    <3>3. Own(c)
      BY <1>0, <1>8, RespondOwn
    <3>4. handlerFaults' # 0
      BY <1>0, <3>1
    <3>5. QED
      BY <1>8, <3>2, <3>3, <3>4, RecordedFrame
  <2>2. CASE ~Storable(Notification(c))
    <3>1. Own(c) /\ Notification(c)' = Notification(c)
      BY <1>0, <1>8, RespondOwn DEF Notification
    <3>2. ~Recordable(Notification(c))'
      BY <2>2, <3>1 DEF Recordable
    <3>3. UNCHANGED <<row, handlerFaults>>
      BY <1>8, <2>2 DEF persistFails
    <3>4. QED
      BY <1>0, <1>8, <3>1, <3>2, <3>3, RecordedFrame
  <2>3. QED
    BY <2>1, <2>2
<1>9. CASE RefusePayload(c)
  BY <1>7, <1>8, <1>9 DEF RefusePayload, Statuses
<1>10. CASE AskBreaker(c)
  BY <1>0, <1>3, <1>10 DEF AskBreaker
<1>11. CASE CallSucceeds(c) \/ CallFails(c) \/ ReplyLost(c) \/ ReplyGarbled(c)
  BY <1>0, <1>3, <1>11, FaultCounted
  DEF CallSucceeds, CallFails, ReplyLost, ReplyGarbled, CallReturns
<1>12. CASE Persist(c)
  <2>1. /\ step[c] # "none" /\ result'[c] = "none" /\ result[c] # "none"
        /\ \A d \in Consumers \ {c} : result'[d] = result[d]
    BY <1>0, <1>12 DEF Persist, PushTypeOK
  <2>2. CASE /\ result[c] # "unstorable" /\ persistOutcome(c, result[c])
             /\ Respond(c, IF result[c] = "sent" THEN "nil" ELSE "error")
             /\ UNCHANGED handlerFaults
    <3>1. result[c] \in Statuses
      BY <1>0, <2>1, <2>2
    <3>2. QED
      BY <1>7, <2>1, <2>2, <3>1
  <2>3. CASE /\ result[c] # "unstorable" /\ persistFails(c, result[c])
             /\ Respond(c, "error")
    <3>1. result[c] \in Statuses
      BY <1>0, <2>1, <2>3
    <3>2. QED
      BY <1>8, <2>1, <2>3, <3>1
  <2>4. CASE /\ result[c] = "unstorable" /\ UNCHANGED handlerFaults
             /\ Respond(c, "error") /\ UNCHANGED row
    <3>1. Own(c)
      BY <1>0, <2>4, RespondOwn
    <3>2. handlerFaults' # 0
      BY <1>0, <2>4
    <3>3. QED
      BY <1>0, <2>1, <2>4, <3>1, <3>2, RecordedFrame
  <2>5. QED
    BY <1>12, <2>2, <2>3, <2>4 DEF Persist
<1>13. QED
  BY <1>1, <1>4, <1>5, <1>6, <1>9, <1>10, <1>11, <1>12 DEF Handle, Send

LEMMA RecordedStep ==
  PushTypeOK /\ Recorded /\ [PushNext]_allVars => Recorded'
<1> SUFFICES ASSUME PushTypeOK, Recorded, [PushNext]_allVars PROVE Recorded'
  OBVIOUS
<1>0. HandlerTypeOK(Steps) /\ TypeOK
  BY DEF PushTypeOK, HandlerTypeOK
<1>1. ASSUME NEW c \in Consumers, CrashPush(c) PROVE Recorded'
  <2>1. Own(c) /\ pc'[c] = "down"
    BY <1>0, <1>1, CrashOwn DEF CrashPush
  <2>2. /\ UNCHANGED <<row, handlerFaults>> /\ result'[c] = "none"
        /\ \A d \in Consumers \ {c} : result'[d] = result[d]
    BY <1>1 DEF CrashPush, CrashReplica, PushTypeOK
  <2>3. QED
    BY <2>1, <2>2, RecordedFrame
<1>2. ASSUME UNCHANGED <<pc, cur, parked, row, result, handlerFaults>>
      PROVE  Recorded'
  BY <1>2 DEF Recorded, ParkedIsRecorded, ParkedMessages, Notification, Request, Recordable
<1>3. CASE \/ \E c \in Consumers : BreakerRests(c) /\ UNCHANGED pushVars
           \/ \E m \in Messages : SendAfterPasses(m)
           \/ UNCHANGED allVars
  BY <1>2, <1>3 DEF BreakerRests, SendAfterPasses, allVars, vars, brokerVars,
    replicaVars, handlerVars, pushVars
<1>4. CASE Around /\ UNCHANGED pushVars
  <2>1. UNCHANGED <<row, result, handlerFaults>>
    BY <1>4 DEF Around, handlerVars, pushVars
  <2>2. ASSUME NEW d \in Consumers, pc'[d] = "failed"
        PROVE  /\ pc[d] = "failed" /\ Notification(d)' = Notification(d)
               /\ Request(d)' = Request(d)
    BY <1>0, <1>4, <2>2, AroundEffect DEF Notification, Request
  <2>3. ASSUME NEW m \in ParkedMessages', Recordable(NotificationOf[m]),
               handlerFaults = 0
        PROVE  row[RequestOf[m]] # "absent"
    <3>1. CASE m \in ParkedMessages
      BY <2>3, <3>1 DEF Recorded, ParkedIsRecorded, Recordable
    <3>2. CASE m \notin ParkedMessages
      <4>1. PICK c \in Consumers : pc[c] = "failed" /\ cur[c].msg = m
        BY <1>0, <1>4, <2>3, <3>2, AroundEffect DEF ParkedMessages
      <4>2. QED
        BY <2>3, <4>1 DEF Recorded, Notification, Request
    <3>3. QED
      BY <3>1, <3>2
  <2>4. ParkedIsRecorded'
    BY <2>1, <2>3 DEF ParkedIsRecorded, Recordable
  <2>5. QED
    BY <2>1, <2>2, <2>4 DEF Recorded
<1>5. QED
  BY <1>1, <1>3, <1>4, HandleRecorded DEF PushNext

-----------------------------------------------------------------------------
(* The ledger of one replica.                                              *)

\* Rows that say "sent" go on to.
SentStays == \A r \in Requests : row[r] = "sent" => row'[r] = "sent"

LEMMA LedgerTypes ==
  ASSUME PushTypeOK
  PROVE  /\ HandlerTypeOK(Steps) /\ TypeOK
         /\ crashes \in Nat /\ handlerFaults \in Nat
         /\ \A r \in Requests : sends[r] \in Nat
         /\ done \subseteq Messages
         /\ \A m \in Messages : RequestOf[m] \in Requests
BY PushAssumption DEF PushTypeOK, HandlerTypeOK, TypeOK

\* A step of the one attempt, which touches nothing but the row of its own
\* request.
LEMMA LedgerAttempt ==
  ASSUME PushTypeOK, PushTypeOK', Ledger, NEW c \in Consumers, Consumers = {c},
         step[c] # "none", Own(c), cur' = cur, crashes' = crashes,
         handlerFaults' \in {handlerFaults, handlerFaults + 1},
         NEW r \in Requests, r = Request(c),
         \A q \in Requests \ {r} : row'[q] = row[q] /\ sends'[q] = sends[q],
         row[r] = "sent" => row'[r] = "sent",
         row'[r] = "sent" => sends'[r] >= 1,
         step'[c] \in Sending => row'[r] # "sent" /\ Notification(c) # None,
         pc'[c] = "succeeded" => row'[r] = "sent",
         result'[c] = "sent" => sends'[r] >= 1,
         StorableRequest(r) =>
           /\ sends'[r] <= 1 + crashes + handlerFaults'
           /\ row'[r] # "sent" /\ result'[c] # "sent" =>
                sends'[r] <= crashes + handlerFaults'
  PROVE  Ledger' /\ SentStays
<1>1. Request(c)' = r /\ Notification(c)' = Notification(c) /\ done' = done
  BY DEF Own, Request, Notification
<1>2. SentStays
  BY DEF SentStays
<1>3. \A m \in done' : row'[RequestOf[m]] = "sent"
  BY <1>1, <1>2, LedgerTypes DEF Ledger, SentStays
<1>4. ASSUME NEW q \in Requests
      PROVE  /\ row'[q] = "sent" => sends'[q] >= 1
             /\ StorableRequest(q) =>
                  /\ sends'[q] <= 1 + crashes' + handlerFaults'
                  /\ row'[q] # "sent" /\ ~Pending(q)' =>
                       sends'[q] <= crashes' + handlerFaults'
  <2>1. CASE q = r
    <3>1. ~Pending(r)' => result'[c] # "sent"
      BY <1>1 DEF Pending
    <3>2. QED
      BY <2>1, <3>1
  <2>2. CASE q # r
    <3>1. ~Pending(q)
      BY <2>2 DEF Pending
    <3>2. /\ row[q] = "sent" => sends[q] >= 1
          /\ StorableRequest(q) =>
               /\ sends[q] <= 1 + crashes + handlerFaults
               /\ row[q] # "sent" => sends[q] <= crashes + handlerFaults
      BY <3>1 DEF Ledger
    <3>3. QED
      BY <2>2, <3>2, LedgerTypes
  <2>3. QED
    BY <2>1, <2>2
<1>5. QED
  BY <1>1, <1>2, <1>3, <1>4 DEF Ledger

\* A step that begins an attempt, or ends the one there was by a crash.
LEMMA LedgerEnds ==
  ASSUME PushTypeOK, PushTypeOK', Ledger, NEW c \in Consumers, Consumers = {c},
         Own(c), UNCHANGED <<row, sends, handlerFaults>>,
         pc'[c] # "succeeded", step'[c] \notin Sending, result'[c] = "none",
         \/ crashes' = crashes + 1
         \/ crashes' = crashes /\ result[c] = "none"
  PROVE  Ledger'
<1>1. ASSUME NEW q \in Requests
      PROVE  /\ row'[q] = "sent" => sends'[q] >= 1
             /\ StorableRequest(q) =>
                  /\ sends'[q] <= 1 + crashes' + handlerFaults'
                  /\ row'[q] # "sent" => sends'[q] <= crashes' + handlerFaults'
  <2>1. /\ row[q] = "sent" => sends[q] >= 1
        /\ StorableRequest(q) =>
             /\ sends[q] <= 1 + crashes + handlerFaults
             /\ row[q] # "sent" /\ ~Pending(q) =>
                  sends[q] <= crashes + handlerFaults
    BY DEF Ledger
  <2>2. CASE crashes' = crashes + 1
    BY <2>1, <2>2, LedgerTypes
  <2>3. CASE crashes' = crashes /\ result[c] = "none"
    <3>1. ~Pending(q)
      BY <2>3 DEF Pending
    <3>2. QED
      BY <2>1, <2>3, <3>1
  <2>4. QED
    BY <2>2, <2>3
<1>2. \A m \in done' : row'[RequestOf[m]] = "sent"
  BY DEF Own, Ledger
<1>3. QED
  BY <1>1, <1>2 DEF Ledger

\* What the ledger says of the attempt under way.
LEMMA LedgerHere ==
  ASSUME PushTypeOK, Ledger, NEW c \in Consumers, Consumers = {c},
         step[c] # "none"
  PROVE  /\ Request(c) \in Requests
         /\ step[c] \in Sending => row[Request(c)] # "sent" /\ Notification(c) # None
         /\ result[c] = "sent" => sends[Request(c)] >= 1
         /\ row[Request(c)] = "sent" => sends[Request(c)] >= 1
         /\ StorableRequest(Request(c)) =>
              /\ sends[Request(c)] <= 1 + crashes + handlerFaults
              /\ row[Request(c)] # "sent" /\ result[c] # "sent" =>
                   sends[Request(c)] <= crashes + handlerFaults
<1>1. Request(c) \in Requests
  BY RequestType DEF PushTypeOK, HandlerTypeOK, Holding
<1>2. result[c] # "sent" => ~Pending(Request(c))
  BY DEF Pending
<1>3. QED
  BY <1>1, <1>2 DEF Ledger

\* No row for this notification: some notification of its request has none.
LEMMA Unstorable ==
  ASSUME PushTypeOK, NEW c \in Consumers, step[c] # "none",
         Notification(c) # None, ~Storable(Notification(c))
  PROVE  ~StorableRequest(Request(c))
<1>1. cur[c].msg \in Messages
  BY RequestType DEF PushTypeOK, HandlerTypeOK, Holding
<1>2. QED
  BY <1>1 DEF StorableRequest, Request, Notification

\* A failed upsert is a fault, whatever it did, or no row can hold the
\* notification.
LEMMA PersistFault ==
  ASSUME PushTypeOK, NEW c \in Consumers, step[c] # "none",
         Notification(c) # None, NEW status \in Statuses, persistFails(c, status)
  PROVE  \/ /\ handlerFaults' = handlerFaults + 1
            /\ row' = row \/ UpsertNotification(Request(c), status)
         \/ /\ handlerFaults' = handlerFaults /\ ~StorableRequest(Request(c))
            /\ row' = row
BY Unstorable, FaultCounted DEF persistFails

LEMMA HandleLedger ==
  ASSUME PushTypeOK, Ledger, NEW c \in Consumers, Consumers = {c}, Handle(c)
  PROVE  Ledger' /\ SentStays
<1>0. /\ PushTypeOK' /\ HandlerTypeOK(Steps)
      /\ row \in [Requests -> Statuses \union {"absent"}]
      /\ sends \in [Requests -> Nat] /\ result \in [Consumers -> Statuses \union {"none", "unstorable"}]
      /\ crashes \in Nat /\ handlerFaults \in Nat
  BY HandleType, LedgerTypes DEF PushTypeOK
<1> DEFINE r == Request(c)
<1>1. ASSUME NEW d \in inbox[c], ReceivePush(c, d) PROVE Ledger' /\ SentStays
  <2>1. /\ Own(c) /\ step[c] = "none" /\ step'[c] = "decode" /\ pc'[c] = "handling"
    BY <1>0, <1>1, EnterOwn DEF ReceivePush
  <2>2. /\ UNCHANGED <<row, sends, result, handlerFaults, crashes>>
        /\ result[c] = "none"
    BY <1>1, <2>1, NoResult DEF ReceivePush, Enter, pushVars
  <2>3. QED
    BY <1>0, <2>1, <2>2, LedgerEnds DEF Sending, SentStays
\* An attempt that goes on or ends and accepts, records and forgets nothing.
<1>2. ASSUME step[c] # "none", NEW next, Continue(c, next) \/ Respond(c, "error"),
             UNCHANGED <<row, sends>>, result'[c] # "sent", result[c] # "sent",
             handlerFaults' \in {handlerFaults, handlerFaults + 1},
             \/ step[c] \in Sending
             \/ row[r] # "sent" /\ Notification(c) # None
             \/ Respond(c, "error")
      PROVE  Ledger' /\ SentStays
  <2>1. /\ Own(c) /\ cur' = cur /\ crashes' = crashes
        /\ pc'[c] # "succeeded"
        /\ step'[c] = "none" \/ Continue(c, next)
    BY <1>0, <1>2, ContinueOwn, RespondOwn
  <2>2. step'[c] \in Sending => row[r] # "sent" /\ Notification(c) # None
    BY <1>0, <1>2, <2>1, RespondOwn, LedgerHere DEF Sending
  <2>3. /\ r \in Requests /\ sends[r] \in Nat
        /\ row[r] = "sent" => sends[r] >= 1
        /\ StorableRequest(r) =>
             /\ sends[r] <= 1 + crashes + handlerFaults
             /\ row[r] # "sent" => sends[r] <= crashes + handlerFaults
    BY <1>0, <1>2, LedgerHere
  <2>4. QED
    BY <1>0, <1>2, <2>1, <2>2, <2>3, LedgerAttempt
<1>3. CASE RefuseMessage(c) \/ CheckFails(c)
  BY <1>0, <1>2, <1>3, NoResult, FaultCounted DEF RefuseMessage, CheckFails
<1>4. CASE CheckDuplicate(c)
  <2>1. CASE row[r] # "sent"
    BY <1>0, <1>2, <1>4, <2>1, NoResult
    DEF CheckDuplicate, GetNotificationByQueueMessageID
  <2>2. CASE row[r] = "sent"
    <3>1. /\ Respond(c, "nil") /\ step[c] = "decode" /\ result[c] = "none"
          /\ UNCHANGED <<row, sends, result, handlerFaults>>
      BY <1>4, <2>2, NoResult DEF CheckDuplicate, GetNotificationByQueueMessageID
    <3>2. Own(c) /\ cur' = cur /\ crashes' = crashes /\ step'[c] = "none"
      BY <1>0, <3>1, RespondOwn
    <3>3. QED
      BY <1>0, <2>2, <3>1, <3>2, LedgerHere, LedgerAttempt DEF Sending
  <2>3. QED
    BY <2>1, <2>2
<1>5. CASE RefusePayload(c)
  <2>1. /\ step[c] = "prepare" /\ result[c] = "none"
        /\ UNCHANGED <<sends, result>> /\ Respond(c, "error")
    BY <1>5, NoResult DEF RefusePayload
  <2>2. CASE /\ UpsertNotification(r, "failed")
             /\ handlerFaults' \in {handlerFaults, handlerFaults + 1}
    <3>1. r \in Requests /\ row[r] # "sent"
      BY <2>1, LedgerHere DEF Sending
    <3>2. row'[r] = "failed" /\ \A q \in Requests \ {r} : row'[q] = row[q]
      BY <2>2, <3>1, RecordsRow DEF Statuses
    <3>3. /\ Own(c) /\ cur' = cur /\ crashes' = crashes /\ step'[c] = "none"
          /\ pc'[c] = "failed"
      BY <1>0, <2>1, RespondOwn
    <3>4. /\ sends[r] \in Nat
          /\ StorableRequest(r) => sends[r] <= crashes + handlerFaults
      BY <1>0, <2>1, <3>1, LedgerHere
    <3>5. QED
      BY <1>0, <2>1, <2>2, <3>1, <3>2, <3>3, <3>4, LedgerAttempt DEF Sending
  <2>3. CASE row' = row /\ handlerFaults' \in {handlerFaults, handlerFaults + 1}
    BY <1>0, <1>2, <2>1, <2>3
  <2>4. CASE persistFails(c, "failed")
    <3>1. Notification(c) # None
      BY <2>1, LedgerHere DEF Sending
    <3>2. QED
      BY <2>1, <2>2, <2>3, <2>4, <3>1, PersistFault DEF Statuses
  <2>5. CASE persistOutcome(c, "failed") /\ UNCHANGED handlerFaults
    BY <2>2, <2>5 DEF persistOutcome
  <2>6. QED
    BY <1>5, <2>4, <2>5 DEF RefusePayload
<1>6. CASE AskBreaker(c)
  <2>1. /\ step[c] = "prepare" /\ result[c] = "none"
        /\ UNCHANGED <<row, sends, handlerFaults>>
        /\ result'[c] # "sent"
        /\ Continue(c, "persist") \/ Continue(c, "call")
    BY <1>0, <1>6, NoResult DEF AskBreaker
  <2>2. QED
    BY <1>0, <1>2, <2>1 DEF Sending
<1>7. ASSUME NEW x \in {"sent", "failed", "unstorable"}, NEW success \in BOOLEAN,
             CallReturns(c, x, success),
             \/ Accepted(c) /\ x = "sent" /\ handlerFaults' = handlerFaults
             \/ Accepted(c) /\ handlerFaults' = handlerFaults + 1
             \/ sends' = sends /\ x = "failed" /\ handlerFaults' = handlerFaults
      PROVE  Ledger' /\ SentStays
  <2>1. /\ step[c] = "call" /\ result'[c] = x /\ row' = row
        /\ result[c] # "sent"
        /\ Continue(c, "persist")
    BY <1>0, <1>7, NoResult DEF CallReturns
  <2>2. /\ Own(c) /\ cur' = cur /\ crashes' = crashes /\ pc'[c] = "handling"
    BY <1>0, <2>1, ContinueOwn
  <2>3. /\ r \in Requests /\ row[r] # "sent" /\ Notification(c) # None
        /\ sends[r] \in Nat
        /\ StorableRequest(r) => sends[r] <= crashes + handlerFaults
    BY <1>0, <2>1, LedgerHere DEF Sending
  <2>4. CASE Accepted(c)
    <3>1. sends'[r] = sends[r] + 1 /\ \A q \in Requests \ {r} : sends'[q] = sends[q]
      BY <1>0, <2>3, <2>4 DEF Accepted
    <3>2. /\ sends'[r] >= 1
          /\ handlerFaults' \in {handlerFaults, handlerFaults + 1}
          /\ StorableRequest(r) =>
               /\ sends'[r] <= 1 + crashes + handlerFaults'
               /\ x # "sent" => sends'[r] <= crashes + handlerFaults'
      BY <1>0, <1>7, <2>3, <3>1
    <3>3. QED
      BY <1>0, <2>1, <2>2, <2>3, <3>1, <3>2, LedgerAttempt
  <2>5. CASE sends' = sends /\ x = "failed" /\ handlerFaults' = handlerFaults
    BY <1>0, <1>2, <2>1, <2>5 DEF Sending
  <2>6. QED
    BY <1>7, <2>4, <2>5
<1>8. CASE CallSucceeds(c) \/ CallFails(c) \/ ReplyLost(c) \/ ReplyGarbled(c)
  BY <1>7, <1>8, FaultCounted
  DEF CallSucceeds, CallFails, ReplyLost, ReplyGarbled
<1>9. CASE Persist(c)
  <2>1. /\ step[c] = "persist" /\ result'[c] = "none" /\ sends' = sends
        /\ result[c] # "none"
    BY <1>0, <1>9 DEF Persist, PushTypeOK
  <2>2. /\ r \in Requests /\ row[r] # "sent" /\ Notification(c) # None
        /\ sends[r] \in Nat
        /\ result[c] = "sent" => sends[r] >= 1
        /\ StorableRequest(r) =>
             /\ sends[r] <= 1 + crashes + handlerFaults
             /\ result[c] # "sent" => sends[r] <= crashes + handlerFaults
    BY <1>0, <2>1, LedgerHere DEF Sending
  <2>3. CASE /\ result[c] # "unstorable" /\ UpsertNotification(r, result[c])
             /\ \/ Respond(c, IF result[c] = "sent" THEN "nil" ELSE "error")
                \/ Respond(c, "error")
             /\ handlerFaults' \in {handlerFaults, handlerFaults + 1}
    <3>1. row'[r] = result[c] /\ \A q \in Requests \ {r} : row'[q] = row[q]
      BY <1>0, <2>1, <2>2, <2>3, RecordsRow
    <3>2. /\ Own(c) /\ cur' = cur /\ crashes' = crashes /\ step'[c] = "none"
          /\ pc'[c] = "succeeded" => result[c] = "sent"
      BY <1>0, <2>3, RespondOwn
    <3>3. /\ row'[r] = "sent" => sends[r] >= 1
          /\ StorableRequest(r) =>
               /\ sends[r] <= 1 + crashes + handlerFaults'
               /\ row'[r] # "sent" => sends[r] <= crashes + handlerFaults'
      BY <1>0, <2>2, <2>3, <3>1
    <3>4. QED
      BY <1>0, <2>1, <2>2, <2>3, <3>1, <3>2, <3>3, LedgerAttempt DEF Sending
  <2>4. CASE /\ Respond(c, "error") /\ UNCHANGED row
             /\ \/ handlerFaults' = handlerFaults + 1
                \/ /\ handlerFaults' = handlerFaults
                   /\ result[c] # "sent" \/ ~StorableRequest(r)
    <3>1. /\ Own(c) /\ cur' = cur /\ crashes' = crashes /\ step'[c] = "none"
          /\ pc'[c] = "failed"
      BY <1>0, <2>4, RespondOwn
    <3>2. /\ handlerFaults' \in {handlerFaults, handlerFaults + 1}
          /\ StorableRequest(r) =>
               /\ sends[r] <= crashes + handlerFaults'
               /\ sends[r] <= 1 + crashes + handlerFaults'
      BY <1>0, <2>2, <2>4
    <3>3. QED
      BY <1>0, <2>1, <2>2, <2>4, <3>1, <3>2, LedgerAttempt DEF Sending
  <2>5. CASE /\ result[c] # "unstorable" /\ Respond(c, "error")
             /\ persistFails(c, result[c])
    <3>1. result[c] \in Statuses
      BY <1>0, <2>1, <2>5
    <3>2. QED
      BY <2>1, <2>2, <2>3, <2>4, <2>5, <3>1, PersistFault
  <2>6. CASE /\ result[c] = "unstorable" /\ Respond(c, "error")
             /\ UNCHANGED <<row, handlerFaults>>
    BY <2>4, <2>6
  <2>7. CASE /\ result[c] # "unstorable" /\ persistOutcome(c, result[c])
             /\ Respond(c, IF result[c] = "sent" THEN "nil" ELSE "error")
             /\ UNCHANGED handlerFaults
    BY <2>3, <2>7 DEF persistOutcome
  <2>8. QED
    BY <1>9, <2>5, <2>6, <2>7 DEF Persist
<1>10. QED
  BY <1>1, <1>3, <1>4, <1>5, <1>6, <1>8, <1>9 DEF Handle, Send

LEMMA LedgerStep ==
  PushTypeOK /\ Ledger /\ OneReplica /\ [PushNext]_allVars => Ledger' /\ SentStays
<1> SUFFICES ASSUME PushTypeOK, Ledger, OneReplica, [PushNext]_allVars
             PROVE  Ledger' /\ SentStays
  OBVIOUS
<1>0. PushTypeOK' /\ HandlerTypeOK(Steps) /\ TypeOK
  BY PushTypeStep, LedgerTypes
<1>1. PICK c \in Consumers : Consumers = {c}
  BY DEF OneReplica
<1>2. CASE Handle(c)
  BY <1>1, <1>2, HandleLedger
<1>3. CASE CrashPush(c)
  <2>1. /\ Own(c) /\ pc'[c] = "down" /\ step'[c] = "none" /\ crashes' = crashes + 1
    BY <1>0, <1>3, CrashOwn DEF CrashPush
  <2>2. UNCHANGED <<row, sends, handlerFaults>> /\ result'[c] = "none"
    BY <1>3 DEF CrashPush, CrashReplica, PushTypeOK
  <2>3. QED
    BY <1>0, <1>1, <2>1, <2>2, LedgerEnds DEF Sending, SentStays
<1>4. ASSUME UNCHANGED <<step, pc, cur, done, row, result, sends, crashes,
                         handlerFaults>>
      PROVE  Ledger' /\ SentStays
  BY <1>4 DEF Ledger, Pending, Request, Notification, SentStays
<1>5. CASE \/ BreakerRests(c) /\ UNCHANGED pushVars
           \/ \E m \in Messages : SendAfterPasses(m)
           \/ UNCHANGED allVars
  BY <1>4, <1>5 DEF BreakerRests, SendAfterPasses, allVars, vars, replicaVars,
    ghostVars, handlerVars, pushVars
<1>6. CASE Around /\ UNCHANGED pushVars
  <2>1. UNCHANGED <<step, row, result, sends, crashes, handlerFaults>>
    BY <1>6 DEF Around, handlerVars, pushVars
  <2>2. pc'[c] = "succeeded" => pc[c] = "succeeded" /\ Request(c)' = Request(c)
    BY <1>0, <1>6, AroundEffect DEF Request
  <2>3. step[c] # "none" =>
          Request(c)' = Request(c) /\ Notification(c)' = Notification(c)
    BY <1>0, <1>6, AroundEffect DEF Request, Notification, HandlerTypeOK
  <2>4. /\ step[c] \in Sending => step[c] # "none"
        /\ result[c] = "sent" => step[c] # "none"
    BY DEF PushTypeOK, Sending
  <2>5. \A q \in Requests : Pending(q)' <=> Pending(q)
    BY <1>1, <2>1, <2>3, <2>4 DEF Pending
  <2>6. ASSUME NEW m \in done' PROVE row[RequestOf[m]] = "sent"
    <3>1. CASE m \in done
      BY <3>1 DEF Ledger
    <3>2. CASE m \notin done
      <4>1. PICK d \in Consumers : pc[d] = "succeeded" /\ cur[d].msg = m
        BY <1>0, <1>6, <3>2, AroundEffect
      <4>2. QED
        BY <4>1 DEF Ledger, Request
    <3>3. QED
      BY <3>1, <3>2
  <2>7. QED
    BY <1>1, <2>1, <2>2, <2>3, <2>4, <2>5, <2>6 DEF Ledger, SentStays
<1>7. QED
  BY <1>1, <1>2, <1>3, <1>5, <1>6 DEF PushNext

LEMMA LedgerInit == PushInit => Ledger
<1> SUFFICES ASSUME PushInit PROVE Ledger
  OBVIOUS
<1>1. /\ crashes = 0 /\ handlerFaults = 0 /\ done = {}
      /\ \A r \in Requests : sends[r] = 0 /\ row[r] = "absent"
      /\ \A c \in Consumers : step[c] = "none" /\ pc[c] = "down" /\ result[c] = "none"
  BY DEF PushInit, HandlerInit, Init
<1>2. ASSUME NEW r \in Requests
      PROVE  /\ row[r] # "sent"
             /\ sends[r] <= 1 + crashes + handlerFaults
             /\ sends[r] <= crashes + handlerFaults
  BY <1>1
<1>3. QED
  BY <1>1, <1>2 DEF Ledger, Sending

LEMMA LedgerBounds ==
  PushTypeOK /\ Ledger => DuplicatesAreFaults /\ DoneMeansSent
BY LedgerTypes DEF Ledger, DuplicatesAreFaults, DoneMeansSent

\* What holds of one replica throughout.
LEMMA LedgerAlways ==
  ASSUME OneReplica PROVE PushSpec => [](PushTypeOK /\ Ledger)
<1>1. PushInit => PushTypeOK /\ Ledger
  BY PushTypeInit, LedgerInit
<1>2. PushTypeOK /\ Ledger /\ [PushNext]_allVars => (PushTypeOK /\ Ledger)'
  BY PushTypeStep, LedgerStep
<1>3. QED
  BY <1>1, <1>2, PTL DEF PushSpec

-----------------------------------------------------------------------------
(* Theorems.                                                               *)

(***************************************************************************)
(* The push handler implements the loop with any handler                   *)
(* (push_notification_consumer.go 33-43).                                  *)
(***************************************************************************)
THEOREM PushImplementsConsumer == PushSpec => ImplementsConsumer
<1>1. PushInit => Init
  BY DEF PushInit, HandlerInit
<1>2. QED
  BY <1>1, PushStep, PTL DEF PushSpec, ImplementsConsumer, Spec

(***************************************************************************)
(* So a push is handled at most MaxRetryAttempts + 1 times plus once for   *)
(* each fault, whatever OneSignal, the breaker and the database do         *)
(* (consumer.go 179).                                                      *)
(***************************************************************************)
THEOREM PushRetryBudget == PushSpec => []RetryBudget
BY PushImplementsConsumer, RetryBudgetAlways, PTL DEF ImplementsConsumer

(***************************************************************************)
(* And it is parked only after MaxRetryAttempts + 1 attempts               *)
(* (consumer.go 179-192).                                                  *)
(***************************************************************************)
THEOREM PushNeverParkedEarly == PushSpec => []NeverParkedEarly
BY PushImplementsConsumer, NeverParkedEarlyAlways, PTL DEF ImplementsConsumer

(***************************************************************************)
(* Type correctness: the handler runs inside a call of the loop, and an    *)
(* outcome exists exactly where Send is about to persist it                *)
(* (push_notification_service.go 96-137).                                  *)
(***************************************************************************)
THEOREM PushTypeCorrect == PushSpec => []PushTypeOK
BY PushTypeInit, PushTypeStep, PTL DEF PushSpec

(***************************************************************************)
(* Whatever the threshold and the quota, no sequence of trials, late time- *)
(* outs and crashes leaves the half-open breaker of a replica without a    *)
(* trial for its next push (push_notification_service.go 110-122).         *)
(***************************************************************************)
THEOREM TrialAlwaysAvailable == PushSpec => []TrialAvailable
<1>1. PushInit => PushTypeOK /\ TrialsInv
  BY PushTypeInit, TrialsInit
<1>2. PushTypeOK /\ TrialsInv /\ [PushNext]_allVars => (PushTypeOK /\ TrialsInv)'
  BY PushTypeStep, TrialsStep
<1>3. QED
  BY <1>1, <1>2, TrialsBound, PTL DEF PushSpec

(***************************************************************************)
(* A parked push has a row, whatever the number of replicas, unless it was *)
(* malformed, no row can hold it, or the database or an answer failed      *)
(* (push_notification_service.go 90-137).                                  *)
(***************************************************************************)
THEOREM ParkedIsRecordedAlways == PushSpec => []ParkedIsRecorded
<1>1. PushInit => PushTypeOK /\ Recorded
  BY PushTypeInit, RecordedInit
<1>2. PushTypeOK /\ Recorded /\ [PushNext]_allVars => (PushTypeOK /\ Recorded)'
  BY PushTypeStep, RecordedStep
<1>3. Recorded => ParkedIsRecorded
  BY DEF Recorded
<1>4. QED
  BY <1>1, <1>2, <1>3, PTL DEF PushSpec

(***************************************************************************)
(* With one replica a push that a row can hold is accepted once, plus at   *)
(* most once for each crash and each fault of the database or of an        *)
(* answer: any number of messages, copies, retries and redeliveries adds   *)
(* nothing                                                                 *)
(* (push_notification_service.go 71-137).                                  *)
(***************************************************************************)
THEOREM DuplicatesAreFaultsAlways ==
  ASSUME OneReplica PROVE PushSpec => []DuplicatesAreFaults
BY LedgerAlways, LedgerBounds, PTL

(***************************************************************************)
(* With one replica a message acked after a success has its request        *)
(* recorded as sent, for good, and accepted                                *)
(* (push_notification_service.go 124-137).                                 *)
(***************************************************************************)
THEOREM DoneMeansSentAlways ==
  ASSUME OneReplica PROVE PushSpec => []DoneMeansSent
BY LedgerAlways, LedgerBounds, PTL

(***************************************************************************)
(* With one replica no later attempt overwrites the row of a request that  *)
(* reads "sent", although the upsert would                                 *)
(* (push_notification_service.go 71-75, 124-137).                          *)
(***************************************************************************)
THEOREM SentIsFinalAlways ==
  ASSUME OneReplica PROVE PushSpec => SentIsFinal
<1>1. PushTypeOK /\ Ledger /\ [PushNext]_allVars => SentStays
  BY LedgerStep
<1>2. SentStays => [\A r \in Requests : row[r] = "sent" => row'[r] = "sent"]_allVars
  BY DEF SentStays
<1>3. QED
  BY <1>1, <1>2, LedgerAlways, PTL DEF PushSpec, SentIsFinal

=============================================================================
