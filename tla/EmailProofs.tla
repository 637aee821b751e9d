---------------------------- MODULE EmailProofs ----------------------------
(***************************************************************************)
(* The email handler inside the consume loop, for every number of replicas *)
(* and messages: it is one of the handlers Consumer allows, the lock on    *)
(* the row of a request is held by whoever is about to send it, and with   *)
(* one replica the tables account for what Resend accepted.                *)
(***************************************************************************)
EXTENDS EmailDelivery, HandlerProofs

\* Where the handler stands from the upsert of the request to the commit.
Attempting == {"convert", "call", "commit"}

\* From its upsert on the row of its request is locked by the handler, as
\* long as the database has its session, and nobody has the row of a
\* transaction in doubt.  No other row need be looked at: a lock is taken only
\* where it is free, and released only by its holder.
LockInv ==
  /\ \A c \in Consumers \ lost : step[c] \in Attempting => requestLock[Request(c)] = c
  /\ \A t \in doubts : requestLock[t.request] = None

\* One process runs the loop of this queue.
OneReplica == \E c \in Consumers : Consumers = {c}

\* The attempts of the replica that are past the duplicate check.
Sending == Steps \ {"check"}

\* An accepted email whose row is about to say so.
Pending(r) == \E c \in Consumers : result[c] = "sent" /\ Request(c) = r

\* What Resend accepted is paid for by crashes and faults.
Credit(r) == sends[r] <= crashes + handlerFaults

\* A dispatch is on record, and the status with it unless a commit was late.
Recorded(r) ==
  /\ dispatches[r] >= 1
  /\ r \notin landed => row[r] = "dispatched"

\* An attempt of c: the status did not forbid it, or a commit landed since.  No
\* other transaction has its row.  Who lost the session has paid for the call.
Attempt(c) ==
  /\ step[c] \in Sending =>
       /\ row[Request(c)] = "dispatched" => Request(c) \in landed
       /\ result[c] # "sent" => Credit(Request(c))
  /\ step[c] \in Attempting => \A t \in doubts : t.request # Request(c)
  /\ pc[c] = "succeeded" => Recorded(Request(c))
  /\ result[c] = "sent" => sends[Request(c)] >= dispatches[Request(c)] + 1
  /\ c \in lost /\ result[c] = "sent" => Credit(Request(c))
  /\ c \in lost /\ result[c] # "sent" =>
       sends[Request(c)] + 1 <= crashes + handlerFaults

\* A transaction in doubt, the only one of its request, is paid for.
Doubt(t) ==
  /\ Credit(t.request)
  /\ row[t.request] = "dispatched" => t.request \in landed
  /\ t.outcome = "sent" => sends[t.request] >= dispatches[t.request] + 1
  /\ \A u \in doubts : u.request = t.request => u = t

\* A request: what Resend accepted is on record, about to be, or paid for.
Balance(r) ==
  /\ row[r] = "dispatched" => dispatches[r] >= 1
  /\ r \notin landed /\ row[r] = "dispatched" => dispatches[r] = 1
  /\ r \notin landed /\ row[r] # "dispatched" => dispatches[r] = 0
  /\ sends[r] >= dispatches[r]
  /\ sends[r] <= 1 + crashes + handlerFaults
  /\ row[r] # "dispatched" /\ ~Pending(r) => Credit(r)

\* The account of one replica.
Ledger ==
  /\ \A c \in Consumers : Attempt(c)
  /\ \A m \in done : Recorded(RequestOf[m])
  /\ \A t \in doubts : Doubt(t)
  /\ \A r \in Requests : Balance(r)

-----------------------------------------------------------------------------
(* Every step is a step of the loop, or none of its variables changes.     *)

\* The steps of the handler.
LEMMA HandleStep ==
  ASSUME NEW c \in Consumers, Handle(c) PROVE [Next]_vars
<1>1. CASE \E d \in inbox[c] : ReceiveEmail(c, d)
  BY <1>1 DEF ReceiveEmail, Enter, Next, Loop
<1>2. CASE RefuseMessage(c)
  BY <1>2, RespondReturns DEF RefuseMessage
<1>3. CASE CheckDuplicate(c) \/ StatementFails(c)
  BY <1>3, RespondReturns DEF CheckDuplicate, StatementFails, Rollback, Return, Continue
<1>4. CASE UpsertService(c) \/ UpsertEmailRequest(c)
  BY <1>4 DEF UpsertService, UpsertEmailRequest, Continue
<1>5. CASE RefuseEmail(c)
  BY <1>5, RespondReturns DEF RefuseEmail, Rollback, Return
<1>6. CASE AskBreaker(c)
  BY <1>6 DEF AskBreaker, Continue
<1>7. CASE CallSucceeds(c) \/ CallFails(c) \/ ReplyLost(c)
  BY <1>7 DEF CallSucceeds, CallFails, ReplyLost, CallReturns, Continue
<1>8. CASE Commit(c) \/ CommitFails(c)
  BY <1>8, RespondReturns DEF Commit, CommitFails, Return, Reply
<1>9. QED
  BY <1>1, <1>2, <1>3, <1>4, <1>5, <1>6, <1>7, <1>8 DEF Handle, Send

\* The steps of the rest.
LEMMA EmailStep == [EmailNext]_allVars => [Next]_vars
<1> SUFFICES ASSUME [EmailNext]_allVars PROVE [Next]_vars
  OBVIOUS
<1>1. ASSUME NEW c \in Consumers, CrashEmail(c) PROVE [Next]_vars
  BY <1>1 DEF CrashEmail, CrashReplica, Next, Failure
<1>2. ASSUME NEW c \in Consumers, BreakerRests(c) PROVE [Next]_vars
  BY <1>2 DEF BreakerRests
<1>3. CASE Around
  BY <1>3, AroundLoops
<1>4. CASE UNCHANGED allVars
  BY <1>4 DEF allVars
<1>5. ASSUME NEW c \in Consumers, SessionLost(c) PROVE [Next]_vars
  BY <1>5 DEF SessionLost
<1>6. ASSUME NEW t \in doubts, DoubtEnds(t) PROVE [Next]_vars
  BY <1>6 DEF DoubtEnds
<1>7. QED
  BY <1>1, <1>2, <1>3, <1>4, <1>5, <1>6, HandleStep DEF EmailNext

-----------------------------------------------------------------------------
(* Type correctness.                                                       *)

\* The types of the database, and of what Resend accepted.
Stored ==
  /\ row \in [Requests -> {"absent", "dispatched", "failed", "circuit_open"}]
  /\ dispatches \in [Requests -> Nat]
  /\ serviceLock \in [Services -> Consumers \union {None}]
  /\ requestLock \in [Requests -> Consumers \union {None}]
  /\ doubts \subseteq Doubts
  /\ landed \subseteq Requests
  /\ sends \in [Requests -> Nat]

\* Who handles a message handles one with a request and a service.
LEMMA RequestType ==
  ASSUME EmailTypeOK, NEW c \in Consumers, pc[c] \in Holding
  PROVE  Request(c) \in Requests /\ Service(c) \in Services
<1>1. cur[c].msg \in Messages
  BY ConsumerAssumption DEF EmailTypeOK, HandlerTypeOK, TypeOK, Delivery
<1>2. QED
  BY <1>1, EmailAssumption DEF Request, Service

LEMMA EmailTypes ==
  ASSUME EmailTypeOK
  PROVE  /\ HandlerTypeOK(Steps) /\ TypeOK /\ Stored
         /\ crashes \in Nat /\ handlerFaults \in 0..MaxHandlerFaults
         /\ handlerFaults \in Nat
         /\ breaker \in [Consumers -> BreakerStates]
         /\ result \in [Consumers -> Outcomes \union {"none"}]
         /\ \A c \in Consumers : step[c] # "none" =>
              Request(c) \in Requests /\ Service(c) \in Services
         /\ done \subseteq Messages /\ lost \subseteq Consumers
         /\ \A t \in doubts : t.request \in Requests /\ t.outcome \in Outcomes
         /\ \A m \in Messages : RequestOf[m] \in Requests
BY EmailAssumption, HandlerAssumption, RequestType
DEF EmailTypeOK, HandlerTypeOK, TypeOK, Stored, Holding, Doubts

LEMMA EmailFrame ==
  ASSUME EmailTypeOK, HandlerTypeOK(Steps)', NEW c \in Consumers,
         \A d \in Consumers \ {c} : step'[d] = step[d],
         NEW x \in Outcomes \union {"none"},
         result' = [result EXCEPT ![c] = x],
         step'[c] = "commit" <=> x # "none", Stored',
         lost' \ {c} = lost \ {c},
         c \in lost' => step'[c] \in Steps \ {"check"}
  PROVE  EmailTypeOK'
<1>1. \A d \in Consumers : step'[d] = "commit" <=> result'[d] # "none"
  BY DEF EmailTypeOK
<1>2. result' \in [Consumers -> Outcomes \union {"none"}]
  BY DEF EmailTypeOK
<1>3. ASSUME NEW d \in lost' PROVE d \in Consumers /\ step'[d] \in Steps \ {"check"}
  BY <1>3 DEF EmailTypeOK
<1>4. QED
  BY <1>1, <1>2, <1>3 DEF EmailTypeOK, Stored

\* The handler of c returns, or goes on to another step, and its outcome is
\* there when it is at the step that commits it.
LEMMA EmailReturnsType ==
  ASSUME EmailTypeOK, NEW c \in Consumers, NEW err \in {"nil", "error"},
         Respond(c, err), result' = [result EXCEPT ![c] = "none"],
         breaker' = breaker, handlerFaults' \in 0..MaxHandlerFaults, Stored',
         lost' = lost \ {c}
  PROVE  EmailTypeOK'
<1>1. HandlerTypeOK(Steps)
  BY EmailTypes
<1>2. HandlerTypeOK(Steps)'
  BY <1>1, RespondType
<1>3. step'[c] = "none" /\ \A d \in Consumers \ {c} : step'[d] = step[d]
  BY <1>1, RespondOwn DEF Own
<1>4. QED
  BY <1>2, <1>3, EmailFrame

LEMMA EmailContinuesType ==
  ASSUME EmailTypeOK, NEW c \in Consumers, step[c] # "none",
         NEW next \in Steps, Continue(c, next),
         lost' = lost, next = "check" => c \notin lost,
         NEW x \in Outcomes \union {"none"},
         result' = [result EXCEPT ![c] = x], next = "commit" <=> x # "none",
         breaker' \in [Consumers -> BreakerStates],
         handlerFaults' \in 0..MaxHandlerFaults, Stored'
  PROVE  EmailTypeOK'
<1>1. HandlerTypeOK(Steps) /\ next \in Steps \ {"none"}
  BY EmailTypes DEF Steps
<1>2. HandlerTypeOK(Steps)'
  BY <1>1, ContinueType
<1>3. step'[c] = next /\ \A d \in Consumers \ {c} : step'[d] = step[d]
  BY <1>1, ContinueOwn DEF Own
<1>4. QED
  BY <1>2, <1>3, EmailFrame

\* Between steps without an outcome nothing is left behind.
LEMMA NoResult ==
  ASSUME EmailTypeOK, NEW c \in Consumers
  PROVE  /\ step[c] # "commit" => result[c] = "none"
         /\ result[c] = "none" => [result EXCEPT ![c] = "none"] = result
         /\ step[c] \in {"none", "check"} => c \notin lost /\ lost \ {c} = lost
BY DEF EmailTypeOK, Steps

\* A fault of the handler is counted.
LEMMA FaultCounted ==
  ASSUME EmailTypeOK, NEW kind, HandlerFault(kind)
  PROVE  /\ handlerFaults' = handlerFaults + 1
         /\ handlerFaults' \in 0..MaxHandlerFaults
BY HandlerAssumption DEF EmailTypeOK, HandlerTypeOK, HandlerFault

\* The end of a transaction, with its writes or without.
LEMMA StoredEnds ==
  ASSUME Stored, NEW c \in Consumers, ReleaseLocks(c), sends' = sends,
         doubts' \subseteq Doubts, landed' \subseteq Requests,
         \/ UNCHANGED Tables
         \/ \E r \in Requests, x \in Outcomes : Store(r, x)
  PROVE  Stored'
<1>1. /\ serviceLock' \in [Services -> Consumers \union {None}]
      /\ requestLock' \in [Requests -> Consumers \union {None}]
  BY DEF Stored, ReleaseLocks
<1>2. CASE UNCHANGED Tables
  BY <1>1, <1>2 DEF Stored, Tables
<1>3. CASE \E r \in Requests, x \in Outcomes : Store(r, x)
  <2>1. PICK r \in Requests, x \in Outcomes : Store(r, x)
    BY <1>3
  <2>2. dispatches' \in [Requests -> Nat]
    BY <2>1 DEF Stored, Store, CreateEmailDispatch
  <2>3. row' \in [Requests -> {"absent", "dispatched", "failed", "circuit_open"}]
    BY <2>1 DEF Stored, Store, UpdateEmailRequestStatusByID, Outcomes
  <2>4. QED
    BY <1>1, <2>2, <2>3 DEF Stored
<1>4. QED
  BY <1>2, <1>3

\* What is left in doubt has its type.
LEMMA DoubtType ==
  ASSUME EmailTypeOK, NEW c \in Consumers, step[c] = "commit", LeaveInDoubt(c)
  PROVE  doubts' \subseteq Doubts
<1>1. result[c] \in Outcomes
  BY DEF EmailTypeOK
<1>2. Request(c) \in Requests /\ Service(c) \in Services
  BY EmailTypes
<1>3. QED
  BY <1>1, <1>2 DEF LeaveInDoubt, Doubts, EmailTypeOK

LEMMA HandleType ==
  ASSUME EmailTypeOK, NEW c \in Consumers, Handle(c) PROVE EmailTypeOK'
<1>1. ASSUME NEW d \in inbox[c], ReceiveEmail(c, d) PROVE EmailTypeOK'
  <2>1. Enter(c, d, "check") /\ UNCHANGED emailVars /\ "check" \in Steps \ {"none"}
    BY <1>1 DEF ReceiveEmail, Steps
  <2>2. HandlerTypeOK(Steps)'
    BY <2>1, EmailTypes, EnterType
  <2>3. /\ step[c] = "none" /\ step'[c] = "check"
        /\ \A e \in Consumers \ {c} : step'[e] = step[e]
    BY <2>1, EmailTypes, EnterOwn DEF Own
  <2>4. result' = [result EXCEPT ![c] = "none"]
    BY <2>1, <2>3, NoResult DEF emailVars
  <2>5. Stored'
    BY <2>1, EmailTypes DEF emailVars, Stored
  <2>6. lost' = lost /\ c \notin lost
    BY <2>1, <2>3, NoResult DEF emailVars
  <2>7. QED
    BY <2>2, <2>3, <2>4, <2>5, <2>6, EmailFrame
<1>2. CASE RefuseMessage(c)
  <2>1. Stored' /\ result' = [result EXCEPT ![c] = "none"] /\ lost' = lost \ {c}
    BY <1>2, NoResult, EmailTypes DEF RefuseMessage, emailVars, Stored
  <2>2. QED
    BY <1>2, <2>1, EmailReturnsType, EmailTypes DEF RefuseMessage
<1>3. CASE CheckDuplicate(c)
  <2>1. /\ Stored' /\ result' = [result EXCEPT ![c] = "none"] /\ step[c] = "check"
        /\ lost' = lost /\ lost' = lost \ {c}
    BY <1>3, NoResult, EmailTypes DEF CheckDuplicate, emailVars, Stored
  <2>2. QED
    BY <1>3, <2>1, EmailReturnsType, EmailContinuesType, EmailTypes
    DEF CheckDuplicate, Steps
<1>4. CASE StatementFails(c)
  <2>1. Stored' /\ result' = [result EXCEPT ![c] = "none"]
    BY <1>4, NoResult, EmailTypes, StoredEnds
    DEF StatementFails, Rollback, Return, Late, Stored
  <2>2. handlerFaults' \in 0..MaxHandlerFaults
    BY <1>4, FaultCounted, EmailTypes DEF StatementFails
  <2>3. QED
    BY <1>4, <2>1, <2>2, EmailReturnsType DEF StatementFails, Rollback, Return
<1>5. CASE UpsertService(c)
  <2>1. step[c] = "service" /\ result' = [result EXCEPT ![c] = "none"]
    BY <1>5, NoResult DEF UpsertService
  <2>2. Stored'
    BY <1>5, EmailTypes DEF UpsertService, UpsertServiceRow, Stored, Tables, Late
  <2>3. QED
    BY <1>5, <2>1, <2>2, EmailContinuesType, EmailTypes DEF UpsertService, Steps
<1>6. CASE UpsertEmailRequest(c)
  <2>1. step[c] = "request" /\ result' = [result EXCEPT ![c] = "none"]
    BY <1>6, NoResult DEF UpsertEmailRequest
  <2>2. Stored'
    BY <1>6, EmailTypes
    DEF UpsertEmailRequest, UpsertEmailRequestRow, Stored, Tables, Late
  <2>3. QED
    BY <1>6, <2>1, <2>2, EmailContinuesType, EmailTypes DEF UpsertEmailRequest, Steps
<1>7. CASE RefuseEmail(c)
  <2>1. Stored' /\ result' = [result EXCEPT ![c] = "none"]
    BY <1>7, NoResult, EmailTypes, StoredEnds
    DEF RefuseEmail, Refused, Rollback, Return, Late, Stored
  <2>2. QED
    BY <1>7, <2>1, EmailReturnsType, EmailTypes DEF RefuseEmail, Rollback, Return
<1>8. CASE AskBreaker(c)
  <2>1. breaker' \in [Consumers -> BreakerStates]
    BY <1>8, EmailTypes, AdmitType DEF AskBreaker
  <2>2. Stored'
    BY <1>8, EmailTypes DEF AskBreaker, Stored, Tables, Locks, Late
  <2>3. QED
    BY <1>8, <2>1, <2>2, EmailContinuesType, NoResult, EmailTypes
    DEF AskBreaker, Steps, Outcomes
<1>9. ASSUME NEW x \in {"sent", "failed"}, CallReturns(c, x),
             Accepted(c) \/ sends' = sends, handlerFaults' \in 0..MaxHandlerFaults
      PROVE  EmailTypeOK'
  <2>1. (x = "sent") \in BOOLEAN
    OBVIOUS
  <2>2. breaker' \in [Consumers -> BreakerStates]
    BY <1>9, <2>1, EmailTypes, ReportTried DEF CallReturns
  <2>3. Stored'
    BY <1>9, EmailTypes DEF CallReturns, Accepted, Stored, Tables, Locks, Late
  <2>4. QED
    BY <1>9, <2>2, <2>3, EmailContinuesType DEF CallReturns, Steps, Outcomes
<1>10. CASE CallSucceeds(c) \/ CallFails(c) \/ ReplyLost(c)
  BY <1>9, <1>10, FaultCounted, EmailTypes DEF CallSucceeds, CallFails, ReplyLost
<1>11. CASE Commit(c) \/ CommitFails(c)
  <2>1. /\ step[c] = "commit" /\ ReleaseLocks(c) /\ sends' = sends /\ landed' = landed
        /\ Store(Request(c), result[c]) \/ UNCHANGED Tables
        /\ doubts' = doubts \/ LeaveInDoubt(c)
        /\ lost' = lost \ {c} /\ breaker' = breaker
        /\ result' = [result EXCEPT ![c] = "none"]
    BY <1>11 DEF Commit, CommitFails, Return, Late
  <2>2. result[c] \in Outcomes /\ Request(c) \in Requests
    BY <2>1, EmailTypes DEF EmailTypeOK
  <2>3. doubts' \subseteq Doubts /\ landed' \subseteq Requests
    BY <2>1, DoubtType DEF EmailTypeOK
  <2>4. Stored'
    BY <2>1, <2>2, <2>3, EmailTypes, StoredEnds
  <2>5. /\ handlerFaults' \in 0..MaxHandlerFaults
        /\ \E err \in {"nil", "error"} : Respond(c, err)
    BY <1>11, FaultCounted, EmailTypes DEF Commit, CommitFails, Return, Reply
  <2>6. QED
    BY <2>1, <2>4, <2>5, EmailReturnsType
<1>12. QED
  BY <1>1, <1>2, <1>3, <1>4, <1>5, <1>6, <1>7, <1>8, <1>10, <1>11 DEF Handle, Send

LEMMA EmailTypeStep == EmailTypeOK /\ [EmailNext]_allVars => EmailTypeOK'
<1> SUFFICES ASSUME EmailTypeOK, [EmailNext]_allVars PROVE EmailTypeOK'
  OBVIOUS
<1>0. HandlerTypeOK(Steps)
  BY EmailTypes
<1>1. ASSUME NEW c \in Consumers, CrashEmail(c) PROVE EmailTypeOK'
  <2>1. HandlerTypeOK(Steps)'
    BY <1>0, <1>1, CrashType DEF CrashEmail
  <2>2. step'[c] = "none" /\ \A d \in Consumers \ {c} : step'[d] = step[d]
    BY <1>0, <1>1, CrashOwn DEF CrashEmail, Own
  <2>3. doubts' \subseteq Doubts /\ landed' \subseteq Requests
    BY <1>1, DoubtType DEF CrashEmail, EmailTypeOK
  <2>4. Stored'
    BY <1>1, <2>3, EmailTypes, StoredEnds DEF CrashEmail
  <2>5. QED
    BY <1>1, <2>1, <2>2, <2>4, EmailFrame DEF CrashEmail
<1>2. ASSUME HandlerTypeOK(Steps)', UNCHANGED <<step, emailVars>>
      PROVE  EmailTypeOK'
  BY <1>2 DEF EmailTypeOK, emailVars
<1>3. ASSUME NEW c \in Consumers, BreakerRests(c), UNCHANGED emailVars
      PROVE  EmailTypeOK'
  BY <1>0, <1>2, <1>3, RestsType DEF BreakerRests
<1>4. CASE Around /\ UNCHANGED emailVars
  BY <1>0, <1>2, <1>4, AroundType DEF Around, handlerVars
<1>5. CASE UNCHANGED allVars
  <2>1. HandlerTypeOK(Steps)'
    BY <1>0, <1>5, TypeStep DEF allVars, handlerVars, HandlerTypeOK, vars,
      replicaVars, ghostVars
  <2>2. QED
    BY <1>2, <1>5, <2>1 DEF allVars, handlerVars
<1>6. ASSUME NEW c \in Consumers, SessionLost(c) PROVE EmailTypeOK'
  <2>1. HandlerTypeOK(Steps)'
    BY <1>0, <1>6, TypeStep, FaultCounted
    DEF SessionLost, HandlerTypeOK, vars, replicaVars, ghostVars
  <2>2. Stored'
    BY <1>6, EmailTypes, StoredEnds DEF SessionLost, Late, Stored
  <2>3. QED
    BY <1>6, <2>1, <2>2 DEF SessionLost, EmailTypeOK, Stored
<1>7. ASSUME NEW t \in doubts, DoubtEnds(t) PROVE EmailTypeOK'
  <2>1. HandlerTypeOK(Steps)'
    BY <1>0, <1>7, TypeStep
    DEF DoubtEnds, handlerVars, HandlerTypeOK, vars, replicaVars, ghostVars
  <2>2. t.request \in Requests /\ t.outcome \in Outcomes
    BY EmailTypes
  <2>3. /\ dispatches' \in [Requests -> Nat]
        /\ row' \in [Requests -> {"absent", "dispatched", "failed", "circuit_open"}]
    BY <1>7, <2>2
    DEF DoubtEnds, Tables, EmailTypeOK, Store, CreateEmailDispatch,
      UpdateEmailRequestStatusByID, Outcomes
  <2>4. QED
    BY <1>7, <2>1, <2>2, <2>3 DEF DoubtEnds, handlerVars, Locks, EmailTypeOK
<1>8. QED
  BY <1>1, <1>3, <1>4, <1>5, <1>6, <1>7, HandleType DEF EmailNext

LEMMA EmailTypeInit == EmailInit => EmailTypeOK
<1> SUFFICES ASSUME EmailInit PROVE EmailTypeOK
  OBVIOUS
<1>1. HandlerTypeOK(Steps)
  BY HandlerTypeInit DEF EmailInit
<1>2. QED
  BY <1>1 DEF EmailInit, HandlerInit, EmailTypeOK

-----------------------------------------------------------------------------
(* The lock.                                                               *)

LEMMA LockInit == EmailInit => LockInv
BY DEF EmailInit, HandlerInit, LockInv, Attempting

\* Nothing of d but its own.
KeepsLocks(c) ==
  \A d \in Consumers \ {c} : \A r \in Requests :
    requestLock[r] = d => requestLock'[r] = d

\* A step of c on its own, which takes no lock it does not need.
LEMMA LockFrame ==
  ASSUME EmailTypeOK, LockInv, NEW c \in Consumers, Own(c), KeepsLocks(c),
         lost \ {c} \subseteq lost',
         c \notin lost' /\ step'[c] \in Attempting => requestLock'[Request(c)'] = c,
         \A t \in doubts' : requestLock'[t.request] = None
  PROVE  LockInv'
<1>1. ASSUME NEW d \in Consumers \ {c}, d \notin lost', step'[d] \in Attempting
      PROVE  requestLock'[Request(d)'] = d
  <2>1. cur'[d] = cur[d] /\ step[d] \in Attempting /\ d \notin lost
    BY <1>1 DEF Own
  <2>2. Request(d)' = Request(d) /\ Request(d) \in Requests
    BY <2>1, EmailTypes DEF Request, Attempting
  <2>3. requestLock[Request(d)] = d
    BY <2>1 DEF LockInv
  <2>4. QED
    BY <1>1, <2>2, <2>3 DEF KeepsLocks
<1>2. QED
  BY <1>1 DEF LockInv

\* The end of a transaction releases its own locks, and takes none.
LEMMA ReleaseOwn ==
  ASSUME EmailTypeOK, NEW c \in Consumers, ReleaseLocks(c)
  PROVE  /\ KeepsLocks(c)
         /\ \A r \in Requests :
              /\ requestLock[r] = None => requestLock'[r] = None
              /\ requestLock[r] = c => requestLock'[r] = None
BY EmailAssumption DEF EmailTypeOK, ReleaseLocks, KeepsLocks

\* What a transaction in doubt leaves unlocked stays so, and so is what c
\* leaves in doubt.
LEMMA DoubtsFree ==
  ASSUME EmailTypeOK, LockInv, NEW c \in Consumers, ReleaseLocks(c),
         \/ doubts' = doubts
         \/ step[c] = "commit" /\ c \notin lost /\ LeaveInDoubt(c)
  PROVE  \A t \in doubts' : requestLock'[t.request] = None
<1>1. ASSUME NEW t \in doubts PROVE requestLock'[t.request] = None
  <2>1. t.request \in Requests /\ requestLock[t.request] = None
    BY EmailTypes DEF LockInv
  <2>2. QED
    BY <2>1, ReleaseOwn
<1>2. ASSUME step[c] = "commit", c \notin lost PROVE requestLock'[Request(c)] = None
  <2>1. Request(c) \in Requests /\ requestLock[Request(c)] = c
    BY <1>2, EmailTypes DEF LockInv, Attempting
  <2>2. QED
    BY <2>1, ReleaseOwn
<1>3. QED
  BY <1>1, <1>2 DEF LeaveInDoubt

\* The handler of c returns.
LEMMA ReturnsLock ==
  ASSUME EmailTypeOK, LockInv, NEW c \in Consumers, NEW err, Respond(c, err),
         \/ requestLock' = requestLock /\ doubts' = doubts
         \/ /\ ReleaseLocks(c)
            /\ \/ doubts' = doubts
               \/ step[c] = "commit" /\ c \notin lost /\ LeaveInDoubt(c),
         lost \ {c} \subseteq lost'
  PROVE  LockInv'
<1>1. Own(c) /\ step'[c] = "none"
  BY EmailTypes, RespondOwn
<1>2. KeepsLocks(c)
  BY ReleaseOwn DEF KeepsLocks
<1>3. \A t \in doubts' : requestLock'[t.request] = None
  BY DoubtsFree DEF LockInv
<1>4. QED
  BY <1>1, <1>2, <1>3, LockFrame DEF Attempting

\* The handler of c goes on, with the row of its request or without.
LEMMA ContinuesLock ==
  ASSUME EmailTypeOK, LockInv, NEW c \in Consumers, NEW s, Continue(c, s),
         step[c] # "none", lost' = lost, doubts' = doubts,
         \/ /\ requestLock' = requestLock
            /\ s \in Attempting => step[c] \in Attempting
         \/ UpsertEmailRequestRow(Request(c), c)
  PROVE  LockInv'
<1>1. Own(c) /\ step'[c] = s /\ Request(c)' = Request(c) /\ Request(c) \in Requests
  BY EmailTypes, ContinueOwn DEF Request
<1>2. CASE requestLock' = requestLock /\ (s \in Attempting => step[c] \in Attempting)
  <2>1. c \notin lost' /\ step'[c] \in Attempting => requestLock[Request(c)] = c
    BY <1>1, <1>2 DEF LockInv
  <2>2. KeepsLocks(c) /\ \A t \in doubts' : requestLock'[t.request] = None
    BY <1>2 DEF KeepsLocks, LockInv
  <2>3. QED
    BY <1>1, <1>2, <2>1, <2>2, LockFrame
<1>3. CASE UpsertEmailRequestRow(Request(c), c)
  <2>1. requestLock'[Request(c)] = c /\ KeepsLocks(c)
    BY <1>1, <1>3, EmailAssumption DEF UpsertEmailRequestRow, EmailTypeOK, KeepsLocks
  <2>2. \A t \in doubts' : requestLock'[t.request] = None
    BY <1>1, <1>3, EmailTypes DEF UpsertEmailRequestRow, EmailTypeOK, LockInv
  <2>3. QED
    BY <1>1, <2>1, <2>2, LockFrame
<1>4. QED
  BY <1>2, <1>3

\* The steps of the handler.
LEMMA HandleLock ==
  ASSUME EmailTypeOK, LockInv, NEW c \in Consumers, Handle(c) PROVE LockInv'
<1>1. ASSUME NEW d \in inbox[c], ReceiveEmail(c, d) PROVE LockInv'
  <2>1. Own(c) /\ step'[c] = "check"
    BY <1>1, EmailTypes, EnterOwn DEF ReceiveEmail
  <2>2. requestLock' = requestLock /\ doubts' = doubts /\ lost' = lost
    BY <1>1 DEF ReceiveEmail, emailVars
  <2>3. KeepsLocks(c) /\ \A t \in doubts' : requestLock'[t.request] = None
    BY <2>2 DEF KeepsLocks, LockInv
  <2>4. QED
    BY <2>1, <2>2, <2>3, LockFrame DEF Attempting
<1>2. CASE RefuseMessage(c)
  BY <1>2, ReturnsLock DEF RefuseMessage, emailVars
<1>3. CASE CheckDuplicate(c)
  BY <1>3, ReturnsLock, ContinuesLock DEF CheckDuplicate, emailVars, Attempting
<1>4. CASE StatementFails(c) \/ RefuseEmail(c)
  BY <1>4, ReturnsLock DEF StatementFails, RefuseEmail, Rollback, Return, Late
<1>5. CASE UpsertService(c)
  BY <1>5, ContinuesLock DEF UpsertService, Late, Attempting
<1>6. CASE UpsertEmailRequest(c)
  BY <1>6, ContinuesLock DEF UpsertEmailRequest, Late
<1>7. CASE AskBreaker(c)
  BY <1>7, ContinuesLock DEF AskBreaker, Locks, Late, Attempting
<1>8. CASE CallSucceeds(c) \/ CallFails(c) \/ ReplyLost(c)
  BY <1>8, ContinuesLock
  DEF CallSucceeds, CallFails, ReplyLost, CallReturns, Locks, Late, Attempting
<1>9. CASE Commit(c) \/ CommitFails(c)
  BY <1>9, ReturnsLock DEF Commit, CommitFails, Return, Late
<1>10. QED
  BY <1>1, <1>2, <1>3, <1>4, <1>5, <1>6, <1>7, <1>8, <1>9 DEF Handle, Send

\* Every step keeps the locks.
LEMMA LockStep == EmailTypeOK /\ LockInv /\ [EmailNext]_allVars => LockInv'
<1> SUFFICES ASSUME EmailTypeOK, LockInv, [EmailNext]_allVars PROVE LockInv'
  OBVIOUS
<1>1. ASSUME NEW c \in Consumers, CrashEmail(c) PROVE LockInv'
  <2>1. Own(c) /\ step'[c] = "none"
    BY <1>1, EmailTypes, CrashOwn DEF CrashEmail
  <2>2. KeepsLocks(c) /\ \A t \in doubts' : requestLock'[t.request] = None
    BY <1>1, ReleaseOwn, DoubtsFree DEF CrashEmail
  <2>3. QED
    BY <1>1, <2>1, <2>2, LockFrame DEF CrashEmail, Attempting
<1>2. ASSUME UNCHANGED <<step, requestLock, lost, doubts>>,
             \A d \in Consumers : step[d] \in Attempting => cur'[d] = cur[d]
      PROVE  LockInv'
  BY <1>2 DEF LockInv, Request
<1>3. CASE \/ \E c \in Consumers : BreakerRests(c) /\ UNCHANGED emailVars
           \/ UNCHANGED allVars
  BY <1>2, <1>3 DEF BreakerRests, allVars, vars, replicaVars, handlerVars, emailVars
<1>4. CASE Around /\ UNCHANGED emailVars
  <2>1. UNCHANGED <<step, requestLock, lost, doubts>>
    BY <1>4 DEF Around, handlerVars, emailVars
  <2>2. ASSUME NEW d \in Consumers, step[d] \in Attempting PROVE cur'[d] = cur[d]
    <3>1. pc[d] = "handling"
      BY <2>2, EmailTypes DEF HandlerTypeOK, Attempting
    <3>2. QED
      BY <1>4, <3>1, EmailTypes, AroundEffect
  <2>3. QED
    BY <1>2, <2>1, <2>2
<1>5. ASSUME NEW c \in Consumers, SessionLost(c) PROVE LockInv'
  <2>1. Own(c) /\ doubts' = doubts /\ lost' = lost \union {c}
    BY <1>5 DEF SessionLost, Late, Own, vars, brokerVars, replicaVars, ghostVars
  <2>2. KeepsLocks(c) /\ \A t \in doubts' : requestLock'[t.request] = None
    BY <1>5, <2>1, ReleaseOwn, DoubtsFree DEF SessionLost
  <2>3. QED
    BY <2>1, <2>2, LockFrame
<1>6. ASSUME NEW t \in doubts, DoubtEnds(t) PROVE LockInv'
  BY <1>6 DEF DoubtEnds, Locks, vars, replicaVars, handlerVars, LockInv, Request
<1>7. QED
  BY <1>1, <1>3, <1>4, <1>5, <1>6, HandleLock DEF EmailNext

\* Two attempts at one request would both hold the lock of its row, which a
\* transaction in doubt leaves to nobody.
LEMMA LockExcludes == LockInv => OneAttemptAtATime
BY EmailAssumption DEF LockInv, OneAttemptAtATime, Attempting

-----------------------------------------------------------------------------
(* The ledger of one replica.                                              *)

\* A step with one crash or one fault of the handler in it, or with none.
Costs(n) ==
  \/ n = 0 /\ crashes' = crashes /\ handlerFaults' = handlerFaults
  \/ n = 1 /\ crashes' = crashes + 1 /\ handlerFaults' = handlerFaults
  \/ n = 1 /\ crashes' = crashes /\ handlerFaults' = handlerFaults + 1

\* What Resend accepted before a step is still paid for after it.
LEMMA CostsCredit ==
  ASSUME EmailTypeOK, NEW n \in {0, 1}, Costs(n), NEW q \in Requests,
         sends'[q] = sends[q]
  PROVE  /\ sends[q] \in Nat /\ crashes + handlerFaults \in Nat
         /\ crashes' + handlerFaults' = crashes + handlerFaults + n
         /\ Credit(q) => Credit(q)'
         /\ sends[q] <= 1 + crashes + handlerFaults =>
              /\ sends'[q] <= 1 + crashes' + handlerFaults'
              /\ n = 1 => Credit(q)'
<1>1. sends[q] \in Nat /\ crashes \in Nat /\ handlerFaults \in Nat
  BY EmailTypes DEF Stored
<1>2. crashes' + handlerFaults' = crashes + handlerFaults + n
  BY <1>1 DEF Costs
<1>3. QED
  BY <1>1, <1>2 DEF Costs, Credit

\* An accepted email that is about to be recorded is an attempt's own.
LEMMA PendingOwn ==
  ASSUME NEW c \in Consumers, Consumers = {c}, NEW q \in Requests
  PROVE  Pending(q) <=> result[c] = "sent" /\ Request(c) = q
BY DEF Pending

\* A step of the one replica that leaves the database and Resend alone.  What
\* it forgets to record was paid for, or is now.
LEMMA LedgerStill ==
  ASSUME EmailTypeOK, Ledger, NEW c \in Consumers, Consumers = {c}, done' = done,
         UNCHANGED <<row, dispatches, doubts, landed, sends>>,
         NEW n \in {0, 1}, Costs(n), Attempt(c)',
         result[c] = "sent" => Credit(Request(c)) \/ n = 1
  PROVE  Ledger'
<1>1. ASSUME NEW q \in Requests PROVE Balance(q)'
  <2>1. Balance(q)
    BY DEF Ledger
  <2>2. row[q] # "dispatched" => Credit(q)'
    <3>1. row[q] # "dispatched" /\ ~Pending(q) => Credit(q)'
      BY <2>1, CostsCredit DEF Balance
    <3>2. Pending(q) => Credit(q)'
      BY <2>1, PendingOwn, CostsCredit DEF Balance
    <3>3. QED
      BY <3>1, <3>2
  <2>3. sends'[q] <= 1 + crashes' + handlerFaults'
    BY <2>1, CostsCredit DEF Balance
  <2>4. QED
    BY <2>1, <2>2, <2>3 DEF Balance
<1>2. ASSUME NEW t \in doubts PROVE Doubt(t)'
  <2>1. Doubt(t) /\ t.request \in Requests
    BY EmailTypes DEF Ledger
  <2>2. Credit(t.request)'
    BY <2>1, CostsCredit DEF Doubt
  <2>3. QED
    BY <2>1, <2>2 DEF Doubt
<1>3. \A m \in done' : Recorded(RequestOf[m])'
  BY DEF Ledger, Recorded
<1>4. QED
  BY <1>1, <1>2, <1>3 DEF Ledger

\* A step of the one attempt past its upsert, which touches nothing but its own
\* request, and may leave its transaction in doubt.
LEMMA LedgerWrites ==
  ASSUME EmailTypeOK, Ledger, NEW c \in Consumers, Consumers = {c}, done' = done,
         step[c] \in Attempting, NEW n \in {0, 1}, Costs(n), landed' = landed,
         NEW r \in Requests, r = Request(c),
         \A q \in Requests \ {r} :
           row'[q] = row[q] /\ dispatches'[q] = dispatches[q] /\ sends'[q] = sends[q],
         Recorded(r) => Recorded(r)',
         Attempt(c)', Balance(r)',
         \/ doubts' = doubts
         \/ /\ LeaveInDoubt(c) /\ Credit(r)'
            /\ row'[r] = "dispatched" => r \in landed
            /\ result[c] = "sent" => sends'[r] >= dispatches'[r] + 1
  PROVE  Ledger'
<1>1. ASSUME NEW q \in Requests \ {r} PROVE Balance(q)'
  <2>1. Balance(q) /\ ~Pending(q)
    BY PendingOwn DEF Ledger
  <2>2. sends'[q] <= 1 + crashes' + handlerFaults'
    BY <2>1, CostsCredit DEF Balance
  <2>3. row'[q] # "dispatched" => Credit(q)'
    BY <2>1, CostsCredit DEF Balance
  <2>4. QED
    BY <2>1, <2>2, <2>3 DEF Balance
<1>2. \A t \in doubts : t.request # r /\ t.request \in Requests
  BY EmailTypes DEF Ledger, Attempt
<1>3. ASSUME NEW t \in doubts'
      PROVE  t \in doubts \/ (LeaveInDoubt(c) /\ t.request = r /\ t.outcome = result[c])
  BY <1>3 DEF LeaveInDoubt
<1>4. \A t \in doubts' : \A u \in doubts' : u.request = t.request => u = t
  <2>1. CASE doubts' = doubts
    BY <2>1 DEF Ledger, Doubt
  <2>2. CASE LeaveInDoubt(c)
    BY <1>2, <2>2 DEF Ledger, Doubt, LeaveInDoubt
  <2>3. QED
    BY <2>1, <2>2
<1>5. ASSUME NEW t \in doubts PROVE Doubt(t)' 
  <2>1. Doubt(t) /\ t.request \in Requests \ {r}
    BY <1>2 DEF Ledger
  <2>2. Credit(t.request)'
    BY <2>1, CostsCredit DEF Doubt
  <2>3. \A u \in doubts' : u.request = t.request => u = t
    BY <1>2, <1>3, <1>4, <2>1 DEF LeaveInDoubt
  <2>4. QED
    BY <2>1, <2>2, <2>3 DEF Doubt
<1>6. ASSUME NEW t \in doubts', t \notin doubts PROVE Doubt(t)'
  <2>1. LeaveInDoubt(c) /\ t.request = r /\ t.outcome = result[c]
    BY <1>3, <1>6
  <2>2. doubts' # doubts
    BY <1>6
  <2>3. QED
    BY <1>4, <2>1, <2>2 DEF Doubt
<1>7. \A m \in done' : Recorded(RequestOf[m])'
  <2>1. ASSUME NEW m \in done, RequestOf[m] # r PROVE Recorded(RequestOf[m])'
    <3>1. RequestOf[m] \in Requests /\ Recorded(RequestOf[m])
      BY <2>1, EmailTypes DEF Ledger
    <3>2. QED
      BY <2>1, <3>1 DEF Recorded
  <2>2. ASSUME NEW m \in done, RequestOf[m] = r PROVE Recorded(RequestOf[m])'
    BY <2>2 DEF Ledger, Recorded
  <2>3. QED
    BY <2>1, <2>2
<1>8. QED
  BY <1>1, <1>5, <1>6, <1>7 DEF Ledger

\* A transaction in doubt is carried out, or rolled back.
LEMMA LedgerLands ==
  ASSUME EmailTypeOK, Ledger, NEW t \in doubts, DoubtEnds(t)
  PROVE  Ledger'
<1> DEFINE r == t.request
<1>1. /\ UNCHANGED <<step, pc, cur, done, lost, result, sends, crashes, handlerFaults>>
      /\ doubts' = doubts \ {t} /\ landed \subseteq landed'
  BY DEF DoubtEnds, handlerVars, vars, replicaVars, ghostVars
<1>2. r \in Requests /\ t.outcome \in Outcomes /\ Doubt(t)
  BY EmailTypes DEF Ledger
<1>3. CASE UNCHANGED <<Tables, landed>>
  BY <1>1, <1>3
  DEF Ledger, Attempt, Doubt, Balance, Recorded, Credit, Pending, Request, Tables
<1>4. CASE /\ Store(r, t.outcome)
           /\ landed' = IF t.outcome = "sent" THEN landed \union {r} ELSE landed
  <2>1. \A q \in Requests \ {r} : row'[q] = row[q] /\ dispatches'[q] = dispatches[q]
    BY <1>4, EmailTypes DEF Store, CreateEmailDispatch, UpdateEmailRequestStatusByID, Stored
  <2>2. /\ dispatches[r] \in Nat /\ dispatches'[r] >= dispatches[r]
        /\ t.outcome = "sent" =>
             /\ row'[r] = "dispatched" /\ dispatches'[r] = dispatches[r] + 1
             /\ r \in landed'
        /\ t.outcome # "sent" =>
             /\ row'[r] # "dispatched" /\ dispatches'[r] = dispatches[r]
             /\ landed' = landed
    BY <1>2, <1>4, EmailTypes
    DEF Store, CreateEmailDispatch, UpdateEmailRequestStatusByID, Stored, Outcomes
  <2>3. \A q \in Requests \ {r} : q \in landed' <=> q \in landed
    BY <1>4
  <2>4. ASSUME NEW q \in Requests, Recorded(q) PROVE Recorded(q)'
    <3>1. CASE q = r
      BY <1>2, <2>2, <2>4, <3>1 DEF Recorded, Doubt
    <3>2. CASE q # r
      BY <2>1, <2>3, <2>4, <3>2 DEF Recorded
    <3>3. QED
      BY <3>1, <3>2
  <2>5. row'[r] = "dispatched" => r \in landed'
    BY <2>2
  <2>6. ASSUME NEW c \in Consumers PROVE Attempt(c)'
    <3>1. Attempt(c) /\ Request(c)' = Request(c)
      BY <1>1 DEF Ledger, Request
    <3>2. CASE step[c] # "none" /\ Request(c) = r
      <4>1. step[c] \notin Attempting /\ result[c] = "none"
        BY <3>1, <3>2 DEF Attempt, Attempting, EmailTypeOK
      <4>2. /\ row'[r] = "dispatched" => r \in landed'
            /\ Recorded(r) => Recorded(r)'
        BY <1>2, <2>4, <2>5
      <4>3. QED
        BY <1>1, <3>1, <3>2, <4>1, <4>2 DEF Attempt, Credit
    <3>3. CASE step[c] # "none" /\ Request(c) # r
      <4>1. Request(c) \in Requests
        BY <3>3, EmailTypes
      <4>2. QED
        BY <1>1, <2>1, <2>3, <2>4, <3>1, <3>3, <4>1 DEF Attempt, Credit
    <3>4. CASE step[c] = "none"
      <4>1. result[c] = "none" /\ c \notin lost /\ step[c] \notin Sending \union Attempting
        BY <3>4, NoResult DEF Sending, Attempting, Steps
      <4>2. pc[c] = "succeeded" => Recorded(Request(c))'
        BY <2>4, <3>1, RequestType DEF Attempt, Holding
      <4>3. QED
        BY <1>1, <3>1, <4>1, <4>2 DEF Attempt
    <3>5. QED
      BY <3>2, <3>3, <3>4
  <2>7. \A m \in done' : Recorded(RequestOf[m])'
    BY <1>1, <2>4, EmailTypes DEF Ledger
  <2>8. ASSUME NEW u \in doubts' PROVE Doubt(u)'
    <3>1. u \in doubts /\ Doubt(u) /\ u.request \in Requests \ {r}
      BY <1>1, <1>2, <2>8, EmailTypes DEF Ledger, Doubt
    <3>2. QED
      BY <1>1, <2>1, <2>3, <3>1 DEF Doubt, Credit
  <2>9. ASSUME NEW q \in Requests PROVE Balance(q)'
    <3>1. Balance(q) /\ (Pending(q)' <=> Pending(q))
      BY <1>1 DEF Ledger, Pending, Request
    <3>2. CASE q = r
      <4>1. /\ sends'[r] = sends[r] /\ Credit(r)' /\ sends[r] \in Nat
            /\ t.outcome = "sent" => sends[r] >= dispatches[r] + 1
            /\ r \notin landed => row[r] # "dispatched"
        BY <1>1, <1>2, EmailTypes DEF Doubt, Credit, Stored
      <4>2. QED
        BY <1>1, <2>2, <3>1, <3>2, <4>1 DEF Balance
    <3>3. CASE q # r
      BY <1>1, <2>1, <2>3, <3>1, <3>3 DEF Balance, Credit
    <3>4. QED
      BY <3>2, <3>3
  <2>10. QED
    BY <2>6, <2>7, <2>8, <2>9 DEF Ledger
<1>5. QED
  BY <1>3, <1>4 DEF DoubtEnds

\* No attempt is under way after a step, and one that succeeded is recorded.
LEMMA AttemptEnds ==
  ASSUME NEW c \in Consumers, step'[c] \notin Sending, result'[c] = "none",
         c \notin lost', pc'[c] = "succeeded" => Recorded(Request(c))'
  PROVE  Attempt(c)'
BY DEF Attempt, Sending, Attempting, Steps

\* What the ledger says of the attempt under way.
LEMMA AttemptHere ==
  ASSUME EmailTypeOK, Ledger, NEW c \in Consumers, Consumers = {c},
         step[c] # "none", NEW r, r = Request(c)
  PROVE  /\ r \in Requests /\ sends[r] \in Nat /\ dispatches[r] \in Nat
         /\ crashes \in Nat /\ handlerFaults \in Nat
         /\ Balance(r)
         /\ result[c] # "sent" /\ row[r] # "dispatched" => Credit(r)
         /\ step[c] \in Sending =>
              /\ row[r] = "dispatched" => r \in landed
              /\ result[c] # "sent" => Credit(r)
         /\ step[c] \in Attempting => \A t \in doubts : t.request # r
         /\ result[c] = "sent" => sends[r] >= dispatches[r] + 1
         /\ c \in lost /\ result[c] = "sent" => Credit(r)
         /\ c \in lost /\ result[c] # "sent" => sends[r] + 1 <= crashes + handlerFaults
<1>1. /\ r \in Requests /\ sends[r] \in Nat /\ dispatches[r] \in Nat
      /\ crashes \in Nat /\ handlerFaults \in Nat
  BY EmailTypes DEF Stored
<1>2. Balance(r) /\ Attempt(c)
  BY <1>1 DEF Ledger
<1>3. result[c] # "sent" => ~Pending(r)
  BY <1>1, PendingOwn
<1>4. QED
  BY <1>1, <1>2, <1>3 DEF Attempt, Balance

\* An attempt goes on: it accepts, records and forgets nothing.
LEMMA AttemptContinues ==
  ASSUME EmailTypeOK, Ledger, NEW c \in Consumers, Consumers = {c},
         step[c] # "none", NEW s, Continue(c, s), handlerFaults' = handlerFaults,
         UNCHANGED <<row, dispatches, doubts, landed, sends, lost>>,
         result[c] # "sent", result'[c] # "sent",
         step[c] \in Sending \/ row[Request(c)] # "dispatched",
         s \in Attempting => \/ step[c] \in Attempting
                             \/ \A t \in doubts : t.request # Request(c)
  PROVE  Ledger'
<1>1. PICK r : r = Request(c)
  OBVIOUS
<1>2. /\ step'[c] = s /\ done' = done /\ crashes' = crashes /\ pc'[c] = "handling"
      /\ Request(c)' = r
  BY <1>1, EmailTypes, ContinueOwn DEF Own, Request
<1>3. /\ row[r] = "dispatched" => r \in landed
      /\ Credit(r)
      /\ s \in Attempting => \A t \in doubts : t.request # r
      /\ c \in lost => sends[r] + 1 <= crashes + handlerFaults
  BY <1>1, AttemptHere
<1>4. Attempt(c)'
  BY <1>2, <1>3 DEF Attempt, Credit
<1>5. QED
  BY <1>2, <1>4, LedgerStill DEF Costs

\* An attempt ends by itself and records nothing.  An email it had accepted is
\* paid for.
LEMMA AttemptReturns ==
  ASSUME EmailTypeOK, Ledger, NEW c \in Consumers, Consumers = {c},
         NEW err, Respond(c, err), NEW n \in {0, 1}, Costs(n),
         UNCHANGED <<row, dispatches, doubts, landed, sends>>,
         c \notin lost', result'[c] = "none",
         err = "nil" => row[Request(c)] = "dispatched",
         result[c] = "sent" => c \in lost \/ n = 1
  PROVE  Ledger'
<1>1. /\ done' = done /\ step'[c] = "none" /\ step[c] # "none"
      /\ pc'[c] = "succeeded" => err = "nil"
      /\ Request(c)' = Request(c)
  BY EmailTypes, RespondOwn DEF Own, Request, HandlerTypeOK
<1>2. PICK r : r = Request(c)
  OBVIOUS
<1>3. /\ Balance(r)
      /\ c \in lost /\ result[c] = "sent" => Credit(r)
  BY <1>1, <1>2, AttemptHere
<1>4. pc'[c] = "succeeded" => Recorded(Request(c))'
  BY <1>1, <1>2, <1>3 DEF Recorded, Balance
<1>5. Attempt(c)'
  BY <1>1, <1>4, AttemptEnds DEF Sending, Steps
<1>6. QED
  BY <1>1, <1>2, <1>3, <1>5, LedgerStill

\* Resend accepts an email, and a lost answer is a fault.
LEMMA LedgerAccepts ==
  ASSUME EmailTypeOK, Ledger, NEW c \in Consumers, Consumers = {c},
         NEW x \in {"sent", "failed"}, CallReturns(c, x), Accepted(c),
         NEW n \in {0, 1}, handlerFaults' = handlerFaults + n, x = "sent" \/ n = 1
  PROVE  Ledger'
<1>1. PICK r : r = Request(c)
  OBVIOUS
<1>2. /\ step[c] = "call" /\ result'[c] = x /\ result[c] # "sent"
      /\ UNCHANGED <<row, dispatches, doubts, landed, lost>> /\ Continue(c, "commit")
  BY NoResult, EmailTypes DEF CallReturns, Tables, Late
<1>3. /\ step'[c] = "commit" /\ done' = done /\ crashes' = crashes
      /\ pc'[c] = "handling" /\ Request(c)' = r
  BY <1>1, <1>2, EmailTypes, ContinueOwn DEF Own, Request
<1>4. step[c] \in Sending /\ step[c] \in Attempting
  BY <1>2 DEF Sending, Attempting, Steps
<1>5. /\ r \in Requests /\ sends[r] \in Nat /\ dispatches[r] \in Nat
      /\ crashes \in Nat /\ handlerFaults \in Nat /\ Balance(r) /\ Credit(r)
      /\ row[r] = "dispatched" => r \in landed
      /\ \A t \in doubts : t.request # r
      /\ c \in lost => sends[r] + 1 <= crashes + handlerFaults
  BY <1>1, <1>2, <1>4, AttemptHere
<1>6. sends'[r] = sends[r] + 1 /\ \A q \in Requests \ {r} : sends'[q] = sends[q]
  BY <1>1, <1>5, EmailTypes DEF Accepted, Stored
<1>7. /\ x # "sent" => Credit(r)' /\ n = 1
      /\ sends'[r] >= dispatches[r] + 1
      /\ sends'[r] <= 1 + crashes' + handlerFaults'
      /\ c \in lost => Credit(r)'
      /\ c \in lost /\ n = 1 => sends'[r] + 1 <= crashes' + handlerFaults'
  BY <1>3, <1>5, <1>6 DEF Balance, Credit
<1>8. Attempt(c)'
  BY <1>2, <1>3, <1>5, <1>7 DEF Attempt
<1>9. Balance(r)'
  <2>1. x = "sent" => Pending(r)'
    BY <1>2, <1>3 DEF Pending
  <2>2. row'[r] # "dispatched" /\ ~Pending(r)' => Credit(r)'
    BY <1>7, <2>1
  <2>3. /\ sends'[r] >= dispatches'[r]
        /\ sends'[r] <= 1 + crashes' + handlerFaults'
    BY <1>2, <1>5, <1>6, <1>7 DEF Balance
  <2>4. row'[r] = row[r] /\ dispatches'[r] = dispatches[r] /\ landed' = landed
    BY <1>2
  <2>5. QED
    BY <1>5, <2>2, <2>3, <2>4 DEF Balance
<1>10. Costs(n) /\ (Recorded(r) => Recorded(r)')
  <2>1. Costs(n)
    BY <1>3, <1>5 DEF Costs
  <2>2. Recorded(r) => Recorded(r)'
    BY <1>2 DEF Recorded
  <2>3. QED
    BY <2>1, <2>2
<1>11. QED
  BY <1>1, <1>2, <1>3, <1>4, <1>5, <1>6, <1>8, <1>9, <1>10, LedgerWrites

\* The outcome of an attempt is recorded, and its error passed on.
LEMMA LedgerRecords ==
  ASSUME EmailTypeOK, Ledger, NEW c \in Consumers, Consumers = {c},
         step[c] = "commit", result'[c] = "none", c \notin lost',
         Store(Request(c), result[c]), UNCHANGED <<doubts, landed, sends>>,
         NEW err, Respond(c, err), err = "nil" => result[c] = "sent",
         NEW n \in {0, 1}, Costs(n)
  PROVE  Ledger'
<1>1. PICK r : r = Request(c)
  OBVIOUS
<1>2. /\ done' = done /\ step'[c] = "none" /\ Request(c)' = r
      /\ pc'[c] = "succeeded" => err = "nil"
  BY <1>1, EmailTypes, RespondOwn DEF Own, Request
<1>3. step[c] \in Sending /\ step[c] \in Attempting
  BY DEF Sending, Attempting, Steps
<1>4. /\ r \in Requests /\ sends[r] \in Nat /\ dispatches[r] \in Nat /\ Balance(r)
      /\ row[r] = "dispatched" => r \in landed
      /\ result[c] # "sent" => Credit(r)
      /\ result[c] = "sent" => sends[r] >= dispatches[r] + 1
  BY <1>1, <1>3, AttemptHere
<1>5. \A q \in Requests \ {r} : row'[q] = row[q] /\ dispatches'[q] = dispatches[q]
  BY <1>1, EmailTypes DEF Store, CreateEmailDispatch, UpdateEmailRequestStatusByID, Stored
<1>6. /\ result[c] = "sent" =>
           row'[r] = "dispatched" /\ dispatches'[r] = dispatches[r] + 1
      /\ result[c] # "sent" =>
           row'[r] # "dispatched" /\ dispatches'[r] = dispatches[r]
  BY <1>1, <1>4, EmailTypes
  DEF Store, CreateEmailDispatch, UpdateEmailRequestStatusByID, Stored, Outcomes
<1>7. /\ Recorded(r) => Recorded(r)'
      /\ result[c] = "sent" => Recorded(r)'
  BY <1>4, <1>6 DEF Recorded
<1>8. Attempt(c)'
  BY <1>2, <1>7, AttemptEnds DEF Sending, Steps
<1>9. Balance(r)'
  <2>1. /\ sends'[r] <= 1 + crashes' + handlerFaults'
        /\ result[c] # "sent" => Credit(r)'
    BY <1>4, CostsCredit DEF Balance
  <2>2. QED
    BY <1>4, <1>6, <2>1 DEF Balance
<1>10. QED
  BY <1>1, <1>2, <1>3, <1>4, <1>5, <1>7, <1>8, <1>9, LedgerWrites

\* An attempt ends with its transaction in doubt, by a fault or a crash.
LEMMA LedgerDoubts ==
  ASSUME EmailTypeOK, Ledger, NEW c \in Consumers, Consumers = {c},
         step[c] = "commit", c \notin lost', result'[c] = "none", done' = done,
         step'[c] = "none", pc'[c] # "succeeded", LeaveInDoubt(c),
         UNCHANGED <<row, dispatches, landed, sends>>, Costs(1)
  PROVE  Ledger'
<1>1. PICK r : r = Request(c)
  OBVIOUS
<1>2. step[c] \in Sending /\ step[c] \in Attempting
  BY DEF Sending, Attempting, Steps
<1>3. /\ r \in Requests /\ Balance(r)
      /\ row[r] = "dispatched" => r \in landed
      /\ result[c] = "sent" => sends[r] >= dispatches[r] + 1
  BY <1>1, <1>2, AttemptHere
<1>4. sends'[r] <= 1 + crashes' + handlerFaults' /\ Credit(r)'
  BY <1>3, CostsCredit DEF Balance
<1>5. Balance(r)' /\ (Recorded(r) => Recorded(r)')
  BY <1>3, <1>4 DEF Balance, Recorded
<1>6. Attempt(c)'
  BY AttemptEnds DEF Sending, Steps
<1>7. QED
  BY <1>1, <1>2, <1>3, <1>4, <1>5, <1>6, LedgerWrites

LEMMA HandleLedger ==
  ASSUME EmailTypeOK, Ledger, NEW c \in Consumers, Consumers = {c}, Handle(c)
  PROVE  Ledger'
<1>1. ASSUME NEW d \in inbox[c], ReceiveEmail(c, d) PROVE Ledger'
  <2>1. /\ done' = done /\ step[c] = "none" /\ step'[c] = "check"
        /\ pc'[c] = "handling" /\ UNCHANGED <<emailVars, crashes, handlerFaults>>
    BY <1>1, EmailTypes, EnterOwn DEF ReceiveEmail, Own, Enter
  <2>2. result[c] = "none" /\ c \notin lost
    BY <2>1, NoResult
  <2>3. Attempt(c)'
    BY <2>1, <2>2, AttemptEnds DEF Sending, emailVars
  <2>4. QED
    BY <2>1, <2>2, <2>3, LedgerStill DEF Costs, emailVars
<1>2. CASE RefuseMessage(c)
  <2>1. /\ Respond(c, "error") /\ Costs(0) /\ result'[c] = "none" /\ c \notin lost'
        /\ result[c] = "none" /\ UNCHANGED <<row, dispatches, doubts, landed, sends>>
    BY <1>2, NoResult DEF RefuseMessage, emailVars, Respond, Costs
  <2>2. QED
    BY <2>1, AttemptReturns
<1>3. CASE CheckDuplicate(c)
  <2>1. /\ step[c] = "check" /\ result[c] = "none" /\ result'[c] = "none"
        /\ c \notin lost' /\ handlerFaults' = handlerFaults
        /\ UNCHANGED <<row, dispatches, doubts, landed, sends, lost>>
    BY <1>3, NoResult DEF CheckDuplicate, emailVars
  <2>2. CASE row[Request(c)] # "dispatched"
    BY <1>3, <2>1, <2>2, AttemptContinues
    DEF CheckDuplicate, GetEmailRequestByQueueMessageID, Attempting
  <2>3. CASE row[Request(c)] = "dispatched"
    <3>1. Respond(c, "nil") /\ Costs(0)
      BY <1>3, <2>1, <2>3
      DEF CheckDuplicate, GetEmailRequestByQueueMessageID, Respond, Costs
    <3>2. QED
      BY <2>1, <2>3, <3>1, AttemptReturns
  <2>4. QED
    BY <2>2, <2>3
<1>4. CASE StatementFails(c) \/ RefuseEmail(c)
  <2>1. /\ Respond(c, "error") /\ result'[c] = "none" /\ c \notin lost'
        /\ result[c] = "none" /\ UNCHANGED <<row, dispatches, doubts, landed, sends>>
    BY <1>4, NoResult
    DEF StatementFails, RefuseEmail, Refused, Rollback, Return, Tables, Late
  <2>2. Costs(0) \/ Costs(1)
    BY <1>4, <2>1, FaultCounted DEF StatementFails, RefuseEmail, Respond, Costs
  <2>3. QED
    BY <2>1, <2>2, AttemptReturns
<1>5. CASE UpsertService(c) \/ UpsertEmailRequest(c)
  <2>1. /\ step[c] \in {"service", "request"} /\ handlerFaults' = handlerFaults
        /\ UNCHANGED <<row, dispatches, doubts, landed, sends, lost, result>>
        /\ \/ Continue(c, "request")
           \/ Continue(c, "convert") /\ \A t \in doubts : t.request # Request(c)
    BY <1>5
    DEF UpsertService, UpsertEmailRequest, UpsertEmailRequestRow, Tables, Late
  <2>2. result[c] = "none" /\ step[c] \in Sending
    BY <2>1, NoResult DEF Sending, Steps
  <2>3. QED
    BY <2>1, <2>2, AttemptContinues DEF Attempting
<1>6. CASE AskBreaker(c)
  <2>1. /\ step[c] = "convert" /\ result'[c] # "sent" /\ result[c] = "none"
        /\ Continue(c, "commit") \/ Continue(c, "call")
        /\ UNCHANGED <<row, dispatches, doubts, landed, sends, lost, handlerFaults>>
    BY <1>6, NoResult, EmailTypes DEF AskBreaker, Tables, Late
  <2>2. QED
    BY <2>1, AttemptContinues DEF Sending, Attempting, Steps
<1>7. CASE CallSucceeds(c)
  BY <1>7, EmailTypes, LedgerAccepts DEF CallSucceeds
<1>8. CASE ReplyLost(c)
  BY <1>8, FaultCounted, LedgerAccepts DEF ReplyLost
<1>9. CASE CallFails(c)
  <2>1. /\ step[c] = "call" /\ result'[c] = "failed" /\ result[c] = "none"
        /\ Continue(c, "commit")
        /\ UNCHANGED <<row, dispatches, doubts, landed, sends, lost, handlerFaults>>
    BY <1>9, NoResult, EmailTypes DEF CallFails, CallReturns, Tables, Late
  <2>2. QED
    BY <2>1, AttemptContinues DEF Sending, Attempting, Steps
<1>10. CASE Commit(c)
  <2>1. /\ step[c] = "commit" /\ result'[c] = "none" /\ c \notin lost'
        /\ Store(Request(c), result[c]) /\ UNCHANGED <<doubts, landed, sends>>
        /\ Respond(c, Reply(c)) /\ Costs(0)
    BY <1>10, EmailTypes DEF Commit, Return, Late, Respond, Costs
  <2>2. Reply(c) = "nil" => result[c] = "sent"
    BY DEF Reply
  <2>3. QED
    BY <2>1, <2>2, LedgerRecords
<1>11. CASE CommitFails(c)
  <2>1. /\ step[c] = "commit" /\ result'[c] = "none" /\ c \notin lost'
        /\ Respond(c, "error") /\ UNCHANGED <<landed, sends>> /\ crashes' = crashes
    BY <1>11, EmailTypes DEF CommitFails, Return, Respond
  <2>2. CASE c \in lost /\ UNCHANGED <<Tables, doubts, handlerFaults>>
    BY <2>1, <2>2, AttemptReturns DEF Costs, Tables
  <2>3. CASE HandlerFault("db") /\ Store(Request(c), result[c]) /\ UNCHANGED doubts
    <3>1. Costs(1)
      BY <2>1, <2>3, FaultCounted DEF Costs
    <3>2. QED
      BY <2>1, <2>3, <3>1, LedgerRecords
  <2>4. CASE HandlerFault("db") /\ UNCHANGED <<Tables, doubts>>
    <3>1. Costs(1)
      BY <2>1, <2>4, FaultCounted DEF Costs
    <3>2. QED
      BY <2>1, <2>4, <3>1, AttemptReturns DEF Tables
  <2>5. CASE HandlerFault("db") /\ LeaveInDoubt(c) /\ UNCHANGED Tables
    <3>1. Costs(1) /\ done' = done /\ step'[c] = "none" /\ pc'[c] # "succeeded"
      BY <2>1, <2>5, FaultCounted, EmailTypes, RespondOwn DEF Costs, Own
    <3>2. QED
      BY <2>1, <2>5, <3>1, LedgerDoubts DEF Tables
  <2>6. QED
    BY <1>11, <2>2, <2>3, <2>4, <2>5 DEF CommitFails
<1>12. QED
  BY <1>1, <1>2, <1>3, <1>4, <1>5, <1>6, <1>7, <1>8, <1>9, <1>10, <1>11 DEF Handle, Send

\* A crash ends the attempt, and may leave its transaction in doubt.
LEMMA CrashLedger ==
  ASSUME EmailTypeOK, Ledger, NEW c \in Consumers, Consumers = {c}, CrashEmail(c)
  PROVE  Ledger'
<1>1. /\ done' = done /\ step'[c] = "none" /\ pc'[c] = "down" /\ Costs(1)
      /\ result'[c] = "none" /\ c \notin lost'
      /\ UNCHANGED <<row, dispatches, landed, sends>>
  BY EmailTypes, CrashOwn DEF CrashEmail, CrashReplica, Own, Costs, Tables
<1>2. CASE UNCHANGED doubts
  <2>1. Attempt(c)'
    BY <1>1, AttemptEnds DEF Sending, Steps
  <2>2. QED
    BY <1>1, <1>2, <2>1, LedgerStill
<1>3. CASE step[c] = "commit" /\ LeaveInDoubt(c)
  BY <1>1, <1>3, LedgerDoubts
<1>4. QED
  BY <1>2, <1>3 DEF CrashEmail

\* A lost session is a fault, which pays for what the attempt cannot record.
LEMMA SessionLedger ==
  ASSUME EmailTypeOK, Ledger, NEW c \in Consumers, Consumers = {c}, SessionLost(c)
  PROVE  Ledger'
<1>1. PICK r : r = Request(c)
  OBVIOUS
<1>2. /\ UNCHANGED <<step, pc, cur, done, result, crashes, row, dispatches, doubts,
                     landed, sends>>
      /\ handlerFaults' = handlerFaults + 1 /\ Request(c)' = r
      /\ step[c] # "none" /\ step[c] \in Sending
  BY <1>1, FaultCounted
  DEF SessionLost, vars, replicaVars, ghostVars, Tables, Late, Request, Sending, Steps
<1>3. /\ r \in Requests /\ sends[r] \in Nat /\ crashes \in Nat /\ handlerFaults \in Nat
      /\ Balance(r) /\ Attempt(c)
      /\ result[c] # "sent" => Credit(r)
  BY <1>1, <1>2, AttemptHere DEF Ledger
<1>4. /\ Credit(r)'
      /\ result[c] # "sent" => sends[r] + 1 <= crashes' + handlerFaults'
  BY <1>2, <1>3 DEF Balance, Credit
<1>5. Attempt(c)'
  BY <1>1, <1>2, <1>3, <1>4 DEF Attempt, Recorded
<1>6. QED
  BY <1>2, <1>5, LedgerStill DEF Costs

LEMMA LedgerStep ==
  EmailTypeOK /\ Ledger /\ OneReplica /\ [EmailNext]_allVars => Ledger'
<1> SUFFICES ASSUME EmailTypeOK, Ledger, OneReplica, [EmailNext]_allVars
             PROVE  Ledger'
  OBVIOUS
<1>1. PICK c \in Consumers : Consumers = {c}
  BY DEF OneReplica
<1>2. ASSUME UNCHANGED <<step, pc, cur, done, emailVars, crashes, handlerFaults>>
      PROVE  Ledger'
  BY <1>2
  DEF Ledger, Attempt, Doubt, Balance, Recorded, Credit, Pending, Request, emailVars
<1>3. CASE (BreakerRests(c) /\ UNCHANGED emailVars) \/ UNCHANGED allVars
  BY <1>2, <1>3 DEF BreakerRests, allVars, vars, replicaVars, ghostVars, handlerVars
<1>4. CASE Around /\ UNCHANGED emailVars
  <2>1. UNCHANGED <<step, crashes, handlerFaults, row, dispatches, lost, doubts,
                    result, landed, sends>>
    BY <1>4 DEF Around, handlerVars, emailVars
  <2>2. pc'[c] = "succeeded" => pc[c] = "succeeded" /\ Request(c)' = Request(c)
    BY <1>4, EmailTypes, AroundEffect DEF Request
  <2>3. step[c] # "none" => Request(c)' = Request(c)
    BY <1>4, EmailTypes, AroundEffect DEF Request, HandlerTypeOK
  <2>4. /\ step[c] \in Sending \union Attempting \/ c \in lost => step[c] # "none"
        /\ result[c] = "sent" => step[c] # "none"
    BY DEF EmailTypeOK, Sending, Attempting, Steps
  <2>5. Attempt(c)'
    <3>1. Attempt(c)
      BY DEF Ledger
    <3>2. pc'[c] = "succeeded" => Recorded(Request(c))'
      BY <2>1, <2>2, <3>1 DEF Attempt, Recorded
    <3>3. QED
      BY <2>1, <2>3, <2>4, <3>1, <3>2 DEF Attempt, Credit
  <2>6. ASSUME NEW m \in done' PROVE Recorded(RequestOf[m])
    <3>1. CASE m \in done
      BY <3>1 DEF Ledger
    <3>2. CASE m \notin done
      <4>1. PICK d \in Consumers : pc[d] = "succeeded" /\ cur[d].msg = m
        BY <1>4, <2>6, <3>2, EmailTypes, AroundEffect
      <4>2. QED
        BY <4>1 DEF Ledger, Attempt, Request
    <3>3. QED
      BY <3>1, <3>2
  <2>7. \A q \in Requests : Balance(q)'
    <3>1. \A q \in Requests : Pending(q)' <=> Pending(q)
      BY <1>1, <2>1, <2>3, <2>4 DEF Pending
    <3>2. QED
      BY <2>1, <3>1 DEF Ledger, Balance, Credit
  <2>8. \A m \in done' : Recorded(RequestOf[m])'
    BY <2>1, <2>6 DEF Recorded
  <2>9. \A t \in doubts' : Doubt(t)'
    BY <2>1 DEF Ledger, Doubt, Credit
  <2>10. QED
    BY <1>1, <2>5, <2>7, <2>8, <2>9 DEF Ledger
<1>5. QED
  BY <1>1, <1>3, <1>4, HandleLedger, CrashLedger, SessionLedger, LedgerLands
  DEF EmailNext

LEMMA LedgerInit == EmailInit => Ledger
<1> SUFFICES ASSUME EmailInit PROVE Ledger
  OBVIOUS
<1>1. /\ crashes = 0 /\ handlerFaults = 0 /\ done = {} /\ doubts = {} /\ lost = {}
      /\ \A r \in Requests : sends[r] = 0 /\ row[r] = "absent" /\ dispatches[r] = 0
      /\ \A c \in Consumers : step[c] = "none" /\ pc[c] = "down" /\ result[c] = "none"
  BY DEF EmailInit, HandlerInit, Init
<1>2. \A r \in Requests : Balance(r)
  BY <1>1 DEF Balance, Credit
<1>3. \A c \in Consumers : Attempt(c)
  BY <1>1 DEF Attempt, Sending, Attempting, Steps
<1>4. QED
  BY <1>1, <1>2, <1>3 DEF Ledger

LEMMA LedgerBounds ==
  EmailTypeOK /\ Ledger
    => EmailDuplicatesAreFaults /\ LogAgreesWithStatus /\ DoneMeansDispatched
<1> SUFFICES ASSUME EmailTypeOK, Ledger
             PROVE  EmailDuplicatesAreFaults /\ LogAgreesWithStatus /\ DoneMeansDispatched
  OBVIOUS
<1>1. EmailDuplicatesAreFaults
  BY DEF Ledger, Balance, EmailDuplicatesAreFaults
<1>2. LogAgreesWithStatus
  BY DEF Ledger, Balance, LogAgreesWithStatus
<1>3. QED
  BY <1>1, <1>2 DEF Ledger, Balance, Recorded, DoneMeansDispatched

\* What holds of one replica throughout.
LEMMA LedgerAlways ==
  ASSUME OneReplica PROVE EmailSpec => [](EmailTypeOK /\ Ledger)
<1>1. EmailInit => EmailTypeOK /\ Ledger
  BY EmailTypeInit, LedgerInit
<1>2. EmailTypeOK /\ Ledger /\ [EmailNext]_allVars => (EmailTypeOK /\ Ledger)'
  BY EmailTypeStep, LedgerStep
<1>3. QED
  BY <1>1, <1>2, PTL DEF EmailSpec

-----------------------------------------------------------------------------
(* Theorems.                                                               *)

(***************************************************************************)
(* The email handler implements the loop with any handler                  *)
(* (email_consumer.go 33-43).                                              *)
(***************************************************************************)
THEOREM EmailImplementsTheLoop == EmailSpec => EmailImplementsConsumer
<1>1. EmailInit => Init
  BY DEF EmailInit, HandlerInit
<1>2. QED
  BY <1>1, EmailStep, PTL DEF EmailSpec, EmailImplementsConsumer, Spec

(***************************************************************************)
(* Type correctness: the handler runs inside a call of the loop, and an    *)
(* outcome exists exactly where Send is about to commit it                 *)
(* (email_service.go 131-209).                                             *)
(***************************************************************************)
THEOREM EmailTypeCorrect == EmailSpec => []EmailTypeOK
BY EmailTypeInit, EmailTypeStep, PTL DEF EmailSpec

(***************************************************************************)
(* Two attempts at one request whose database sessions live never overlap  *)
(* from the upsert of its row to the commit, and neither does an attempt   *)
(* and an earlier COMMIT in doubt, however many replicas consume the queue *)
(* and whatever else fails (email_service.go 99-203).                      *)
(***************************************************************************)
THEOREM OneAttemptAtATimeAlways == EmailSpec => []OneAttemptAtATime
BY EmailTypeCorrect, LockInit, LockStep, LockExcludes, PTL DEF EmailSpec

(***************************************************************************)
(* With one replica an email is accepted once, plus at most once for each  *)
(* crash, lost answer, failed statement or lost session: any number of     *)
(* messages, copies, retries and redeliveries adds nothing                 *)
(* (email_service.go 73-203).                                              *)
(***************************************************************************)
THEOREM EmailDuplicatesAreFaultsAlways ==
  ASSUME OneReplica PROVE EmailSpec => []EmailDuplicatesAreFaults
BY LedgerAlways, LedgerBounds, PTL

(***************************************************************************)
(* With one replica the status and the dispatch log agree, also after a    *)
(* COMMIT that took effect and was reported as failed; where it took       *)
(* effect after the report, "dispatched" still has a dispatch              *)
(* (email_service.go 151-203).                                             *)
(***************************************************************************)
THEOREM LogAgreesWithStatusAlways ==
  ASSUME OneReplica PROVE EmailSpec => []LogAgreesWithStatus
BY LedgerAlways, LedgerBounds, PTL

(***************************************************************************)
(* With one replica a message acked after a success has a dispatch on      *)
(* record, and the status with it unless a commit landed late, and every   *)
(* dispatch on record was accepted (email_service.go 197-209).             *)
(***************************************************************************)
THEOREM DoneMeansDispatchedAlways ==
  ASSUME OneReplica PROVE EmailSpec => []DoneMeansDispatched
BY LedgerAlways, LedgerBounds, PTL

=============================================================================
