--------------------------- MODULE EmailDelivery ---------------------------
(***************************************************************************)
(* Emails, end to end: the consume loop of Consumer with handleMessage of  *)
(* email_consumer.go and Send of email_service.go for its handler, the     *)
(* database, and Resend.                                                   *)
(*                                                                         *)
(* Send runs in one transaction.  It is modelled by what other replicas    *)
(* see of it: the rows it holds locked, from its first write to them until *)
(* it ends, and its writes, which appear when it commits.  The status      *)
(* "received" never appears, because the same transaction replaces it.     *)
(*                                                                         *)
(* The database may end the transaction before Send does, when it loses    *)
(* the session, and after Send does, when Send loses the connection during *)
(* COMMIT.                                                                 *)
(***************************************************************************)
EXTENDS Handler, EmailPayload

CONSTANTS
  Requests,  \* the request_ids producers use
  Services,  \* the source_service_ids
  RequestOf, \* the request_id of each message
  ServiceOf, \* the source_service_id of each message
  EmailOf    \* the email of each message, None if handleMessage refuses it

ASSUME EmailAssumption ==
  /\ RequestOf \in [Messages -> Requests]
  /\ ServiceOf \in [Messages -> Services]
  /\ EmailOf \in [Messages -> Emails \union {None}]
  /\ None \notin Consumers

VARIABLES
  row,         \* email_requests.status of each request, "absent" without a row
  dispatches,  \* email_dispatches rows with status "sent" of each request
  serviceLock, \* who holds the row of a service locked
  requestLock, \* who holds the row of a request locked
  lost,        \* whose transaction the database ended before Send did
  doubts,      \* transactions that Send ended and the database did not, each
               \* with its COMMIT sent and its rows locked
  result,      \* dispatchStatus of the transaction under way
  landed,      \* history: requests a dispatch of which was committed that late
  sends        \* history: emails Resend accepted for each request

emailVars ==
  <<row, dispatches, serviceLock, requestLock, lost, doubts, result, landed, sends>>
allVars == <<vars, handlerVars, emailVars>>

Steps == {"check", "service", "request", "convert", "call", "commit"}
Outcomes == {"sent", "failed", "circuit_open"}
Doubts == [request : Requests, service : Services, outcome : Outcomes]

EmailTypeOK ==
  /\ HandlerTypeOK(Steps)
  /\ row \in [Requests -> {"absent", "dispatched", "failed", "circuit_open"}]
  /\ dispatches \in [Requests -> Nat]
  /\ serviceLock \in [Services -> Consumers \union {None}]
  /\ requestLock \in [Requests -> Consumers \union {None}]
  /\ lost \subseteq {c \in Consumers : step[c] \in Steps \ {"check"}}
  /\ doubts \subseteq Doubts
  /\ result \in [Consumers -> Outcomes \union {"none"}]
  /\ landed \subseteq Requests
  /\ sends \in [Requests -> Nat]
  /\ \A c \in Consumers : step[c] = "commit" <=> result[c] # "none"

EmailInit ==
  /\ HandlerInit
  /\ row = [r \in Requests |-> "absent"]
  /\ dispatches = [r \in Requests |-> 0]
  /\ serviceLock = [s \in Services |-> None]
  /\ requestLock = [r \in Requests |-> None]
  /\ lost = {}
  /\ doubts = {}
  /\ result = [c \in Consumers |-> "none"]
  /\ landed = {}
  /\ sends = [r \in Requests |-> 0]

Request(c) == RequestOf[cur[c].msg]
Service(c) == ServiceOf[cur[c].msg]
Mail(c) == EmailOf[cur[c].msg]

Locks == <<serviceLock, requestLock>>
Tables == <<row, dispatches>>
Late == <<doubts, landed>>

ReleaseLocks(c) ==
  /\ serviceLock' = [s \in Services |->
                       IF serviceLock[s] = c THEN None ELSE serviceLock[s]]
  /\ requestLock' = [r \in Requests |->
                       IF requestLock[r] = c THEN None ELSE requestLock[r]]

\* Send ends its transaction, if it is still there, and returns.
Return(c, err) ==
  /\ ReleaseLocks(c)
  /\ lost' = lost \ {c}
  /\ Respond(c, err)

\* An early return: the deferred Rollback, then an error.
Rollback(c) ==
  /\ Return(c, "error")
  /\ UNCHANGED <<Tables, Late>>

-----------------------------------------------------------------------------
(* The queries Send makes.  The read waits for no lock and sees what is    *)
(* committed.  ON CONFLICT DO UPDATE waits for the row and locks it,       *)
(* inserted or there before; a transaction in doubt still has its rows.    *)
(* Failed dispatches are not counted.                                      *)

GetEmailRequestByQueueMessageID(r) == row[r]

UpsertServiceRow(s, c) ==
  /\ serviceLock[s] = None
  /\ \A t \in doubts : t.service # s
  /\ serviceLock' = [serviceLock EXCEPT ![s] = c]

UpsertEmailRequestRow(r, c) ==
  /\ requestLock[r] = None
  /\ \A t \in doubts : t.request # r
  /\ requestLock' = [requestLock EXCEPT ![r] = c]

CreateEmailDispatch(r, status) ==
  dispatches' = [dispatches EXCEPT ![r] = IF status = "sent" THEN @ + 1 ELSE @]

UpdateEmailRequestStatusByID(r, status) == row' = [row EXCEPT ![r] = status]

\* The dispatch and the status of an attempt become visible.
Store(r, outcome) ==
  /\ CreateEmailDispatch(r, outcome)
  /\ UpdateEmailRequestStatusByID(r, IF outcome = "sent" THEN "dispatched" ELSE outcome)

-----------------------------------------------------------------------------
(* handleMessage, then Send.                                               *)

ReceiveEmail(c, d) ==
  /\ Enter(c, d, "check")
  /\ UNCHANGED emailVars

RefuseMessage(c) ==
  /\ step[c] = "check"
  /\ Mail(c) = None
  /\ Respond(c, "error")
  /\ UNCHANGED <<breaker, handlerFaults, emailVars>>

CheckDuplicate(c) ==
  /\ step[c] = "check"
  /\ Mail(c) # None
  /\ IF GetEmailRequestByQueueMessageID(Request(c)) = "dispatched"
     THEN Respond(c, "nil")
     ELSE Continue(c, "service")
  /\ UNCHANGED <<breaker, handlerFaults, emailVars>>

\* A statement fails: acquiring a connection, BEGIN, the read or an upsert.
StatementFails(c) ==
  /\ step[c] \in {"check", "service", "request"}
  /\ Mail(c) # None
  /\ IF c \in lost THEN UNCHANGED handlerFaults ELSE HandlerFault("db")
  /\ Rollback(c)
  /\ UNCHANGED <<breaker, result, sends>>

\* The database loses the session of a transaction, for instance while it is
\* idle over the call to Resend, and rolls it back.  Send goes on until its
\* next statement.
SessionLost(c) ==
  /\ step[c] \in Steps \ {"check"}
  /\ c \notin lost
  /\ HandlerFault("db")
  /\ ReleaseLocks(c)
  /\ lost' = lost \union {c}
  /\ UNCHANGED <<vars, step, breaker, crashes, Tables, Late, result, sends>>

UpsertService(c) ==
  /\ step[c] = "service"
  /\ c \notin lost
  /\ UpsertServiceRow(Service(c), c)
  /\ Continue(c, "request")
  /\ UNCHANGED <<Tables, requestLock, lost, Late, result, breaker, handlerFaults, sends>>

\* Mutant: ON CONFLICT DO NOTHING neither waits for the row nor locks it.
UpsertEmailRequest_DoNothing(c) ==
  /\ step[c] = "request"
  /\ c \notin lost
  /\ Storable(Mail(c))
  /\ Continue(c, "convert")
  /\ UNCHANGED <<Tables, Locks, lost, Late, result, breaker, handlerFaults, sends>>

UpsertEmailRequest(c) ==
  /\ step[c] = "request"
  /\ c \notin lost
  /\ Storable(Mail(c))
  /\ UpsertEmailRequestRow(Request(c), c)
  /\ Continue(c, "convert")
  /\ UNCHANGED <<Tables, serviceLock, lost, Late, result, breaker, handlerFaults, sends>>

\* The row violates a constraint, or there is no request to send.
Refused(c) ==
  \/ step[c] = "request" /\ ~Storable(Mail(c))
  \/ step[c] = "convert" /\ ~emailToResendEmailRequest(Mail(c))

\* Mutant: the handler drops an email that cannot be sent.
RefuseEmail_Drops(c) ==
  /\ Refused(c)
  /\ ReleaseLocks(c)
  /\ lost' = lost \ {c}
  /\ Finish(c)
  /\ step' = [step EXCEPT ![c] = "none"]
  /\ UNCHANGED <<brokerVars, ghostVars, Tables, Late, result, breaker, crashes,
                 handlerFaults, sends>>

\* A refused email leaves no trace: the row of the request is rolled back.
RefuseEmail(c) ==
  /\ Refused(c)
  /\ Rollback(c)
  /\ UNCHANGED <<result, breaker, handlerFaults, sends>>

\* breaker.Execute: the call is refused, or counted and made.
AskBreaker(c) ==
  /\ step[c] = "convert"
  /\ emailToResendEmailRequest(Mail(c))
  /\ IF Open(Refusal(breaker[c]))
     THEN /\ result' = [result EXCEPT ![c] = "circuit_open"]
          /\ Continue(c, "commit")
          /\ UNCHANGED breaker
     ELSE /\ breaker' = [breaker EXCEPT ![c] = Admit(@)]
          /\ Continue(c, "call")
          /\ UNCHANGED result
  /\ UNCHANGED <<Tables, Locks, lost, Late, handlerFaults, sends>>

\* Resend's answer.  The transaction was open over the call; SessionLost may
\* have ended it meanwhile.
CallReturns(c, outcome) ==
  /\ step[c] = "call"
  /\ result' = [result EXCEPT ![c] = outcome]
  /\ breaker' = [breaker EXCEPT ![c] = Report(@, outcome = "sent")]
  /\ Continue(c, "commit")
  /\ UNCHANGED <<Tables, Locks, lost, Late>>

Accepted(c) == sends' = [sends EXCEPT ![Request(c)] = @ + 1]

CallSucceeds(c) ==
  /\ CallReturns(c, "sent")
  /\ Accepted(c)
  /\ UNCHANGED handlerFaults

CallFails(c) ==
  /\ CallReturns(c, "failed")
  /\ UNCHANGED <<sends, handlerFaults>>

\* Accepted, but the connection breaks before the answer arrives.
ReplyLost(c) ==
  /\ HandlerFault("reply")
  /\ CallReturns(c, "failed")
  /\ Accepted(c)

\* The end of the transaction, with the provider's error passed on.
Reply(c) == IF result[c] = "sent" THEN "nil" ELSE "error"

\* Mutant: the provider's error is recorded and swallowed.
Commit_SwallowsError(c) ==
  /\ step[c] = "commit"
  /\ c \notin lost
  /\ Store(Request(c), result[c])
  /\ result' = [result EXCEPT ![c] = "none"]
  /\ Return(c, "nil")
  /\ UNCHANGED <<Late, breaker, handlerFaults, sends>>

\* Mutant: the outcome is left behind for the next email.
Commit_KeepsResult(c) ==
  /\ step[c] = "commit"
  /\ c \notin lost
  /\ Store(Request(c), result[c])
  /\ Return(c, Reply(c))
  /\ UNCHANGED <<Late, result, breaker, handlerFaults, sends>>

\* Mutant: only failures are committed.
Commit_FailuresOnly(c) ==
  /\ step[c] = "commit"
  /\ c \notin lost
  /\ IF result[c] = "sent" THEN UNCHANGED Tables ELSE Store(Request(c), result[c])
  /\ result' = [result EXCEPT ![c] = "none"]
  /\ Return(c, Reply(c))
  /\ UNCHANGED <<Late, breaker, handlerFaults, sends>>

Commit(c) ==
  /\ step[c] = "commit"
  /\ c \notin lost
  /\ Store(Request(c), result[c])
  /\ result' = [result EXCEPT ![c] = "none"]
  /\ Return(c, Reply(c))
  /\ UNCHANGED <<Late, breaker, handlerFaults, sends>>

\* Mutant: the dispatch is written outside of the transaction.
CommitFails_KeepsDispatch(c) ==
  /\ step[c] = "commit"
  /\ HandlerFault("db")
  /\ CreateEmailDispatch(Request(c), result[c])
  /\ result' = [result EXCEPT ![c] = "none"]
  /\ Return(c, "error")
  /\ UNCHANGED <<row, Late, breaker, sends>>

\* Mutant: commited is set before the error is looked at: no Rollback.
CommitFails_NoRollback(c) ==
  /\ step[c] = "commit"
  /\ HandlerFault("db")
  /\ result' = [result EXCEPT ![c] = "none"]
  /\ Respond(c, "error")
  /\ UNCHANGED <<Tables, Locks, lost, Late, breaker, sends>>

\* The connection breaks with the COMMIT sent: what becomes of the
\* transaction is up to the database (DoubtEnds).
LeaveInDoubt(c) ==
  doubts' = doubts \union
    {[request |-> Request(c), service |-> Service(c), outcome |-> result[c]]}

\* A write or COMMIT fails.  Where the session is lost, there was nothing to
\* commit; otherwise the database may have carried COMMIT out, or may not have,
\* or may not have decided yet.
CommitFails(c) ==
  /\ step[c] = "commit"
  /\ \/ /\ c \in lost
        /\ UNCHANGED <<Tables, doubts, handlerFaults>>
     \/ /\ c \notin lost
        /\ HandlerFault("db")
        /\ \/ Store(Request(c), result[c]) /\ UNCHANGED doubts
           \/ UNCHANGED <<Tables, doubts>>
           \/ LeaveInDoubt(c) /\ UNCHANGED Tables
  /\ result' = [result EXCEPT ![c] = "none"]
  /\ Return(c, "error")
  /\ UNCHANGED <<landed, breaker, sends>>

Send(c) ==
  \/ CheckDuplicate(c) \/ StatementFails(c)
  \/ UpsertService(c) \/ UpsertEmailRequest(c) \/ RefuseEmail(c)
  \/ AskBreaker(c)
  \/ CallSucceeds(c) \/ CallFails(c) \/ ReplyLost(c)
  \/ Commit(c) \/ CommitFails(c)

-----------------------------------------------------------------------------
(* The rest of the system.                                                 *)

\* The database rolls the transaction of a dead connection back, unless it
\* has its COMMIT.
CrashEmail(c) ==
  /\ CrashReplica(c)
  /\ ReleaseLocks(c)
  /\ lost' = lost \ {c}
  /\ \/ UNCHANGED doubts
     \/ step[c] = "commit" /\ c \notin lost /\ LeaveInDoubt(c)
  /\ result' = [result EXCEPT ![c] = "none"]
  /\ UNCHANGED <<Tables, landed, sends>>

\* The database carries a COMMIT out whose failure was reported, or rolls the
\* transaction back.
DoubtEnds(t) ==
  /\ doubts' = doubts \ {t}
  /\ \/ /\ Store(t.request, t.outcome)
        /\ landed' = IF t.outcome = "sent" THEN landed \union {t.request} ELSE landed
     \/ UNCHANGED <<Tables, landed>>
  /\ UNCHANGED <<vars, handlerVars, Locks, lost, result, sends>>

Handle(c) ==
  \/ \E d \in inbox[c] : ReceiveEmail(c, d)
  \/ RefuseMessage(c)
  \/ Send(c)

EmailNext ==
  \/ \E c \in Consumers :
       \/ Handle(c) \/ SessionLost(c) \/ CrashEmail(c)
       \/ BreakerRests(c) /\ UNCHANGED emailVars
  \/ \E t \in doubts : DoubtEnds(t)
  \/ (Around /\ UNCHANGED emailVars)

EmailSpec == EmailInit /\ [][EmailNext]_allVars

\* As in Consumer; Resend answers every call, one way or the other, and the
\* database ends every transaction.
EmailFairness ==
  LET Rest == <<handlerVars, emailVars>> IN
  /\ \A c \in Consumers :
       /\ WF_allVars(Handle(c))
       /\ WF_allVars(Settle(c) /\ UNCHANGED Rest)
       /\ WF_allVars(Start(c) /\ UNCHANGED Rest)
       /\ WF_allVars(BreakerRests(c) /\ UNCHANGED emailVars)
  /\ \A m \in Messages :
       /\ WF_allVars(RetryExpires(m) /\ UNCHANGED Rest)
       /\ WF_allVars((\E c \in Consumers : Deliver(c, m)) /\ UNCHANGED Rest)
  /\ WF_allVars(\E t \in doubts : DoubtEnds(t))

FairEmailSpec == EmailSpec /\ EmailFairness

-----------------------------------------------------------------------------
(* Properties.                                                             *)

(***************************************************************************)
(* The email handler is one of the handlers Consumer allows                *)
(* (email_consumer.go 33-43).                                              *)
(***************************************************************************)
EmailImplementsConsumer == Spec

(***************************************************************************)
(* With one replica, an email is sent once, plus at most once for each     *)
(* crash, lost answer, failed statement or lost session: no redelivery,    *)
(* retry, failure to park or republished copy sends it again by itself     *)
(* (email_service.go 73-90, docs/email_integration_guide.md 383).          *)
(***************************************************************************)
EmailDuplicatesAreFaults ==
  \A r \in Requests : sends[r] <= 1 + crashes + handlerFaults

(***************************************************************************)
(* With one replica the status and the dispatch log tell the same story,   *)
(* over failed commits, lost sessions and crashes: a request reads         *)
(* "dispatched" exactly when one dispatch of it is on record as sent, and  *)
(* there is never a second one (email_service.go 151-203).  Only a commit  *)
(* that lands after its failure was reported can make them differ, because *)
(* another attempt may have checked before: then a second dispatch, or a   *)
(* failed one, may follow.  Even so "dispatched" has a dispatch.           *)
(***************************************************************************)
LogAgreesWithStatus ==
  \A r \in Requests :
    /\ row[r] = "dispatched" => dispatches[r] >= 1
    /\ r \notin landed => dispatches[r] = IF row[r] = "dispatched" THEN 1 ELSE 0

(***************************************************************************)
(* The queue and the tables agree: a message acked after a success belongs *)
(* to a request with a dispatch on record as sent, which reads             *)
(* "dispatched" unless a commit landed late, and Resend accepted at least  *)
(* every dispatch on record (email_service.go 197-209).                    *)
(***************************************************************************)
DoneMeansDispatched ==
  /\ \A m \in done :
       /\ dispatches[RequestOf[m]] >= 1
       /\ RequestOf[m] \notin landed => row[RequestOf[m]] = "dispatched"
  /\ \A r \in Requests : sends[r] >= dispatches[r]

(***************************************************************************)
(* One attempt at a request at a time, whatever the number of replicas and *)
(* services that use the request_id: from the upsert to the commit, over   *)
(* the call to Resend, the row lock keeps every other attempt out, and     *)
(* every attempt as long as an earlier commit is in doubt.  It does so     *)
(* only as long as the database has the session: one that lost it may      *)
(* still be calling Resend while another attempt calls, but can no longer  *)
(* record anything (email_service.go 99-203).                              *)
(***************************************************************************)
OneAttemptAtATime ==
  \A c \in Consumers \ lost :
    step[c] \in {"convert", "call", "commit"} =>
      /\ \A d \in Consumers \ (lost \union {c}) :
           step[d] \in {"convert", "call", "commit"} => Request(d) # Request(c)
      /\ \A t \in doubts : t.request # Request(c)

(***************************************************************************)
(* Replicas that wait for each other's rows never wait for good: with a    *)
(* call to Resend inside every transaction, each email published is still  *)
(* acked as sent or parked.                                                *)
(***************************************************************************)
EmailEventuallySettled == EventuallySettled

=============================================================================
