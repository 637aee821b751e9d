---------------------------- MODULE PushDelivery ----------------------------
(***************************************************************************)
(* Push notifications, end to end: the consume loop of Consumer with the   *)
(* push handler for its handler, namely handleMessage of                   *)
(* push_notification_consumer.go and Send of push_notification_service.go, *)
(* the notifications table both write to, the circuit breaker of each      *)
(* replica, and OneSignal.                                                 *)
(***************************************************************************)
EXTENDS Handler, PushPayload

CONSTANTS
  Requests,      \* the request_ids producers use
  RequestOf,     \* the request_id of each message
  NotificationOf \* the notification of each message, None if handleMessage
                 \* refuses the message

ASSUME PushAssumption ==
  /\ RequestOf \in [Messages -> Requests]
  /\ NotificationOf \in [Messages -> Notifications \union {None}]

VARIABLES
  row,     \* notifications.status of each request, "absent" without a row
  result,  \* the outcome Send is about to persist
  overdue, \* the messages whose send_after has passed
  sends    \* history: notifications OneSignal accepted for each request

pushVars == <<row, result, overdue, sends>>
allVars == <<vars, handlerVars, pushVars>>

Steps == {"decode", "prepare", "call", "persist"}
Statuses == {"sent", "failed", "circuit_open"}

Scheduled(m) == NotificationOf[m] # None /\ NotificationOf[m].send_after

PushTypeOK ==
  /\ HandlerTypeOK(Steps)
  /\ row \in [Requests -> Statuses \union {"absent"}]
  /\ result \in [Consumers -> Statuses \union {"none", "unstorable"}]
  /\ overdue \subseteq {m \in Messages : Scheduled(m)}
  /\ sends \in [Requests -> Nat]
  /\ \A c \in Consumers : step[c] = "persist" <=> result[c] # "none"

PushInit ==
  /\ HandlerInit
  /\ row = [r \in Requests |-> "absent"]
  /\ result = [c \in Consumers |-> "none"]
  /\ overdue = {}
  /\ sends = [r \in Requests |-> 0]

Request(c) == RequestOf[cur[c].msg]
Notification(c) == NotificationOf[cur[c].msg]

\* preparePushPayload, at the time of this attempt.
Prepared(c) == preparePushPayload(Notification(c), cur[c].msg \in overdue)

-----------------------------------------------------------------------------
(* The queries Send makes, and the notifications table they read or write. *)

\* No row is an error of its own, pgx.ErrNoRows, and not a failure.
GetNotificationByQueueMessageID(r) == row[r]

\* ON CONFLICT (queue_message_id) DO UPDATE replaces the status of a row
\* whatever it was.
UpsertNotification(r, status) == row' = [row EXCEPT ![r] = status]

-----------------------------------------------------------------------------
(* handleMessage, then Send.                                               *)

ReceivePush(c, d) ==
  /\ Enter(c, d, "decode")
  /\ UNCHANGED pushVars

RefuseMessage(c) ==
  /\ step[c] = "decode"
  /\ Notification(c) = None
  /\ Respond(c, "error")
  /\ UNCHANGED <<row, sends, result, breaker, handlerFaults>>

\* Mutant: the row is not looked at.
CheckDuplicate_Never(c) ==
  /\ step[c] = "decode"
  /\ Notification(c) # None
  /\ Continue(c, "prepare")
  /\ UNCHANGED <<row, sends, result, breaker, handlerFaults>>

\* For a redelivery or a republished push.
CheckDuplicate(c) ==
  /\ step[c] = "decode"
  /\ Notification(c) # None
  /\ IF GetNotificationByQueueMessageID(Request(c)) = "sent"
     THEN Respond(c, "nil")
     ELSE Continue(c, "prepare")
  /\ UNCHANGED <<row, sends, result, breaker, handlerFaults>>

CheckFails(c) ==
  /\ step[c] = "decode"
  /\ Notification(c) # None
  /\ HandlerFault("db")
  /\ Respond(c, "error")
  /\ UNCHANGED <<row, sends, result, breaker>>

persistOutcome(c, status) ==
  /\ Storable(Notification(c))
  /\ UpsertNotification(Request(c), status)

\* The upsert fails at every attempt where a text of the notification is too
\* long for its column, and otherwise for want of the database, which may have
\* carried it out nevertheless.
persistFails(c, status) ==
  \/ /\ ~Storable(Notification(c))
     /\ UNCHANGED <<row, handlerFaults>>
  \/ /\ Storable(Notification(c))
     /\ HandlerFault("db")
     /\ UNCHANGED row \/ UpsertNotification(Request(c), status)

\* Mutant: a push that fails validation is not recorded.
RefusePayload_Unrecorded(c) ==
  /\ step[c] = "prepare"
  /\ ~Prepared(c)
  /\ Respond(c, "error")
  /\ UNCHANGED <<row, sends, result, breaker, handlerFaults>>

\* Mutant: the handler drops a push that fails validation.
RefusePayload_Drops(c) ==
  /\ step[c] = "prepare"
  /\ ~Prepared(c)
  /\ persistOutcome(c, "failed")
  /\ Finish(c)
  /\ step' = [step EXCEPT ![c] = "none"]
  /\ UNCHANGED <<brokerVars, ghostVars, sends, result, breaker, crashes,
                 handlerFaults>>

\* A push that fails validation is recorded if the database lets it.
RefusePayload(c) ==
  /\ step[c] = "prepare"
  /\ ~Prepared(c)
  /\ \/ persistOutcome(c, "failed") /\ UNCHANGED handlerFaults
     \/ persistFails(c, "failed")
  /\ Respond(c, "error")
  /\ UNCHANGED <<sends, result, breaker>>

\* breaker.Execute: the call is refused, or counted and made.
AskBreaker(c) ==
  /\ step[c] = "prepare"
  /\ Prepared(c)
  /\ IF Open(Refusal(breaker[c]))
     THEN /\ result' = [result EXCEPT ![c] = "circuit_open"]
          /\ Continue(c, "persist")
          /\ UNCHANGED breaker
     ELSE /\ breaker' = [breaker EXCEPT ![c] = Admit(@)]
          /\ Continue(c, "call")
          /\ UNCHANGED result
  /\ UNCHANGED <<row, sends, handlerFaults>>

\* OneSignal's answer as CreateNotification and parseOnesignalResponse read
\* it.  The breaker sees the call's own error only, not a parse error.
CallReturns(c, outcome, success) ==
  /\ step[c] = "call"
  /\ result' = [result EXCEPT ![c] = outcome]
  /\ breaker' = [breaker EXCEPT ![c] = Report(@, success)]
  /\ Continue(c, "persist")
  /\ UNCHANGED row

Accepted(c) == sends' = [sends EXCEPT ![Request(c)] = @ + 1]

CallSucceeds(c) ==
  /\ CallReturns(c, "sent", TRUE)
  /\ Accepted(c)
  /\ UNCHANGED handlerFaults

\* An outage, a time-out on OneSignal's side, a request it refuses, or an
\* answer that reports errors under a status of success.
CallFails(c) ==
  /\ \E success \in BOOLEAN : CallReturns(c, "failed", success)
  /\ UNCHANGED <<sends, handlerFaults>>

\* Accepted, but the connection breaks before the answer arrives.
ReplyLost(c) ==
  /\ HandlerFault("reply")
  /\ CallReturns(c, "failed", FALSE)
  /\ Accepted(c)

\* Accepted, but with a status or a body parseOnesignalResponse rejects.  A
\* body that is not JSON cannot be stored in onesignal_response either.
ReplyGarbled(c) ==
  /\ HandlerFault("garbled")
  /\ \E outcome \in {"failed", "unstorable"} : CallReturns(c, outcome, TRUE)
  /\ Accepted(c)

\* Mutant: only failures are persisted.
Persist_FailuresOnly(c) ==
  /\ step[c] = "persist"
  /\ result' = [result EXCEPT ![c] = "none"]
  /\ IF result[c] \in {"failed", "circuit_open"}
     THEN persistOutcome(c, result[c]) ELSE UNCHANGED row
  /\ Respond(c, IF result[c] = "sent" THEN "nil" ELSE "error")
  /\ UNCHANGED <<sends, breaker, handlerFaults>>

\* Mutant: the provider's error is recorded and swallowed.
Persist_SwallowsError(c) ==
  /\ step[c] = "persist"
  /\ result' = [result EXCEPT ![c] = "none"]
  /\ result[c] # "unstorable"
  /\ persistOutcome(c, result[c])
  /\ Respond(c, "nil")
  /\ UNCHANGED <<sends, breaker, handlerFaults>>

\* Mutant: the outcome is left behind for the next push.
Persist_KeepsResult(c) ==
  /\ step[c] = "persist"
  /\ result[c] # "unstorable"
  /\ persistOutcome(c, result[c])
  /\ Respond(c, IF result[c] = "sent" THEN "nil" ELSE "error")
  /\ UNCHANGED <<sends, result, breaker, handlerFaults>>

Persist(c) ==
  /\ step[c] = "persist"
  /\ result' = [result EXCEPT ![c] = "none"]
  /\ \/ /\ result[c] # "unstorable"
        /\ persistOutcome(c, result[c])
        /\ Respond(c, IF result[c] = "sent" THEN "nil" ELSE "error")
        /\ UNCHANGED handlerFaults
     \/ /\ Respond(c, "error")
        /\ IF result[c] = "unstorable"
           THEN UNCHANGED <<row, handlerFaults>> ELSE persistFails(c, result[c])
  /\ UNCHANGED <<sends, breaker>>

Send(c) ==
  \/ CheckDuplicate(c) \/ CheckFails(c)
  \/ RefusePayload(c)
  \/ AskBreaker(c)
  \/ CallSucceeds(c) \/ CallFails(c) \/ ReplyLost(c) \/ ReplyGarbled(c)
  \/ Persist(c)

-----------------------------------------------------------------------------
(* The rest of the system.                                                 *)

CrashPush(c) ==
  /\ CrashReplica(c)
  /\ result' = [result EXCEPT ![c] = "none"]
  /\ UNCHANGED <<row, overdue, sends>>

\* The clock reaches the send_after of a message.
SendAfterPasses(m) ==
  /\ Scheduled(m)
  /\ m \notin overdue
  /\ overdue' = overdue \union {m}
  /\ UNCHANGED <<vars, handlerVars, row, result, sends>>

Handle(c) ==
  /\ \/ \E d \in inbox[c] : ReceivePush(c, d)
     \/ RefuseMessage(c)
     \/ Send(c)
  /\ UNCHANGED overdue

PushNext ==
  \/ \E c \in Consumers :
       Handle(c) \/ CrashPush(c) \/ (BreakerRests(c) /\ UNCHANGED pushVars)
  \/ \E m \in Messages : SendAfterPasses(m)
  \/ (Around /\ UNCHANGED pushVars)

PushSpec == PushInit /\ [][PushNext]_allVars

\* As in Consumer; OneSignal answers every call, one way or the other.
PushFairness ==
  LET Rest == <<handlerVars, pushVars>> IN
  /\ \A c \in Consumers :
       /\ WF_allVars(Handle(c))
       /\ WF_allVars(Settle(c) /\ UNCHANGED Rest)
       /\ WF_allVars(Start(c) /\ UNCHANGED Rest)
       /\ WF_allVars(BreakerRests(c) /\ UNCHANGED pushVars)
  /\ \A m \in Messages :
       /\ WF_allVars(RetryExpires(m) /\ UNCHANGED Rest)
       /\ WF_allVars((\E c \in Consumers : Deliver(c, m)) /\ UNCHANGED Rest)

FairPushSpec == PushSpec /\ PushFairness

-----------------------------------------------------------------------------
(* Properties.                                                             *)

(***************************************************************************)
(* The push handler is one of the handlers Consumer allows, so all that    *)
(* holds of the loop and its retries holds with this handler inside        *)
(* (push_notification_consumer.go 33-43).                                  *)
(***************************************************************************)
ImplementsConsumer == Spec

\* Every notification published under a request_id can be stored.
StorableRequest(r) ==
  \A m \in Messages :
    RequestOf[m] = r /\ NotificationOf[m] # None => Storable(NotificationOf[m])

(***************************************************************************)
(* OneSignal accepts a request once (push_notification_service.go 71-75,   *)
(* docs/push_notification_integration.md 309).  With one replica each      *)
(* crash, lost answer or failed write causes at most one duplicate, and    *)
(* nothing else any: no redelivery after a lost channel or connection, no  *)
(* failure to park, no retry, and no republished copy.  It is so for the   *)
(* requests whose notifications the table can hold: of another no attempt  *)
(* leaves the row that stops the next one.                                 *)
(***************************************************************************)
DuplicatesAreFaults ==
  \A r \in Requests :
    StorableRequest(r) => sends[r] <= 1 + crashes + handlerFaults

(***************************************************************************)
(* Once recorded as sent a request stays recorded as sent: no later        *)
(* attempt, failing or refused, overwrites the row that protects it from   *)
(* being sent again (the upsert replaces the status unconditionally).      *)
(***************************************************************************)
SentIsFinal ==
  [][\A r \in Requests : row[r] = "sent" => row'[r] = "sent"]_allVars

(***************************************************************************)
(* The queue and the table agree: a message acked after a success belongs  *)
(* to a request recorded as sent and accepted by OneSignal.                *)
(***************************************************************************)
DoneMeansSent ==
  \A m \in done : row[RequestOf[m]] = "sent" /\ sends[RequestOf[m]] >= 1

(***************************************************************************)
(* Every attempt leaves a trace (docs/push_notification_integration.md     *)
(* 320): a push.send event that ends up parked has a row, unless the       *)
(* database failed on the way or refuses the row at every attempt.         *)
(***************************************************************************)
ParkedIsRecorded ==
  \A m \in ParkedMessages :
    NotificationOf[m] # None /\ Storable(NotificationOf[m]) /\ handlerFaults = 0
      => row[RequestOf[m]] # "absent"

(***************************************************************************)
(* Between calls of the replica's one consume loop a half-open breaker     *)
(* always has a trial left, also after parse errors and lost answers: a    *)
(* push is never refused because of trials that ended.                     *)
(***************************************************************************)
TrialAvailable ==
  \A c \in Consumers :
    breaker[c].state = "half-open" /\ step[c] # "call"
      => breaker[c].trials < maxRequests

(***************************************************************************)
(* Every push published is eventually acked as sent or parked, whatever    *)
(* OneSignal, the breaker and the database do.                             *)
(***************************************************************************)
PushEventuallySettled == EventuallySettled

=============================================================================
