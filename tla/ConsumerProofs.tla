--------------------------- MODULE ConsumerProofs ---------------------------
(***************************************************************************)
(* What holds of the consume loop for every number of replicas, messages,  *)
(* retries and faults.                                                     *)
(***************************************************************************)
EXTENDS Consumer, FiniteSetTheorems, TLAPS

-----------------------------------------------------------------------------
(* Type correctness.                                                       *)

\* The type invariant holds initially.
LEMMA TypeInit == Init => TypeOK
BY ConsumerAssumption DEF Init, TypeOK, Deaths, Delivery, Links, Holding, Idle,
  ParkedMessages

\* A negative acknowledgement keeps the types.
LEMMA NackType ==
  ASSUME TypeOK, NEW c \in Consumers, pc[c] \in Holding, Nack(c, cur[c].msg),
         faults' \in Nat
  PROVE  TypeOK'
<1>1. cur[c] \in Delivery
  BY ConsumerAssumption DEF TypeOK
<1>2. cur[c].msg \in Messages /\ xdeath[cur[c].msg] \in Deaths
  BY <1>1 DEF TypeOK, Delivery
<1>3. [xdeath[cur[c].msg] EXCEPT !.rejected = @ + 1] \in Deaths
  BY <1>2 DEF Deaths
<1>4. xdeath' \in [Messages -> Deaths]
  BY <1>2, <1>3 DEF Nack, TypeOK
<1>5. retrying' \in SUBSET Messages
  BY <1>2 DEF Nack, TypeOK
<1>6. QED
  BY <1>4, <1>5 DEF Nack, Finish, TypeOK, Holding, Idle

\* What a consumer has not answered are messages.
LEMMA UnackedType ==
  ASSUME TypeOK, NEW c \in Consumers
  PROVE  Unacked(c) \in SUBSET Messages
BY ConsumerAssumption DEF Unacked, Deliveries, TypeOK, Delivery

\* Every step keeps the types.
LEMMA TypeStep == TypeOK /\ [Next]_vars => TypeOK'
<1> SUFFICES ASSUME TypeOK, [Next]_vars PROVE TypeOK'
  OBVIOUS
<1> USE DEF brokerVars, replicaVars, ghostVars
<1>1. ASSUME NEW c \in Consumers, DeclareRetryTopology(c) PROVE TypeOK'
  <2>1. topology' \in SUBSET (Parts \union RetryKeys)
    BY <1>1 DEF DeclareRetryTopology, TypeOK, RetryParts
  <2>2. faults' \in Nat
    BY <1>1 DEF DeclareRetryTopology, TypeOK, Fault
  <2>3. QED
    BY <1>1, <2>1, <2>2 DEF DeclareRetryTopology, TypeOK, Holding, Idle
<1>2. ASSUME NEW c \in Consumers, Subscribe(c) PROVE TypeOK'
  BY <1>2 DEF Subscribe, TypeOK, Parts, Links, Holding, Idle
<1>3. ASSUME NEW c \in Consumers, SubscribeFails(c) PROVE TypeOK'
  <2>1. topology' \in SUBSET (Parts \union RetryKeys)
    BY <1>3 DEF SubscribeFails, TypeOK, Parts
  <2>2. faults' \in Nat
    BY <1>3 DEF SubscribeFails, TypeOK, Fault
  <2>3. QED
    BY <1>3, <2>1, <2>2 DEF SubscribeFails, TypeOK, Holding, Idle
<1>4. ASSUME NEW m \in Messages, Publish(m) PROVE TypeOK'
  BY <1>4 DEF Publish, TypeOK
<1>5. ASSUME NEW c \in Consumers, NEW m \in Messages, Deliver(c, m) PROVE TypeOK'
  BY <1>5 DEF Deliver, TypeOK, Delivery
<1>6. ASSUME NEW m \in Messages, RetryExpires(m) PROVE TypeOK'
  BY <1>6 DEF RetryExpires, TypeOK, Deaths
<1>7. ASSUME NEW c \in Consumers, NEW d \in inbox[c], Receive(c, d) PROVE TypeOK'
  BY <1>7, ConsumerAssumption DEF Receive, TypeOK, Delivery, Holding, Idle, Deaths
<1>8. ASSUME NEW c \in Consumers, NEW o \in {"succeeded", "failed"},
             HandlerReturns(c, o)
      PROVE  TypeOK'
  BY <1>8 DEF HandlerReturns, TypeOK, Holding, Idle
<1>9. ASSUME NEW c \in Consumers, AckSuccess(c) PROVE TypeOK'
  BY <1>9, ConsumerAssumption DEF AckSuccess, Finish, TypeOK, Delivery, Holding, Idle
<1>10. ASSUME NEW c \in Consumers, Reject(c) PROVE TypeOK'
  BY <1>10, NackType DEF Reject, TypeOK, Holding
<1>11. ASSUME NEW c \in Consumers, Park(c) PROVE TypeOK'
  BY <1>11, ConsumerAssumption DEF Park, TypeOK, Delivery, Holding, Idle
<1>12. ASSUME NEW c \in Consumers, ParkFails(c) PROVE TypeOK'
  BY <1>12, NackType DEF ParkFails, Fault, TypeOK, Holding
<1>13. ASSUME NEW c \in Consumers, AckParked(c) PROVE TypeOK'
  BY <1>13 DEF AckParked, Finish, TypeOK, Holding, Idle
<1>14. ASSUME NEW c \in Consumers, ConsumerStops(c) PROVE TypeOK'
  BY <1>14 DEF ConsumerStops, TypeOK, Holding, Idle
<1>15. ASSUME NEW c \in Consumers, ChannelLost(c) PROVE TypeOK'
  BY <1>15, UnackedType DEF ChannelLost, TypeOK, Fault, Links
<1>16. ASSUME NEW c \in Consumers, ConnectionLost(c) PROVE TypeOK'
  BY <1>16, UnackedType DEF ConnectionLost, TypeOK, Fault, Links
<1>17. ASSUME NEW c \in Consumers, Crash(c) PROVE TypeOK'
  BY <1>17, UnackedType DEF Crash, TypeOK, Fault, Links, Holding, Idle
<1>18. ASSUME BrokerRestart PROVE TypeOK'
  <2>1. InFlight \in SUBSET Messages
    BY UnackedType DEF InFlight, TypeOK
  <2>2. QED
    BY <1>18, <2>1 DEF BrokerRestart, TypeOK, Fault, Links
<1>19. CASE UNCHANGED vars
  BY <1>19 DEF vars, TypeOK
<1> QED
  BY <1>1, <1>2, <1>3, <1>4, <1>5, <1>6, <1>7, <1>8, <1>9, <1>10, <1>11, <1>12,
     <1>13, <1>14, <1>15, <1>16, <1>17, <1>18, <1>19
  DEF Next, Loop, Start, Failure, Queue

\* Type correctness: the loop never works without a delivery, nor keeps one
\* or a buffer it has no open channel for when it is not running.
THEOREM TypeCorrect == Spec => []TypeOK
<1>1. Init => TypeOK
  BY TypeInit
<1>2. TypeOK /\ [Next]_vars => TypeOK'
  BY TypeStep
<1>3. QED
  BY <1>1, <1>2, PTL DEF Spec

-----------------------------------------------------------------------------
(* Custody.                                                                *)

\* A consumer whose handler state and buffer are untouched answers for the
\* same messages.
LEMMA UnackedSame ==
  ASSUME NEW c, link'[c] = link[c], pc'[c] = pc[c], inbox'[c] = inbox[c],
         cur'[c] = cur[c]
  PROVE  Unacked(c)' = Unacked(c)
BY DEF Unacked, Deliveries

\* Without an open channel a consumer answers for nothing.
LEMMA UnackedClosed ==
  ASSUME NEW c, link'[c] # "open"
  PROVE  Unacked(c)' = {}
BY DEF Unacked

\* The steps that leave the ownership of every message as it is.
Quiet ==
  /\ UNCHANGED <<ready, retrying, done, published>>
  /\ \A c \in Consumers : Unacked(c)' = Unacked(c)

\* A consumer gets one more message to answer for.
LEMMA DeliverEffect ==
  ASSUME TypeOK, NEW c \in Consumers, NEW m \in Messages, Deliver(c, m)
  PROVE  /\ Unacked(c)' = Unacked(c) \union {m}
         /\ \A k \in Consumers \ {c} : Unacked(k)' = Unacked(k)
<1>1. ASSUME NEW k \in Consumers \ {c} PROVE Unacked(k)' = Unacked(k)
  BY <1>1, UnackedSame DEF Deliver, TypeOK
<1>2. /\ link[c] = "open" /\ link' = link /\ pc' = pc /\ cur' = cur
      /\ inbox'[c] = inbox[c] \union {[msg |-> m, deaths |-> xdeath[m]]}
  BY DEF Deliver, TypeOK
<1>3. PICK x : /\ x.msg = m
               /\ inbox'[c] = inbox[c] \union {x}
  BY <1>2
<1>4. Unacked(c)' = Unacked(c) \union {m}
  <2>1. Deliveries(c)' = Deliveries(c) \union {x}
    BY <1>2, <1>3 DEF Deliveries
  <2>2. QED
    BY <1>2, <1>3, <2>1 DEF Unacked
<1>5. QED
  BY <1>1, <1>4

\* On an open channel, two deliveries are of two messages.
Distinct ==
  \A c \in Consumers : link[c] = "open" =>
    /\ \A d, e \in inbox[c] : d.msg = e.msg => d = e
    /\ pc[c] \in Holding => \A d \in inbox[c] : d.msg # cur[c].msg

\* The loop is done with its delivery: that message is no longer its own.
LEMMA FinishEffect ==
  ASSUME TypeOK, Distinct, NEW c \in Consumers, pc[c] \in Holding, Finish(c)
  PROVE  /\ cur[c].msg \in Messages
         /\ link[c] = "open" => cur[c].msg \in Unacked(c)
         /\ link[c] = "open" => Unacked(c)' = Unacked(c) \ {cur[c].msg}
         /\ link[c] # "open" => Unacked(c)' = Unacked(c)
         /\ \A k \in Consumers \ {c} : Unacked(k)' = Unacked(k)
<1>1. cur[c].msg \in Messages
  BY ConsumerAssumption DEF TypeOK, Delivery
<1>2. link[c] = "open" => cur[c].msg \in Unacked(c)
  BY DEF Unacked, Deliveries
<1>3. link' = link /\ inbox' = inbox /\ pc'[c] = "idle"
  BY DEF Finish, TypeOK
<1>4. Deliveries(c)' = inbox[c]
  BY <1>3 DEF Deliveries, Holding
<1>5. ASSUME link[c] = "open" PROVE Unacked(c)' = Unacked(c) \ {cur[c].msg}
  BY <1>3, <1>4, <1>5 DEF Unacked, Deliveries, Distinct
<1>6. link[c] # "open" => Unacked(c)' = Unacked(c)
  BY <1>3 DEF Unacked
<1>7. ASSUME NEW k \in Consumers \ {c} PROVE Unacked(k)' = Unacked(k)
  BY <1>7, UnackedSame DEF Finish, TypeOK
<1>8. QED
  BY <1>1, <1>2, <1>5, <1>6, <1>7

\* What the consumers and the queues hold is held once, and was published.
Custody ==
  /\ OneCustodian
  /\ Distinct
  /\ InFlight \union done \subseteq published

\* Starting, handling and stopping move no message.
LEMMA QuietSteps ==
  ASSUME TypeOK, Distinct, NEW c \in Consumers,
         \/ Start(c)
         \/ \E d \in inbox[c] : Receive(c, d)
         \/ \E o \in {"succeeded", "failed"} : HandlerReturns(c, o)
         \/ Park(c)
         \/ ConsumerStops(c)
  PROVE  Quiet /\ Distinct'
<1>1. UNCHANGED <<ready, retrying, done, published>>
  BY DEF Start, DeclareRetryTopology, Subscribe, SubscribeFails, Receive,
    HandlerReturns, Park, ConsumerStops, brokerVars, ghostVars
<1>2. ASSUME NEW k \in Consumers \ {c}
      PROVE  /\ link'[k] = link[k] /\ pc'[k] = pc[k]
             /\ inbox'[k] = inbox[k] /\ cur'[k] = cur[k]
  BY <1>2 DEF Start, DeclareRetryTopology, Subscribe, SubscribeFails, Receive,
    HandlerReturns, Park, ConsumerStops, TypeOK
<1>3. CASE Start(c)
  <2>1. Unacked(c) = {} /\ inbox'[c] = {} /\ pc'[c] \notin Holding
    BY <1>3 DEF Start, DeclareRetryTopology, Subscribe, SubscribeFails, TypeOK,
      Unacked, Holding, Idle
  <2>2. QED
    BY <1>1, <1>2, <2>1, UnackedSame DEF Quiet, Distinct, Unacked, Deliveries
<1>4. ASSUME NEW d \in inbox[c], Receive(c, d) PROVE Quiet /\ Distinct'
  <2>1. /\ link' = link /\ pc'[c] \in Holding /\ pc[c] \notin Holding
        /\ inbox'[c] = inbox[c] \ {d} /\ cur'[c] = d
    BY <1>4 DEF Receive, TypeOK, Holding
  <2>2. Deliveries(c)' = Deliveries(c)
    BY <1>4, <2>1 DEF Deliveries
  <2>3. Unacked(c)' = Unacked(c)
    BY <2>1, <2>2 DEF Unacked
  <2>4. QED
    BY <1>1, <1>2, <1>4, <2>1, <2>3, UnackedSame DEF Quiet, Distinct
<1>5. CASE (\E o \in {"succeeded", "failed"} : HandlerReturns(c, o)) \/ Park(c)
  <2>1. /\ link' = link /\ inbox' = inbox /\ cur' = cur
        /\ pc[c] \in Holding /\ pc'[c] \in Holding
    BY <1>5 DEF HandlerReturns, Park, TypeOK, Holding
  <2>2. Unacked(c)' = Unacked(c)
    BY <2>1 DEF Unacked, Deliveries
  <2>3. QED
    BY <1>1, <1>2, <2>1, <2>2, UnackedSame DEF Quiet, Distinct
<1>6. CASE ConsumerStops(c)
  <2>1. link' = link /\ link[c] # "open"
    BY <1>6 DEF ConsumerStops
  <2>2. QED
    BY <1>1, <1>2, <2>1, UnackedSame DEF Quiet, Distinct, Unacked
<1>7. QED
  BY <1>3, <1>4, <1>5, <1>6

\* Publishing and expiring, which touch no consumer.
LEMMA QueueEffect ==
  ASSUME UNCHANGED replicaVars
  PROVE  /\ \A c \in Consumers : Unacked(c)' = Unacked(c)
         /\ Distinct => Distinct'
BY UnackedSame DEF replicaVars, Distinct

\* Custody of the messages one consumer lets go of: a success, a retry, or
\* the end of the message.
LEMMA LetGo ==
  ASSUME Custody, NEW c \in Consumers, NEW m, m \in Unacked(c),
         Unacked(c)' = Unacked(c) \ {m},
         \A k \in Consumers \ {c} : Unacked(k)' = Unacked(k),
         ready' = ready, published' = published, Distinct',
         \/ retrying' = retrying /\ done' = done \union {m}
         \/ retrying' = retrying \union {m} /\ done' = done
         \/ retrying' = retrying /\ done' = done
  PROVE  Custody'
<1>1. m \notin ready \union retrying \union done /\ m \in published
  BY DEF Custody, OneCustodian, InFlight
<1>2. \A k \in Consumers : Unacked(k)' \subseteq Unacked(k) /\ m \notin Unacked(k)'
  BY DEF Custody, OneCustodian
<1>3. OneCustodian'
  BY <1>1, <1>2 DEF Custody, OneCustodian, InFlight
<1>4. (InFlight \union done \subseteq published)'
  BY <1>1, <1>2 DEF Custody, InFlight
<1>5. QED
  BY <1>3, <1>4 DEF Custody

\* A lost channel gives all its messages back to the queue.
LEMMA Requeue ==
  ASSUME Custody, NEW c \in Consumers,
         ready' = ready \union Unacked(c), Unacked(c)' = {},
         \A k \in Consumers \ {c} : Unacked(k)' = Unacked(k),
         UNCHANGED <<retrying, done, published>>, Distinct'
  PROVE  Custody'
<1>1. OneCustodian'
  BY DEF Custody, OneCustodian, InFlight
<1>2. (InFlight \union done \subseteq published)'
  BY DEF Custody, InFlight
<1>3. QED
  BY <1>1, <1>2 DEF Custody

\* A step that moves no message keeps custody.
LEMMA QuietCustody == Custody /\ Quiet /\ Distinct' => Custody'
BY DEF Custody, Quiet, OneCustodian, InFlight

\* A negative acknowledgement: the message is retried or gone.
LEMMA NackCustody ==
  ASSUME TypeOK, Custody, NEW c \in Consumers, pc[c] \in Holding,
         Nack(c, cur[c].msg)
  PROVE  Custody'
<1>1. Distinct'
  BY DEF Nack, Finish, Distinct, Custody, TypeOK, Holding
<1>2. ready' = ready /\ done' = done /\ published' = published
  BY DEF Nack
<1>3. Finish(c)
  BY DEF Nack
<1>4. CASE link[c] = "open"
  <2>1. retrying' = retrying \union {cur[c].msg} \/ retrying' = retrying
    BY DEF Nack
  <2>2. QED
    BY <1>1, <1>2, <1>3, <1>4, <2>1, FinishEffect, LetGo DEF Custody
<1>5. CASE link[c] # "open"
  <2>1. retrying' = retrying
    BY <1>5 DEF Nack
  <2>2. QED
    BY <1>1, <1>2, <1>3, <1>5, <2>1, FinishEffect, QuietCustody DEF Custody, Quiet
<1>6. QED
  BY <1>4, <1>5

\* An acknowledgement, after a success or after parking.
LEMMA AckCustody ==
  ASSUME TypeOK, Custody, NEW c \in Consumers, AckSuccess(c) \/ AckParked(c)
  PROVE  Custody'
<1>1. pc[c] \in Holding /\ Finish(c)
  BY DEF AckSuccess, AckParked, Holding
<1>2. Distinct'
  BY <1>1 DEF Finish, Distinct, Custody, TypeOK, Holding
<1>3. UNCHANGED <<ready, retrying, published>>
  BY DEF AckSuccess, AckParked, brokerVars, ghostVars
<1>4. CASE link[c] = "open"
  <2>1. done' = done \union {cur[c].msg} \/ done' = done
    BY DEF AckSuccess, AckParked, ghostVars
  <2>2. QED
    BY <1>1, <1>2, <1>3, <1>4, <2>1, FinishEffect, LetGo DEF Custody
<1>5. CASE link[c] # "open"
  <2>1. done' = done
    BY <1>5 DEF AckSuccess, AckParked, ghostVars
  <2>2. QED
    BY <1>1, <1>2, <1>3, <1>5, <2>1, FinishEffect, QuietCustody DEF Custody, Quiet
<1>6. QED
  BY <1>4, <1>5

\* A lost channel, a lost connection and a crash.
LEMMA FailureCustody ==
  ASSUME TypeOK, Custody, NEW c \in Consumers, Failure(c)
  PROVE  Custody'
<1>1. link'[c] # "open"
  BY DEF Failure, ChannelLost, ConnectionLost, Crash, TypeOK
<1>2. ASSUME NEW k \in Consumers \ {c}
      PROVE  /\ link'[k] = link[k] /\ pc'[k] = pc[k]
             /\ inbox'[k] = inbox[k] /\ cur'[k] = cur[k]
  BY <1>2 DEF Failure, ChannelLost, ConnectionLost, Crash, TypeOK
<1>3. Distinct'
  BY <1>1, <1>2 DEF Distinct, Custody
<1>4. /\ ready' = ready \union Unacked(c)
      /\ UNCHANGED <<retrying, done, published>>
  BY DEF Failure, ChannelLost, ConnectionLost, Crash
<1>5. Unacked(c)' = {}
  BY <1>1, UnackedClosed
<1>6. \A k \in Consumers \ {c} : Unacked(k)' = Unacked(k)
  BY <1>2, UnackedSame
<1>7. QED
  BY <1>3, <1>4, <1>5, <1>6, Requeue

\* A broker restart: every message that was in flight waits in a queue.
LEMMA BrokerCustody ==
  ASSUME TypeOK, Custody, BrokerRestart
  PROVE  Custody' /\ InFlight' = InFlight
<1>1. \A c \in Consumers : link'[c] # "open"
  BY DEF BrokerRestart
<1>2. \A c \in Consumers : Unacked(c)' = {}
  BY <1>1, UnackedClosed
<1>3. ready' = InFlight \ retrying /\ UNCHANGED <<retrying, done, published>>
  BY DEF BrokerRestart
<1>4. InFlight' = InFlight
  BY <1>2, <1>3 DEF InFlight
<1>5. OneCustodian'
  BY <1>2, <1>3, <1>4 DEF Custody, OneCustodian
<1>6. QED
  BY <1>1, <1>3, <1>4, <1>5 DEF Custody, Distinct

\* Publishing, delivering and expiring.
LEMMA QueueCustody ==
  ASSUME TypeOK, Custody, NEW m \in Messages,
         Publish(m) \/ RetryExpires(m) \/ \E c \in Consumers : Deliver(c, m)
  PROVE  Custody'
<1>1. CASE Publish(m)
  <2>1. m \notin InFlight \union done
    BY <1>1 DEF Publish, Custody
  <2>2. QED
    BY <1>1, <2>1, QueueEffect DEF Publish, Custody, OneCustodian, InFlight
<1>2. CASE RetryExpires(m)
  BY <1>2, QueueEffect DEF RetryExpires, ghostVars, Custody, OneCustodian, InFlight
<1>3. ASSUME NEW c \in Consumers, Deliver(c, m) PROVE Custody'
  <2>1. /\ Unacked(c)' = Unacked(c) \union {m}
        /\ \A k \in Consumers \ {c} : Unacked(k)' = Unacked(k)
    BY <1>3, DeliverEffect
  <2>2. /\ m \in ready /\ ready' = ready \ {m}
        /\ UNCHANGED <<retrying, done, published>>
    BY <1>3 DEF Deliver, ghostVars
  <2>3. OneCustodian'
    BY <2>1, <2>2 DEF Custody, OneCustodian, InFlight
  <2>4. (InFlight \union done \subseteq published)'
    BY <2>1, <2>2 DEF Custody, InFlight
  <2>5. Distinct'
    <3>1. m \notin Unacked(c) /\ link[c] = "open"
      BY <1>3, <2>2 DEF Custody, OneCustodian, Deliver
    <3>2. /\ \A d \in inbox[c] : d.msg # m
          /\ pc[c] \in Holding => cur[c].msg # m
      BY <3>1 DEF Unacked, Deliveries
    <3>3. PICK x : x.msg = m /\ inbox' = [inbox EXCEPT ![c] = @ \union {x}]
      BY <1>3 DEF Deliver
    <3>4. QED
      BY <1>3, <3>2, <3>3 DEF Deliver, Distinct, Custody, TypeOK
  <2>6. QED
    BY <2>3, <2>4, <2>5 DEF Custody
<1>4. QED
  BY <1>1, <1>2, <1>3

\* Every step keeps custody.
LEMMA CustodyStep == TypeOK /\ Custody /\ [Next]_vars => Custody'
<1> SUFFICES ASSUME TypeOK, Custody, [Next]_vars PROVE Custody'
  OBVIOUS
<1>1. ASSUME NEW c \in Consumers, Start(c) PROVE Custody'
  BY <1>1, QuietSteps, QuietCustody DEF Custody
<1>2. ASSUME NEW c \in Consumers, Loop(c) PROVE Custody'
  <2>1. CASE AckSuccess(c) \/ AckParked(c)
    BY <2>1, AckCustody
  <2>2. CASE Reject(c) \/ ParkFails(c)
    BY <2>2, NackCustody DEF Reject, ParkFails, Holding
  <2>3. CASE \/ \E d \in inbox[c] : Receive(c, d)
             \/ \E o \in {"succeeded", "failed"} : HandlerReturns(c, o)
             \/ Park(c)
             \/ ConsumerStops(c)
    BY <2>3, QuietSteps, QuietCustody DEF Custody
  <2>4. QED
    BY <1>2, <2>1, <2>2, <2>3 DEF Loop
<1>3. ASSUME NEW c \in Consumers, Failure(c) PROVE Custody'
  BY <1>3, FailureCustody
<1>4. CASE Queue
  BY <1>4, QueueCustody DEF Queue
<1>5. CASE BrokerRestart
  BY <1>5, BrokerCustody
<1>6. CASE UNCHANGED vars
  BY <1>6, QuietCustody, UnackedSame DEF vars, brokerVars, replicaVars, ghostVars,
    Quiet, Custody, Distinct
<1>7. QED
  BY <1>1, <1>2, <1>3, <1>4, <1>5, <1>6 DEF Next

\* Custody holds initially.
LEMMA CustodyInit == Init => Custody
BY DEF Init, Custody, OneCustodian, Distinct, InFlight, Unacked

\* One custodian, for any number of replicas, messages and faults: the broker
\* and the replicas never hold a message twice, and never a finished one.
THEOREM OneCustodianAlways == Spec => []OneCustodian
<1>1. Init => TypeOK /\ Custody
  BY TypeInit, CustodyInit
<1>2. TypeOK /\ Custody /\ [Next]_vars => (TypeOK /\ Custody)'
  BY TypeStep, CustodyStep
<1>3. Custody => OneCustodian
  BY DEF Custody
<1>4. QED
  BY <1>1, <1>2, <1>3, PTL DEF Spec

-----------------------------------------------------------------------------
(* The parked queue is never reached early.                                *)

\* Each rejection that is counted, by the broker or in a header a consumer
\* holds, was paid for by a handler call; and the header of a delivery that
\* can still be rejected is as the broker has it.
Paid ==
  /\ \A m \in Messages : attempts[m] >= xdeath[m].rejected
  /\ \A c \in Consumers : \A d \in inbox[c] :
       /\ attempts[d.msg] >= d.deaths.rejected
       /\ link[c] = "open" => d.deaths.rejected = xdeath[d.msg].rejected
  /\ \A c \in Consumers : pc[c] \in Holding =>
       /\ attempts[cur[c].msg] >= cur[c].deaths.rejected + 1
       /\ link[c] = "open" =>
            cur[c].deaths.rejected = xdeath[cur[c].msg].rejected
  /\ NeverParkedEarly

\* The messages and counts of a typed delivery.
LEMMA DeliveryType ==
  ASSUME NEW d \in Delivery
  PROVE  d.msg \in Messages /\ d.deaths.rejected \in Nat /\ d.deaths.expired \in Nat
BY DEF Delivery, Deaths

\* A step that calls no handler, parks nothing and counts no death, and gives
\* no consumer a delivery or a channel, keeps Paid.
LEMMA PaidFrame ==
  ASSUME TypeOK, Paid, UNCHANGED <<xdeath, attempts>>,
         \A m \in Messages : parked'[m] > 0 => parked[m] > 0,
         \A c \in Consumers :
           /\ inbox'[c] \subseteq inbox[c]
           /\ link'[c] = "open" => link[c] = "open" \/ inbox'[c] = {}
           /\ pc'[c] \in Holding =>
                /\ pc[c] \in Holding /\ cur'[c] = cur[c]
                /\ link'[c] = "open" => link[c] = "open"
  PROVE  Paid'
BY DEF Paid, NeverParkedEarly

\* A negative acknowledgement counts a death of a message that nobody else
\* on an open channel holds.
LEMMA PaidNack ==
  ASSUME TypeOK, Custody, Paid, NEW c \in Consumers, pc[c] \in Holding,
         Nack(c, cur[c].msg)
  PROVE  Paid'
<1> DEFINE m == cur[c].msg
<1>1. m \in Messages
  BY ConsumerAssumption, DeliveryType DEF TypeOK
<1>2. /\ pc' = [pc EXCEPT ![c] = "idle"] /\ link' = link /\ inbox' = inbox
      /\ cur' = [cur EXCEPT ![c] = None]
      /\ attempts' = attempts /\ parked' = parked
  BY DEF Nack, Finish
<1>3. CASE link[c] = "open" /\ DeadLetterExchange
  <2>1. /\ xdeath'[m].rejected = xdeath[m].rejected + 1
        /\ \A k \in Messages \ {m} : xdeath'[k] = xdeath[k]
    BY <1>1, <1>3 DEF Nack, TypeOK, Deaths
  <2>2. attempts[m] >= xdeath[m].rejected + 1
    BY <1>1, <1>3 DEF Paid
  <2>3. \A k \in Messages : attempts'[k] >= xdeath'[k].rejected
    BY <1>2, <2>1, <2>2 DEF Paid
  <2>4. \A k \in Consumers : link[k] = "open" =>
          /\ \A d \in inbox[k] : d.msg # m
          /\ k # c /\ pc[k] \in Holding => cur[k].msg # m
    <3>1. m \in Unacked(c)
      BY <1>3 DEF Unacked, Deliveries
    <3>2. \A d \in inbox[c] : d.msg # m
      BY <1>3 DEF Custody, Distinct
    <3>3. ASSUME NEW k \in Consumers \ {c}, link[k] = "open"
          PROVE  m \notin {d.msg : d \in Deliveries(k)}
      BY <3>1, <3>3 DEF Custody, OneCustodian, Unacked
    <3>4. QED
      BY <3>2, <3>3 DEF Deliveries
  <2>5. ASSUME NEW k \in Consumers, NEW d \in inbox'[k]
        PROVE  /\ attempts'[d.msg] >= d.deaths.rejected
               /\ link'[k] = "open" => d.deaths.rejected = xdeath'[d.msg].rejected
    <3>1. d \in inbox[k] /\ d.msg \in Messages
      BY <1>2, <2>5, DeliveryType DEF TypeOK
    <3>2. QED
      BY <1>2, <2>1, <2>4, <3>1 DEF Paid
  <2>6. ASSUME NEW k \in Consumers, pc'[k] \in Holding
        PROVE  /\ attempts'[cur'[k].msg] >= cur'[k].deaths.rejected + 1
               /\ link'[k] = "open" =>
                    cur'[k].deaths.rejected = xdeath'[cur'[k].msg].rejected
    <3>1. k # c /\ pc[k] \in Holding /\ cur'[k] = cur[k]
      BY <1>2, <2>6 DEF TypeOK, Holding
    <3>2. cur[k].msg \in Messages
      BY <3>1, ConsumerAssumption, DeliveryType DEF TypeOK
    <3>3. QED
      BY <1>2, <2>1, <2>4, <3>1, <3>2 DEF Paid
  <2>7. QED
    BY <1>2, <2>3, <2>5, <2>6 DEF Paid, NeverParkedEarly
<1>4. CASE ~(link[c] = "open" /\ DeadLetterExchange)
  <2>1. xdeath' = xdeath
    BY <1>4 DEF Nack
  <2>2. QED
    BY <1>2, <2>1, PaidFrame DEF TypeOK, Holding
<1>5. QED
  BY <1>3, <1>4

\* A handler call pays for one more rejection.
LEMMA PaidReceive ==
  ASSUME TypeOK, Paid, NEW c \in Consumers, NEW d \in inbox[c], Receive(c, d)
  PROVE  Paid'
<1>1. d \in Delivery /\ d.msg \in Messages /\ d.deaths.rejected \in Nat
  BY DeliveryType DEF TypeOK
<1>2. /\ attempts' = [attempts EXCEPT ![d.msg] = @ + 1]
      /\ xdeath' = xdeath /\ parked' = parked /\ link' = link
      /\ cur' = [cur EXCEPT ![c] = d] /\ pc' = [pc EXCEPT ![c] = "handling"]
      /\ inbox' = [inbox EXCEPT ![c] = @ \ {d}]
  BY DEF Receive, brokerVars
<1>3. \A m \in Messages : /\ attempts[m] \in Nat /\ attempts'[m] >= attempts[m]
                         /\ xdeath[m].rejected \in Nat
  BY <1>1, <1>2 DEF TypeOK, Deaths
<1>4. attempts'[d.msg] = attempts[d.msg] + 1
  BY <1>1, <1>2 DEF TypeOK
<1>5. \A m \in Messages : attempts'[m] >= xdeath'[m].rejected
  BY <1>2, <1>3 DEF Paid, TypeOK
<1>6. ASSUME NEW k \in Consumers, NEW e \in inbox'[k]
      PROVE  /\ attempts'[e.msg] >= e.deaths.rejected
             /\ link'[k] = "open" => e.deaths.rejected = xdeath'[e.msg].rejected
  <2>1. e \in inbox[k] /\ e.msg \in Messages /\ e.deaths.rejected \in Nat
    BY <1>2, <1>6, DeliveryType DEF TypeOK
  <2>2. QED
    BY <1>2, <1>3, <2>1 DEF Paid, TypeOK
<1>7. ASSUME NEW k \in Consumers, pc'[k] \in Holding
      PROVE  /\ attempts'[cur'[k].msg] >= cur'[k].deaths.rejected + 1
             /\ link'[k] = "open" =>
                  cur'[k].deaths.rejected = xdeath'[cur'[k].msg].rejected
  <2>1. CASE k = c
    <3>1. cur'[k] = d
      BY <1>2, <2>1 DEF TypeOK
    <3>2. /\ attempts[d.msg] >= d.deaths.rejected
          /\ link[c] = "open" => d.deaths.rejected = xdeath[d.msg].rejected
      BY DEF Paid
    <3>3. QED
      BY <1>1, <1>2, <1>3, <1>4, <2>1, <3>1, <3>2
  <2>2. CASE k # c
    <3>1. pc[k] \in Holding /\ cur'[k] = cur[k]
      BY <1>2, <1>7, <2>2 DEF TypeOK
    <3>2. cur[k].msg \in Messages /\ cur[k].deaths.rejected \in Nat
      BY <3>1, ConsumerAssumption, DeliveryType DEF TypeOK
    <3>3. QED
      BY <1>2, <1>3, <3>1, <3>2 DEF Paid
  <2>3. QED
    BY <2>1, <2>2
<1>8. NeverParkedEarly'
  BY <1>2, <1>3, ConsumerAssumption DEF Paid, NeverParkedEarly, TypeOK
<1>9. QED
  BY <1>5, <1>6, <1>7, <1>8 DEF Paid

\* Only a message that was rejected often enough, and handled once more, is
\* parked.
LEMMA PaidPark ==
  ASSUME TypeOK, Paid, NEW c \in Consumers, Park(c)
  PROVE  Paid'
<1>1. pc[c] \in Holding /\ cur[c] \in Delivery
  BY ConsumerAssumption DEF Park, TypeOK, Holding
<1>2. attempts[cur[c].msg] >= MaxRetryAttempts + 1
  <2>1. cur[c].deaths.rejected >= MaxRetryAttempts
    BY DEF Park, Exhausted, deathCount
  <2>2. attempts[cur[c].msg] >= cur[c].deaths.rejected + 1
    BY <1>1 DEF Paid
  <2>3. cur[c].msg \in Messages /\ cur[c].deaths.rejected \in Nat
    BY <1>1, DeliveryType
  <2>4. QED
    BY <2>1, <2>2, <2>3, ConsumerAssumption DEF TypeOK
<1>3. /\ UNCHANGED <<xdeath, link, inbox, cur, attempts>>
      /\ pc' = [pc EXCEPT ![c] = "parked"]
      /\ \A m \in Messages : m # cur[c].msg => parked'[m] = parked[m]
  BY DEF Park, ghostVars, TypeOK
<1>4. NeverParkedEarly'
  BY <1>2, <1>3 DEF Paid, NeverParkedEarly
<1>5. \A k \in Consumers : pc'[k] \in Holding => pc[k] \in Holding
  BY <1>1, <1>3 DEF TypeOK
<1>6. QED
  BY <1>3, <1>4, <1>5 DEF Paid

\* Every step keeps the account of rejections and handler calls.
LEMMA PaidStep == TypeOK /\ Custody /\ Paid /\ [Next]_vars => Paid'
<1> SUFFICES ASSUME TypeOK, Custody, Paid, [Next]_vars PROVE Paid'
  OBVIOUS
<1> USE DEF brokerVars, replicaVars, ghostVars
<1>1. ASSUME NEW c \in Consumers, Start(c) PROVE Paid'
  BY <1>1, PaidFrame DEF Start, DeclareRetryTopology, Subscribe, SubscribeFails,
    TypeOK, Holding, Idle
<1>2. ASSUME NEW c \in Consumers, Loop(c) PROVE Paid'
  <2>1. ASSUME NEW o \in {"succeeded", "failed"}, HandlerReturns(c, o) PROVE Paid'
    BY <2>1, PaidFrame DEF HandlerReturns, TypeOK, Holding
  <2>2. CASE AckSuccess(c) \/ AckParked(c)
    BY <2>2, PaidFrame DEF AckSuccess, AckParked, Finish, TypeOK, Holding
  <2>3. CASE Reject(c) \/ ParkFails(c)
    BY <2>3, PaidNack DEF Reject, ParkFails, Holding
  <2>4. CASE ConsumerStops(c)
    BY <2>4, PaidFrame DEF ConsumerStops, TypeOK, Holding
  <2>5. QED
    BY <1>2, <2>1, <2>2, <2>3, <2>4, PaidReceive, PaidPark DEF Loop
<1>3. ASSUME NEW c \in Consumers, Failure(c) PROVE Paid'
  BY <1>3, PaidFrame DEF Failure, ChannelLost, ConnectionLost, Crash, TypeOK, Holding
<1>4. ASSUME NEW m \in Messages, Publish(m) PROVE Paid'
  BY <1>4, PaidFrame DEF Publish
<1>5. ASSUME NEW m \in Messages, RetryExpires(m) PROVE Paid'
  <2>1. \A k \in Messages : xdeath'[k].rejected = xdeath[k].rejected
    BY <1>5 DEF RetryExpires, TypeOK, Deaths
  <2>2. /\ \A c \in Consumers : \A d \in inbox[c] : d.msg \in Messages
        /\ \A c \in Consumers : pc[c] \in Holding => cur[c].msg \in Messages
    BY ConsumerAssumption, DeliveryType DEF TypeOK
  <2>3. QED
    BY <1>5, <2>1, <2>2 DEF RetryExpires, Paid, NeverParkedEarly
<1>6. ASSUME NEW c \in Consumers, NEW m \in Messages, Deliver(c, m) PROVE Paid'
  <2>1. PICK x : /\ x.msg = m /\ x.deaths.rejected = xdeath[m].rejected
                 /\ inbox' = [inbox EXCEPT ![c] = @ \union {x}]
    BY <1>6 DEF Deliver
  <2>2. QED
    BY <1>6, <2>1 DEF Deliver, Paid, NeverParkedEarly, TypeOK
<1>7. CASE BrokerRestart
  BY <1>7, PaidFrame DEF BrokerRestart
<1>8. CASE UNCHANGED vars
  BY <1>8 DEF vars, Paid, NeverParkedEarly
<1>9. QED
  BY <1>1, <1>2, <1>3, <1>4, <1>5, <1>6, <1>7, <1>8 DEF Next, Queue

\* Nothing is owed initially.
LEMMA PaidInit == Init => Paid
BY ConsumerAssumption DEF Init, Paid, NeverParkedEarly, Holding

\* No message is parked before the handler failed on it MaxRetryAttempts + 1
\* times, for any interleaving of retries, redeliveries and faults.
THEOREM NeverParkedEarlyAlways == Spec => []NeverParkedEarly
<1>1. Init => TypeOK /\ Custody /\ Paid
  BY TypeInit, CustodyInit, PaidInit
<1>2. TypeOK /\ Custody /\ Paid /\ [Next]_vars => (TypeOK /\ Custody /\ Paid)'
  BY TypeStep, CustodyStep, PaidStep
<1>3. Paid => NeverParkedEarly
  BY DEF Paid
<1>4. QED
  BY <1>1, <1>2, <1>3, PTL DEF Spec

-----------------------------------------------------------------------------
(* The retry budget: the handler calls a message has had, and those that   *)
(* deliveries already buffered or still to come will make, are paid for by *)
(* its rejections up to MaxRetryAttempts, one for the first call, and      *)
(* faults.                                                                 *)

\* The consumers whose buffer has a delivery of m.
Buffered(m) == {c \in Consumers : \E d \in inbox[c] : d.msg = m}

\* A copy of m waits in a queue.
Waiting(m) == IF m \in ready \union retrying THEN 1 ELSE 0

\* The calls m is entitled to: one for being published, and one for each
\* rejection up to MaxRetryAttempts.
Entitled(m) ==
  (IF m \in published THEN 1 ELSE 0)
    + (IF xdeath[m].rejected < MaxRetryAttempts
       THEN xdeath[m].rejected ELSE MaxRetryAttempts)

Budget ==
  /\ \A m \in Messages :
       attempts[m] + Cardinality(Buffered(m)) + Waiting(m)
         <= Entitled(m) + faults
  /\ \A c \in Consumers : \A d, e \in inbox[c] : d.msg = e.msg => d = e

\* Numbers are numbers.
LEMMA BudgetType ==
  ASSUME TypeOK, NEW m \in Messages
  PROVE  /\ IsFiniteSet(Buffered(m)) /\ Cardinality(Buffered(m)) \in Nat
         /\ attempts[m] \in Nat /\ Waiting(m) \in {0, 1} /\ faults \in Nat
         /\ xdeath[m].rejected \in Nat /\ Entitled(m) \in Nat
         /\ MaxRetryAttempts \in Nat
<1>1. IsFiniteSet(Buffered(m)) /\ Cardinality(Buffered(m)) \in Nat
  <2>1. Buffered(m) \subseteq Consumers /\ IsFiniteSet(Consumers)
    BY ConsumerAssumption DEF Buffered
  <2>2. QED
    BY <2>1, FS_Subset, FS_CardinalityType
<1>2. xdeath[m].rejected \in Nat
  BY DEF TypeOK, Deaths
<1>3. MaxRetryAttempts \in Nat
  BY ConsumerAssumption
<1>4. QED
  BY <1>1, <1>2, <1>3 DEF TypeOK, Waiting, Entitled

\* Buffers that lose deliveries are in no more consumers.
LEMMA BufferedShrinks ==
  ASSUME TypeOK, NEW m \in Messages,
         \A c \in Consumers : inbox'[c] \subseteq inbox[c]
  PROVE  /\ Cardinality(Buffered(m))' \in Nat
         /\ Cardinality(Buffered(m))' <= Cardinality(Buffered(m))
<1>1. Buffered(m)' \subseteq Buffered(m)
  BY DEF Buffered
<1>2. IsFiniteSet(Buffered(m))
  BY BudgetType
<1>3. QED
  BY <1>1, <1>2, FS_Subset, FS_CardinalityType

\* A step that only makes a message wait keeps the budget when it pays for
\* that with a rejection or a fault.
LEMMA BudgetFrame ==
  ASSUME TypeOK, TypeOK', Budget, attempts' = attempts,
         \A c \in Consumers : inbox'[c] \subseteq inbox[c],
         \A m \in Messages :
           Waiting(m)' - Waiting(m) <= Entitled(m)' - Entitled(m) + faults' - faults
  PROVE  Budget'
<1>1. ASSUME NEW m \in Messages
      PROVE  (attempts[m] + Cardinality(Buffered(m)) + Waiting(m)
                <= Entitled(m) + faults)'
  <2>1. /\ Cardinality(Buffered(m))' \in Nat
        /\ Cardinality(Buffered(m))' <= Cardinality(Buffered(m))
    BY BufferedShrinks
  <2>2. /\ Waiting(m)' \in {0, 1} /\ Entitled(m)' \in Nat /\ faults' \in Nat
    BY ConsumerAssumption DEF Waiting, Entitled, TypeOK, Deaths
  <2>3. Waiting(m)' - Waiting(m) <= Entitled(m)' - Entitled(m) + faults' - faults
    OBVIOUS
  <2>4. attempts[m] + Cardinality(Buffered(m)) + Waiting(m)
          <= Entitled(m) + faults
    BY DEF Budget
  <2>5. QED
    BY <2>1, <2>2, <2>3, <2>4, BudgetType
<1>2. QED
  BY <1>1 DEF Budget

\* A rejection makes the message wait once more: while it has retries left
\* the broker counts it, and a failure to park is a fault.
LEMMA BudgetNack ==
  ASSUME TypeOK, TypeOK', Custody, Paid, Budget, NEW c \in Consumers,
         Reject(c) \/ ParkFails(c)
  PROVE  Budget'
<1>a. /\ pc[c] \in Holding /\ cur[c] \in Delivery
      /\ cur[c].msg \in Messages /\ cur[c].deaths.rejected \in Nat
  BY ConsumerAssumption, DeliveryType DEF Reject, ParkFails, TypeOK, Holding
<1>1. PICK m \in Messages : m = cur[c].msg
  BY <1>a
<1>2. /\ Nack(c, m)
      /\ UNCHANGED <<attempts, inbox, published, ready>>
  BY <1>1 DEF Reject, ParkFails, Nack, Finish
<1>3. faults' = faults \/ faults' = faults + 1
  BY DEF Reject, ParkFails, Fault
<1>4. CASE link[c] = "open" /\ DeadLetterExchange
  <2>1. /\ xdeath'[m].rejected = xdeath[m].rejected + 1
        /\ \A k \in Messages \ {m} : xdeath'[k] = xdeath[k]
        /\ retrying' \subseteq retrying \union {m}
        /\ \A k \in Messages \ {m} : k \in retrying' <=> k \in retrying
    BY <1>1, <1>2, <1>4 DEF Nack, TypeOK, Deaths
  <2>2. xdeath[m].rejected \in Nat /\ MaxRetryAttempts \in Nat
    BY <1>1, BudgetType
  <2>3. CASE Reject(c)
    <3>1. cur[c].deaths.rejected = xdeath[m].rejected
      BY <1>a, <1>1, <1>4 DEF Paid
    <3>2. xdeath[m].rejected < MaxRetryAttempts
      BY <1>4, <2>2, <2>3, <3>1 DEF Reject, Exhausted, deathCount
    <3>3. Entitled(m)' = Entitled(m) + 1
      BY <1>2, <2>1, <2>2, <3>2 DEF Entitled
    <3>4. \A k \in Messages \ {m} :
            Entitled(k)' = Entitled(k) /\ Waiting(k)' = Waiting(k)
      BY <1>2, <2>1 DEF Entitled, Waiting
    <3>5. faults' = faults
      BY <2>3 DEF Reject
    <3>6. Waiting(m) \in {0, 1} /\ Waiting(m)' \in {0, 1}
      BY DEF Waiting
    <3>7. \A k \in Messages :
            Waiting(k)' - Waiting(k) <= Entitled(k)' - Entitled(k) + faults' - faults
      <4>1. ASSUME NEW k \in Messages
            PROVE  Entitled(k) \in Nat /\ Waiting(k) \in {0, 1} /\ faults \in Nat
        BY BudgetType
      <4>2. QED
        BY <3>3, <3>4, <3>5, <3>6, <4>1
    <3>8. QED
      BY <1>2, <3>7, BudgetFrame
  <2>4. CASE ParkFails(c)
    <3>1. faults' = faults + 1
      BY <1>4, <2>4 DEF ParkFails, Fault
    <3>2. Entitled(m)' >= Entitled(m) /\ Entitled(m)' \in Nat
      BY <1>2, <2>1, <2>2 DEF Entitled
    <3>3. \A k \in Messages \ {m} :
            Entitled(k)' = Entitled(k) /\ Waiting(k)' = Waiting(k)
      BY <1>2, <2>1 DEF Entitled, Waiting
    <3>4. Waiting(m) \in {0, 1} /\ Waiting(m)' \in {0, 1}
      BY DEF Waiting
    <3>5. \A k \in Messages :
            Waiting(k)' - Waiting(k) <= Entitled(k)' - Entitled(k) + faults' - faults
      <4>1. ASSUME NEW k \in Messages
            PROVE  Entitled(k) \in Nat /\ Waiting(k) \in {0, 1} /\ faults \in Nat
        BY BudgetType
      <4>2. QED
        BY <1>1, <3>1, <3>2, <3>3, <3>4, <4>1
    <3>6. QED
      BY <1>2, <3>5, BudgetFrame
  <2>5. QED
    BY <2>3, <2>4
<1>5. CASE ~(link[c] = "open" /\ DeadLetterExchange)
  <2>1. xdeath' = xdeath /\ retrying' = retrying
    BY <1>2, <1>5 DEF Nack
  <2>2. \A k \in Messages : Entitled(k)' = Entitled(k) /\ Waiting(k)' = Waiting(k)
    BY <1>2, <2>1 DEF Entitled, Waiting
  <2>3. QED
    BY <1>2, <1>3, <2>2, BudgetType, BudgetFrame
<1>6. QED
  BY <1>4, <1>5

\* A delivery that is handed to the handler leaves the buffer.
LEMMA BudgetReceive ==
  ASSUME TypeOK, TypeOK', Budget, NEW c \in Consumers, NEW d \in inbox[c],
         Receive(c, d)
  PROVE  Budget'
<1> DEFINE m == d.msg
<1>1. m \in Messages
  BY DeliveryType DEF TypeOK
<1>2. /\ UNCHANGED <<ready, retrying, xdeath, published, faults>>
      /\ inbox' = [inbox EXCEPT ![c] = @ \ {d}]
      /\ attempts' = [attempts EXCEPT ![m] = @ + 1]
  BY DEF Receive, brokerVars
<1>3. \A k \in Messages : Entitled(k)' = Entitled(k) /\ Waiting(k)' = Waiting(k)
  BY <1>2 DEF Entitled, Waiting
<1>4. c \in Buffered(m) /\ Buffered(m)' = Buffered(m) \ {c}
  BY <1>2 DEF Buffered, Budget, TypeOK
<1>5. Cardinality(Buffered(m))' = Cardinality(Buffered(m)) - 1
  <2>1. IsFiniteSet(Buffered(m))
    BY <1>1, BudgetType
  <2>2. QED
    BY <1>4, <2>1, FS_RemoveElement
<1>6. \A k \in Consumers : inbox'[k] \subseteq inbox[k]
  BY <1>2 DEF TypeOK
<1>7. ASSUME NEW k \in Messages
      PROVE  (attempts[k] + Cardinality(Buffered(k)) + Waiting(k)
                <= Entitled(k) + faults)'
  <2>1. attempts[k] + Cardinality(Buffered(k)) + Waiting(k) <= Entitled(k) + faults
    BY DEF Budget
  <2>2. CASE k = m
    <3>1. attempts'[k] = attempts[k] + 1
      BY <1>2, <2>2 DEF TypeOK
    <3>2. QED
      BY <1>2, <1>3, <1>5, <2>1, <2>2, <3>1, BudgetType
  <2>3. CASE k # m
    <3>1. attempts'[k] = attempts[k]
      BY <1>1, <1>2, <2>3 DEF TypeOK
    <3>2. /\ Cardinality(Buffered(k))' \in Nat
          /\ Cardinality(Buffered(k))' <= Cardinality(Buffered(k))
      BY <1>6, BufferedShrinks
    <3>3. QED
      BY <1>2, <1>3, <2>1, <3>1, <3>2, BudgetType
  <2>4. QED
    BY <2>2, <2>3
<1>8. QED
  BY <1>6, <1>7 DEF Budget

\* A delivery moves a message from the queue to one buffer.
LEMMA BudgetDeliver ==
  ASSUME TypeOK, TypeOK', Custody, Budget, NEW c \in Consumers, NEW m \in Messages,
         Deliver(c, m)
  PROVE  Budget'
<1>1. PICK x : x.msg = m /\ inbox' = [inbox EXCEPT ![c] = @ \union {x}]
  BY DEF Deliver
<1>2. /\ UNCHANGED <<retrying, xdeath, attempts, published, faults>>
      /\ m \in ready /\ ready' = ready \ {m} /\ link[c] = "open"
  BY DEF Deliver, ghostVars
<1>3. /\ \A k \in Messages : Entitled(k)' = Entitled(k)
      /\ \A k \in Messages \ {m} : Waiting(k)' = Waiting(k)
      /\ Waiting(m) = 1 /\ Waiting(m)' = 0
  BY <1>2 DEF Entitled, Waiting, Custody, OneCustodian
<1>4. /\ \A k \in Messages \ {m} : Buffered(k)' = Buffered(k)
      /\ Buffered(m)' = Buffered(m) \union {c}
  BY <1>1 DEF Buffered, TypeOK
<1>5. /\ Cardinality(Buffered(m))' <= Cardinality(Buffered(m)) + 1
      /\ Cardinality(Buffered(m))' \in Nat
  <2>1. IsFiniteSet(Buffered(m)) /\ Cardinality(Buffered(m)) \in Nat
    BY BudgetType
  <2>2. Cardinality(Buffered(m) \union {c})
          \in {Cardinality(Buffered(m)), Cardinality(Buffered(m)) + 1}
    BY <2>1, FS_AddElement
  <2>3. QED
    BY <1>4, <2>1, <2>2
<1>6. ASSUME NEW k \in Messages
      PROVE  (attempts[k] + Cardinality(Buffered(k)) + Waiting(k)
                <= Entitled(k) + faults)'
  <2>1. attempts[k] + Cardinality(Buffered(k)) + Waiting(k) <= Entitled(k) + faults
    BY DEF Budget
  <2>2. CASE k = m
    BY <1>2, <1>3, <1>5, <2>1, <2>2, BudgetType
  <2>3. CASE k # m
    <3>1. Buffered(k)' = Buffered(k) /\ Waiting(k)' = Waiting(k)
      BY <1>3, <1>4, <2>3
    <3>2. QED
      BY <1>2, <1>3, <2>1, <3>1
  <2>4. QED
    BY <2>2, <2>3
<1>7. \A d \in inbox[c] : d.msg # m
  BY <1>2 DEF Custody, OneCustodian, Unacked, Deliveries
<1>8. QED
  BY <1>1, <1>6, <1>7 DEF Budget, TypeOK

\* A step that takes nothing into account: no call, no rejection, and no
\* message starts to wait unless a fault or its publication makes it.
LEMMA BudgetQuiet ==
  ASSUME TypeOK, TypeOK', Budget, UNCHANGED <<attempts, xdeath>>,
         faults' \in {faults, faults + 1}, published \subseteq published',
         \A c \in Consumers : inbox'[c] \subseteq inbox[c],
         \A m \in Messages : m \in (ready \union retrying)' =>
           \/ m \in ready \union retrying
           \/ m \in published' \ published
           \/ faults' = faults + 1
  PROVE  Budget'
<1>1. ASSUME NEW m \in Messages
      PROVE  Waiting(m)' - Waiting(m) <= Entitled(m)' - Entitled(m) + faults' - faults
  <2>1. /\ xdeath[m].rejected \in Nat /\ MaxRetryAttempts \in Nat
        /\ faults \in Nat /\ xdeath'[m].rejected = xdeath[m].rejected
    BY BudgetType
  <2>2. CASE m \in published' \ published
    <3>1. Entitled(m)' = Entitled(m) + 1
      BY <2>1, <2>2 DEF Entitled
    <3>2. QED
      BY <2>1, <3>1, BudgetType DEF Waiting
  <2>3. CASE m \notin published' \ published
    <3>1. Entitled(m)' = Entitled(m)
      BY <2>1, <2>3 DEF Entitled
    <3>2. QED
      BY <2>1, <2>3, <3>1, BudgetType DEF Waiting
  <2>4. QED
    BY <2>2, <2>3
<1>2. QED
  BY <1>1, BudgetFrame

\* An expiry moves a message from one queue to the other, and counts nothing
\* that entitles it to a call.
LEMMA BudgetExpiry ==
  ASSUME TypeOK, TypeOK', Budget, NEW m \in Messages, RetryExpires(m)
  PROVE  Budget'
<1>1. /\ attempts' = attempts /\ inbox' = inbox /\ faults' = faults
      /\ published' = published /\ (ready \union retrying)' = ready \union retrying
  BY DEF RetryExpires, replicaVars, ghostVars
<1>2. \A k \in Messages : xdeath'[k].rejected = xdeath[k].rejected
  BY DEF RetryExpires, TypeOK, Deaths
<1>3. \A k \in Messages : Entitled(k)' = Entitled(k) /\ Waiting(k)' = Waiting(k)
  BY <1>1, <1>2 DEF Entitled, Waiting
<1>4. QED
  BY <1>1, <1>3, BudgetType, BudgetFrame

\* Every step keeps the budget.
LEMMA BudgetStep == TypeOK /\ Custody /\ Paid /\ Budget /\ [Next]_vars => Budget'
<1> SUFFICES ASSUME TypeOK, Custody, Paid, Budget, [Next]_vars PROVE Budget'
  OBVIOUS
<1>0. TypeOK'
  BY TypeStep
<1> USE <1>0 DEF brokerVars, replicaVars, ghostVars
<1>1. ASSUME NEW c \in Consumers, Start(c) PROVE Budget'
  BY <1>1, BudgetQuiet
  DEF Start, DeclareRetryTopology, Subscribe, SubscribeFails, Fault
<1>2. ASSUME NEW c \in Consumers, Loop(c) PROVE Budget'
  <2>1. ASSUME NEW o \in {"succeeded", "failed"}, HandlerReturns(c, o) PROVE Budget'
    BY <2>1, BudgetQuiet DEF HandlerReturns
  <2>2. CASE AckSuccess(c) \/ AckParked(c) \/ Park(c)
    BY <2>2, BudgetQuiet DEF AckSuccess, AckParked, Park, Finish
  <2>3. CASE ConsumerStops(c)
    BY <2>3, BudgetQuiet DEF ConsumerStops, TypeOK
  <2>4. QED
    BY <1>2, <2>1, <2>2, <2>3, BudgetNack, BudgetReceive DEF Loop
<1>3. ASSUME NEW c \in Consumers, Failure(c) PROVE Budget'
  BY <1>3, BudgetQuiet
  DEF Failure, ChannelLost, ConnectionLost, Crash, Fault, TypeOK
<1>4. ASSUME NEW m \in Messages, Publish(m) PROVE Budget'
  BY <1>4, BudgetQuiet DEF Publish
<1>5. CASE BrokerRestart
  BY <1>5, BudgetQuiet DEF BrokerRestart, Fault
<1>6. CASE UNCHANGED vars
  BY <1>6, BudgetQuiet DEF vars
<1>7. QED
  BY <1>1, <1>2, <1>3, <1>4, <1>5, <1>6, BudgetExpiry, BudgetDeliver
  DEF Next, Queue

\* The budget holds initially, and bounds the attempts.
LEMMA BudgetInit == Init => Budget
<1> SUFFICES ASSUME Init PROVE Budget
  OBVIOUS
<1>1. ASSUME NEW m \in Messages
      PROVE  attempts[m] + Cardinality(Buffered(m)) + Waiting(m)
               <= Entitled(m) + faults
  <2>1. Buffered(m) = {}
    BY DEF Init, Buffered
  <2>2. Cardinality(Buffered(m)) = 0
    BY <2>1, FS_EmptySet
  <2>3. attempts[m] = 0 /\ Waiting(m) = 0 /\ faults = 0
    BY DEF Init, Waiting
  <2>4. Entitled(m) \in Nat
    BY TypeInit, BudgetType
  <2>5. QED
    BY <2>2, <2>3, <2>4
<1>2. QED
  BY <1>1 DEF Budget, Init

\* What the account says of the attempts alone.
LEMMA BudgetBounds == TypeOK /\ Budget => RetryBudget
<1> SUFFICES ASSUME TypeOK, Budget, NEW m \in Messages
             PROVE  attempts[m] <= MaxRetryAttempts + 1 + faults
  BY DEF RetryBudget
<1>1. Entitled(m) <= MaxRetryAttempts + 1
  BY BudgetType DEF Entitled
<1>2. attempts[m] + Cardinality(Buffered(m)) + Waiting(m) <= Entitled(m) + faults
  BY DEF Budget
<1>3. QED
  BY <1>1, <1>2, BudgetType

\* A message is handled at most MaxRetryAttempts + 1 times, plus once for
\* each fault, whatever order rejections, expiries, redeliveries to other
\* replicas and restarts come in.
THEOREM RetryBudgetAlways == Spec => []RetryBudget
<1>1. Init => TypeOK /\ Custody /\ Paid /\ Budget
  BY TypeInit, CustodyInit, PaidInit, BudgetInit
<1>2. TypeOK /\ Custody /\ Paid /\ Budget /\ [Next]_vars
        => (TypeOK /\ Custody /\ Paid /\ Budget)'
  BY TypeStep, CustodyStep, PaidStep, BudgetStep
<1>3. TypeOK /\ Budget => RetryBudget
  BY BudgetBounds
<1>4. QED
  BY <1>1, <1>2, <1>3, PTL DEF Spec

-----------------------------------------------------------------------------
(* Copies in the parked queue.  Every handler call ends in one copy, or in *)
(* one rejection, or in neither; so the calls the budget allows bound the  *)
(* copies.                                                                 *)

\* The consumers whose handler call of m has not led to a copy of it.
Working(m) ==
  {c \in Consumers : pc[c] \in {"handling", "succeeded", "failed"} /\ cur[c].msg = m}

Spent ==
  \A m \in Messages :
    parked[m] + xdeath[m].rejected + Cardinality(Working(m)) <= attempts[m]

LEMMA SpentType ==
  ASSUME TypeOK, NEW m \in Messages
  PROVE  /\ IsFiniteSet(Working(m)) /\ Cardinality(Working(m)) \in Nat
         /\ parked[m] \in Nat /\ xdeath[m].rejected \in Nat /\ attempts[m] \in Nat
<1>1. Working(m) \subseteq Consumers /\ IsFiniteSet(Consumers)
  BY ConsumerAssumption DEF Working
<1>2. QED
  BY <1>1, FS_Subset, FS_CardinalityType DEF TypeOK, Deaths

\* Who stops working on a message frees one call.
LEMMA WorkingShrinks ==
  ASSUME TypeOK, NEW m \in Messages, Working(m)' \subseteq Working(m)
  PROVE  /\ Cardinality(Working(m))' \in Nat
         /\ Cardinality(Working(m))' <= Cardinality(Working(m))
         /\ \A c \in Working(m) : c \notin Working(m)' =>
              Cardinality(Working(m))' <= Cardinality(Working(m)) - 1
<1>1. IsFiniteSet(Working(m)) /\ IsFiniteSet(Working(m)')
  BY SpentType, FS_Subset
<1>2. ASSUME NEW c \in Working(m), c \notin Working(m)'
      PROVE  Cardinality(Working(m)') <= Cardinality(Working(m)) - 1
  <2>1. Working(m)' \in SUBSET (Working(m) \ {c})
    BY <1>2
  <2>2. /\ IsFiniteSet(Working(m) \ {c})
        /\ Cardinality(Working(m) \ {c}) = Cardinality(Working(m)) - 1
    BY <1>1, FS_RemoveElement
  <2>3. QED
    BY <2>1, <2>2, FS_Subset
<1>3. Cardinality(Working(m)') \in Nat /\ Cardinality(Working(m)') <= Cardinality(Working(m))
  BY <1>1, FS_Subset, FS_CardinalityType
<1>4. QED
  BY <1>2, <1>3

\* A step that makes no call, and no copy or rejection but that of a call
\* it ends.
LEMMA SpentFrame ==
  ASSUME TypeOK, TypeOK', Spent, attempts' = attempts,
         \A m \in Messages :
           /\ Working(m)' \subseteq Working(m)
           /\ \/ /\ parked'[m] <= parked[m]
                 /\ xdeath'[m].rejected = xdeath[m].rejected
              \/ /\ parked'[m] + xdeath'[m].rejected
                      <= parked[m] + xdeath[m].rejected + 1
                 /\ \E c \in Working(m) : c \notin Working(m)'
  PROVE  Spent'
<1>1. ASSUME NEW m \in Messages
      PROVE  (parked[m] + xdeath[m].rejected + Cardinality(Working(m)) <= attempts[m])'
  <2>1. /\ Cardinality(Working(m))' \in Nat
        /\ Cardinality(Working(m))' <= Cardinality(Working(m))
        /\ \A c \in Working(m) : c \notin Working(m)' =>
             Cardinality(Working(m))' <= Cardinality(Working(m)) - 1
    BY WorkingShrinks
  <2>2. /\ parked'[m] \in Nat /\ xdeath'[m].rejected \in Nat
        /\ Cardinality(Working(m)) \in Nat
        /\ parked[m] \in Nat /\ xdeath[m].rejected \in Nat /\ attempts[m] \in Nat
    BY SpentType DEF TypeOK, Deaths
  <2>3. parked[m] + xdeath[m].rejected + Cardinality(Working(m)) <= attempts[m]
    BY DEF Spent
  <2>4. CASE parked'[m] <= parked[m] /\ xdeath'[m].rejected = xdeath[m].rejected
    BY <2>1, <2>2, <2>3, <2>4
  <2>5. CASE /\ parked'[m] + xdeath'[m].rejected <= parked[m] + xdeath[m].rejected + 1
             /\ \E c \in Working(m) : c \notin Working(m)'
    <3>1. Cardinality(Working(m))' <= Cardinality(Working(m)) - 1
      BY <2>1, <2>5
    <3>2. QED
      BY <2>1, <2>2, <2>3, <2>5, <3>1
  <2>6. QED
    BY <2>4, <2>5
<1>2. QED
  BY <1>1 DEF Spent

\* A rejection, or a copy, uses the call up.
LEMMA SpentUsed ==
  ASSUME TypeOK, TypeOK', Spent, NEW c \in Consumers,
         Reject(c) \/ ParkFails(c) \/ Park(c)
  PROVE  Spent'
<1>1. PICK m \in Messages : m = cur[c].msg
  BY ConsumerAssumption, DeliveryType DEF Reject, ParkFails, Park, TypeOK, Holding
<1>2. /\ pc[c] = "failed" /\ attempts' = attempts
      /\ pc' = [pc EXCEPT ![c] = "idle"] \/ pc' = [pc EXCEPT ![c] = "parked"]
      /\ \A k \in Consumers \ {c} : cur'[k] = cur[k]
  BY DEF Reject, ParkFails, Park, Nack, Finish, ghostVars, TypeOK
<1>3. /\ c \in Working(m) /\ c \notin Working(m)'
      /\ \A k \in Messages : Working(k)' \subseteq Working(k)
  BY <1>1, <1>2 DEF Working, TypeOK
<1>4. /\ \A k \in Messages \ {m} :
           parked'[k] = parked[k] /\ xdeath'[k].rejected = xdeath[k].rejected
      /\ parked'[m] + xdeath'[m].rejected <= parked[m] + xdeath[m].rejected + 1
  <2>1. CASE Park(c)
    BY <1>1, <2>1, SpentType DEF Park, TypeOK
  <2>2. CASE Reject(c) \/ ParkFails(c)
    <3>1. parked' = parked /\ Nack(c, m)
      BY <1>1, <2>2 DEF Reject, ParkFails, Nack
    <3>2. \A k \in Messages \ {m} : xdeath'[k] = xdeath[k]
      BY <3>1 DEF Nack, TypeOK
    <3>3. xdeath'[m].rejected \in {xdeath[m].rejected, xdeath[m].rejected + 1}
      BY <3>1 DEF Nack, TypeOK, Deaths
    <3>4. QED
      BY <3>1, <3>2, <3>3, SpentType
  <2>3. QED
    BY <2>1, <2>2
<1>5. \A k \in Messages : parked[k] \in Nat
  BY DEF TypeOK
<1>6. QED
  BY <1>2, <1>3, <1>4, <1>5, SpentFrame

\* A call that is made is a call to use up.
LEMMA SpentReceive ==
  ASSUME TypeOK, Spent, NEW c \in Consumers, NEW d \in inbox[c], Receive(c, d)
  PROVE  Spent'
<1>1. PICK m \in Messages : m = d.msg
  BY DeliveryType DEF TypeOK
<1>2. /\ pc[c] = "idle" /\ pc' = [pc EXCEPT ![c] = "handling"]
      /\ cur' = [cur EXCEPT ![c] = d] /\ UNCHANGED <<parked, xdeath>>
      /\ attempts' = [attempts EXCEPT ![m] = @ + 1]
  BY <1>1 DEF Receive, brokerVars
<1>3. /\ c \notin Working(m) /\ Working(m)' = Working(m) \union {c}
      /\ \A k \in Messages \ {m} : Working(k)' = Working(k)
  BY <1>1, <1>2 DEF Working, TypeOK
<1>4. Cardinality(Working(m))' = Cardinality(Working(m)) + 1
  BY <1>3, SpentType, FS_AddElement
<1>5. /\ attempts'[m] = attempts[m] + 1
      /\ \A k \in Messages \ {m} : attempts'[k] = attempts[k]
  BY <1>2 DEF TypeOK
<1>6. ASSUME NEW k \in Messages
      PROVE  (parked[k] + xdeath[k].rejected + Cardinality(Working(k)) <= attempts[k])'
  <2>1. /\ parked[k] + xdeath[k].rejected + Cardinality(Working(k)) <= attempts[k]
        /\ parked'[k] = parked[k] /\ xdeath'[k] = xdeath[k]
        /\ parked[k] \in Nat /\ xdeath[k].rejected \in Nat /\ attempts[k] \in Nat
        /\ Cardinality(Working(k)) \in Nat
    BY <1>2, SpentType DEF Spent
  <2>2. CASE k = m
    BY <1>4, <1>5, <2>1, <2>2
  <2>3. CASE k # m
    <3>1. Cardinality(Working(k))' = Cardinality(Working(k))
      BY <1>3, <2>3
    <3>2. QED
      BY <1>5, <2>1, <2>3, <3>1
  <2>4. QED
    BY <2>2, <2>3
<1>7. QED
  BY <1>6 DEF Spent

LEMMA SpentStep == TypeOK /\ Spent /\ [Next]_vars => Spent'
<1> SUFFICES ASSUME TypeOK, Spent, [Next]_vars PROVE Spent'
  OBVIOUS
<1>0. /\ TypeOK'
      /\ \A m \in Messages : parked[m] \in Nat
  BY TypeStep DEF TypeOK
<1>1. ASSUME attempts' = attempts, parked' = parked,
             \A m \in Messages : xdeath'[m].rejected = xdeath[m].rejected,
             \A m \in Messages : Working(m)' \subseteq Working(m)
      PROVE  Spent'
  BY <1>0, <1>1, SpentFrame
<1> USE DEF brokerVars, replicaVars, ghostVars
<1>2. ASSUME NEW c \in Consumers, Start(c) \/ Failure(c) PROVE Spent'
  BY <1>1, <1>2 DEF Start, DeclareRetryTopology, Subscribe, SubscribeFails,
    Failure, ChannelLost, ConnectionLost, Crash, Working, TypeOK
<1>3. ASSUME NEW c \in Consumers, Loop(c) PROVE Spent'
  <2>1. ASSUME NEW o \in {"succeeded", "failed"}, HandlerReturns(c, o) PROVE Spent'
    BY <1>1, <2>1 DEF HandlerReturns, Working, TypeOK
  <2>2. CASE AckSuccess(c) \/ AckParked(c) \/ ConsumerStops(c)
    BY <1>1, <2>2 DEF AckSuccess, AckParked, ConsumerStops, Finish, Working, TypeOK
  <2>3. QED
    BY <1>0, <1>3, <2>1, <2>2, SpentUsed, SpentReceive DEF Loop
<1>4. ASSUME NEW m \in Messages,
             Publish(m) \/ RetryExpires(m) \/ \E c \in Consumers : Deliver(c, m)
      PROVE  Spent'
  BY <1>1, <1>4 DEF Publish, RetryExpires, Deliver, Working, TypeOK, Deaths
<1>5. CASE BrokerRestart
  <2>1. \A m \in Messages : Working(m)' \subseteq Working(m) /\ parked'[m] = 0
    BY <1>5 DEF BrokerRestart, Working
  <2>2. QED
    BY <1>0, <1>5, <2>1, SpentFrame DEF BrokerRestart
<1>6. CASE UNCHANGED vars
  BY <1>1, <1>6 DEF vars, Working
<1>7. QED
  BY <1>2, <1>3, <1>4, <1>5, <1>6 DEF Next, Queue

LEMMA SpentInit == Init => Spent
<1> SUFFICES ASSUME Init, NEW m \in Messages
             PROVE  parked[m] + xdeath[m].rejected + Cardinality(Working(m)) <= attempts[m]
  BY DEF Spent
<1>1. Working(m) = {}
  BY DEF Init, Working
<1>2. Cardinality(Working(m)) = 0
  BY <1>1, FS_EmptySet
<1>3. QED
  BY <1>2 DEF Init

\* Calls are within the budget, and rejections beyond MaxRetryAttempts are
\* not in it.
LEMMA SpentBounds == TypeOK /\ Budget /\ Spent => ParkedOnce
<1> SUFFICES ASSUME TypeOK, Budget, Spent, NEW m \in Messages
             PROVE  parked[m] <= 1 + faults
  BY DEF ParkedOnce
<1>1. Entitled(m) <= 1 + xdeath[m].rejected
  BY BudgetType DEF Entitled
<1>2. attempts[m] + Cardinality(Buffered(m)) + Waiting(m) <= Entitled(m) + faults
  BY DEF Budget
<1>3. parked[m] + xdeath[m].rejected + Cardinality(Working(m)) <= attempts[m]
  BY DEF Spent
<1>4. QED
  BY <1>1, <1>2, <1>3, BudgetType, SpentType

\* However often its channel, its connection or its process fails between
\* the copy and the acknowledgement, a message is parked once plus at most
\* once for each fault.
THEOREM ParkedOnceAlways == Spec => []ParkedOnce
<1>1. Init => TypeOK /\ Custody /\ Paid /\ Budget /\ Spent
  BY TypeInit, CustodyInit, PaidInit, BudgetInit, SpentInit
<1>2. TypeOK /\ Custody /\ Paid /\ Budget /\ Spent /\ [Next]_vars
        => (TypeOK /\ Custody /\ Paid /\ Budget /\ Spent)'
  BY TypeStep, CustodyStep, PaidStep, BudgetStep, SpentStep
<1>3. QED
  BY <1>1, <1>2, SpentBounds, PTL DEF Spec

-----------------------------------------------------------------------------
(* What leaves the queues was handled.                                     *)

\* Only an answer to the delivery in hand takes a message out of flight, and
\* a published message is in flight.
LEMMA FlightStep ==
  ASSUME TypeOK, Custody, Paid, [Next]_vars
  PROVE  /\ published' \ published \subseteq InFlight'
         /\ \A m \in Messages : attempts'[m] >= attempts[m]
         /\ \A m \in InFlight \ InFlight' : attempts[m] >= 1
<1> DEFINE Fine ==
      /\ published' \ published \subseteq InFlight'
      /\ \A m \in Messages : attempts'[m] >= attempts[m]
      /\ \A m \in InFlight \ InFlight' : attempts[m] >= 1
<1>0. \A m \in Messages : attempts[m] \in Nat
  BY DEF TypeOK
<1>1. ASSUME Quiet, attempts' = attempts PROVE Fine
  BY <1>0, <1>1 DEF Quiet, InFlight
<1>2. ASSUME NEW c \in Consumers, Start(c) PROVE Fine
  <2>1. attempts' = attempts
    BY <1>2 DEF Start, DeclareRetryTopology, Subscribe, SubscribeFails, ghostVars
  <2>2. QED
    BY <1>1, <1>2, <2>1, QuietSteps DEF Custody
<1>3. ASSUME NEW c \in Consumers, Loop(c) PROVE Fine
  <2>1. CASE \/ \E o \in {"succeeded", "failed"} : HandlerReturns(c, o)
             \/ Park(c) \/ ConsumerStops(c)
    <3>1. attempts' = attempts
      BY <2>1 DEF HandlerReturns, Park, ConsumerStops, ghostVars
    <3>2. QED
      BY <1>1, <2>1, <3>1, QuietSteps DEF Custody
  <2>2. ASSUME NEW d \in inbox[c], Receive(c, d) PROVE Fine
    <3>1. Quiet
      BY <2>2, QuietSteps DEF Custody
    <3>2. \A m \in Messages : attempts'[m] >= attempts[m]
      BY <1>0, <2>2 DEF Receive, TypeOK
    <3>3. QED
      BY <3>1, <3>2 DEF Quiet, InFlight
  <2>3. CASE AckSuccess(c) \/ AckParked(c) \/ Reject(c) \/ ParkFails(c)
    <3>1. /\ pc[c] \in Holding /\ Finish(c) /\ ready' = ready
          /\ retrying \subseteq retrying' /\ published' = published
          /\ attempts' = attempts
      BY <2>3 DEF AckSuccess, AckParked, Reject, ParkFails, Nack, Holding,
        brokerVars, ghostVars
    <3>2. \A k \in Consumers : Unacked(k) \ {cur[c].msg} \subseteq Unacked(k)'
      BY <3>1, FinishEffect DEF Custody
    <3>3. InFlight \ {cur[c].msg} \subseteq InFlight'
      BY <3>1, <3>2 DEF InFlight
    <3>4. attempts[cur[c].msg] >= 1
      <4>1. /\ cur[c].msg \in Messages /\ cur[c].deaths.rejected \in Nat
            /\ attempts[cur[c].msg] >= cur[c].deaths.rejected + 1
        BY <3>1, ConsumerAssumption, DeliveryType DEF Paid, TypeOK
      <4>2. QED
        BY <1>0, <4>1
    <3>5. QED
      BY <1>0, <3>1, <3>3, <3>4
  <2>4. QED
    BY <1>3, <2>1, <2>2, <2>3 DEF Loop
<1>4. ASSUME NEW c \in Consumers, Failure(c) PROVE Fine
  <2>1. /\ ready' = ready \union Unacked(c)
        /\ UNCHANGED <<retrying, published, attempts>>
    BY <1>4 DEF Failure, ChannelLost, ConnectionLost, Crash
  <2>2. ASSUME NEW k \in Consumers \ {c} PROVE Unacked(k)' = Unacked(k)
    BY <1>4, <2>2, UnackedSame DEF Failure, ChannelLost, ConnectionLost, Crash, TypeOK
  <2>3. InFlight \subseteq InFlight'
    BY <2>1, <2>2 DEF InFlight
  <2>4. QED
    BY <1>0, <2>1, <2>3
<1>5. CASE BrokerRestart
  <2>1. InFlight' = InFlight /\ published' = published /\ attempts' = attempts
    BY <1>5, BrokerCustody DEF BrokerRestart
  <2>2. QED
    BY <1>0, <2>1
<1>6. ASSUME NEW m \in Messages, Publish(m) \/ RetryExpires(m) PROVE Fine
  <2>1. /\ \A c \in Consumers : Unacked(c)' = Unacked(c)
        /\ attempts' = attempts
    BY <1>6, QueueEffect DEF Publish, RetryExpires, ghostVars
  <2>2. /\ ready \union retrying \subseteq ready' \union retrying'
        /\ published' \ published \subseteq ready'
    BY <1>6 DEF Publish, RetryExpires, ghostVars
  <2>3. QED
    BY <1>0, <2>1, <2>2 DEF InFlight
<1>7. ASSUME NEW m \in Messages, NEW c \in Consumers, Deliver(c, m) PROVE Fine
  <2>1. /\ ready' = ready \ {m} /\ UNCHANGED <<retrying, published, attempts>>
    BY <1>7 DEF Deliver, ghostVars
  <2>2. InFlight \subseteq InFlight'
    BY <1>7, <2>1, DeliverEffect DEF InFlight
  <2>3. QED
    BY <1>0, <2>1, <2>2
<1>8. CASE UNCHANGED vars
  BY <1>1, <1>8, UnackedSame DEF vars, brokerVars, replicaVars, ghostVars, Quiet
<1>9. QED
  BY <1>2, <1>3, <1>4, <1>5, <1>6, <1>7, <1>8 DEF Next, Queue

\* A published message is in flight, or was given to a handler: neither a
\* crash nor a lost channel or broker lets one slip, and where a failure is
\* a discard it was at least tried.
THEOREM NeverSkippedAlways == Spec => []NeverSkipped
<1>1. Init => NeverSkipped
  BY DEF Init, NeverSkipped
<1>2. TypeOK /\ Custody /\ Paid /\ NeverSkipped /\ [Next]_vars => NeverSkipped'
  <2> SUFFICES ASSUME TypeOK, Custody, Paid, NeverSkipped, [Next]_vars,
                      NEW m \in published' \ InFlight'
               PROVE  attempts'[m] >= 1
    BY DEF NeverSkipped
  <2>1. TypeOK'
    BY TypeStep
  <2>2. m \in Messages /\ attempts'[m] \in Nat
    BY <2>1 DEF TypeOK
  <2>3. m \in published /\ attempts[m] \in Nat
    BY <2>2, FlightStep DEF TypeOK
  <2>4. attempts[m] >= 1
    BY <2>3, FlightStep DEF NeverSkipped
  <2>5. QED
    BY <2>2, <2>3, <2>4, FlightStep
<1>3. Init => TypeOK /\ Custody /\ Paid
  BY TypeInit, CustodyInit, PaidInit
<1>4. TypeOK /\ Custody /\ Paid /\ [Next]_vars => (TypeOK /\ Custody /\ Paid)'
  BY TypeStep, CustodyStep, PaidStep
<1>5. QED
  BY <1>1, <1>2, <1>3, <1>4, PTL DEF Spec

=============================================================================
